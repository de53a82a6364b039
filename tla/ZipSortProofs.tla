---- MODULE ZipSortProofs ----
(***************************************************************************)
(* Theorems about ZipSort, for all lists of archives: the file picked for  *)
(* a name is the best of those seen, success means that every name is in   *)
(* the output once and in order, and an archive is never sorted into       *)
(* itself with success.                                                    *)
(***************************************************************************)
EXTENDS ZipSort, FiniteSetTheorems, TLAPS

---------------------------------------------------------------------------
(* The inductive invariant.                                                *)

SortTypeOK ==
    /\ sargs \in Seq(Seq(SortFiles))
    /\ same \in 0..Len(sargs)
    /\ sarg \in Nat \ {0} /\ sfile \in Nat
    /\ sfile # 0 => sarg <= Len(sargs)
    /\ picked \in [SortNames -> SortFiles \union {Unpicked}]

\* The output has not been opened as an input, and will not be.
SelfInv ==
    same # 0 =>
        /\ spc = "output" => sresult = "none" /\ sarg = 1 /\ sfile = 0
        /\ spc = "read" => sresult = "none" /\ sarg <= same /\ (sfile # 0 => sarg # same)
        /\ spc # "copy"
        /\ sresult # "ok"

---------------------------------------------------------------------------
(* The places seen, as a function of where Execute is.                     *)

SeenIn(a, k, i, n) ==
    {p \in UNION {{l} \X DOMAIN a[l] : l \in DOMAIN a} :
        /\ p[1] < k \/ (p[1] = k /\ p[2] < i)
        /\ a[p[1]][p[2]].name = n /\ ~a[p[1]][p[2]].skip}

LEMMA SeenIsSeenIn == \A n : Seen(n) = SeenIn(sargs, sarg, sfile, n)
BY DEF Seen, SeenIn

LEMMA InSeen ==
    ASSUME NEW a, NEW k, NEW i, NEW n, NEW p
    PROVE  p \in SeenIn(a, k, i, n) <=>
             \E l \in DOMAIN a : \E j \in DOMAIN a[l] :
                 /\ p = <<l, j>>
                 /\ l < k \/ (l = k /\ j < i)
                 /\ a[l][j].name = n /\ ~a[l][j].skip
<1>1. p \in UNION {{l} \X DOMAIN a[l] : l \in DOMAIN a}
        <=> \E l \in DOMAIN a : \E j \in DOMAIN a[l] : p = <<l, j>>
  OBVIOUS
<1> QED BY <1>1 DEF SeenIn

\* Opening an archive shows no file.
LEMMA SeenAtOpen ==
    ASSUME NEW a \in Seq(Seq(SortFiles)), NEW k \in Nat, NEW n
    PROVE  SeenIn(a, k, 1, n) = SeenIn(a, k, 0, n)
<1>1. ASSUME NEW p PROVE p \in SeenIn(a, k, 1, n) <=> p \in SeenIn(a, k, 0, n)
  <2>1. \A l \in DOMAIN a : \A j \in DOMAIN a[l] : (j < 1 <=> j < 0)
    OBVIOUS
  <2> QED BY <2>1, InSeen
<1> QED BY <1>1

\* A step to the next file shows that file.
LEMMA SeenAtFile ==
    ASSUME NEW a \in Seq(Seq(SortFiles)), NEW k \in DOMAIN a, NEW i \in DOMAIN a[k], NEW n
    PROVE  SeenIn(a, k, i + 1, n) = SeenIn(a, k, i, n) \union
             (IF a[k][i].name = n /\ ~a[k][i].skip THEN {<<k, i>>} ELSE {})
<1>1. ASSUME NEW p
      PROVE p \in SeenIn(a, k, i + 1, n) <=>
              p \in SeenIn(a, k, i, n) \/ (p = <<k, i>> /\ a[k][i].name = n /\ ~a[k][i].skip)
  <2>1. \A l \in DOMAIN a : \A j \in DOMAIN a[l] :
          (l < k \/ (l = k /\ j < i + 1)) <=> ((l < k \/ (l = k /\ j < i)) \/ (l = k /\ j = i))
    OBVIOUS
  <2> QED BY <2>1, InSeen
<1> QED BY <1>1

\* Behind the last file, the next archive shows no more.
LEMMA SeenAtNext ==
    ASSUME NEW a \in Seq(Seq(SortFiles)), NEW k \in DOMAIN a, NEW i \in Nat,
           i > Len(a[k]), NEW n
    PROVE  SeenIn(a, k + 1, 0, n) = SeenIn(a, k, i, n)
<1>1. ASSUME NEW p PROVE p \in SeenIn(a, k + 1, 0, n) <=> p \in SeenIn(a, k, i, n)
  <2>1. \A l \in DOMAIN a : \A j \in DOMAIN a[l] :
          (l < k + 1 \/ (l = k + 1 /\ j < 0)) <=> (l < k \/ (l = k /\ j < i))
    OBVIOUS
  <2> QED BY <2>1, InSeen
<1> QED BY <1>1

---------------------------------------------------------------------------
(* The best of a set of places.                                            *)

FilesAt(a, S) == \A p \in S : a[p[1]][p[2]] \in SortFiles
OneContent(a, S) == \A p, q \in S : a[p[1]][p[2]].crc = a[q[1]][q[2]].crc
AllDiffer(a, S) == \A p, q \in S : p # q => a[p[1]][p[2]].crc # a[q[1]][q[2]].crc
Smallest(a, S, v) ==
    \A p \in S : /\ v.csize <= a[p[1]][p[2]].csize
                 /\ v.csize = a[p[1]][p[2]].csize => v.time <= a[p[1]][p[2]].time
Latest(a, S, v) ==
    \A p \in S : /\ a[p[1]][p[2]].time <= v.time
                 /\ a[p[1]][p[2]].time = v.time => a[p[1]][p[2]].usize <= v.usize
BestOf(a, S, v) ==
    /\ v = Unpicked <=> S = {}
    /\ S # {} => /\ \E p \in S : v = a[p[1]][p[2]]
                 /\ OneContent(a, S) => Smallest(a, S, v)
                 /\ AllDiffer(a, S) => Latest(a, S, v)

LEMMA PickIsBestOf == PickIsBest <=> \A n \in SortNames : BestOf(sargs, Seen(n), picked[n])
BY DEF PickIsBest, BestOf, OneContent, AllDiffer, Smallest, Latest, At

\* The comparison with the file held keeps the best, when one more file is seen.
LEMMA BestStep ==
    ASSUME NEW a, NEW S, NEW v, NEW q, FilesAt(a, S), BestOf(a, S, v),
           q \notin S, NEW f \in SortFiles, f = a[q[1]][q[2]]
    PROVE  BestOf(a, S \union {q}, IF v = Unpicked \/ CompareFile(v, f) THEN f ELSE v)
<1> DEFINE w == IF v = Unpicked \/ CompareFile(v, f) THEN f ELSE v
<1> DEFINE T == S \union {q}
<1>1. \A g \in SortFiles : g.time \in Int /\ g.csize \in Nat /\ g.usize \in Nat
  BY SortAssumption
<1>2. Unpicked \notin SortFiles
  BY SortAssumption
<1>3. FilesAt(a, T)
  BY DEF FilesAt
<1>4. CASE S = {}
  <2>1. v = Unpicked /\ w = f /\ T = {q}
    BY <1>4 DEF BestOf
  <2>2. Smallest(a, T, w) /\ Latest(a, T, w)
    BY <2>1, <1>1 DEF Smallest, Latest
  <2> QED BY <2>1, <2>2, <1>2 DEF BestOf
<1>5. CASE S # {}
  <2>1. PICK p \in S : v = a[p[1]][p[2]]
    BY <1>5 DEF BestOf
  <2>2. v \in SortFiles /\ v # Unpicked
    BY <2>1, <1>2 DEF FilesAt
  <2>3. w = IF CompareFile(v, f) THEN f ELSE v
    BY <2>2
  <2>4. \E r \in T : w = a[r[1]][r[2]]
    BY <2>1, <2>3
  <2>5. ASSUME OneContent(a, T) PROVE Smallest(a, T, w)
    <3>1. OneContent(a, S) /\ v.crc = f.crc
      BY <2>5, <2>1 DEF OneContent
    <3>2. Smallest(a, S, v)
      BY <3>1, <1>5 DEF BestOf
    <3>3. w = IF v.csize > f.csize \/ (v.csize = f.csize /\ v.time > f.time) THEN f ELSE v
      BY <2>3, <3>1 DEF CompareFile
    <3>4. /\ w.csize <= v.csize /\ (w.csize = v.csize => w.time <= v.time)
          /\ w.csize <= f.csize /\ (w.csize = f.csize => w.time <= f.time)
          /\ w \in SortFiles
      BY <3>3, <1>1, <2>2
    <3> HIDE DEF w
    <3>5. ASSUME NEW r \in S
          PROVE /\ w.csize <= a[r[1]][r[2]].csize
                /\ w.csize = a[r[1]][r[2]].csize => w.time <= a[r[1]][r[2]].time
      BY <3>2, <3>4, <1>1, <2>2 DEF Smallest, FilesAt
    <3> QED BY <3>4, <3>5 DEF Smallest
  <2>6. ASSUME AllDiffer(a, T) PROVE Latest(a, T, w)
    <3>1. AllDiffer(a, S) /\ v.crc # f.crc
      BY <2>6, <2>1 DEF AllDiffer
    <3>2. Latest(a, S, v)
      BY <3>1, <1>5 DEF BestOf
    <3>3. w = IF v.time < f.time \/ (v.time = f.time /\ v.usize <= f.usize) THEN f ELSE v
      BY <2>3, <3>1 DEF CompareFile
    <3>4. /\ v.time <= w.time /\ (v.time = w.time => v.usize <= w.usize)
          /\ f.time <= w.time /\ (f.time = w.time => f.usize <= w.usize)
          /\ w \in SortFiles
      BY <3>3, <1>1, <2>2
    <3> HIDE DEF w
    <3>5. ASSUME NEW r \in S
          PROVE /\ a[r[1]][r[2]].time <= w.time
                /\ a[r[1]][r[2]].time = w.time => a[r[1]][r[2]].usize <= w.usize
      BY <3>2, <3>4, <1>1, <2>2 DEF Latest, FilesAt
    <3> QED BY <3>4, <3>5 DEF Latest
  <2>7. w # Unpicked /\ T # {}
    BY <2>2, <2>3, <1>2
  <2> QED BY <2>4, <2>5, <2>6, <2>7 DEF BestOf
<1> QED BY <1>4, <1>5

---------------------------------------------------------------------------
(* The steps of Execute.                                                   *)

SortInv == SortTypeOK /\ SelfInv /\ PickIsBest

LEMMA SortStarts ==
    ASSUME sargs \in Seq(Seq(SortFiles)), same \in 0..Len(sargs), SortStart
    PROVE  SortInv
<1> USE DEF SortStart
<1>1. SortTypeOK
  BY DEF SortTypeOK
<1>2. SelfInv
  BY DEF SelfInv
<1>3. PickIsBest
  <2>1. \A n : SeenIn(sargs, 1, 0, n) = {}
    <3>1. \A l \in DOMAIN sargs : \A j \in DOMAIN sargs[l] : ~(l < 1) /\ ~(j < 0)
      OBVIOUS
    <3> QED BY <3>1, InSeen
  <2>2. \A n \in SortNames : BestOf(sargs, Seen(n), picked[n])
    BY <2>1, SeenIsSeenIn DEF BestOf
  <2> QED BY <2>2, PickIsBestOf
<1> QED BY <1>1, <1>2, <1>3 DEF SortInv

LEMMA SortTypeStep == SortTypeOK /\ [SortNext]_sortVars => SortTypeOK'
<1> SUFFICES ASSUME SortTypeOK, [SortNext]_sortVars PROVE SortTypeOK'
  OBVIOUS
<1> USE DEF SortTypeOK, sortOptions, readVars, writeVars, fileVars
<1>1. CASE UNCHANGED <<sortOptions, readVars>>
  BY <1>1
<1>2. CASE OpenInput
  BY <1>2 DEF OpenInput
<1>3. CASE TakeFile
  <2>1. SortFile \in SortFiles /\ SortFile.name \in SortNames
    BY <1>3, SortAssumption DEF TakeFile, Reading, SortFile
  <2>2. sfile' = sfile + 1 /\ sarg' = sarg /\ sargs' = sargs /\ same' = same
    BY <1>3 DEF TakeFile
  <2>3. picked' \in [SortNames -> SortFiles \union {Unpicked}]
    BY <1>3, <2>1 DEF TakeFile
  <2>4. sarg <= Len(sargs)
    BY <1>3 DEF TakeFile, Reading
  <2> QED BY <2>2, <2>3, <2>4
<1>4. CASE SkipSortFile
  BY <1>4 DEF SkipSortFile, Reading
<1>5. CASE NextSortInput
  BY <1>5 DEF NextSortInput, Reading
<1> QED
  BY <1>1, <1>2, <1>3, <1>4, <1>5
  DEF SortNext, sortVars, SortOutput, SortOutputFails, OpenInputFails, SortNamesOut,
      CopyEntry, CopyEntryFails, SortReturns, RunDeferred, Fail

\* The output is not an input: the walk over the arguments stops there.
LEMMA SelfStep == SortTypeOK /\ SelfInv /\ [SortNext]_sortVars => SelfInv'
<1> SUFFICES ASSUME SortTypeOK, SelfInv, [SortNext]_sortVars, same # 0 PROVE SelfInv'
  BY DEF SelfInv, SortNext, sortVars, sortOptions, SortOutput, SortOutputFails, OpenInput,
     OpenInputFails, TakeFile, SkipSortFile, NextSortInput, SortNamesOut, CopyEntry,
     CopyEntryFails, SortReturns, RunDeferred, Fail
<1> USE DEF SelfInv, SortTypeOK, sortOptions, readVars
<1>1. CASE SortOutput
  BY <1>1 DEF SortOutput
<1>2. CASE OpenInput
  BY <1>2 DEF OpenInput
<1>3. CASE TakeFile \/ SkipSortFile
  BY <1>3 DEF TakeFile, SkipSortFile, Reading
<1>4. CASE NextSortInput
  BY <1>4 DEF NextSortInput, Reading
<1>5. CASE SortNamesOut
  BY <1>5 DEF SortNamesOut
<1>6. CASE SortOutputFails \/ OpenInputFails \/ CopyEntryFails \/ SortReturns \/ CopyEntry
  BY <1>6 DEF SortOutputFails, OpenInputFails, CopyEntryFails, SortReturns, CopyEntry, Fail
<1>7. CASE RunDeferred \/ UNCHANGED sortVars
  BY <1>7 DEF RunDeferred, sortVars
<1> QED BY <1>1, <1>2, <1>3, <1>4, <1>5, <1>6, <1>7 DEF SortNext

\* Seen grows by the file that TakeFile compares with the one held.
LEMMA PickStep == SortTypeOK /\ PickIsBest /\ [SortNext]_sortVars => PickIsBest'
<1> SUFFICES ASSUME SortTypeOK, PickIsBest, [SortNext]_sortVars PROVE PickIsBest'
  OBVIOUS
<1> USE DEF sortOptions, readVars
<1>1. \A n \in SortNames : BestOf(sargs, SeenIn(sargs, sarg, sfile, n), picked[n])
  BY PickIsBestOf, SeenIsSeenIn
<1>2. sargs' = sargs
  BY DEF SortNext, sortVars, SortOutput, SortOutputFails, OpenInput,
     OpenInputFails, TakeFile, SkipSortFile, NextSortInput, SortNamesOut, CopyEntry,
     CopyEntryFails, SortReturns, RunDeferred, Fail
<1>3. SUFFICES ASSUME NEW n \in SortNames
               PROVE  BestOf(sargs, SeenIn(sargs, sarg', sfile', n), picked'[n])
  <2>1. \A n \in SortNames : Seen(n)' = SeenIn(sargs, sarg', sfile', n)
    BY <1>2 DEF Seen, SeenIn
  <2>2. (\A n \in SortNames : BestOf(sargs', Seen(n)', picked'[n])) => PickIsBest'
    BY DEF PickIsBest, BestOf, OneContent, AllDiffer, Smallest, Latest, At
  <2> QED BY <1>2, <2>1, <2>2
<1>4. CASE SeenIn(sargs, sarg', sfile', n) = SeenIn(sargs, sarg, sfile, n) /\ picked' = picked
  BY <1>1, <1>4
<1>5. CASE OpenInput
  BY <1>4, <1>5, SeenAtOpen DEF OpenInput, SortTypeOK
<1>6. CASE Reading /\ sfile <= Len(sargs[sarg])
  <2>1. sarg \in DOMAIN sargs /\ sfile \in DOMAIN sargs[sarg]
    BY <1>6 DEF SortTypeOK, Reading
  <2>2. SortFile \in SortFiles
    BY <2>1 DEF SortTypeOK, SortFile
  <2>3. SeenIn(sargs, sarg, sfile + 1, n) = SeenIn(sargs, sarg, sfile, n) \union
          (IF SortFile.name = n /\ ~SortFile.skip THEN {<<sarg, sfile>>} ELSE {})
    BY <2>1, SeenAtFile DEF SortTypeOK, SortFile
  <2>4. CASE SkipSortFile
    BY <1>4, <2>3, <2>4 DEF SkipSortFile
  <2>5. CASE TakeFile /\ SortFile.name # n
    <3>1. picked'[n] = picked[n] /\ sarg' = sarg /\ sfile' = sfile + 1
      BY <2>5 DEF TakeFile, SortTypeOK
    <3> QED BY <1>1, <2>3, <2>5, <3>1
  <2>6. CASE TakeFile /\ SortFile.name = n
    <3> DEFINE S == SeenIn(sargs, sarg, sfile, n)
    <3> DEFINE q == <<sarg, sfile>>
    <3>1. /\ picked'[n] = IF picked[n] = Unpicked \/ CompareFile(picked[n], SortFile)
                          THEN SortFile ELSE picked[n]
          /\ sarg' = sarg /\ sfile' = sfile + 1
      BY <2>6 DEF TakeFile, SortTypeOK, Replaces
    <3>2. q \notin S
      BY <2>1 DEF SeenIn, SortTypeOK
    <3>3. FilesAt(sargs, S)
      BY InSeen DEF FilesAt, SortTypeOK
    <3>4. SeenIn(sargs, sarg, sfile + 1, n) = S \union {q}
      BY <2>3, <2>6 DEF TakeFile
    <3>5. BestOf(sargs, S, picked[n])
      BY <1>1
    <3>6. SortFile = sargs[q[1]][q[2]]
      BY DEF SortFile
    <3> HIDE DEF S, q
    <3>7. BestOf(sargs, S \union {q}, picked'[n])
      BY <3>1, <3>2, <3>3, <3>5, <3>6, <2>2, BestStep
    <3> QED BY <3>1, <3>4, <3>7
  <2>7. CASE ~TakeFile /\ ~SkipSortFile
    <3>1. UNCHANGED <<sarg, sfile, picked>>
      BY <1>6, <2>7 DEF SortNext, sortVars, SortOutput, SortOutputFails, OpenInput,
         OpenInputFails, NextSortInput, SortNamesOut, CopyEntry,
         CopyEntryFails, SortReturns, RunDeferred, Fail, Reading, SortTypeOK
    <3> QED BY <1>4, <3>1
  <2> QED BY <2>4, <2>5, <2>6, <2>7
<1>7. CASE NextSortInput
  <2>1. sarg \in DOMAIN sargs
    BY <1>7 DEF SortTypeOK, NextSortInput, Reading
  <2> QED BY <1>4, <1>7, <2>1, SeenAtNext DEF NextSortInput, SortTypeOK
<1>8. CASE UNCHANGED readVars
  BY <1>4, <1>8
<1> QED
  BY <1>5, <1>6, <1>7, <1>8
  DEF SortNext, sortVars, SortOutput, SortOutputFails, OpenInputFails, TakeFile, SkipSortFile,
      SortNamesOut, CopyEntry, CopyEntryFails, SortReturns, RunDeferred, Fail

\* The inductive invariant of zipsort: the choice among the files read so far, and the
\* output that may be an input.
THEOREM SortInvariant == SortSpec => []SortInv
<1>1. SortInv /\ [SortNext]_sortVars => SortInv'
  BY SortTypeStep, SelfStep, PickStep DEF SortInv
<1>2. SortInit => SortInv
  BY SortStarts, SortAssumption DEF SortInit
<1> QED BY <1>1, <1>2, PTL DEF SortSpec

\* The file that zipsort writes for a name is the best of all that its inputs have
\* (zipsort.go, 127-139), although compare_file is no order.
THEOREM BestIsPicked == SortSpec => []PickIsBest
<1>1. SortInv => PickIsBest
  BY DEF SortInv
<1> QED BY <1>1, SortInvariant, PTL

\* An archive that is given as output and as input never counts as sorted.
THEOREM SelfSortFails == SortSpec => []SelfSortIsReported
<1>1. SortInv => SelfSortIsReported
  BY DEF SortInv, SelfInv, SelfSortIsReported
<1> QED BY <1>1, SortInvariant, PTL

---------------------------------------------------------------------------
(* The output.                                                             *)

Copying == spc = "copy" \/ sresult = "ok"

\* m may stand before n.
Precedes(m, n) ==
    sortby = "none" \/ IF reverse THEN Key(m) >= Key(n) ELSE Key(m) <= Key(n)

\* Every picked name is still to be copied or in the output, in one place.
EachOnce ==
    /\ todo \in Seq(PickedNames) /\ output \in Seq(SortFiles)
    /\ \A j \in DOMAIN output : output[j].name \in PickedNames /\ output[j] = picked[output[j].name]
    /\ \A n \in PickedNames : \/ \E i \in DOMAIN todo : todo[i] = n
                              \/ \E j \in DOMAIN output : output[j].name = n
    /\ \A i, j \in DOMAIN todo : i # j => todo[i] # todo[j]
    /\ \A i, j \in DOMAIN output : i # j => output[i].name # output[j].name
    /\ \A i \in DOMAIN todo, j \in DOMAIN output : todo[i] # output[j].name

\* What is copied stands in order, and before what is to be copied.
OrderKept ==
    /\ \A i, j \in DOMAIN todo : i < j => Precedes(todo[i], todo[j])
    /\ \A i, j \in DOMAIN output : i < j => Precedes(output[i].name, output[j].name)
    /\ \A i \in DOMAIN output, j \in DOMAIN todo : Precedes(output[i].name, todo[j])

CopyInv ==
    /\ sresult = "ok" => spc = "return" /\ todo = <<>>
    /\ spc \in {"output", "read"} => output = <<>>
    /\ Copying => EachOnce /\ OrderKept

LEMMA PickedKeepsName ==
    ASSUME SortTypeOK, PickIsBest
    PROVE  \A n \in PickedNames : picked[n] \in SortFiles /\ picked[n].name = n
<1> SUFFICES ASSUME NEW n \in PickedNames PROVE picked[n] \in SortFiles /\ picked[n].name = n
  OBVIOUS
<1>1. n \in SortNames /\ picked[n] # Unpicked
  BY DEF PickedNames
<1>2. \E p \in Seen(n) : picked[n] = At(p)
  BY <1>1 DEF PickIsBest
<1>3. \A p \in Seen(n) : At(p).name = n
  BY DEF Seen, At
<1> QED BY <1>1, <1>2, <1>3 DEF SortTypeOK

\* Names in order, each once and all of them: a one-to-one function onto the names
\* of a finite set of that size.
LEMMA NamesOutStep == SortTypeOK /\ CopyInv /\ SortNamesOut => CopyInv'
<1> SUFFICES ASSUME SortTypeOK, CopyInv, SortNamesOut PROVE CopyInv'
  OBVIOUS
<1> USE DEF sortOptions, readVars, fileVars
<1>1. UNCHANGED <<sortOptions, readVars, output, sresult>> /\ spc' = "copy" /\ output = <<>>
  BY DEF SortNamesOut, CopyInv
<1>2. /\ todo' \in [1..Cardinality(PickedNames) -> PickedNames]
      /\ InOrder(todo') /\ \A i, j \in DOMAIN todo' : todo'[i] = todo'[j] => i = j
  BY DEF SortNamesOut
<1>3. IsFiniteSet(PickedNames) /\ Cardinality(PickedNames) \in Nat
  BY SortAssumption, FS_Subset, FS_CardinalityType DEF PickedNames
<1> DEFINE I == 1..Cardinality(PickedNames)
<1>4. IsFiniteSet(I) /\ Cardinality(I) = Cardinality(PickedNames)
  BY <1>3, FS_Interval
<1>5. todo' \in Injection(I, PickedNames)
  BY <1>2 DEF Injection, IsInjective
<1>6. todo' \in Surjection(I, PickedNames)
  BY <1>3, <1>4, <1>5, FS_Injection
<1>7. \A n \in PickedNames : \E i \in DOMAIN todo' : todo'[i] = n
  BY <1>2, <1>6 DEF Surjection
<1>8. PickedNames' = PickedNames
  BY <1>1 DEF PickedNames
<1>9. todo' \in Seq(PickedNames)
  BY <1>2, <1>3
<1>10. EachOnce'
  BY <1>1, <1>2, <1>7, <1>8, <1>9 DEF EachOnce
<1>11. \A m, n : Precedes(m, n)' <=> Precedes(m, n)
  BY <1>1 DEF Precedes, Key
<1>12. OrderKept'
  BY <1>1, <1>2, <1>11 DEF OrderKept, InOrder, Precedes
<1>13. sresult # "ok"
  BY DEF CopyInv, SortNamesOut
<1> QED BY <1>1, <1>10, <1>12, <1>13 DEF CopyInv

LEMMA CopyEntryStep == SortTypeOK /\ PickIsBest /\ CopyInv /\ CopyEntry => CopyInv'
<1> SUFFICES ASSUME SortTypeOK, PickIsBest, CopyInv, CopyEntry PROVE CopyInv'
  OBVIOUS
<1> USE DEF sortOptions, readVars, fileVars
<1>1. /\ UNCHANGED <<sortOptions, spc, readVars, sresult>> /\ spc = "copy"
      /\ todo # <<>> /\ output' = Append(output, picked[Head(todo)]) /\ todo' = Tail(todo)
  BY DEF CopyEntry
<1>2. EachOnce /\ OrderKept /\ sresult # "ok"
  BY <1>1 DEF CopyInv, Copying
<1> DEFINE h == todo[1]
<1>3. h \in PickedNames /\ picked[h] \in SortFiles /\ picked[h].name = h /\ Head(todo) = h
  BY <1>1, <1>2, PickedKeepsName DEF EachOnce
<1>4. PickedNames' = PickedNames
  BY <1>1 DEF PickedNames
<1>5. /\ todo \in Seq(PickedNames) /\ output \in Seq(SortFiles)
      /\ todo' \in Seq(PickedNames) /\ output' \in Seq(SortFiles)
  BY <1>1, <1>2, <1>3 DEF EachOnce
<1>6. \A i \in DOMAIN todo' : i + 1 \in DOMAIN todo /\ todo'[i] = todo[i + 1] /\ i + 1 # 1
  BY <1>1, <1>5
<1>7. \A i \in DOMAIN todo : i = 1 \/ (i - 1 \in DOMAIN todo' /\ todo'[i - 1] = todo[i])
  BY <1>1, <1>5
<1>8. DOMAIN output' = DOMAIN output \union {Len(output) + 1} /\ output'[Len(output) + 1] = picked[h]
  BY <1>1, <1>3, <1>5
<1>9. \A j \in DOMAIN output : output'[j] = output[j] /\ j < Len(output) + 1
  BY <1>1, <1>5
<1>10. 1 \in DOMAIN todo /\ \A i \in DOMAIN todo : i \in Nat
  BY <1>1, <1>5
<1> HIDE DEF h
<1>11. EachOnce'
  <2>1. \A j \in DOMAIN output' : output'[j].name \in PickedNames /\ output'[j] = picked[output'[j].name]
    BY <1>2, <1>3, <1>8, <1>9 DEF EachOnce
  <2>2. \A n \in PickedNames : \/ \E i \in DOMAIN todo' : todo'[i] = n
                               \/ \E j \in DOMAIN output' : output'[j].name = n
    <3> SUFFICES ASSUME NEW n \in PickedNames, ~\E j \in DOMAIN output' : output'[j].name = n
                 PROVE  \E i \in DOMAIN todo' : todo'[i] = n
      OBVIOUS
    <3>1. ~\E j \in DOMAIN output : output[j].name = n
      BY <1>8, <1>9
    <3>2. n # h
      BY <1>3, <1>8
    <3>3. PICK i \in DOMAIN todo : todo[i] = n
      BY <3>1, <1>2 DEF EachOnce
    <3> QED BY <3>2, <3>3, <1>7 DEF h
  <2>3. \A i, j \in DOMAIN todo' : i # j => todo'[i] # todo'[j]
    <3> SUFFICES ASSUME NEW i \in DOMAIN todo', NEW j \in DOMAIN todo', i # j
                 PROVE  todo'[i] # todo'[j]
      OBVIOUS
    <3>1. i + 1 # j + 1
      BY <1>5
    <3> QED BY <3>1, <1>2, <1>6 DEF EachOnce
  <2>4. \A i \in DOMAIN todo : \A j \in DOMAIN output : todo[i] # output[j].name
    BY <1>2 DEF EachOnce
  <2>5. \A i, j \in DOMAIN output' : i # j => output'[i].name # output'[j].name
    BY <2>4, <1>2, <1>3, <1>8, <1>9, <1>10 DEF EachOnce, h
  <2>6. \A i \in DOMAIN todo', j \in DOMAIN output' : todo'[i] # output'[j].name
    <3> SUFFICES ASSUME NEW i \in DOMAIN todo', NEW j \in DOMAIN output'
                 PROVE  todo'[i] # output'[j].name
      OBVIOUS
    <3>1. todo'[i] # h
      BY <1>2, <1>6, <1>10 DEF EachOnce, h
    <3> QED BY <3>1, <2>4, <1>3, <1>6, <1>8, <1>9
  <2> QED BY <1>1, <1>4, <1>5, <2>1, <2>2, <2>3, <2>5, <2>6 DEF EachOnce
<1>12. \A m, n : Precedes(m, n)' <=> Precedes(m, n)
  BY <1>1 DEF Precedes, Key
<1>13. OrderKept'
  <2>1. \A i, j \in DOMAIN todo' : i < j => Precedes(todo'[i], todo'[j])
    <3> SUFFICES ASSUME NEW i \in DOMAIN todo', NEW j \in DOMAIN todo', i < j
                 PROVE  Precedes(todo'[i], todo'[j])
      OBVIOUS
    <3>1. i + 1 < j + 1
      BY <1>5
    <3> QED BY <3>1, <1>2, <1>6 DEF OrderKept
  <2>2. \A i \in DOMAIN todo' : Precedes(h, todo'[i])
    <3>1. \A i \in DOMAIN todo' : 1 < i + 1
      BY <1>5
    <3> QED BY <3>1, <1>2, <1>6, <1>10 DEF OrderKept, h
  <2>3. \A i \in DOMAIN output : Precedes(output[i].name, h)
    BY <1>2, <1>10 DEF OrderKept, h
  <2>4. \A i, j \in DOMAIN output' : i < j => Precedes(output'[i].name, output'[j].name)
    <3> SUFFICES ASSUME NEW i \in DOMAIN output', NEW j \in DOMAIN output', i < j
                 PROVE  Precedes(output'[i].name, output'[j].name)
      OBVIOUS
    <3>1. i \in DOMAIN output
      BY <1>5, <1>8, <1>1
    <3>2. CASE j \in DOMAIN output
      BY <3>1, <3>2, <1>2, <1>9 DEF OrderKept
    <3>3. CASE j = Len(output) + 1
      BY <3>1, <3>3, <2>3, <1>3, <1>8, <1>9
    <3> QED BY <3>2, <3>3, <1>8
  <2>5. \A i \in DOMAIN output', j \in DOMAIN todo' : Precedes(output'[i].name, todo'[j])
    BY <2>2, <1>2, <1>3, <1>6, <1>8, <1>9 DEF OrderKept
  <2> QED BY <2>1, <2>4, <2>5, <1>12 DEF OrderKept
<1> QED BY <1>1, <1>2, <1>11, <1>13 DEF CopyInv, Copying

LEMMA CopyStep == SortInv /\ CopyInv /\ [SortNext]_sortVars => CopyInv'
<1> SUFFICES ASSUME SortInv, CopyInv, [SortNext]_sortVars PROVE CopyInv'
  OBVIOUS
<1> USE DEF sortOptions, readVars, writeVars, fileVars
<1>1. CASE SortNamesOut
  BY <1>1, NamesOutStep DEF SortInv
<1>2. CASE CopyEntry
  BY <1>2, CopyEntryStep DEF SortInv
<1>3. CASE SortOutput \/ OpenInput \/ TakeFile \/ SkipSortFile \/ NextSortInput
  BY <1>3 DEF SortOutput, OpenInput, TakeFile, SkipSortFile, NextSortInput, Reading, CopyInv, Copying
<1>4. CASE SortOutputFails \/ OpenInputFails \/ CopyEntryFails
  BY <1>4 DEF SortOutputFails, OpenInputFails, CopyEntryFails, Fail, CopyInv, Copying
<1>5. CASE SortReturns \/ RunDeferred \/ UNCHANGED sortVars
  <2>1. UNCHANGED <<sortOptions, readVars, writeVars>>
    BY <1>5 DEF SortReturns, RunDeferred, sortVars
  <2>2. EachOnce => EachOnce'
    BY <2>1 DEF EachOnce, PickedNames
  <2>3. OrderKept => OrderKept'
    BY <2>1 DEF OrderKept, Precedes, Key
  <2>4. Copying' => Copying
    BY <1>5 DEF SortReturns, RunDeferred, sortVars, Copying
  <2> QED BY <1>5, <2>1, <2>2, <2>3, <2>4 DEF SortReturns, RunDeferred, sortVars, CopyInv
<1> QED BY <1>1, <1>2, <1>3, <1>4, <1>5 DEF SortNext

LEMMA CopyInvIsComplete == SortInv /\ CopyInv => SortIsComplete
<1> SUFFICES ASSUME SortInv, CopyInv, sresult = "ok" PROVE SortIsComplete
  BY DEF SortIsComplete
<1>1. EachOnce /\ OrderKept /\ todo = <<>>
  BY DEF CopyInv, Copying
<1>2. ASSUME NEW n \in SortNames
      PROVE  Cardinality({j \in DOMAIN output : output[j].name = n}) = IF Seen(n) = {} THEN 0 ELSE 1
  <2>1. Seen(n) = {} <=> n \notin PickedNames
    BY DEF SortInv, PickIsBest, PickedNames
  <2>2. CASE n \notin PickedNames
    <3>1. {j \in DOMAIN output : output[j].name = n} = {}
      BY <1>1, <2>2 DEF EachOnce
    <3> QED BY <2>1, <2>2, <3>1, FS_EmptySet
  <2>3. CASE n \in PickedNames
    <3>1. PICK j \in DOMAIN output : output[j].name = n
      BY <1>1, <2>3 DEF EachOnce
    <3>2. {i \in DOMAIN output : output[i].name = n} = {j}
      BY <1>1, <3>1 DEF EachOnce
    <3>3. Cardinality({j}) = 1
      BY FS_Singleton
    <3> QED BY <2>1, <2>3, <3>2, <3>3
  <2> QED BY <2>2, <2>3
<1>3. ASSUME NEW i \in DOMAIN output, NEW j \in DOMAIN output, i < j
      PROVE  LET first == IF reverse THEN output[j] ELSE output[i]
                 second == IF reverse THEN output[i] ELSE output[j] IN
             CASE sortby = "name" -> first.name < second.name
               [] sortby = "time" -> first.time >= second.time
               [] sortby = "usize" -> first.usize <= second.usize
               [] sortby = "csize" -> first.csize <= second.csize
               [] OTHER -> TRUE
  <2>1. Precedes(output[i].name, output[j].name) /\ output[i].name # output[j].name
    BY <1>1, <1>3 DEF OrderKept, EachOnce
  <2>2. /\ output[i] = picked[output[i].name] /\ output[j] = picked[output[j].name]
        /\ output[i] \in SortFiles /\ output[j] \in SortFiles
    BY <1>1 DEF EachOnce
  <2>3. \A f \in SortFiles : f.name \in SortNames /\ f.time \in Int /\ f.csize \in Nat /\ f.usize \in Nat
    BY SortAssumption
  <2>4. \A n \in SortNames : n \in Int
    BY SortAssumption
  <2>5. CASE sortby = "name"
    BY <2>1, <2>2, <2>3, <2>5, <2>4 DEF Precedes, Key
  <2>6. CASE sortby = "time"
    BY <2>1, <2>2, <2>3, <2>6 DEF Precedes, Key
  <2>7. CASE sortby = "usize"
    BY <2>1, <2>2, <2>3, <2>7 DEF Precedes, Key
  <2>8. CASE sortby = "csize"
    BY <2>1, <2>2, <2>3, <2>8 DEF Precedes, Key
  <2> QED BY <2>5, <2>6, <2>7, <2>8
<1>4. \A j \in DOMAIN output : output[j] = picked[output[j].name]
  BY <1>1 DEF EachOnce
<1> QED BY <1>2, <1>3, <1>4 DEF SortIsComplete

\* A sort that returns success has written each name of its inputs once, from the
\* file picked for it, in the order asked for (zipsort.go, 142-226).
THEOREM SortMeansComplete == SortSpec => []SortIsComplete
<1>1. SortInit => CopyInv
  BY DEF SortInit, SortStart, CopyInv, Copying
<1>2. SortInv /\ SortInv' /\ CopyInv /\ [SortNext]_sortVars => CopyInv'
  BY CopyStep
<1> QED BY <1>1, <1>2, SortInvariant, CopyInvIsComplete, PTL DEF SortSpec
====
