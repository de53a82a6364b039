---- MODULE NameTableProofs ----
(***************************************************************************)
(* Proofs about NameTable, for all lists of arguments.  What sort.Sort     *)
(* puts first is found by a least counterexample: an element that is       *)
(* better than the one in front would have taken its place.  The inductive *)
(* invariant relates the table to where the goroutines are: it has each    *)
(* file that a goroutine has passed, once.                                 *)
(***************************************************************************)
EXTENDS NameTable, FiniteSetTheorems, TLAPS

---------------------------------------------------------------------------
(* Numbers.                                                                *)

\* A set of natural numbers has a least one: intervals from 1 are finite sets, and
\* inclusion of finite sets is well-founded.
LEMMA LeastNatural ==
    ASSUME NEW T \in SUBSET Nat, T # {}
    PROVE  \E n \in T : \A m \in T : n <= m
<1> DEFINE R == StrictSubsetOrdering(Nat)
           Upto(n) == 1 .. n
           I == {Upto(n) : n \in T}
<1>1. IsWellFoundedOn(R, FiniteSubsetsOf(Nat))
  BY FS_StrictSubsetOrderingWellFounded
<1>2. I \subseteq FiniteSubsetsOf(Nat)
  <2>1. ASSUME NEW n \in T PROVE IsFiniteSet(Upto(n)) /\ Upto(n) \subseteq Nat
    BY FS_Interval
  <2> QED BY <2>1 DEF FiniteSubsetsOf
<1>3. I # {}  OBVIOUS
<1>4. PICK x \in I : \A y \in I : ~(<<y, x>> \in R)
  <2> HIDE DEF R, I
  <2> QED BY <1>1, <1>2, <1>3, WFMin
<1>5. PICK n \in T : x = Upto(n)  OBVIOUS
<1>6. ASSUME NEW m \in T, m < n PROVE FALSE
  <2>1. Upto(m) \subseteq Upto(n) /\ Upto(m) # Upto(n)  BY <1>6
  <2>2. Upto(m) \in I /\ Upto(m) \subseteq Nat /\ Upto(n) \subseteq Nat  OBVIOUS
  <2> QED BY <1>4, <1>5, <2>1, <2>2 DEF StrictSubsetOrdering
<1> QED BY <1>6

\* Min is the least of a set of natural numbers.
LEMMA MinIsLeast ==
    ASSUME NEW T \in SUBSET Nat, T # {}
    PROVE  Min(T) \in T /\ \A m \in T : Min(T) <= m
BY LeastNatural DEF Min

\* Max is the greatest of a bounded one.
LEMMA MaxIsGreatest ==
    ASSUME NEW N \in Nat, NEW T \in SUBSET (1..N), T # {}
    PROVE  Max(T) \in T /\ \A m \in T : m <= Max(T)
<1> DEFINE D == {N - m : m \in T}
<1>1. D \in SUBSET Nat /\ D # {}
  <2>1. \A m \in T : N - m \in Nat  OBVIOUS
  <2> QED BY <2>1
<1>2. PICK d \in D : \A e \in D : d <= e
  <2> HIDE DEF D
  <2> QED BY <1>1, LeastNatural
<1>3. PICK x \in T : d = N - x  OBVIOUS
<1>4. \A y \in T : x >= y
  <2> TAKE y \in T
  <2>1. N - y \in D  OBVIOUS
  <2> QED BY <1>2, <1>3, <2>1
<1>5. Max(T) \in T /\ \A y \in T : Max(T) >= y
  BY <1>4 DEF Max
<1> QED BY <1>5

---------------------------------------------------------------------------
(* chooser.go.                                                             *)

\* With DiffCRCLess the first element is one of the newest, also where two elements
\* are each better than the other.
LEMMA FirstIsNewest ==
    ASSUME NEW N \in Nat \ {0}, NEW s, DOMAIN s = 1..N,
           \A i \in 1..N : s[i].time \in Int
    PROVE  \E i \in 1..N :
              /\ First(DiffCRCLess, s, DOMAIN s) = s[i]
              /\ \A j \in 1..N : s[j].time <= s[i].time
<1> DEFINE L == {i \in DOMAIN s : \A j \in DOMAIN s : j < i => DiffCRCLess(s[i], s[j])}
           i == Max(L)
<1>1. 1 \in L  OBVIOUS
<1>2. i \in L /\ \A m \in L : m <= i
  <2>1. L \in SUBSET (1..N) /\ L # {}  BY <1>1
  <2> HIDE DEF L
  <2> QED BY <2>1, MaxIsGreatest
<1>3. First(DiffCRCLess, s, DOMAIN s) = s[i]  BY DEF First
<1> HIDE DEF i
<1>4. \A j \in 1..N : j < i => s[j].time <= s[i].time
  BY <1>2 DEF DiffCRCLess, SameTime
<1>5. ASSUME NEW j \in 1..N, ~(s[j].time <= s[i].time) PROVE FALSE
  <2> DEFINE T == {k \in 1..N : ~(s[k].time <= s[i].time)}
  <2>1. T \in SUBSET Nat /\ T # {}  BY <1>5
  <2>2. PICK k \in T : \A m \in T : k <= m
    <3> HIDE DEF T
    <3> QED BY <2>1, LeastNatural
  <2>3. \A m \in 1..N : m < k => s[k].time > s[m].time  BY <2>2, <1>2
  <2>4. k \in L  BY <2>3 DEF DiffCRCLess
  <2> QED BY <2>2, <2>4, <1>2, <1>4
<1> QED BY <1>2, <1>3, <1>5

\* With SameCRCLess, and no two times the same, it is the best.
LEMMA FirstIsBest ==
    ASSUME NEW N \in Nat, NEW s, NEW I \in SUBSET (1..N), I # {},
           \A i \in I : s[i].time \in Int /\ s[i].csize \in Nat,
           \A i, j \in I : i # j => s[i].time # s[j].time
    PROVE  \E i \in I :
              /\ First(SameCRCLess, s, I) = s[i]
              /\ \A j \in I \ {i} : Better(s[i], s[j])
<1> DEFINE L == {i \in I : \A j \in I : j < i => SameCRCLess(s[i], s[j])}
           i == Max(L)
<1>0. I \subseteq Nat  OBVIOUS
<1>1. L # {}
  <2>1. PICK f \in I : \A m \in I : f <= m  BY <1>0, LeastNatural
  <2>2. f \in L  BY <2>1
  <2> QED BY <2>2
<1>2. i \in L /\ \A m \in L : m <= i
  <2>1. L \in SUBSET (1..N)  OBVIOUS
  <2> HIDE DEF L
  <2> QED BY <1>1, <2>1, MaxIsGreatest
<1>3. First(SameCRCLess, s, I) = s[i]  BY DEF First
<1> HIDE DEF i
<1>4. \A a, b \in I : a # b => (SameCRCLess(s[a], s[b]) <=> Better(s[a], s[b]))
  BY DEF SameCRCLess, SameTime, Better
<1>5. \A j \in I : j < i => Better(s[i], s[j])
  <2> TAKE j \in I
  <2>1. i \in I /\ (j < i => SameCRCLess(s[i], s[j]))  BY <1>2
  <2>2. j < i => j # i
    <3>1. j \in Nat /\ i \in Nat  BY <2>1, <1>0
    <3> QED BY <3>1
  <2> QED BY <2>1, <2>2, <1>4
<1>6. \A a, b \in I : a # b => Better(s[a], s[b]) \/ Better(s[b], s[a])
  <2> TAKE a, b \in I
  <2>1. /\ s[a].time \in Int /\ s[b].time \in Int /\ s[a].csize \in Nat /\ s[b].csize \in Nat
        /\ a # b => s[a].time # s[b].time
    OBVIOUS
  <2> QED BY <2>1 DEF Better
<1>7. ASSUME NEW j \in I, j # i, ~Better(s[i], s[j]) PROVE FALSE
  <2> DEFINE T == {k \in I : k # i /\ ~Better(s[i], s[k])}
  <2>1. T \in SUBSET Nat /\ T # {}
    <3>1. T \subseteq I /\ I \subseteq Nat  OBVIOUS
    <3>2. j \in T  BY <1>7
    <3> QED BY <3>1, <3>2
  <2>2. PICK k \in T : \A m \in T : k <= m
    <3> HIDE DEF T
    <3> QED BY <2>1, LeastNatural
  <2>3. i < k /\ Better(s[k], s[i])  BY <1>2, <1>5, <1>6, <2>2
  <2>4. ASSUME NEW m \in I, m < k PROVE Better(s[k], s[m])
    <3>1. m = i \/ Better(s[i], s[m])  BY <2>2, <2>4
    <3>2. i \in I  BY <1>2
    <3> QED BY <2>3, <3>1, <3>2 DEF Better
  <2>5. k \in I /\ i \in I  BY <1>2, <2>2
  <2>6. k \in L
    <3>1. \A m \in I : m < k => m # k  BY <2>5, <1>0
    <3> QED BY <2>4, <2>5, <3>1, <1>4
  <2>7. k <= i  BY <1>2, <2>6
  <2> QED BY <2>3, <2>5, <2>7, <1>0
<1> QED BY <1>2, <1>3, <1>7

\* The first of a group is in the group.
LEMMA FirstIsOne ==
    ASSUME NEW N \in Nat, NEW s, NEW I \in SUBSET (1..N), I # {}
    PROVE  \E i \in I : First(SameCRCLess, s, I) = s[i]
<1> DEFINE L == {i \in I : \A j \in I : j < i => SameCRCLess(s[i], s[j])}
<1>1. PICK f \in I : \A m \in I : f <= m
  <2>1. I \in SUBSET Nat  OBVIOUS
  <2> QED BY <2>1, LeastNatural
<1>2. f \in L
  <2>1. I \subseteq Nat  OBVIOUS
  <2> QED BY <1>1, <2>1
<1>3. Max(L) \in L
  <2>1. L \in SUBSET (1..N) /\ L # {}  BY <1>2
  <2> HIDE DEF L
  <2> QED BY <2>1, MaxIsGreatest
<1> QED BY <1>3 DEF First

\* Of the heads of the groups, in whatever order, one of the newest is taken.
LEMMA NewestHead ==
    ASSUME NEW heads, IsFiniteSet(heads), heads # {}, \A h \in heads : h.time \in Int,
           NEW p \in Bijection(1..Cardinality(heads), heads)
    PROVE  /\ First(DiffCRCLess, p, DOMAIN p) \in heads
           /\ \A h \in heads : h.time <= First(DiffCRCLess, p, DOMAIN p).time
<1> DEFINE N == Cardinality(heads)
<1>1. N \in Nat  BY FS_CardinalityType
<1>2. p \in [1..N -> heads] /\ \A h \in heads : \E i \in 1..N : p[i] = h
  BY DEF Bijection, Injection, Surjection
<1> HIDE DEF N
<1>3. N # 0  BY <1>1, <1>2
<1>4. DOMAIN p = 1..N /\ \A i \in 1..N : p[i] \in heads  BY <1>2
<1>5. \A i \in 1..N : p[i].time \in Int  BY <1>4
<1>6. PICK i \in 1..N : /\ First(DiffCRCLess, p, DOMAIN p) = p[i]
                        /\ \A j \in 1..N : p[j].time <= p[i].time
  BY <1>1, <1>3, <1>4, <1>5, FirstIsNewest
<1> QED BY <1>2, <1>4, <1>6

\* The heads are files of the input, and there is one when a checksum is known.
LEMMA HeadsAreFiles ==
    ASSUME NEW N \in Nat, NEW s, DOMAIN s = 1..N, NEW bad
    PROVE  /\ IsFiniteSet(GroupHeads(s, bad))
           /\ \A h \in GroupHeads(s, bad) : \E i \in 1..N : h = s[i] /\ s[i] \notin bad
           /\ \A i \in 1..N : s[i] \notin bad => GroupHeads(s, bad) # {}
<1> DEFINE good == {i \in DOMAIN s : s[i] \notin bad}
           R == {s[i].crc : i \in good}
           Head1(r) == First(SameCRCLess, s, {i \in good : s[i].crc = r})
<1>1. GroupHeads(s, bad) = {Head1(r) : r \in R}  BY DEF GroupHeads
<1>2. ASSUME NEW r \in R PROVE \E i \in 1..N : Head1(r) = s[i] /\ s[i] \notin bad
  <2> DEFINE I == {i \in good : s[i].crc = r}
  <2>1. I \in SUBSET (1..N) /\ I # {}  OBVIOUS
  <2>2. \E i \in I : First(SameCRCLess, s, I) = s[i]
    <3> HIDE DEF I
    <3> QED BY <2>1, FirstIsOne
  <2> QED BY <2>2
<1>3. IsFiniteSet(GroupHeads(s, bad))
  <2> DEFINE S == {s[i] : i \in 1..N}
             f == [i \in 1..N |-> s[i]]
  <2>1. IsFiniteSet(1..N)  BY FS_Interval
  <2>2. IsFiniteSet(S)
    <3>1. f \in Surjection(1..N, S)  BY DEF Surjection
    <3> HIDE DEF f, S
    <3> QED BY <2>1, <3>1, FS_Surjection
  <2>3. GroupHeads(s, bad) \subseteq S  BY <1>1, <1>2
  <2> QED BY <2>2, <2>3, FS_Subset
<1>4. ASSUME NEW i \in 1..N, s[i] \notin bad PROVE GroupHeads(s, bad) # {}
  <2>1. s[i].crc \in R  BY <1>4
  <2> HIDE DEF R, Head1
  <2> QED BY <1>1, <2>1
<1> QED BY <1>1, <1>2, <1>3, <1>4

\* The choice by content is one of the files.
LEMMA ChoiceIsFile ==
    ASSUME NEW N \in Nat \ {0}, NEW s, DOMAIN s = 1..N, Len(s) = N,
           \A i \in 1..N : s[i].time \in Int,
           NEW bad, Range(s) \ bad # {}, NEW c \in ChooseFrom(s, bad)
    PROVE  \E i \in 1..N : c = s[i]
<1>1. CASE N = 1  BY <1>1 DEF ChooseFrom
<1>2. CASE N # 1
  <2> DEFINE heads == GroupHeads(s, bad)
  <2>1. PICK p \in Bijection(1..Cardinality(heads), heads) : c = First(DiffCRCLess, p, DOMAIN p)
    BY <1>2 DEF ChooseFrom
  <2>2. IsFiniteSet(heads) /\ \A h \in heads : \E i \in 1..N : h = s[i]
    BY HeadsAreFiles
  <2>3. heads # {}
    <3>1. \E i \in 1..N : s[i] \notin bad  BY DEF Range
    <3> QED BY <3>1, HeadsAreFiles
  <2> HIDE DEF heads
  <2>4. \A h \in heads : h.time \in Int  BY <2>2
  <2>5. c \in heads  BY <2>1, <2>2, <2>3, <2>4, NewestHead
  <2> QED BY <2>2, <2>5
<1> QED BY <1>1, <1>2

\* --choose-last takes the first file that has the content of the last one.
LEMMA ChoiceOfLast ==
    ASSUME NEW N \in Nat, NEW f, DOMAIN f \subseteq 1..N, DOMAIN f # {}, NEW bad
    PROVE  \E k, l \in DOMAIN f :
              /\ \A m \in DOMAIN f : m <= k
              /\ ChooseFromLast(f, bad) = f[l]
              /\ f[k] \notin bad =>
                    /\ f[l].crc = f[k].crc
                    /\ \A m \in DOMAIN f : m < l /\ f[m] \notin bad => f[m].crc # f[k].crc
<1> DEFINE k == Max(DOMAIN f)
           T == {m \in DOMAIN f : f[m] \notin bad /\ f[m].crc = f[k].crc}
<1>1. k \in DOMAIN f /\ \A m \in DOMAIN f : m <= k
  <2>1. DOMAIN f \in SUBSET (1..N)  OBVIOUS
  <2> QED BY <2>1, MaxIsGreatest
<1>2. CASE Cardinality(DOMAIN f) = 1 \/ f[k] \in bad
  <2>1. ChooseFromLast(f, bad) = f[k]  BY <1>2 DEF ChooseFromLast
  <2>2. ASSUME f[k] \notin bad, NEW m \in DOMAIN f, m < k PROVE FALSE
    <3>1. Cardinality(DOMAIN f) = 1  BY <1>2, <2>2
    <3>2. IsFiniteSet(1..N)  BY FS_Interval
    <3>3. IsFiniteSet(DOMAIN f)  BY <3>2, FS_Subset
    <3>4. \E x : DOMAIN f = {x}  BY <3>1, <3>3, FS_Singleton
    <3>5. m = k  BY <1>1, <2>2, <3>4
    <3>6. k \in Nat  BY <1>1
    <3> QED BY <2>2, <3>5, <3>6
  <2> HIDE DEF k
  <2> QED BY <1>1, <2>1, <2>2
<1>3. CASE Cardinality(DOMAIN f) # 1 /\ f[k] \notin bad
  <2>1. ChooseFromLast(f, bad) = f[Min(T)]  BY <1>3 DEF ChooseFromLast
  <2>2. T \in SUBSET Nat /\ T # {}
    <3>1. k \in T  BY <1>1, <1>3
    <3> QED BY <3>1
  <2> DEFINE l == Min(T)
  <2>3. l \in T /\ \A m \in T : l <= m
    <3> HIDE DEF T
    <3> QED BY <2>2, MinIsLeast
  <2>4. l \in DOMAIN f /\ f[l].crc = f[k].crc  BY <2>3
  <2>5. ASSUME NEW m \in DOMAIN f, m < l, f[m] \notin bad, f[m].crc = f[k].crc PROVE FALSE
    <3>1. m \in T  BY <2>5
    <3>2. l <= m  BY <2>3, <3>1
    <3>3. l \in Nat /\ m \in Nat  BY <2>4
    <3> QED BY <2>5, <3>2, <3>3
  <2> HIDE DEF k, l
  <2> QED BY <1>1, <2>1, <2>4, <2>5 DEF l
<1> QED BY <1>2, <1>3

---------------------------------------------------------------------------
(* The inductive invariant.                                                *)

Inputs ==
    /\ zargs \in Seq(Arguments)
    /\ \A k, l \in DOMAIN zargs : zargs[k].path = zargs[l].path => zargs[k] = zargs[l]

Candidates == UNION {Offered(n) : n \in ZipNames}

TableTypeOK ==
    /\ zmode \in {"crc", "nocrc", "last"} /\ zdelete \in BOOLEAN
    /\ zpc \in {"args", "delete", "choose", "done", "crashed"}
    /\ argno \in 1..(Len(zargs) + 1)
    /\ scan \in [DOMAIN zargs -> Nat]
    /\ nametable \in [ZipNames -> Seq(Candidates)]
    /\ removed \subseteq ZipNames
    /\ chosen \in [ZipNames -> Candidates \union {NoFile}]
    /\ unread \in BOOLEAN

\* Arguments are taken in order; after the wait no goroutine has a file left.
ScanInv ==
    /\ \A k \in DOMAIN zargs : k >= argno => scan[k] = 0
    /\ zpc \in {"delete", "choose", "done"} =>
          \A k \in DOMAIN zargs : scan[k] > Len(zargs[k].files)

InTable(n, c) == \E i \in DOMAIN nametable[n] : nametable[n][i] = c

\* The table has what the goroutines have passed, once, and nothing else; only files
\* of a directory may be missing.
EntriesArePassed(n) ==
    \A i \in DOMAIN nametable[n] :
        /\ nametable[n][i] \in Offered(n)
        /\ nametable[n][i].pos < scan[nametable[n][i].arg]
EntriesDiffer(n) ==
    \A i, j \in DOMAIN nametable[n] : nametable[n][i] = nametable[n][j] => i = j
PassedAreEntries(n) ==
    \A c \in Offered(n) :
        c.pos < scan[c.arg] => InTable(n, c) \/ (unread /\ zargs[c.arg].kind = "dir")

TableInv ==
    \A n \in ZipNames :
        EntriesArePassed(n) /\ EntriesDiffer(n) /\ (n \in removed \/ PassedAreEntries(n))

\* A name that has been taken out has no candidates and gets none.
RemovedInv ==
    /\ \A n \in removed : nametable[n] = <<>>
    /\ removed # {} => zpc \notin {"args", "delete"}

NameTableInv == Inputs /\ TableTypeOK /\ ScanInv /\ TableInv /\ RemovedInv

---------------------------------------------------------------------------
(* What the arguments offer.                                               *)

LEMMA ArgumentType ==
    ASSUME Inputs, NEW k \in DOMAIN zargs
    PROVE  /\ zargs[k] \in Arguments /\ zargs[k].files \in Seq(ZipFiles)
           /\ k \in Nat \ {0} /\ k <= Len(zargs) /\ Len(zargs) \in Nat
           /\ DOMAIN zargs[k].files = 1..Len(zargs[k].files) /\ Len(zargs[k].files) \in Nat
BY NameTableAssumption DEF Inputs

\* A candidate tells which file it is.
LEMMA OfferedIsFile ==
    ASSUME Inputs, NEW n \in ZipNames, NEW c \in Offered(n)
    PROVE  /\ c.arg \in DOMAIN zargs /\ c.pos \in DOMAIN zargs[c.arg].files
           /\ c.pos \in Nat \ {0} /\ c.arg \in Nat \ {0}
           /\ zargs[c.arg].files[c.pos].name = n /\ ~zargs[c.arg].files[c.pos].excluded
           /\ c = Candidate(c.arg, c.pos)
           /\ c # NoFile
<1>1. PICK k \in DOMAIN zargs : \E i \in Offers(k, n) : c = Candidate(k, i)
  BY DEF Offered
<1>2. PICK i \in Offers(k, n) : c = Candidate(k, i)
  BY <1>1
<1>3. c.arg = k /\ c.pos = i  BY <1>2 DEF Candidate
<1>4. i \in DOMAIN zargs[k].files /\ zargs[k].files[i].name = n /\ ~zargs[k].files[i].excluded
  BY <1>2 DEF Offers
<1>5. k \in Nat \ {0} /\ i \in Nat \ {0}  BY <1>4, ArgumentType
<1>6. c # NoFile  BY <1>3, <1>5 DEF NoFile
<1> QED BY <1>2, <1>3, <1>4, <1>5, <1>6

LEMMA OfferedType ==
    ASSUME Inputs, NEW n \in ZipNames, NEW c \in Offered(n)
    PROVE  /\ c.time \in Int /\ c.usize \in Nat /\ c.csize \in Nat
           /\ c.zip = (zargs[c.arg].kind = "zip")
           /\ c.root = IF zargs[c.arg].kind = "file" THEN zargs[c.arg].dir ELSE zargs[c.arg].path
<1>1. c.arg \in DOMAIN zargs /\ c.pos \in DOMAIN zargs[c.arg].files /\ c = Candidate(c.arg, c.pos)
  BY OfferedIsFile
<1>2. zargs[c.arg].files \in Seq(ZipFiles)  BY <1>1, ArgumentType
<1>3. zargs[c.arg].files[c.pos] \in ZipFiles  BY <1>1, <1>2
<1> DEFINE k == c.arg  i == c.pos
<1> HIDE DEF k, i
<1>4. c = Candidate(k, i)  BY <1>1 DEF k, i
<1>5. /\ c.time = zargs[k].files[i].time /\ c.usize = zargs[k].files[i].usize
      /\ c.csize = IF zargs[k].kind = "zip" THEN zargs[k].files[i].csize ELSE 0
      /\ c.zip = (zargs[k].kind = "zip")
      /\ c.root = IF zargs[k].kind = "file" THEN zargs[k].dir ELSE zargs[k].path
  BY <1>4 DEF Candidate
<1>6. zargs[k].files[i] \in ZipFiles  BY <1>3 DEF k, i
<1> QED BY <1>5, <1>6, NameTableAssumption DEF k

LEMMA FileIsOffered ==
    ASSUME Inputs, NEW k \in DOMAIN zargs, NEW i \in DOMAIN zargs[k].files,
           ~zargs[k].files[i].excluded
    PROVE  /\ zargs[k].files[i].name \in ZipNames
           /\ Candidate(k, i) \in Offered(zargs[k].files[i].name)
           /\ Candidate(k, i).arg = k /\ Candidate(k, i).pos = i
<1>1. zargs[k].files[i] \in ZipFiles  BY ArgumentType
<1>2. zargs[k].files[i].name \in ZipNames  BY <1>1, NameTableAssumption
<1>3. i \in Offers(k, zargs[k].files[i].name)  BY DEF Offers
<1>4. Candidate(k, i) \in Offered(zargs[k].files[i].name)  BY <1>3 DEF Offered
<1> QED BY <1>2, <1>4 DEF Candidate

\* They do not change.
LEMMA OfferedStays ==
    ASSUME zargs' = zargs, NEW n PROVE Offered(n)' = Offered(n)
BY DEF Offered, Offers, Candidate, Zone

LEMMA CandidatesStay == zargs' = zargs => Candidates' = Candidates
BY DEF Candidates, Offered, Offers, Candidate, Zone

---------------------------------------------------------------------------
(* One file is added.                                                      *)

\* Adding the next file of an argument keeps the relation of table and scan.
LEMMA AddKeepsTable ==
    ASSUME Inputs, TableTypeOK, TableInv, removed = {},
           NEW k \in DOMAIN zargs, NEW i \in DOMAIN zargs[k].files,
           ~zargs[k].files[i].excluded, scan[k] <= i,
           \A j \in DOMAIN zargs[k].files : scan[k] <= j => i <= j,
           nametable' = Added(k, i), scan' = [scan EXCEPT ![k] = i + 1],
           zargs' = zargs, removed' = removed, unread' = unread
    PROVE  TableInv' /\ nametable' \in [ZipNames -> Seq(Candidates')]
<1> DEFINE m == zargs[k].files[i].name
           c == Candidate(k, i)
<1>1. m \in ZipNames /\ c \in Offered(m) /\ c.arg = k /\ c.pos = i
  BY FileIsOffered
<1>2. i \in Nat \ {0} /\ k \in Nat  BY ArgumentType
<1>3. nametable' = [nametable EXCEPT ![m] = Append(@, c)]  BY DEF Added
<1>4. Candidates' = Candidates /\ c \in Candidates  BY <1>1, CandidatesStay DEF Candidates
<1> HIDE DEF m, c
<1>5. nametable \in [ZipNames -> Seq(Candidates)] /\ scan \in [DOMAIN zargs -> Nat]
  BY DEF TableTypeOK
<1>6. nametable' \in [ZipNames -> Seq(Candidates')]
  <2>1. Append(nametable[m], c) \in Seq(Candidates)  BY <1>1, <1>4, <1>5
  <2> QED BY <1>3, <1>4, <1>5, <2>1
<1>7. \A l \in DOMAIN zargs : scan'[l] \in Nat /\ scan[l] \in Nat /\ scan[l] <= scan'[l]
  BY <1>2, <1>5
<1>8. scan'[k] = i + 1 /\ \A l \in DOMAIN zargs : l # k => scan'[l] = scan[l]
  BY <1>5
<1>9. \A n \in ZipNames : n # m => nametable'[n] = nametable[n]  BY <1>3, <1>5
<1>10. nametable'[m] = Append(nametable[m], c) /\ nametable[m] \in Seq(Candidates)
  BY <1>1, <1>3, <1>5
<1>11. \A n \in ZipNames : EntriesArePassed(n) /\ EntriesDiffer(n) /\ PassedAreEntries(n)
  BY DEF TableInv
<1>12. ASSUME NEW n \in ZipNames PROVE Offered(n)' = Offered(n)  BY OfferedStays
<1>13. ASSUME NEW n \in ZipNames, NEW d \in Offered(n)
       PROVE  /\ d.arg \in DOMAIN zargs /\ d.pos \in Nat
              /\ d.pos < scan'[d.arg] => d.pos < scan[d.arg] \/ (n = m /\ d = c)
  <2>1. /\ d.arg \in DOMAIN zargs /\ d.pos \in DOMAIN zargs[d.arg].files /\ d.pos \in Nat
        /\ zargs[d.arg].files[d.pos].name = n /\ d = Candidate(d.arg, d.pos)
    BY OfferedIsFile
  <2>2. CASE d.arg # k  BY <2>1, <2>2, <1>8
  <2>3. CASE d.arg = k /\ d.pos = i  BY <2>1, <2>3 DEF m, c
  <2>4. CASE d.arg = k /\ d.pos # i
    <3>1. ~(scan[k] <= d.pos) \/ i <= d.pos  BY <2>1, <2>4
    <3> QED BY <2>1, <2>4, <3>1, <1>2, <1>7, <1>8
  <2> QED BY <2>2, <2>3, <2>4
<1>14. ASSUME NEW n \in ZipNames, n # m
       PROVE  EntriesArePassed(n)' /\ EntriesDiffer(n)' /\ PassedAreEntries(n)'
  <2>1. EntriesArePassed(n)'
    <3> SUFFICES ASSUME NEW j \in DOMAIN nametable[n]
                 PROVE  /\ nametable[n][j] \in Offered(n)
                        /\ nametable[n][j].pos < scan'[nametable[n][j].arg]
      BY <1>9, <1>12, <1>14 DEF EntriesArePassed
    <3> DEFINE d == nametable[n][j]
    <3>1. d \in Offered(n) /\ d.pos < scan[d.arg]  BY <1>11 DEF EntriesArePassed
    <3>2. d.arg \in DOMAIN zargs /\ d.pos \in Nat  BY <3>1, <1>13
    <3> HIDE DEF d
    <3>3. d.pos < scan'[d.arg]  BY <3>1, <3>2, <1>7
    <3> QED BY <3>1, <3>3 DEF d
  <2>2. EntriesDiffer(n)'  BY <1>9, <1>11, <1>14 DEF EntriesDiffer
  <2>3. PassedAreEntries(n)'
    BY <1>9, <1>11, <1>12, <1>13, <1>14 DEF PassedAreEntries, InTable
  <2> QED BY <2>1, <2>2, <2>3
<1>15. EntriesArePassed(m)' /\ EntriesDiffer(m)' /\ PassedAreEntries(m)'
  <2> DEFINE s == nametable[m]
             N == Len(s)
  <2>1. s \in Seq(Candidates) /\ N \in Nat /\ DOMAIN s = 1..N  BY <1>10
  <2>2. /\ DOMAIN nametable'[m] = 1..(N + 1)
        /\ nametable'[m][N + 1] = c
        /\ \A j \in 1..N : nametable'[m][j] = s[j]
    BY <1>10, <2>1
  <2>3. \A j \in 1..N : s[j] \in Offered(m) /\ s[j].pos < scan[s[j].arg]
    BY <1>1, <1>11, <2>1 DEF EntriesArePassed
  <2>4. \A j \in 1..N : s[j] # c
    <3> SUFFICES ASSUME NEW j \in 1..N, s[j] = c PROVE FALSE  OBVIOUS
    <3>1. i < scan[k]  BY <2>3, <1>1
    <3> QED BY <3>1, <1>2, <1>7
  <2>5. Offered(m)' = Offered(m) /\ m' = m  BY <1>1, <1>12 DEF m
  <2> HIDE DEF s, N
  <2>6. EntriesArePassed(m)'
    <3> SUFFICES ASSUME NEW j \in 1..(N + 1)
                 PROVE  /\ nametable'[m][j] \in Offered(m)
                        /\ nametable'[m][j].pos < scan'[nametable'[m][j].arg]
      BY <2>2, <2>5 DEF EntriesArePassed
    <3>1. CASE j = N + 1  BY <3>1, <2>2, <1>1, <1>2, <1>8
    <3>2. CASE j \in 1..N
      <4>1. nametable'[m][j] = s[j]  BY <2>2, <3>2
      <4>2. s[j] \in Offered(m) /\ s[j].pos < scan[s[j].arg]  BY <2>3, <3>2
      <4>3. s[j].arg \in DOMAIN zargs /\ s[j].pos \in Nat  BY <4>2, <1>1, <1>13
      <4>4. s[j].pos < scan'[s[j].arg]  BY <4>2, <4>3, <1>7
      <4> QED BY <4>1, <4>2, <4>4
    <3> QED BY <3>1, <3>2, <2>1
  <2>7. EntriesDiffer(m)'
    <3>1. \A j, l \in 1..N : s[j] = s[l] => j = l
      BY <1>1, <1>11, <2>1 DEF EntriesDiffer, s
    <3>2. ASSUME NEW j \in 1..(N + 1), NEW l \in 1..(N + 1), nametable'[m][j] = nametable'[m][l]
          PROVE  j = l
      <4>1. CASE j \in 1..N /\ l \in 1..N  BY <3>1, <3>2, <4>1, <2>2
      <4>2. CASE j = N + 1 \/ l = N + 1  BY <3>2, <4>2, <2>1, <2>2, <2>4
      <4> QED BY <4>1, <4>2, <2>1
    <3> QED BY <3>2, <2>2, <2>5 DEF EntriesDiffer
  <2>8. PassedAreEntries(m)'
    <3> SUFFICES ASSUME NEW d \in Offered(m), d.pos < scan'[d.arg]
                 PROVE  \/ \E j \in 1..(N + 1) : nametable'[m][j] = d
                        \/ unread /\ zargs[d.arg].kind = "dir"
      BY <2>2, <2>5 DEF PassedAreEntries, InTable
    <3>1. CASE d = c  BY <3>1, <2>1, <2>2
    <3>2. CASE d # c
      <4>1. d.pos < scan[d.arg]  BY <3>2, <1>1, <1>13
      <4>2. (\E j \in 1..N : s[j] = d) \/ (unread /\ zargs[d.arg].kind = "dir")
        BY <4>1, <1>1, <1>11, <2>1 DEF PassedAreEntries, InTable, s
      <4> QED BY <4>2, <2>1, <2>2
    <3> QED BY <3>1, <3>2
  <2> QED BY <2>6, <2>7, <2>8
<1>16. \A n \in ZipNames : EntriesArePassed(n)' /\ EntriesDiffer(n)' /\ PassedAreEntries(n)'
  <2>1. m' = m  BY DEF m
  <2>2. ASSUME NEW n \in ZipNames, n = m
        PROVE  EntriesArePassed(n)' /\ EntriesDiffer(n)' /\ PassedAreEntries(n)'
    BY <1>15, <2>1, <2>2 DEF EntriesArePassed, EntriesDiffer, PassedAreEntries, InTable
  <2> QED BY <1>14, <2>2
<1> QED BY <1>6, <1>16 DEF TableInv

\* So does passing a file that is not offered, or that is lost with its directory.
LEMMA SkipKeepsTable ==
    ASSUME Inputs, TableTypeOK, TableInv,
           NEW k \in DOMAIN zargs,
           nametable' = nametable, scan' = [scan EXCEPT ![k] = @ + 1],
           zargs' = zargs, removed' = removed, unread => unread',
           \/ scan[k] = 0
           \/ scan[k] \in DOMAIN zargs[k].files /\ zargs[k].files[scan[k]].excluded
           \/ unread' /\ zargs[k].kind = "dir"
    PROVE  TableInv'
<1>1. \A l \in DOMAIN zargs : scan'[l] \in Nat /\ scan[l] \in Nat /\ scan[l] <= scan'[l]
  BY DEF TableTypeOK
<1>2. scan'[k] = scan[k] + 1 /\ \A l \in DOMAIN zargs : l # k => scan'[l] = scan[l]
  BY DEF TableTypeOK
<1>3. SUFFICES ASSUME NEW n \in ZipNames
               PROVE  EntriesArePassed(n)' /\ EntriesDiffer(n)' /\ (n \in removed \/ PassedAreEntries(n)')
  BY DEF TableInv
<1>4. EntriesArePassed(n) /\ EntriesDiffer(n) /\ (n \in removed \/ PassedAreEntries(n))
  BY DEF TableInv
<1>5. Offered(n)' = Offered(n)  BY OfferedStays
<1>6. ASSUME NEW d \in Offered(n)
      PROVE  /\ d.arg \in DOMAIN zargs /\ d.pos \in Nat
             /\ d.pos < scan'[d.arg] =>
                   d.pos < scan[d.arg] \/ (unread' /\ zargs[d.arg].kind = "dir")
  <2>1. /\ d.arg \in DOMAIN zargs /\ d.pos \in Nat \ {0}
        /\ ~zargs[d.arg].files[d.pos].excluded
    BY OfferedIsFile
  <2>2. CASE d.arg # k  BY <2>1, <2>2, <1>2
  <2>3. CASE d.arg = k
    <3>1. d.pos < scan'[k] => d.pos < scan[k] \/ d.pos = scan[k]  BY <2>1, <1>1, <1>2
    <3>2. d.pos = scan[k] => unread' /\ zargs[k].kind = "dir"  BY <2>1, <2>3
    <3> QED BY <2>1, <2>3, <3>1, <3>2
  <2> QED BY <2>2, <2>3
<1>7. EntriesArePassed(n)'
  <2> SUFFICES ASSUME NEW j \in DOMAIN nametable[n]
               PROVE  /\ nametable[n][j] \in Offered(n)
                      /\ nametable[n][j].pos < scan'[nametable[n][j].arg]
    BY <1>5 DEF EntriesArePassed
  <2> DEFINE d == nametable[n][j]
  <2>1. d \in Offered(n) /\ d.pos < scan[d.arg]  BY <1>4 DEF EntriesArePassed
  <2>2. d.arg \in DOMAIN zargs /\ d.pos \in Nat  BY <2>1, <1>6
  <2> HIDE DEF d
  <2>3. d.pos < scan'[d.arg]  BY <2>1, <2>2, <1>1
  <2> QED BY <2>1, <2>3 DEF d
<1>8. EntriesDiffer(n)'  BY <1>4 DEF EntriesDiffer
<1>9. n \in removed \/ PassedAreEntries(n)'
  BY <1>4, <1>5, <1>6 DEF PassedAreEntries, InTable
<1> QED BY <1>7, <1>8, <1>9

\* And so do steps that leave both alone.
LEMMA RestKeepsTable ==
    ASSUME TableInv, nametable' = nametable, scan' = scan, zargs' = zargs, removed' = removed,
           unread => unread'
    PROVE  TableInv'
<1> SUFFICES ASSUME NEW n \in ZipNames
             PROVE  EntriesArePassed(n)' /\ EntriesDiffer(n)' /\ (n \in removed \/ PassedAreEntries(n)')
  BY DEF TableInv
<1>1. EntriesArePassed(n) /\ EntriesDiffer(n) /\ (n \in removed \/ PassedAreEntries(n))
  BY DEF TableInv
<1>2. Offered(n)' = Offered(n)  BY OfferedStays
<1> QED BY <1>1, <1>2 DEF EntriesArePassed, EntriesDiffer, PassedAreEntries, InTable

---------------------------------------------------------------------------
(* The choice.                                                             *)

\* When sources are chosen the table has what is offered, unless something could not
\* be read.
LEMMA TableIsOffered ==
    ASSUME NameTableInv, zpc \in {"delete", "choose", "done"}, NEW n \in ZipNames, n \notin removed
    PROVE  /\ nametable[n] \in Seq(Candidates)
           /\ DOMAIN nametable[n] = 1..Len(nametable[n]) /\ Len(nametable[n]) \in Nat
           /\ \A i \in DOMAIN nametable[n] : nametable[n][i] \in Offered(n)
           /\ \A i, j \in DOMAIN nametable[n] : nametable[n][i] = nametable[n][j] => i = j
           /\ \A c \in Offered(n) : InTable(n, c) \/ (unread /\ zargs[c.arg].kind = "dir")
<1>1. nametable[n] \in Seq(Candidates)  BY DEF NameTableInv, TableTypeOK
<1>2. EntriesArePassed(n) /\ EntriesDiffer(n) /\ PassedAreEntries(n)
  BY DEF NameTableInv, TableInv
<1>3. ASSUME NEW c \in Offered(n) PROVE c.pos < scan[c.arg]
  <2>1. c.arg \in DOMAIN zargs /\ c.pos \in DOMAIN zargs[c.arg].files
    BY OfferedIsFile DEF NameTableInv
  <2>2. scan[c.arg] > Len(zargs[c.arg].files) /\ scan[c.arg] \in Nat
    BY <2>1 DEF NameTableInv, ScanInv, TableTypeOK
  <2>3. DOMAIN zargs[c.arg].files = 1..Len(zargs[c.arg].files) /\ Len(zargs[c.arg].files) \in Nat
    BY <2>1, ArgumentType DEF NameTableInv
  <2> QED BY <2>1, <2>2, <2>3
<1> QED BY <1>1, <1>2, <1>3 DEF EntriesArePassed, EntriesDiffer, PassedAreEntries

LEMMA PendingFiles ==
    ASSUME NameTableInv, zpc = "choose", NEW n \in Pending
    PROVE  /\ n \in ZipNames /\ n \notin removed
           /\ Len(nametable[n]) \in Nat \ {0} /\ DOMAIN nametable[n] = 1..Len(nametable[n])
           /\ \A i \in DOMAIN nametable[n] :
                 /\ nametable[n][i] \in Offered(n)
                 /\ nametable[n][i].time \in Int /\ nametable[n][i].csize \in Nat
<1>1. n \in ZipNames /\ nametable[n] # <<>>  BY DEF Pending
<1>2. n \notin removed  BY <1>1 DEF NameTableInv, RemovedInv
<1>3. /\ nametable[n] \in Seq(Candidates)
      /\ DOMAIN nametable[n] = 1..Len(nametable[n]) /\ Len(nametable[n]) \in Nat
      /\ \A i \in DOMAIN nametable[n] : nametable[n][i] \in Offered(n)
  BY <1>1, <1>2, TableIsOffered
<1>4. Len(nametable[n]) # 0  BY <1>1, <1>3
<1>5. \A i \in DOMAIN nametable[n] : nametable[n][i].time \in Int /\ nametable[n][i].csize \in Nat
  BY <1>1, <1>3, OfferedType DEF NameTableInv
<1> QED BY <1>1, <1>2, <1>3, <1>4, <1>5

\* What is found for an argument is a candidate under its path.
LEMMA ByArgumentFiles ==
    ASSUME NameTableInv, zpc = "choose", NEW n \in Pending
    PROVE  /\ DOMAIN ByArgument(n) = {k \in DOMAIN zargs : WithRoot(n, k) # {}}
           /\ DOMAIN ByArgument(n) \subseteq 1..Len(zargs) /\ Len(zargs) \in Nat
           /\ \A k \in DOMAIN ByArgument(n) : ByArgument(n)[k] \in FoundAt(n, k)
<1>1. /\ DOMAIN nametable[n] = 1..Len(nametable[n]) /\ Len(nametable[n]) \in Nat
      /\ \A i \in DOMAIN nametable[n] : nametable[n][i] \in Offered(n)
  BY PendingFiles
<1>2. DOMAIN ByArgument(n) = {k \in DOMAIN zargs : WithRoot(n, k) # {}}
  BY DEF ByArgument
<1>3. DOMAIN zargs = 1..Len(zargs) /\ Len(zargs) \in Nat  BY DEF NameTableInv, Inputs
<1>4. ASSUME NEW k \in DOMAIN zargs, WithRoot(n, k) # {}
      PROVE  ByArgument(n)[k] \in FoundAt(n, k)
  <2> DEFINE i == Min(WithRoot(n, k))
  <2>1. WithRoot(n, k) \in SUBSET Nat  BY <1>1 DEF WithRoot
  <2>2. i \in WithRoot(n, k)  BY <1>4, <2>1, MinIsLeast
  <2>3. ByArgument(n)[k] = nametable[n][i]  BY <1>4 DEF ByArgument
  <2> QED BY <1>1, <2>2, <2>3 DEF WithRoot, FoundAt
<1> QED BY <1>2, <1>3, <1>4

\* Every source is offered for its name.
LEMMA ChoiceIsOffered ==
    ASSUME NameTableInv, zpc = "choose", NEW n \in Pending
    PROVE  /\ ChooseFromNoCRC(nametable[n]) \in Offered(n)
           /\ DOMAIN ByArgument(n) # {} =>
                 \A bad : ChooseFromLast(ByArgument(n), bad) \in Offered(n)
           /\ \A bad : Range(nametable[n]) \ bad # {} =>
                 \A c \in ChooseFrom(nametable[n], bad) : c \in Offered(n)
<1> DEFINE s == nametable[n]
           N == Len(s)
<1>1. /\ N \in Nat \ {0} /\ DOMAIN s = 1..N
      /\ \A i \in 1..N : s[i] \in Offered(n) /\ s[i].time \in Int
  BY PendingFiles
<1>2. ChooseFromNoCRC(s) \in Offered(n)
  <2> HIDE DEF s, N
  <2>1. \E i \in 1..N : First(DiffCRCLess, s, DOMAIN s) = s[i]  BY <1>1, FirstIsNewest
  <2> QED BY <1>1, <2>1 DEF ChooseFromNoCRC
<1>3. ASSUME DOMAIN ByArgument(n) # {}, NEW bad
      PROVE  ChooseFromLast(ByArgument(n), bad) \in Offered(n)
  <2> DEFINE f == ByArgument(n)
  <2>1. /\ DOMAIN f \subseteq 1..Len(zargs) /\ Len(zargs) \in Nat
        /\ \A k \in DOMAIN f : f[k] \in FoundAt(n, k)
    BY ByArgumentFiles
  <2>2. DOMAIN f # {}  BY <1>3
  <2> HIDE DEF f
  <2>3. PICK l \in DOMAIN f : ChooseFromLast(f, bad) = f[l]  BY <2>1, <2>2, ChoiceOfLast
  <2> QED BY <2>1, <2>3 DEF FoundAt, f
<1>4. ASSUME NEW bad, Range(s) \ bad # {}, NEW c \in ChooseFrom(s, bad)
      PROVE  c \in Offered(n)
  <2>1. \A i \in 1..N : s[i].time \in Int  BY <1>1
  <2>2. Len(s) = N  OBVIOUS
  <2>3. \E i \in 1..N : c = s[i]
    <3> HIDE DEF s, N
    <3> QED BY <1>1, <1>4, <2>1, <2>2, ChoiceIsFile
  <2> QED BY <1>1, <2>3
<1> QED BY <1>2, <1>3, <1>4

---------------------------------------------------------------------------
(* The invariant is inductive.                                             *)

LEMMA NameTableStarts ==
    ASSUME Inputs, zmode \in {"crc", "nocrc", "last"}, zdelete \in BOOLEAN, NameTableStart
    PROVE  NameTableInv
<1>1. zargs \in Seq(Arguments) /\ Len(zargs) \in Nat /\ DOMAIN zargs = 1..Len(zargs)
  BY DEF Inputs
<1>2. TableTypeOK
  <2>1. <<>> \in Seq(Candidates)  OBVIOUS
  <2>2. nametable \in [ZipNames -> Seq(Candidates)]  BY <2>1 DEF NameTableStart
  <2>3. chosen \in [ZipNames -> Candidates \union {NoFile}]  BY DEF NameTableStart
  <2>4. scan \in [DOMAIN zargs -> Nat]  BY DEF NameTableStart
  <2>5. argno \in 1..(Len(zargs) + 1)  BY <1>1 DEF NameTableStart
  <2> QED BY <2>2, <2>3, <2>4, <2>5 DEF TableTypeOK, NameTableStart
<1>3. ScanInv  BY DEF ScanInv, NameTableStart
<1>4. TableInv
  <2> SUFFICES ASSUME NEW n \in ZipNames
               PROVE  EntriesArePassed(n) /\ EntriesDiffer(n) /\ PassedAreEntries(n)
    BY DEF TableInv
  <2>1. nametable[n] = <<>> /\ DOMAIN nametable[n] = {}  BY DEF NameTableStart
  <2>2. ASSUME NEW c \in Offered(n) PROVE ~(c.pos < scan[c.arg])
    <3>1. c.arg \in DOMAIN zargs /\ c.pos \in Nat \ {0}  BY OfferedIsFile
    <3>2. scan[c.arg] = 0  BY <3>1 DEF NameTableStart
    <3> QED BY <3>1, <3>2
  <2> QED BY <2>1, <2>2 DEF EntriesArePassed, EntriesDiffer, PassedAreEntries
<1>5. RemovedInv  BY DEF RemovedInv, NameTableStart
<1> QED BY <1>2, <1>3, <1>4, <1>5 DEF NameTableInv

\* A step in which only zpc, chosen and unread change.
LEMMA ChoosingKeepsInv ==
    ASSUME NameTableInv, UNCHANGED <<zargs, zmode, zdelete, argno, scan, nametable, removed>>,
           (zpc = "choose" /\ zpc' \in {"choose", "done"}) \/ zpc' = "crashed" \/ zpc' = zpc,
           chosen' \in [ZipNames -> Candidates \union {NoFile}], unread' \in BOOLEAN,
           unread => unread'
    PROVE  NameTableInv'
<1>1. Inputs'  BY DEF NameTableInv, Inputs
<1>2. Candidates' = Candidates  BY CandidatesStay
<1>3. TableTypeOK'
  BY <1>2 DEF NameTableInv, TableTypeOK, NoFile
<1>4. ScanInv'  BY DEF NameTableInv, ScanInv
<1>5. TableInv'  BY RestKeepsTable DEF NameTableInv
<1>6. RemovedInv'  BY DEF NameTableInv, RemovedInv
<1> QED BY <1>1, <1>3, <1>4, <1>5, <1>6 DEF NameTableInv

LEMMA NameTableStep == NameTableInv /\ [NameTableNext]_nameTableVars => NameTableInv'
<1> SUFFICES ASSUME NameTableInv, [NameTableNext]_nameTableVars PROVE NameTableInv'
  OBVIOUS
<1> USE DEF zipOptions, scanVars
<1>1. Inputs /\ TableTypeOK /\ ScanInv /\ TableInv /\ RemovedInv  BY DEF NameTableInv
<1>2. Len(zargs) \in Nat /\ DOMAIN zargs = 1..Len(zargs)  BY <1>1 DEF Inputs
<1>3. CASE StartScan \/ SkipArg
  <2>1. /\ argno \in DOMAIN zargs /\ zpc = "args" /\ argno' = argno + 1
        /\ scan' = [scan EXCEPT ![argno] = 1]
        /\ UNCHANGED <<zargs, zmode, zdelete, zpc, nametable, removed, chosen, unread>>
    BY <1>1, <1>2, <1>3 DEF StartScan, SkipArg, AtArg, TableTypeOK
  <2>2. scan[argno] = 0 /\ scan' = [scan EXCEPT ![argno] = @ + 1]
    <3>1. scan[argno] = 0  BY <2>1, <1>1 DEF ScanInv, TableTypeOK
    <3>2. scan' = [scan EXCEPT ![argno] = 0 + 1]  BY <2>1
    <3> QED BY <3>1, <3>2
  <2>3. TableInv'  BY <1>1, <2>1, <2>2, SkipKeepsTable
  <2>4. Inputs' /\ Candidates' = Candidates  BY <1>1, <2>1, CandidatesStay DEF Inputs
  <2>5. TableTypeOK'
    BY <1>1, <1>2, <2>1, <2>4 DEF TableTypeOK
  <2>6. ScanInv' /\ RemovedInv'
    BY <1>1, <1>2, <2>1 DEF TableTypeOK, ScanInv, RemovedInv
  <2> QED BY <2>3, <2>4, <2>5, <2>6 DEF NameTableInv
<1>4. CASE AddSingleFile
  <2>1. /\ argno \in DOMAIN zargs /\ scan[argno] = 0 /\ removed = {}
        /\ zargs' = zargs /\ removed' = removed /\ unread' = unread /\ zpc' = zpc
        /\ nametable' = Added(argno, 1) /\ scan' = [scan EXCEPT ![argno] = 2]
        /\ argno' = argno + 1 /\ chosen' = chosen /\ zmode' = zmode /\ zdelete' = zdelete
        /\ zargs[argno].kind = "file" /\ zpc = "args"
    BY <1>1, <1>2, <1>4 DEF AddSingleFile, AtArg, Arg, TableTypeOK, ScanInv, RemovedInv
  <2>2. zargs[argno] \in Arguments  BY <2>1, <1>1, ArgumentType
  <2>3. 1 \in DOMAIN zargs[argno].files /\ ~zargs[argno].files[1].excluded
        /\ DOMAIN zargs[argno].files = {1}
    BY <2>1, <2>2, NameTableAssumption
  <2>4. TableInv' /\ nametable' \in [ZipNames -> Seq(Candidates')]
    <3>1. scan' = [scan EXCEPT ![argno] = 1 + 1]  BY <2>1
    <3>2. scan[argno] <= 1 /\ \A j \in DOMAIN zargs[argno].files : scan[argno] <= j => 1 <= j
      BY <2>1, <2>3
    <3> QED BY <1>1, <2>1, <2>3, <3>1, <3>2, AddKeepsTable
  <2>5. Inputs' /\ Candidates' = Candidates  BY <1>1, <2>1, CandidatesStay DEF Inputs
  <2>6. TableTypeOK'
    BY <1>1, <1>2, <2>1, <2>4, <2>5 DEF TableTypeOK, NoFile
  <2>7. ScanInv' /\ RemovedInv'
    BY <1>1, <1>2, <2>1 DEF TableTypeOK, ScanInv, RemovedInv
  <2> QED BY <2>4, <2>5, <2>6, <2>7 DEF NameTableInv
<1>5. CASE BadArg
  <2>1. unread' = TRUE /\ zpc' = "crashed" /\ chosen' = chosen
        /\ UNCHANGED <<zargs, zmode, zdelete, argno, scan, nametable, removed>>
    BY <1>5 DEF BadArg, Crash
  <2> QED BY <1>1, <2>1, ChoosingKeepsInv DEF TableTypeOK
<1>6. ASSUME NEW k \in DOMAIN zargs, ScanFile(k) PROVE NameTableInv'
  <2>1. /\ zpc = "args" /\ scan[k] # 0 /\ scan[k] <= Len(zargs[k].files)
    BY <1>1, <1>6, ArgumentType DEF ScanFile, Scanning, ScanInv, TableTypeOK
  <2>2. scan[k] \in DOMAIN zargs[k].files /\ scan[k] \in Nat /\ argno > k
    BY <1>1, <1>2, <2>1, ArgumentType DEF TableTypeOK, ScanInv
  <2>3. /\ ~zargs[k].files[scan[k]].excluded /\ removed = {}
        /\ nametable' = Added(k, scan[k]) /\ scan' = [scan EXCEPT ![k] = scan[k] + 1]
        /\ UNCHANGED <<zargs, zmode, zdelete, zpc, argno, removed, chosen, unread>>
    BY <1>1, <1>6, <2>1 DEF ScanFile, ThisFile, RemovedInv
  <2>4. TableInv' /\ nametable' \in [ZipNames -> Seq(Candidates')]
    <3>1. scan[k] <= scan[k] /\ \A j \in DOMAIN zargs[k].files : scan[k] <= j => scan[k] <= j
      BY <2>2
    <3> QED BY <1>1, <2>2, <2>3, <3>1, AddKeepsTable
  <2>5. Inputs' /\ Candidates' = Candidates  BY <1>1, <2>3, CandidatesStay DEF Inputs
  <2>6. TableTypeOK'
    BY <1>1, <1>2, <2>2, <2>3, <2>4, <2>5 DEF TableTypeOK, NoFile
  <2>7. ScanInv' /\ RemovedInv'
    BY <1>1, <1>2, <2>1, <2>2, <2>3 DEF TableTypeOK, ScanInv, RemovedInv
  <2> QED BY <2>4, <2>5, <2>6, <2>7 DEF NameTableInv
<1>7. ASSUME NEW k \in DOMAIN zargs, ScanSkips(k) \/ ScanUnreadable(k) PROVE NameTableInv'
  <2>1. zpc = "args" /\ scan[k] # 0 /\ scan[k] <= Len(zargs[k].files)
    BY <1>1, <1>7, ArgumentType DEF ScanSkips, ScanUnreadable, Scanning, ScanInv, TableTypeOK
  <2>2. scan[k] \in DOMAIN zargs[k].files /\ scan[k] \in Nat /\ argno > k
    BY <1>1, <1>2, <2>1, ArgumentType DEF TableTypeOK, ScanInv
  <2>3. /\ scan' = [scan EXCEPT ![k] = @ + 1] /\ unread' \in BOOLEAN /\ (unread => unread')
        /\ UNCHANGED <<zargs, zmode, zdelete, zpc, argno, nametable, removed, chosen>>
        /\ zargs[k].files[scan[k]].excluded \/ (unread' /\ zargs[k].kind = "dir")
    BY <1>1, <1>7 DEF ScanSkips, ScanUnreadable, ThisFile, TableTypeOK
  <2>4. TableInv'  BY <1>1, <2>2, <2>3, SkipKeepsTable
  <2>5. Inputs' /\ Candidates' = Candidates  BY <1>1, <2>3, CandidatesStay DEF Inputs
  <2>6. TableTypeOK'
    BY <1>1, <1>2, <2>2, <2>3, <2>5 DEF TableTypeOK, NoFile
  <2>7. ScanInv' /\ RemovedInv'
    BY <1>1, <1>2, <2>1, <2>2, <2>3 DEF TableTypeOK, ScanInv, RemovedInv
  <2> QED BY <2>4, <2>5, <2>6, <2>7 DEF NameTableInv
<1>8. ASSUME NEW k \in DOMAIN zargs, ScanVanished(k) PROVE NameTableInv'
  <2>1. unread' = TRUE /\ zpc' = "crashed" /\ chosen' = chosen
        /\ UNCHANGED <<zargs, zmode, zdelete, argno, scan, nametable, removed>>
    BY <1>8 DEF ScanVanished, Crash
  <2> QED BY <1>1, <2>1, ChoosingKeepsInv DEF TableTypeOK
<1>9. CASE WaitScans
  <2>1. /\ zpc = "args" /\ zpc' = "delete" /\ \A k \in DOMAIN zargs : scan[k] > Len(zargs[k].files)
        /\ UNCHANGED <<zargs, zmode, zdelete, argno, scan, nametable, removed, chosen, unread>>
    BY <1>9 DEF WaitScans
  <2>2. TableInv'  BY <1>1, <2>1, RestKeepsTable
  <2>3. Inputs' /\ Candidates' = Candidates  BY <1>1, <2>1, CandidatesStay DEF Inputs
  <2>4. TableTypeOK' /\ ScanInv' /\ RemovedInv'
    BY <1>1, <2>1, <2>3 DEF TableTypeOK, ScanInv, RemovedInv, NoFile
  <2> QED BY <2>2, <2>3, <2>4 DEF NameTableInv
<1>10. CASE DeleteGone
  <2>1. /\ zpc = "delete" /\ zpc' = "choose" /\ removed' = {n \in ZipNames : Gone(n)}
        /\ nametable' = [n \in ZipNames |-> IF Gone(n) THEN <<>> ELSE nametable[n]]
        /\ UNCHANGED <<zargs, zmode, zdelete, argno, scan, chosen, unread>>
    BY <1>10 DEF DeleteGone
  <2>2. Inputs' /\ Candidates' = Candidates  BY <1>1, <2>1, CandidatesStay DEF Inputs
  <2>3. nametable' \in [ZipNames -> Seq(Candidates)]
    BY <1>1, <2>1 DEF TableTypeOK
  <2>4. TableTypeOK' /\ ScanInv' /\ RemovedInv'
    <3>1. TableTypeOK'  BY <1>1, <2>1, <2>2, <2>3 DEF TableTypeOK, NoFile
    <3>2. ScanInv'  BY <1>1, <2>1 DEF ScanInv
    <3>3. RemovedInv'  BY <2>1 DEF RemovedInv
    <3> QED BY <3>1, <3>2, <3>3
  <2>5. removed = {}  BY <1>1, <2>1 DEF RemovedInv
  <2>6. ASSUME NEW n \in ZipNames
        PROVE  EntriesArePassed(n)' /\ EntriesDiffer(n)' /\ (n \in removed' \/ PassedAreEntries(n)')
    <3>1. EntriesArePassed(n) /\ EntriesDiffer(n) /\ PassedAreEntries(n)
      BY <1>1, <2>5 DEF TableInv
    <3>2. Offered(n)' = Offered(n)  BY <2>1, OfferedStays
    <3>3. CASE Gone(n)
      <4>1. n \in removed' /\ nametable'[n] = <<>> /\ DOMAIN nametable'[n] = {}  BY <2>1, <3>3
      <4> QED BY <4>1 DEF EntriesArePassed, EntriesDiffer
    <3>4. CASE ~Gone(n)
      <4>1. nametable'[n] = nametable[n] /\ scan' = scan /\ zargs' = zargs /\ unread' = unread
        BY <2>1, <3>4
      <4> QED BY <3>1, <3>2, <4>1 DEF EntriesArePassed, EntriesDiffer, PassedAreEntries, InTable
    <3> QED BY <3>3, <3>4
  <2>7. TableInv'  BY <2>6 DEF TableInv
  <2> QED BY <2>2, <2>4, <2>7 DEF NameTableInv
<1>11. ASSUME NEW n \in ZipNames, ChooseNewest(n) \/ ChooseLast(n) \/ ChooseByContent(n)
       PROVE  NameTableInv'
  <2>1. /\ zpc = "choose" /\ zpc' = zpc /\ n \in Pending
        /\ UNCHANGED <<zargs, zmode, zdelete, argno, scan, nametable, removed>>
    BY <1>11 DEF ChooseNewest, ChooseLast, ChooseByContent, Choose
  <2>2. unread' \in BOOLEAN /\ (unread => unread')
    <3>1. unread \in BOOLEAN  BY <1>1 DEF TableTypeOK
    <3>2. unread' = unread \/ \E bad : unread' = (unread \/ bad # {})
      BY <1>11, Zenon DEF ChooseNewest, ChooseLast, ChooseByContent
    <3>3. CASE unread' = unread  BY <3>1, <3>3
    <3>4. ASSUME NEW bad, unread' = (unread \/ bad # {}) PROVE unread' \in BOOLEAN /\ (unread => unread')
      BY <3>4, Zenon
    <3> QED BY <3>2, <3>3, <3>4
  <2>3. PICK c \in Offered(n) : chosen' = [chosen EXCEPT ![n] = c]
    BY <1>11, <2>1, ChoiceIsOffered DEF ChooseNewest, ChooseLast, ChooseByContent, Choose
  <2>4. chosen' \in [ZipNames -> Candidates \union {NoFile}]
    BY <1>1, <2>3 DEF TableTypeOK, Candidates
  <2> QED BY <2>1, <2>2, <2>4, ChoosingKeepsInv
<1>12. ASSUME NEW n \in ZipNames, ContentUnknown(n) \/ NoArgument(n) PROVE NameTableInv'
  <2>1. /\ zpc' = "crashed" /\ chosen' = chosen /\ (unread' = TRUE \/ unread' = unread)
        /\ UNCHANGED <<zargs, zmode, zdelete, argno, scan, nametable, removed>>
    BY <1>12 DEF ContentUnknown, NoArgument, Crash
  <2> QED BY <1>1, <2>1, ChoosingKeepsInv DEF TableTypeOK
<1>13. CASE AllChosen
  <2>1. /\ zpc = "choose" /\ zpc' = "done" /\ chosen' = chosen /\ unread' = unread
        /\ UNCHANGED <<zargs, zmode, zdelete, argno, scan, nametable, removed>>
    BY <1>13 DEF AllChosen
  <2> QED BY <1>1, <2>1, ChoosingKeepsInv DEF TableTypeOK
<1>14. CASE UNCHANGED nameTableVars
  <2>1. /\ zpc' = zpc /\ chosen' = chosen /\ unread' = unread
        /\ UNCHANGED <<zargs, zmode, zdelete, argno, scan, nametable, removed>>
    BY <1>14 DEF nameTableVars
  <2> QED BY <1>1, <2>1, ChoosingKeepsInv DEF TableTypeOK
<1> QED
  BY <1>3, <1>4, <1>5, <1>6, <1>7, <1>8, <1>9, <1>10, <1>11, <1>12, <1>13, <1>14 DEF NameTableNext

---------------------------------------------------------------------------
(* What is chosen, when everything could be read.                          *)

LEMMA AllAreEntries ==
    ASSUME NameTableInv, zpc = "choose", NEW n \in Pending, ~unread, NEW c \in Offered(n)
    PROVE  \E i \in DOMAIN nametable[n] : nametable[n][i] = c
BY PendingFiles, TableIsOffered DEF InTable

NewestOf(n, c) == c \in Offered(n) /\ \A d \in Offered(n) : d.time <= c.time

LastOf(n, c) ==
    (\A d, e \in Offered(n) : d.root = e.root => d = e)
    => \E k, l \in DOMAIN zargs :
          /\ \E d \in FoundAt(n, k) : d.crc = c.crc
          /\ \A m \in DOMAIN zargs : m > k => FoundAt(n, m) = {}
          /\ c \in FoundAt(n, l)
          /\ \A m \in DOMAIN zargs : m < l => \A d \in FoundAt(n, m) : d.crc # c.crc

ContentOf(n, c) ==
    (\A d, e \in Offered(n) : d # e => d.time # e.time)
    => c \in Best(n) /\ \A d \in Best(n) : d.time <= c.time

LEMMA NewestOffered ==
    ASSUME NameTableInv, zpc = "choose", NEW n \in Pending, ~unread
    PROVE  NewestOf(n, ChooseFromNoCRC(nametable[n]))
<1> DEFINE s == nametable[n]
           N == Len(s)
<1>1. /\ N \in Nat \ {0} /\ DOMAIN s = 1..N
      /\ \A i \in 1..N : s[i] \in Offered(n) /\ s[i].time \in Int
  BY PendingFiles
<1>2. \A d \in Offered(n) : \E i \in 1..N : s[i] = d
  BY <1>1, AllAreEntries
<1> HIDE DEF s, N
<1>3. PICK i \in 1..N : /\ First(DiffCRCLess, s, DOMAIN s) = s[i]
                        /\ \A j \in 1..N : s[j].time <= s[i].time
  BY <1>1, FirstIsNewest
<1>4. NewestOf(n, ChooseFromNoCRC(s))
  BY <1>1, <1>2, <1>3 DEF NewestOf, ChooseFromNoCRC
<1> QED BY <1>4 DEF s

LEMMA LastOffered ==
    ASSUME NameTableInv, zpc = "choose", NEW n \in Pending, ~unread, DOMAIN ByArgument(n) # {}
    PROVE  LastOf(n, ChooseFromLast(ByArgument(n), {}))
<1> DEFINE f == ByArgument(n)
<1>1. /\ DOMAIN f = {k \in DOMAIN zargs : WithRoot(n, k) # {}}
      /\ DOMAIN f \subseteq 1..Len(zargs) /\ Len(zargs) \in Nat
      /\ \A k \in DOMAIN f : f[k] \in FoundAt(n, k)
  BY ByArgumentFiles
<1>2. DOMAIN f # {}  OBVIOUS
<1>3. ASSUME NEW m \in DOMAIN zargs, FoundAt(n, m) # {} PROVE m \in DOMAIN f
  <2>1. PICK d \in FoundAt(n, m) : TRUE  BY <1>3
  <2>2. d \in Offered(n) /\ d.root = zargs[m].path  BY <2>1 DEF FoundAt
  <2>3. PICK i \in DOMAIN nametable[n] : nametable[n][i] = d  BY <2>2, AllAreEntries
  <2>4. i \in WithRoot(n, m)  BY <2>2, <2>3 DEF WithRoot
  <2> QED BY <1>1, <2>4
<1> HIDE DEF f
<1> DEFINE none == {}
<1> HIDE DEF none
<1>4. PICK k, l \in DOMAIN f :
         /\ \A m \in DOMAIN f : m <= k
         /\ ChooseFromLast(f, {}) = f[l]
         /\ f[l].crc = f[k].crc
         /\ \A m \in DOMAIN f : m < l => f[m].crc # f[k].crc
  <2>1. \E k, l \in DOMAIN f :
           /\ \A m \in DOMAIN f : m <= k
           /\ ChooseFromLast(f, none) = f[l]
           /\ f[k] \notin none =>
                 /\ f[l].crc = f[k].crc
                 /\ \A m \in DOMAIN f : m < l /\ f[m] \notin none => f[m].crc # f[k].crc
    <3> DEFINE N == Len(zargs)
    <3>1. N \in Nat /\ DOMAIN f \subseteq 1..N  BY <1>1
    <3> HIDE DEF N
    <3> QED BY <3>1, <1>2, ChoiceOfLast
  <2> QED BY <2>1 DEF none
<1>5. ASSUME \A d, e \in Offered(n) : d.root = e.root => d = e
      PROVE  /\ \E d \in FoundAt(n, k) : d.crc = f[l].crc
             /\ \A m \in DOMAIN zargs : m > k => FoundAt(n, m) = {}
             /\ f[l] \in FoundAt(n, l)
             /\ \A m \in DOMAIN zargs : m < l => \A d \in FoundAt(n, m) : d.crc # f[l].crc
  <2>1. \E d \in FoundAt(n, k) : d.crc = f[l].crc  BY <1>1, <1>4
  <2>2. ASSUME NEW m \in DOMAIN zargs, m > k, FoundAt(n, m) # {} PROVE FALSE
    <3>1. m \in DOMAIN f  BY <1>3, <2>2
    <3>2. m <= k /\ m \in Nat /\ k \in Nat  BY <1>1, <1>4, <3>1
    <3> QED BY <2>2, <3>2
  <2>3. ASSUME NEW m \in DOMAIN zargs, m < l, NEW d \in FoundAt(n, m) PROVE d.crc # f[l].crc
    <3>1. m \in DOMAIN f  BY <1>3, <2>3
    <3>2. f[m] \in Offered(n) /\ d \in Offered(n) /\ f[m].root = d.root
      BY <1>1, <2>3, <3>1 DEF FoundAt
    <3>3. d = f[m]  BY <1>5, <3>2
    <3> QED BY <1>4, <2>3, <3>1, <3>3
  <2> QED BY <1>1, <2>1, <2>2, <2>3
<1>6. k \in DOMAIN zargs /\ l \in DOMAIN zargs  BY <1>1
<1>7. LastOf(n, ChooseFromLast(f, {}))
  BY <1>4, <1>5, <1>6 DEF LastOf
<1> QED BY <1>7 DEF f

LEMMA BestOffered ==
    ASSUME NameTableInv, zpc = "choose", NEW n \in Pending, ~unread,
           NEW c \in ChooseFrom(nametable[n], {})
    PROVE  ContentOf(n, c)
<1> DEFINE s == nametable[n]
           N == Len(s)
           Group(r) == {i \in {j \in DOMAIN s : s[j] \notin {}} : s[i].crc = r}
           heads == GroupHeads(s, {})
<1>1. /\ N \in Nat \ {0} /\ DOMAIN s = 1..N
      /\ \A i \in 1..N : s[i] \in Offered(n) /\ s[i].time \in Int /\ s[i].csize \in Nat
  BY PendingFiles
<1>2. \A d \in Offered(n) : \E i \in 1..N : s[i] = d
  BY <1>1, AllAreEntries
<1>3. \A i, j \in 1..N : s[i] = s[j] => i = j
  BY <1>1, PendingFiles, TableIsOffered
<1>4. heads = {First(SameCRCLess, s, Group(r)) : r \in {s[i].crc : i \in {j \in DOMAIN s : s[j] \notin {}}}}
  BY DEF GroupHeads
<1>5. c \in IF N = 1 THEN {s[1]}
            ELSE {First(DiffCRCLess, p, DOMAIN p) : p \in Bijection(1..Cardinality(heads), heads)}
  BY DEF ChooseFrom
<1>6. IsFiniteSet(heads) /\ heads # {} /\ \A h \in heads : \E i \in 1..N : h = s[i]
  <2>1. 1 \in 1..N /\ s[1] \notin {}  BY <1>1
  <2> HIDE DEF s, N
  <2> QED BY <1>1, <2>1, HeadsAreFiles
<1> SUFFICES ASSUME \A d, e \in Offered(n) : d # e => d.time # e.time
             PROVE  c \in Best(n) /\ \A d \in Best(n) : d.time <= c.time
  BY DEF ContentOf
<1>7. ASSUME NEW r, Group(r) # {}
      PROVE  First(SameCRCLess, s, Group(r)) \in Best(n) /\ First(SameCRCLess, s, Group(r)).crc = r
  <2> DEFINE I == Group(r)
  <2>1. I \in SUBSET (1..N) /\ I # {}  BY <1>1, <1>7
  <2>2. \A i \in I : s[i].time \in Int /\ s[i].csize \in Nat  BY <1>1
  <2>3. \A i, j \in I : i # j => s[i].time # s[j].time  BY <1>1, <1>3
  <2>4. PICK i \in I : /\ First(SameCRCLess, s, I) = s[i]
                       /\ \A j \in I \ {i} : Better(s[i], s[j])
    <3> HIDE DEF I, s, N
    <3> QED BY <1>1, <2>1, <2>2, <2>3, FirstIsBest
  <2>5. s[i] \in Offered(n) /\ s[i].crc = r  BY <1>1
  <2>6. ASSUME NEW d \in Offered(n) \ {s[i]}, d.crc = r PROVE Better(s[i], d)
    <3>1. PICK j \in 1..N : s[j] = d  BY <1>2
    <3>2. j \in I \ {i}  BY <1>1, <2>6, <3>1
    <3> QED BY <2>4, <3>1, <3>2
  <2> QED BY <2>4, <2>5, <2>6 DEF Best
<1>8. heads \subseteq Best(n)  BY <1>4, <1>7
<1>9. ASSUME NEW d \in Best(n) PROVE d \in heads
  <2>1. d \in Offered(n)  BY DEF Best
  <2>2. PICK j \in 1..N : s[j] = d  BY <1>2, <2>1
  <2>3. j \in Group(d.crc)  BY <1>1, <2>2
  <2> DEFINE h == First(SameCRCLess, s, Group(d.crc))
  <2>4. h \in Best(n) /\ h.crc = d.crc  BY <1>7, <2>3
  <2>5. h \in heads  BY <1>1, <1>4, <2>2
  <2> HIDE DEF h
  <2>6. ASSUME h # d PROVE FALSE
    <3>1. Better(h, d) /\ Better(d, h)  BY <2>1, <2>4, <2>6 DEF Best
    <3>2. h \in Offered(n)  BY <2>4 DEF Best
    <3>3. h.time \in Int /\ d.time \in Int /\ h.csize \in Nat /\ d.csize \in Nat /\ h.time # d.time
      BY <1>1, <1>2, <2>1, <2>6, <3>2
    <3> QED BY <3>1, <3>3 DEF Better
  <2> QED BY <2>5, <2>6
<1>10. CASE N = 1
  <2>1. c = s[1] /\ Offered(n) = {s[1]}  BY <1>1, <1>2, <1>5, <1>10
  <2>2. c.time \in Int  BY <1>1, <2>1
  <2> QED BY <2>1, <2>2 DEF Best
<1>11. CASE N # 1
  <2>1. PICK p \in Bijection(1..Cardinality(heads), heads) : c = First(DiffCRCLess, p, DOMAIN p)
    BY <1>5, <1>11
  <2>2. \A h \in heads : h.time \in Int  BY <1>1, <1>6
  <2> HIDE DEF heads
  <2>3. c \in heads /\ \A h \in heads : h.time <= c.time
    BY <1>6, <2>1, <2>2, NewestHead
  <2> QED BY <1>8, <1>9, <2>3
<1> QED BY <1>10, <1>11

---------------------------------------------------------------------------
(* The properties.                                                         *)

LEMMA CompleteWhenRead == NameTableInv => TableIsComplete
<1> SUFFICES ASSUME NameTableInv, zpc \in {"delete", "choose", "done"},
                    NEW n \in ZipNames, n \notin removed
             PROVE  /\ Len(nametable[n]) = Cardinality(Range(nametable[n]))
                    /\ Range(nametable[n]) \subseteq Offered(n)
                    /\ \A c \in Offered(n) \ Range(nametable[n]) :
                          unread /\ zargs[c.arg].kind = "dir"
  BY DEF TableIsComplete
<1> DEFINE s == nametable[n]
           N == Len(s)
<1>1. /\ s \in Seq(Candidates) /\ DOMAIN s = 1..N /\ N \in Nat
      /\ \A i \in 1..N : s[i] \in Offered(n)
      /\ \A i, j \in 1..N : s[i] = s[j] => i = j
      /\ \A c \in Offered(n) : (\E i \in 1..N : s[i] = c) \/ (unread /\ zargs[c.arg].kind = "dir")
  BY TableIsOffered DEF InTable
<1> HIDE DEF s, N
<1>2. N = Cardinality(Range(s))
  <2>1. s \in [1..N -> Range(s)]  BY <1>1 DEF Range
  <2>2. s \in Surjection(1..N, Range(s))  BY <1>1, <2>1 DEF Surjection, Range
  <2>3. s \in Injection(1..N, Range(s))  BY <1>1, <2>1 DEF Injection, IsInjective
  <2>4. IsFiniteSet(1..N) /\ Cardinality(1..N) = N  BY <1>1, FS_Interval
  <2> QED BY <2>2, <2>3, <2>4, FS_Surjection
<1>3. Range(s) \subseteq Offered(n)  BY <1>1 DEF Range
<1>4. \A c \in Offered(n) \ Range(s) : unread /\ zargs[c.arg].kind = "dir"
  BY <1>1 DEF Range
<1> QED BY <1>2, <1>3, <1>4 DEF s, N

LEMMA RemovalStep ==
    NameTableInv /\ OnlyGoneIsRemoved /\ [NameTableNext]_nameTableVars => OnlyGoneIsRemoved'
<1> SUFFICES ASSUME NameTableInv, OnlyGoneIsRemoved, [NameTableNext]_nameTableVars
             PROVE  OnlyGoneIsRemoved'
  OBVIOUS
<1>1. zargs' = zargs
  BY DEF NameTableNext, nameTableVars, zipOptions, StartScan, SkipArg, AddSingleFile, BadArg, Crash,
         ScanFile, ScanSkips, ScanUnreadable, ScanVanished, WaitScans, DeleteGone, ChooseNewest,
         ChooseLast, ChooseByContent, Choose, ContentUnknown, NoArgument, AllChosen
<1>2. unread => unread'
  BY DEF NameTableNext, nameTableVars, StartScan, SkipArg, AddSingleFile, BadArg, Crash,
         ScanFile, ScanSkips, ScanUnreadable, ScanVanished, WaitScans, DeleteGone, ChooseNewest,
         ChooseLast, ChooseByContent, Choose, ContentUnknown, NoArgument, AllChosen
<1>3. CASE removed' = removed
  <2> SUFFICES ASSUME NEW n \in removed, NEW c \in Offered(n)
               PROVE  \/ c.arg = 1
                      \/ zargs[c.arg].kind = "file" /\ zargs[c.arg].dir = zargs[1].path
                      \/ zargs[c.arg].kind = "dir" /\ unread'
    BY <1>1, <1>3, OfferedStays DEF OnlyGoneIsRemoved
  <2> QED BY <1>2 DEF OnlyGoneIsRemoved
<1>4. CASE DeleteGone
  <2>1. removed' = {n \in ZipNames : Gone(n)} /\ zpc = "delete" /\ unread' = unread
    BY <1>4 DEF DeleteGone
  <2>2. removed = {}  BY <2>1 DEF NameTableInv, RemovedInv
  <2> SUFFICES ASSUME NEW n \in ZipNames, Gone(n), NEW c \in Offered(n), c.arg # 1
               PROVE  \/ zargs[c.arg].kind = "file" /\ zargs[c.arg].dir = zargs[1].path
                      \/ zargs[c.arg].kind = "dir" /\ unread
    BY <1>1, <2>1, OfferedStays DEF OnlyGoneIsRemoved
  <2> DEFINE s == nametable[n]
  <2>3. DOMAIN s = {1} /\ s[1].root = zargs[1].path
    BY <2>1, <2>2, TableIsOffered DEF Gone
  <2>4. \A d \in Offered(n) : d = s[1] \/ (unread /\ zargs[d.arg].kind = "dir")
    BY <2>1, <2>2, <2>3, TableIsOffered DEF InTable
  <2>5. c = s[1] \/ (unread /\ zargs[c.arg].kind = "dir")  BY <2>4
  <2> HIDE DEF s
  <2>6. CASE c = s[1] /\ zargs[c.arg].kind = "file"
    BY <2>3, <2>6, OfferedType DEF NameTableInv
  <2>7. CASE c = s[1] /\ zargs[c.arg].kind # "file"
    <3> DEFINE k == c.arg  i == c.pos  d == Candidate(1, i)
    <3>1. /\ k \in DOMAIN zargs /\ i \in DOMAIN zargs[k].files
          /\ zargs[k].files[i].name = n /\ ~zargs[k].files[i].excluded
      BY OfferedIsFile DEF NameTableInv
    <3>2. zargs[k].path = zargs[1].path  BY <2>3, <2>7, OfferedType DEF NameTableInv
    <3>3. 1 \in DOMAIN zargs  BY <3>1, ArgumentType DEF NameTableInv, Inputs
    <3>4. zargs[k] = zargs[1]  BY <3>1, <3>2, <3>3 DEF NameTableInv, Inputs
    <3>5. d \in Offered(n) /\ d.arg = 1
      BY <3>1, <3>3, <3>4, FileIsOffered DEF NameTableInv
    <3>6. d # s[1]  BY <2>7, <3>5
    <3>7. unread /\ zargs[1].kind = "dir"  BY <2>4, <3>5, <3>6
    <3> QED BY <3>4, <3>7
  <2> QED BY <2>5, <2>6, <2>7
<1>5. removed' = removed \/ DeleteGone
  BY DEF NameTableNext, nameTableVars, StartScan, SkipArg, AddSingleFile, BadArg, Crash,
         ScanFile, ScanSkips, ScanUnreadable, ScanVanished, WaitScans, ChooseNewest,
         ChooseLast, ChooseByContent, Choose, ContentUnknown, NoArgument, AllChosen
<1> QED BY <1>3, <1>4, <1>5

ChoiceIsRight(n, c) ==
    /\ zmode = "nocrc" => NewestOf(n, c)
    /\ zmode = "last" => LastOf(n, c)
    /\ zmode = "crc" => ContentOf(n, c)

ChoicesAreRight ==
    ~unread => \A n \in ZipNames : chosen[n] # NoFile => ChoiceIsRight(n, chosen[n])

LEMMA ChoicesRead ==
    ChoicesAreRight => NewestIsChosen /\ LastIsChosen /\ ContentDecides
BY DEF ChoicesAreRight, ChoiceIsRight, NewestOf, LastOf, ContentOf,
       NewestIsChosen, LastIsChosen, ContentDecides

LEMMA ChoiceStaysRight ==
    ASSUME zargs' = zargs, zmode' = zmode, NEW n, NEW c
    PROVE  ChoiceIsRight(n, c)' <=> ChoiceIsRight(n, c)
<1>1. Offered(n)' = Offered(n)  BY OfferedStays
<1>2. \A k : FoundAt(n, k)' = FoundAt(n, k)  BY <1>1 DEF FoundAt
<1>3. Best(n)' = Best(n)  BY <1>1 DEF Best
<1> QED BY <1>1, <1>2, <1>3 DEF ChoiceIsRight, NewestOf, LastOf, ContentOf

LEMMA ChoicesStep ==
    NameTableInv /\ ChoicesAreRight /\ [NameTableNext]_nameTableVars => ChoicesAreRight'
<1> SUFFICES ASSUME NameTableInv, ChoicesAreRight, [NameTableNext]_nameTableVars, ~unread'
             PROVE  \A n \in ZipNames : chosen'[n] # NoFile => ChoiceIsRight(n, chosen[n])'
  BY DEF ChoicesAreRight, NoFile
<1>1. zargs' = zargs /\ zmode' = zmode
  BY DEF NameTableNext, nameTableVars, zipOptions, StartScan, SkipArg, AddSingleFile, BadArg, Crash,
         ScanFile, ScanSkips, ScanUnreadable, ScanVanished, WaitScans, DeleteGone, ChooseNewest,
         ChooseLast, ChooseByContent, Choose, ContentUnknown, NoArgument, AllChosen
<1>2. ~unread
  BY DEF NameTableNext, nameTableVars, StartScan, SkipArg, AddSingleFile, BadArg, Crash,
         ScanFile, ScanSkips, ScanUnreadable, ScanVanished, WaitScans, DeleteGone, ChooseNewest,
         ChooseLast, ChooseByContent, Choose, ContentUnknown, NoArgument, AllChosen
<1>3. \A n \in ZipNames : chosen[n] # NoFile => ChoiceIsRight(n, chosen[n])
  BY <1>2 DEF ChoicesAreRight
<1>4. ASSUME NEW n \in ZipNames, NEW c, ChoiceIsRight(n, c) PROVE ChoiceIsRight(n, c)'
  BY <1>1, <1>4, ChoiceStaysRight
<1>5. CASE chosen' = chosen
  <2> SUFFICES ASSUME NEW n \in ZipNames, chosen[n] # NoFile
               PROVE  ChoiceIsRight(n, chosen[n])'
    BY <1>5
  <2> DEFINE c == chosen[n]
  <2>1. ChoiceIsRight(n, c)  BY <1>3
  <2>2. c' = c  BY <1>5
  <2> HIDE DEF c
  <2>3. PICK d : d = c  OBVIOUS
  <2>4. ChoiceIsRight(n, d)'  BY <1>4, <2>1, <2>3
  <2>5. d = c'  BY <2>2, <2>3
  <2>6. ChoiceIsRight(n, c)'  BY <2>4, <2>5 DEF ChoiceIsRight, NewestOf, LastOf, ContentOf
  <2> QED BY <2>6 DEF c
<1>6. ASSUME NEW n \in Pending, NEW c, zpc = "choose", chosen' = [chosen EXCEPT ![n] = c], ChoiceIsRight(n, c)
      PROVE  \A m \in ZipNames : chosen'[m] # NoFile => ChoiceIsRight(m, chosen[m])'
  <2> SUFFICES ASSUME NEW m \in ZipNames, chosen'[m] # NoFile PROVE ChoiceIsRight(m, chosen[m])'
    OBVIOUS
  <2>1. PICK d : d = chosen'[m]  OBVIOUS
  <2>2. n \in ZipNames /\ chosen \in [ZipNames -> Candidates \union {NoFile}]
    BY DEF Pending, NameTableInv, TableTypeOK
  <2>3. ChoiceIsRight(m, d)
    <3>1. CASE m = n  BY <1>6, <2>1, <2>2, <3>1
    <3>2. CASE m # n  BY <1>3, <1>6, <2>1, <2>2, <3>2
    <3> QED BY <3>1, <3>2
  <2>4. ChoiceIsRight(m, d)'  BY <1>4, <2>3
  <2> QED BY <2>1, <2>4 DEF ChoiceIsRight, NewestOf, LastOf, ContentOf
<1>7. ASSUME NEW n \in ZipNames, ChooseNewest(n)
      PROVE  \A m \in ZipNames : chosen'[m] # NoFile => ChoiceIsRight(m, chosen[m])'
  <2>1. zpc = "choose" /\ n \in Pending /\ zmode = "nocrc"
        /\ chosen' = [chosen EXCEPT ![n] = ChooseFromNoCRC(nametable[n])]
    BY <1>7 DEF ChooseNewest, Choose
  <2>2. ChoiceIsRight(n, ChooseFromNoCRC(nametable[n]))
    BY <1>2, <2>1, NewestOffered DEF ChoiceIsRight
  <2> QED BY <1>6, <2>1, <2>2
<1>8. ASSUME NEW n \in ZipNames, ChooseLast(n)
      PROVE  \A m \in ZipNames : chosen'[m] # NoFile => ChoiceIsRight(m, chosen[m])'
  <2>1. zpc = "choose" /\ n \in Pending /\ zmode = "last" /\ DOMAIN ByArgument(n) # {}
    BY <1>8 DEF ChooseLast
  <2>2. PICK bad : /\ chosen' = [chosen EXCEPT ![n] = ChooseFromLast(ByArgument(n), bad)]
                   /\ unread' = (unread \/ bad # {})
    BY <1>8 DEF ChooseLast, Choose
  <2>3. bad = {}  BY <2>2
  <2>4. ChoiceIsRight(n, ChooseFromLast(ByArgument(n), bad))
    BY <1>2, <2>1, <2>3, LastOffered DEF ChoiceIsRight
  <2> QED BY <1>6, <2>1, <2>2, <2>4
<1>9. ASSUME NEW n \in ZipNames, ChooseByContent(n)
      PROVE  \A m \in ZipNames : chosen'[m] # NoFile => ChoiceIsRight(m, chosen[m])'
  <2>1. zpc = "choose" /\ n \in Pending /\ zmode = "crc"
    BY <1>9 DEF ChooseByContent
  <2>2. PICK bad : /\ \E c \in ChooseFrom(nametable[n], bad) : chosen' = [chosen EXCEPT ![n] = c]
                   /\ unread' = (unread \/ bad # {})
    BY <1>9 DEF ChooseByContent, Choose
  <2>3. bad = {}  BY <2>2
  <2>4. PICK c \in ChooseFrom(nametable[n], {}) : chosen' = [chosen EXCEPT ![n] = c]
    BY <2>2, <2>3
  <2>5. ChoiceIsRight(n, c)  BY <1>2, <2>1, <2>4, BestOffered DEF ChoiceIsRight
  <2> QED BY <1>6, <2>1, <2>4, <2>5
<1>10. chosen' = chosen \/ \E n \in ZipNames : ChooseNewest(n) \/ ChooseLast(n) \/ ChooseByContent(n)
  BY DEF NameTableNext, nameTableVars, StartScan, SkipArg, AddSingleFile, BadArg, Crash, ScanFile, ScanSkips,
         ScanUnreadable, ScanVanished, WaitScans, DeleteGone, ContentUnknown, NoArgument, AllChosen
<1> QED BY <1>5, <1>7, <1>8, <1>9, <1>10

LEMMA CrashStep ==
    NameTableInv /\ CrashHasCause /\ [NameTableNext]_nameTableVars => CrashHasCause'
<1> SUFFICES ASSUME NameTableInv, CrashHasCause, [NameTableNext]_nameTableVars,
                    zpc' = "crashed", ~unread'
             PROVE  /\ zmode' = "last"
                    /\ \E n \in ZipNames :
                          Offered(n)' # {} /\ \A k \in DOMAIN zargs' : FoundAt(n, k)' = {}
  BY DEF CrashHasCause
<1>1. zargs' = zargs /\ zmode' = zmode
  BY DEF NameTableNext, nameTableVars, zipOptions, StartScan, SkipArg, AddSingleFile, BadArg, Crash,
         ScanFile, ScanSkips, ScanUnreadable, ScanVanished, WaitScans, DeleteGone, ChooseNewest,
         ChooseLast, ChooseByContent, Choose, ContentUnknown, NoArgument, AllChosen
<1>2. ~unread
  BY DEF NameTableNext, nameTableVars, StartScan, SkipArg, AddSingleFile, BadArg, Crash,
         ScanFile, ScanSkips, ScanUnreadable, ScanVanished, WaitScans, DeleteGone, ChooseNewest,
         ChooseLast, ChooseByContent, Choose, ContentUnknown, NoArgument, AllChosen
<1>3. ASSUME NEW n PROVE Offered(n)' = Offered(n) /\ \A k : FoundAt(n, k)' = FoundAt(n, k)
  BY <1>1, OfferedStays DEF FoundAt
<1>4. CASE zpc = "crashed"
  BY <1>1, <1>2, <1>3, <1>4 DEF CrashHasCause
<1>5. ASSUME NEW n \in ZipNames, NoArgument(n)
      PROVE  zmode = "last" /\ Offered(n) # {} /\ \A k \in DOMAIN zargs : FoundAt(n, k) = {}
  <2>1. zpc = "choose" /\ n \in Pending /\ zmode = "last" /\ DOMAIN ByArgument(n) = {}
    BY <1>5 DEF NoArgument
  <2>2. Offered(n) # {}
    <3>1. 1 \in DOMAIN nametable[n]  BY <2>1, PendingFiles
    <3> QED BY <2>1, <3>1, PendingFiles
  <2>3. ASSUME NEW k \in DOMAIN zargs, NEW c \in FoundAt(n, k) PROVE FALSE
    <3>1. c \in Offered(n) /\ c.root = zargs[k].path  BY <2>3 DEF FoundAt
    <3>2. PICK i \in DOMAIN nametable[n] : nametable[n][i] = c
      BY <1>2, <2>1, <3>1, AllAreEntries
    <3>3. WithRoot(n, k) # {}  BY <3>1, <3>2 DEF WithRoot
    <3> QED BY <2>1, <3>3, ByArgumentFiles
  <2> QED BY <2>1, <2>2, <2>3
<1>6. zpc = "crashed" \/ \E n \in ZipNames : NoArgument(n)
  BY DEF NameTableNext, nameTableVars, StartScan, SkipArg, AddSingleFile, BadArg, Crash,
         ScanFile, ScanSkips, ScanUnreadable, ScanVanished, WaitScans, DeleteGone, ChooseNewest,
         ChooseLast, ChooseByContent, Choose, ContentUnknown, AllChosen
<1> QED BY <1>1, <1>3, <1>4, <1>5, <1>6

\* The part of the state that the command keeps right, whatever its arguments: used
\* again for the composition of the commands.
NameTableGood ==
    NameTableInv /\ OnlyGoneIsRemoved /\ ChoicesAreRight /\ CrashHasCause

LEMMA NameTableStartsGood ==
    ASSUME Inputs, zmode \in {"crc", "nocrc", "last"}, zdelete \in BOOLEAN, NameTableStart
    PROVE  NameTableGood
<1>1. NameTableInv  BY NameTableStarts
<1> QED BY <1>1 DEF NameTableStart, NameTableGood, OnlyGoneIsRemoved, ChoicesAreRight, CrashHasCause

LEMMA NameTableKeepsGood ==
    NameTableGood /\ [NameTableNext]_nameTableVars => NameTableGood'
BY NameTableStep, RemovalStep, ChoicesStep, CrashStep DEF NameTableGood

LEMMA NameTableInvariant == NameTableSpec => []NameTableGood
<1>1. NameTableInit => NameTableGood
  <2> SUFFICES ASSUME NameTableInit PROVE NameTableGood  OBVIOUS
  <2>1. Inputs  BY NameTableAssumption DEF NameTableInit, Inputs
  <2> QED BY <2>1, NameTableStartsGood DEF NameTableInit
<1> QED BY <1>1, NameTableKeepsGood, PTL DEF NameTableSpec

---------------------------------------------------------------------------

\* When the goroutines have been waited for, the table has every file that every
\* argument offers, once, in whatever order they have run (create_nametable).
THEOREM TableComplete == NameTableSpec => []TableIsComplete
<1>1. NameTableGood => TableIsComplete  BY CompleteWhenRead DEF NameTableGood
<1> QED BY <1>1, NameTableInvariant, PTL

\* --delete takes out only names that the later arguments do not have, but for the
\* two exceptions.
THEOREM RemovedAreGone == NameTableSpec => []OnlyGoneIsRemoved
<1>1. NameTableGood => OnlyGoneIsRemoved  BY DEF NameTableGood
<1> QED BY <1>1, NameTableInvariant, PTL

\* --no-crc takes one of the newest files (ChooseFromNoCRC), as First does; sort.Sort
\* agrees with First for up to twelve candidates of a name.
THEOREM NewestChosen == NameTableSpec => []NewestIsChosen
<1>1. NameTableGood => NewestIsChosen  BY ChoicesRead DEF NameTableGood
<1> QED BY <1>1, NameTableInvariant, PTL

\* --choose-last takes the content of the last argument from the first that has it,
\* in whatever order the candidates were added (ChooseFromLast).
THEOREM LastChosen == NameTableSpec => []LastIsChosen
<1>1. NameTableGood => LastIsChosen  BY ChoicesRead DEF NameTableGood
<1> QED BY <1>1, NameTableInvariant, PTL

\* By content, neither goroutines nor the order of a map show in the choice
\* (ChooseFrom), again for up to twelve candidates of a name.
THEOREM ContentChosen == NameTableSpec => []ContentDecides
<1>1. NameTableGood => ContentDecides  BY ChoicesRead DEF NameTableGood
<1> QED BY <1>1, NameTableInvariant, PTL

\* The command crashes for no other than the two causes.
THEOREM CrashCaused == NameTableSpec => []CrashHasCause
<1>1. NameTableGood => CrashHasCause  BY DEF NameTableGood
<1> QED BY <1>1, NameTableInvariant, PTL
====
