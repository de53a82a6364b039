---- MODULE ArchiveIndexProofs ----
(***************************************************************************)
(* Theorems about ArchiveIndex, for any number of archives of any size:    *)
(* getidx never walks past the last archive, and it finds the file that    *)
(* init2 has entered, the first that serves the name and the method.       *)
(***************************************************************************)
EXTENDS ArchiveIndex, TLAPS

---------------------------------------------------------------------------
(* The numbering.  b[k] is the number of files ahead of archive k.         *)

Numbering(A, a, c, b) ==
    /\ b \in [1..a -> Nat]
    /\ b[1] = 0 /\ b[a] = c
    /\ \A k \in 1..a : k < a => b[k + 1] = b[k] + Len(A[k])
    /\ \A j, k \in 1..a : j < k => b[j] + Len(A[j]) <= b[k]

\* File i of archive k is the first that serves n and m.
FirstServer(A, k, i, n, m) ==
    /\ Serves(A[k][i], n, m)
    /\ \A l \in DOMAIN A : \A j \in DOMAIN A[l] : Earlier(l, j, k, i) => ~Serves(A[l][j], n, m)

\* The entry e of n and m is the number of the first server, or absent without one.
EntryOK(A, a, p, b, n, m, e) ==
    \/ /\ e = Absent
       /\ \A k \in DOMAIN A : \A i \in DOMAIN A[k] :
             Earlier(k, i, a, p) => ~Serves(A[k][i], n, m)
    \/ /\ e # Absent
       /\ \E k \in DOMAIN A : \E i \in DOMAIN A[k] :
             /\ Earlier(k, i, a, p)
             /\ e = b[k] + i - 1 /\ FirstServer(A, k, i, n, m)

---------------------------------------------------------------------------
(* The inductive invariant.                                                *)

IndexTypeOK ==
    /\ archives \in Seq(Seq(Files))
    /\ methodmap \in [Names -> [Methods -> Int]]
    /\ arch \in 1..(Len(archives) + 1)
    /\ pos \in Nat \ {0}
    /\ cur \in Nat
    /\ lookup \in {"none", "walking", "found"}
    /\ at \in Nat /\ rest \in Nat

\* Where getidx is, it stands for the entry that was asked for.
LookupInv(b) ==
    lookup # "none" =>
        /\ ~Indexing
        /\ asked \in Names \X Methods
        /\ methodmap[asked[1]][asked[2]] # Absent
        /\ at \in DOMAIN archives
        /\ b[at] + rest = methodmap[asked[1]][asked[2]]
        /\ lookup = "found" => rest < Len(archives[at])

MapInv(b) ==
    \A n \in Names : \A m \in Methods : EntryOK(archives, arch, pos, b, n, m, methodmap[n][m])

NumberInv == \E b : Numbering(archives, arch, cur, b) /\ MapInv(b) /\ LookupInv(b)

IndexInv == IndexTypeOK /\ NumberInv

---------------------------------------------------------------------------
(* Facts about the numbering.                                              *)

\* In a complete index, a number that is reached at archive k with r files to skip,
\* r at least its size, belongs to a later archive.
LEMMA BeyondIsLater ==
    ASSUME NEW A \in Seq(Seq(Files)), NEW c \in Nat, NEW b,
           Numbering(A, Len(A) + 1, c, b),
           NEW k \in DOMAIN A, NEW r \in Nat, r >= Len(A[k]),
           NEW l \in DOMAIN A, NEW i \in DOMAIN A[l], b[k] + r = b[l] + i - 1
    PROVE  k < l
<1>1. /\ k \in 1..Len(A) /\ l \in 1..Len(A) /\ Len(A) \in Nat
      /\ Len(A[k]) \in Nat /\ Len(A[l]) \in Nat /\ i \in Nat /\ 1 <= i /\ i <= Len(A[l])
  OBVIOUS
<1>2. b[k] \in Nat /\ b[l] \in Nat
  BY <1>1 DEF Numbering
<1>3. k # l
  BY <1>1, <1>2
<1>4. l < k => b[l] + Len(A[l]) <= b[k]
  BY <1>1 DEF Numbering
<1> QED BY <1>1, <1>2, <1>3, <1>4

\* With fewer files to skip than the archive has, it is that archive and that file.
LEMMA WithinIsHere ==
    ASSUME NEW A \in Seq(Seq(Files)), NEW c \in Nat, NEW b,
           Numbering(A, Len(A) + 1, c, b),
           NEW k \in DOMAIN A, NEW r \in Nat, r < Len(A[k]),
           NEW l \in DOMAIN A, NEW i \in DOMAIN A[l], b[k] + r = b[l] + i - 1
    PROVE  k = l /\ r + 1 = i
<1>1. /\ k \in 1..Len(A) /\ l \in 1..Len(A) /\ Len(A) \in Nat
      /\ Len(A[k]) \in Nat /\ Len(A[l]) \in Nat /\ i \in Nat /\ 1 <= i /\ i <= Len(A[l])
  OBVIOUS
<1>2. b[k] \in Nat /\ b[l] \in Nat
  BY <1>1 DEF Numbering
<1>3. l < k => b[l] + Len(A[l]) <= b[k]
  BY <1>1 DEF Numbering
<1>4. k < l => b[k] + Len(A[k]) <= b[l]
  BY <1>1 DEF Numbering
<1>5. b[k] + r = b[l] + i - 1 /\ r < Len(A[k]) /\ r \in Nat
  OBVIOUS
<1>6. ~(l < k)
  BY <1>1, <1>2, <1>3, <1>5
<1>7. ~(k < l)
  BY <1>1, <1>2, <1>4, <1>5
<1>8. k = l
  BY <1>1, <1>6, <1>7
<1>9. r + 1 = i
  BY <1>1, <1>2, <1>5, <1>8
<1> QED BY <1>8, <1>9

\* The numbering goes on with the next archive.
LEMMA NumberingGrows ==
    ASSUME NEW A \in Seq(Seq(Files)), NEW a \in DOMAIN A, NEW c \in Nat, NEW b,
           Numbering(A, a, c, b)
    PROVE  \E d : Numbering(A, a + 1, c + Len(A[a]), d) /\ \A k \in 1..a : d[k] = b[k]
<1> DEFINE d == [k \in 1..(a + 1) |-> IF k = a + 1 THEN c + Len(A[a]) ELSE b[k]]
<1>1. a \in Nat /\ 1 <= a /\ Len(A[a]) \in Nat /\ a <= Len(A)
  OBVIOUS
<1>2. \A k \in 1..a : b[k] \in Nat /\ Len(A[k]) \in Nat
  BY <1>1 DEF Numbering
<1>3. \A k \in 1..a : d[k] = b[k] /\ k \in 1..(a + 1)
  BY <1>1
<1>4. d[a + 1] = c + Len(A[a]) /\ a + 1 \in 1..(a + 1)
  BY <1>1
<1>5. d \in [1..(a + 1) -> Nat]
  BY <1>1, <1>2
<1> HIDE DEF d
<1>6. d[1] = 0 /\ d[a] = c
  BY <1>1, <1>3 DEF Numbering
<1>7. \A k \in 1..(a + 1) : k < a + 1 => d[k + 1] = d[k] + Len(A[k])
  <2> SUFFICES ASSUME NEW k \in 1..(a + 1), k < a + 1 PROVE d[k + 1] = d[k] + Len(A[k])
    OBVIOUS
  <2>1. CASE k = a
    BY <2>1, <1>4, <1>6
  <2>2. CASE k < a
    <3>1. k \in 1..a /\ k + 1 \in 1..a
      BY <2>2, <1>1
    <3> QED BY <2>2, <3>1, <1>3 DEF Numbering
  <2> QED BY <2>1, <2>2, <1>1
<1>8. \A j, k \in 1..(a + 1) : j < k => d[j] + Len(A[j]) <= d[k]
  <2> SUFFICES ASSUME NEW j \in 1..(a + 1), NEW k \in 1..(a + 1), j < k
               PROVE  d[j] + Len(A[j]) <= d[k]
    OBVIOUS
  <2>1. j \in 1..a
    BY <1>1
  <2>2. CASE k \in 1..a
    BY <2>1, <2>2, <1>3 DEF Numbering
  <2>3. CASE k = a + 1 /\ j < a
    <3>1. d[j] + Len(A[j]) <= c
      BY <2>1, <2>3, <1>1, <1>3 DEF Numbering
    <3>2. d[j] \in Nat /\ Len(A[j]) \in Nat
      BY <2>1, <1>2, <1>3
    <3> QED BY <2>3, <3>1, <3>2, <1>1, <1>4
  <2>4. CASE k = a + 1 /\ j = a
    BY <2>4, <1>1, <1>4, <1>6
  <2>5. k \in 1..a \/ k = a + 1
    BY <1>1
  <2>6. j < a \/ j = a
    BY <2>1, <1>1
  <2> QED BY <2>2, <2>3, <2>4, <2>5, <2>6
<1>9. Numbering(A, a + 1, c + Len(A[a]), d)
  BY <1>4, <1>5, <1>6, <1>7, <1>8 DEF Numbering
<1> QED BY <1>3, <1>9

---------------------------------------------------------------------------
(* Facts about the entries.                                                *)

LEMMA EmptyIndex ==
    ASSUME NEW A \in Seq(Seq(Files))
    PROVE  LET b == [k \in 1..1 |-> 0]
           IN Numbering(A, 1, 0, b) /\ \A n, m : EntryOK(A, 1, 1, b, n, m, Absent)
<1>1. Numbering(A, 1, 0, [k \in 1..1 |-> 0])
  BY DEF Numbering
<1>2. \A k \in DOMAIN A : \A i \in DOMAIN A[k] : ~Earlier(k, i, 1, 1)
  BY DEF Earlier
<1> QED BY <1>1, <1>2 DEF EntryOK

\* A file that serves a name and method without an entry is their first server.
LEMMA EntryAtNew ==
    ASSUME NEW A \in Seq(Seq(Files)), NEW a \in DOMAIN A, NEW p \in DOMAIN A[a],
           NEW c \in Nat, NEW b, b[a] = c,
           NEW n, NEW m, EntryOK(A, a, p, b, n, m, Absent), Serves(A[a][p], n, m)
    PROVE  EntryOK(A, a, p + 1, b, n, m, c + p - 1)
<1>1. a \in Nat /\ p \in Nat /\ 1 <= p
  OBVIOUS
<1>2. c + p - 1 # Absent /\ c + p - 1 = b[a] + p - 1
  BY <1>1 DEF Absent
<1>3. Earlier(a, p, a, p + 1)
  BY <1>1 DEF Earlier
<1>4. FirstServer(A, a, p, n, m)
  BY DEF FirstServer, EntryOK
<1> QED BY <1>2, <1>3, <1>4 DEF EntryOK

\* Any other file leaves the entry as it is.
LEMMA EntryAtOther ==
    ASSUME NEW A \in Seq(Seq(Files)), NEW a \in DOMAIN A, NEW p \in DOMAIN A[a], NEW b,
           NEW n, NEW m, NEW e, EntryOK(A, a, p, b, n, m, e),
           ~Serves(A[a][p], n, m) \/ e # Absent
    PROVE  EntryOK(A, a, p + 1, b, n, m, e)
<1>1. \A k \in DOMAIN A : \A i \in DOMAIN A[k] :
        Earlier(k, i, a, p + 1) <=> Earlier(k, i, a, p) \/ (k = a /\ i = p)
  BY DEF Earlier
<1>2. CASE e = Absent
  BY <1>1, <1>2 DEF EntryOK
<1>3. CASE e # Absent
  BY <1>1, <1>3 DEF EntryOK
<1> QED BY <1>2, <1>3

LEMMA EntryAtNext ==
    ASSUME NEW A \in Seq(Seq(Files)), NEW a \in DOMAIN A, NEW p \in Nat, p > Len(A[a]),
           NEW b, NEW d, \A k \in 1..a : d[k] = b[k],
           NEW n, NEW m, NEW e, EntryOK(A, a, p, b, n, m, e)
    PROVE  EntryOK(A, a + 1, 1, d, n, m, e)
<1>1. \A k \in DOMAIN A : \A i \in DOMAIN A[k] :
        Earlier(k, i, a + 1, 1) <=> Earlier(k, i, a, p)
  BY DEF Earlier
<1>2. \A k \in DOMAIN A : \A i \in DOMAIN A[k] : Earlier(k, i, a, p) => k \in 1..a
  BY DEF Earlier
<1>3. CASE e = Absent
  BY <1>1, <1>3 DEF EntryOK
<1>4. CASE e # Absent
  BY <1>1, <1>2, <1>4 DEF EntryOK
<1> QED BY <1>3, <1>4

---------------------------------------------------------------------------
(* The steps.                                                              *)

LEMMA InitIndexInv == IndexInit => IndexInv
<1> SUFFICES ASSUME IndexInit PROVE IndexInv
  OBVIOUS
<1>1. IndexTypeOK
  BY IndexAssumption DEF IndexInit, IndexTypeOK, Absent
<1>2. \A n \in Names : \A m \in Methods : methodmap[n][m] = Absent
  BY DEF IndexInit
<1>3. NumberInv
  BY <1>1, <1>2, EmptyIndex DEF IndexInit, IndexTypeOK, NumberInv, MapInv, LookupInv
<1> QED BY <1>1, <1>3 DEF IndexInv

LEMMA LoadKeepsInv == IndexInv /\ Load => IndexInv'
<1> SUFFICES ASSUME IndexInv, Load PROVE IndexInv'
  OBVIOUS
<1>1. IndexTypeOK'
  BY IndexAssumption DEF IndexInv, IndexTypeOK, Load, lookupVars, Absent
<1>2. \A n \in Names : \A m \in Methods : methodmap'[n][m] = Absent
  BY DEF Load
<1>3. archives' \in Seq(Seq(Files)) /\ arch' = 1 /\ pos' = 1 /\ cur' = 0 /\ lookup' = "none"
  BY <1>1 DEF Load, lookupVars, IndexTypeOK
<1>4. NumberInv'
  BY <1>2, <1>3, EmptyIndex DEF NumberInv, MapInv, LookupInv
<1> QED BY <1>1, <1>4 DEF IndexInv

LEMMA AddFileKeepsInv == IndexInv /\ AddFile => IndexInv'
<1> SUFFICES ASSUME IndexInv, AddFile PROVE IndexInv'
  OBVIOUS
<1> USE DEF lookupVars
<1>1. /\ archives \in Seq(Seq(Files)) /\ arch \in DOMAIN archives /\ pos \in DOMAIN archives[arch]
      /\ File \in Files
  BY DEF IndexInv, IndexTypeOK, AddFile, Indexing, File
<1>2. File.name \in Names /\ File.method \in Methods /\ File.served
  BY <1>1, IndexAssumption DEF AddFile, New
<1>3. /\ methodmap' = [methodmap EXCEPT ![File.name][File.method] = cur + pos - 1]
      /\ pos' = pos + 1 /\ UNCHANGED <<archives, arch, cur, asked, lookup, at, rest>>
  BY DEF AddFile
<1>4. IndexTypeOK'
  BY <1>1, <1>2, <1>3 DEF IndexInv, IndexTypeOK
<1>5. lookup = "none"
  <2>1. Indexing
    BY DEF AddFile
  <2> QED BY <2>1 DEF IndexInv, NumberInv, LookupInv
<1>6. PICK b : Numbering(archives, arch, cur, b) /\ MapInv(b)
  BY DEF IndexInv, NumberInv
<1>7. ASSUME NEW n \in Names, NEW m \in Methods
      PROVE  EntryOK(archives, arch, pos + 1, b, n, m, methodmap'[n][m])
  <2>1. EntryOK(archives, arch, pos, b, n, m, methodmap[n][m])
    BY <1>6 DEF MapInv
  <2>2. CASE n = File.name /\ m = File.method
    <3>1. methodmap[n][m] = Absent
      BY <2>2 DEF AddFile, New
    <3>2. methodmap'[n][m] = cur + pos - 1
      BY <1>3, <2>2 DEF IndexInv, IndexTypeOK
    <3>3. b[arch] = cur /\ cur \in Nat
      BY <1>6 DEF Numbering, IndexInv, IndexTypeOK
    <3>4. Serves(archives[arch][pos], n, m)
      BY <1>2, <2>2 DEF Serves, File
    <3> QED BY <1>1, <2>1, <3>1, <3>2, <3>3, <3>4, EntryAtNew
  <2>3. CASE ~(n = File.name /\ m = File.method)
    <3>1. methodmap'[n][m] = methodmap[n][m]
      BY <1>2, <1>3, <2>3 DEF IndexInv, IndexTypeOK
    <3>2. ~Serves(archives[arch][pos], n, m)
      BY <2>3 DEF Serves, File
    <3> QED BY <1>1, <2>1, <3>1, <3>2, EntryAtOther
  <2> QED BY <2>2, <2>3
<1>8. NumberInv'
  <2>1. MapInv(b)'
    BY <1>3, <1>7 DEF MapInv
  <2>2. LookupInv(b)'
    BY <1>3, <1>5 DEF LookupInv
  <2> QED BY <1>3, <1>6, <2>1, <2>2 DEF NumberInv
<1> QED BY <1>4, <1>8 DEF IndexInv

LEMMA SkipFileKeepsInv == IndexInv /\ SkipFile => IndexInv'
<1> SUFFICES ASSUME IndexInv, SkipFile PROVE IndexInv'
  OBVIOUS
<1> USE DEF lookupVars
<1>1. archives \in Seq(Seq(Files)) /\ arch \in DOMAIN archives /\ pos \in DOMAIN archives[arch]
  BY DEF IndexInv, IndexTypeOK, SkipFile, Indexing
<1>2. pos' = pos + 1 /\ UNCHANGED <<archives, methodmap, arch, cur, asked, lookup, at, rest>>
  BY DEF SkipFile
<1>3. IndexTypeOK'
  BY <1>1, <1>2 DEF IndexInv, IndexTypeOK
<1>4. lookup = "none"
  <2>1. Indexing
    BY DEF SkipFile
  <2> QED BY <2>1 DEF IndexInv, NumberInv, LookupInv
<1>5. PICK b : Numbering(archives, arch, cur, b) /\ MapInv(b)
  BY DEF IndexInv, NumberInv
<1>6. ASSUME NEW n \in Names, NEW m \in Methods
      PROVE  EntryOK(archives, arch, pos + 1, b, n, m, methodmap[n][m])
  <2>1. EntryOK(archives, arch, pos, b, n, m, methodmap[n][m])
    BY <1>5 DEF MapInv
  <2>2. ~Serves(archives[arch][pos], n, m) \/ methodmap[n][m] # Absent
    BY DEF SkipFile, New, Serves, File
  <2> QED BY <1>1, <2>1, <2>2, EntryAtOther
<1>7. NumberInv'
  <2>1. MapInv(b)'
    BY <1>2, <1>6 DEF MapInv
  <2>2. LookupInv(b)'
    BY <1>2, <1>4 DEF LookupInv
  <2> QED BY <1>2, <1>5, <2>1, <2>2 DEF NumberInv
<1> QED BY <1>3, <1>7 DEF IndexInv

LEMMA NextInputKeepsInv == IndexInv /\ NextInput => IndexInv'
<1> SUFFICES ASSUME IndexInv, NextInput PROVE IndexInv'
  OBVIOUS
<1> USE DEF lookupVars
<1>1. /\ archives \in Seq(Seq(Files)) /\ arch \in DOMAIN archives /\ pos > Len(archives[arch])
      /\ pos \in Nat /\ cur \in Nat
  BY DEF IndexInv, IndexTypeOK, NextInput, Indexing
<1>2. /\ cur' = cur + Len(archives[arch]) /\ arch' = arch + 1 /\ pos' = 1
      /\ UNCHANGED <<archives, methodmap, asked, lookup, at, rest>>
  BY DEF NextInput
<1>3. IndexTypeOK'
  BY <1>1, <1>2 DEF IndexInv, IndexTypeOK
<1>4. lookup = "none"
  <2>1. Indexing
    BY DEF NextInput
  <2> QED BY <2>1 DEF IndexInv, NumberInv, LookupInv
<1>5. PICK b : Numbering(archives, arch, cur, b) /\ MapInv(b)
  BY DEF IndexInv, NumberInv
<1>6. PICK d : /\ Numbering(archives, arch + 1, cur + Len(archives[arch]), d)
               /\ \A k \in 1..arch : d[k] = b[k]
  BY <1>1, <1>5, NumberingGrows
<1>7. ASSUME NEW n \in Names, NEW m \in Methods
      PROVE  EntryOK(archives, arch + 1, 1, d, n, m, methodmap[n][m])
  <2>1. EntryOK(archives, arch, pos, b, n, m, methodmap[n][m])
    BY <1>5 DEF MapInv
  <2> QED BY <1>1, <1>6, <2>1, EntryAtNext
<1>8. NumberInv'
  <2>1. MapInv(d)'
    BY <1>2, <1>7 DEF MapInv
  <2>2. LookupInv(d)'
    BY <1>2, <1>4 DEF LookupInv
  <2> QED BY <1>2, <1>6, <2>1, <2>2 DEF NumberInv
<1> QED BY <1>3, <1>8 DEF IndexInv

\* The entry that getidx looks for, and the file it stands for.
LEMMA EntryIsFile ==
    ASSUME IndexTypeOK, NEW b, Numbering(archives, arch, cur, b), MapInv(b),
           NEW n \in Names, NEW m \in Methods, methodmap[n][m] # Absent, ~Indexing
    PROVE  /\ Numbering(archives, Len(archives) + 1, cur, b)
           /\ \E k \in DOMAIN archives : \E i \in DOMAIN archives[k] :
                 methodmap[n][m] = b[k] + i - 1 /\ FirstServer(archives, k, i, n, m)
<1>1. arch = Len(archives) + 1
  BY DEF IndexTypeOK, Indexing
<1>2. EntryOK(archives, arch, pos, b, n, m, methodmap[n][m])
  BY DEF MapInv
<1> QED BY <1>1, <1>2 DEF EntryOK

LEMMA CallKeepsInv ==
    ASSUME IndexInv, NEW n \in Names, NEW m \in Methods, Ready, CallGetIdx(n, m)
    PROVE  IndexInv'
<1> USE DEF indexVars
<1>1. /\ UNCHANGED <<archives, methodmap, arch, pos, cur>>
      /\ lookup' = "walking" /\ asked' = <<n, m>> /\ at' = 1 /\ rest' = methodmap[n][m]
      /\ methodmap[n][m] # Absent /\ ~Indexing
  BY DEF CallGetIdx, Ready
<1>2. PICK b : Numbering(archives, arch, cur, b) /\ MapInv(b)
  BY DEF IndexInv, NumberInv
<1>3. IndexTypeOK
  BY DEF IndexInv
<1>4. PICK k \in DOMAIN archives : \E i \in DOMAIN archives[k] : methodmap[n][m] = b[k] + i - 1
  BY <1>1, <1>2, <1>3, EntryIsFile
<1>5. PICK i \in DOMAIN archives[k] : methodmap[n][m] = b[k] + i - 1
  BY <1>4
<1>6. b[k] \in Nat /\ i \in Nat /\ 1 <= i /\ 1 \in DOMAIN archives /\ b[1] = 0
  BY <1>1, <1>2, <1>3 DEF Numbering, IndexTypeOK, Indexing
<1>7. methodmap[n][m] \in Nat
  BY <1>5, <1>6
<1>8. IndexTypeOK'
  BY <1>1, <1>3, <1>7 DEF IndexTypeOK
<1>9. Numbering(archives, arch, cur, b)' /\ MapInv(b)'
  BY <1>1, <1>2 DEF MapInv
<1>10. LookupInv(b)'
  BY <1>1, <1>6, <1>7 DEF LookupInv, Indexing
<1> QED BY <1>8, <1>9, <1>10 DEF IndexInv, NumberInv

LEMMA WalkKeepsInv == IndexInv /\ GetIdxStep => IndexInv'
<1> SUFFICES ASSUME IndexInv, GetIdxStep PROVE IndexInv'
  OBVIOUS
<1> USE DEF indexVars
<1>1. IndexTypeOK /\ lookup = "walking" /\ UNCHANGED <<archives, methodmap, arch, pos, cur, asked>>
  BY DEF IndexInv, GetIdxStep, FoundHere, NotHere
<1>2. PICK b : Numbering(archives, arch, cur, b) /\ MapInv(b) /\ LookupInv(b)
  BY DEF IndexInv, NumberInv
<1>3. /\ ~Indexing /\ asked \in Names \X Methods /\ methodmap[asked[1]][asked[2]] # Absent
      /\ at \in DOMAIN archives /\ b[at] + rest = methodmap[asked[1]][asked[2]]
  BY <1>1, <1>2 DEF LookupInv
<1>4. Numbering(archives, arch, cur, b)' /\ MapInv(b)'
  BY <1>1, <1>2 DEF MapInv
<1>5. CASE FoundHere
  <2>1. IndexTypeOK'
    BY <1>1, <1>5 DEF FoundHere, IndexTypeOK
  <2>2. LookupInv(b)'
    BY <1>1, <1>3, <1>5 DEF FoundHere, LookupInv, Indexing
  <2> QED BY <1>4, <2>1, <2>2 DEF IndexInv, NumberInv
<1>6. CASE NotHere
  <2>1. rest >= Len(archives[at]) /\ rest' = rest - Len(archives[at]) /\ at' = at + 1 /\ lookup' = lookup
    BY <1>6 DEF NotHere
  <2>2. PICK k \in DOMAIN archives : \E i \in DOMAIN archives[k] :
          methodmap[asked[1]][asked[2]] = b[k] + i - 1
    BY <1>1, <1>2, <1>3, EntryIsFile
  <2>3. /\ Numbering(archives, Len(archives) + 1, cur, b)
        /\ archives \in Seq(Seq(Files)) /\ cur \in Nat /\ rest \in Nat
    BY <1>1, <1>2, <1>3, EntryIsFile DEF IndexTypeOK
  <2>4. at < k
    BY <1>3, <2>1, <2>2, <2>3, BeyondIsLater
  <2>5. /\ at + 1 \in DOMAIN archives /\ Len(archives[at]) \in Nat
        /\ at \in 1..(Len(archives) + 1) /\ at < Len(archives) + 1
    BY <1>3, <2>3, <2>4
  <2>6. b[at + 1] = b[at] + Len(archives[at]) /\ b[at] \in Nat
    BY <2>3, <2>5 DEF Numbering
  <2>7. rest' \in Nat /\ b[at + 1] + rest' = b[at] + rest
    BY <2>1, <2>3, <2>5, <2>6
  <2>8. IndexTypeOK'
    BY <1>1, <2>1, <2>7 DEF IndexTypeOK
  <2>9. LookupInv(b)'
    BY <1>1, <1>3, <2>1, <2>5, <2>7 DEF LookupInv, Indexing
  <2> QED BY <1>4, <2>8, <2>9 DEF IndexInv, NumberInv
<1> QED BY <1>5, <1>6 DEF GetIdxStep

LEMMA EndKeepsInv == IndexInv /\ EndLookup => IndexInv'
<1> SUFFICES ASSUME IndexInv, EndLookup PROVE IndexInv'
  OBVIOUS
<1> USE DEF indexVars
<1>1. IndexTypeOK'
  BY DEF IndexInv, IndexTypeOK, EndLookup
<1>2. PICK b : Numbering(archives, arch, cur, b) /\ MapInv(b)
  BY DEF IndexInv, NumberInv
<1>3. Numbering(archives, arch, cur, b)' /\ MapInv(b)' /\ LookupInv(b)'
  BY <1>2 DEF EndLookup, MapInv, LookupInv
<1> QED BY <1>1, <1>3 DEF IndexInv, NumberInv

LEMMA IndexInvStep == IndexInv /\ [IndexNext]_archiveIndexVars => IndexInv'
<1> SUFFICES ASSUME IndexInv, [IndexNext]_archiveIndexVars PROVE IndexInv'
  OBVIOUS
<1>1. CASE UNCHANGED archiveIndexVars
  BY <1>1
  DEF archiveIndexVars, indexVars, lookupVars, IndexInv, IndexTypeOK, NumberInv, MapInv, LookupInv, Indexing
<1> QED
  BY <1>1, LoadKeepsInv, AddFileKeepsInv, SkipFileKeepsInv, NextInputKeepsInv, CallKeepsInv,
     WalkKeepsInv, EndKeepsInv
  DEF IndexNext, IndexStep

LEMMA IndexInvGives == IndexInv => WalkStaysInside /\ IndexResolves
<1> SUFFICES ASSUME IndexInv, lookup # "none"
             PROVE  at \in DOMAIN archives /\ IndexResolves
  BY DEF WalkStaysInside, IndexResolves
<1>1. IndexTypeOK
  BY DEF IndexInv
<1>2. PICK b : Numbering(archives, arch, cur, b) /\ MapInv(b) /\ LookupInv(b)
  BY DEF IndexInv, NumberInv
<1>3. /\ ~Indexing /\ asked \in Names \X Methods /\ methodmap[asked[1]][asked[2]] # Absent
      /\ at \in DOMAIN archives /\ b[at] + rest = methodmap[asked[1]][asked[2]]
      /\ lookup = "found" => rest < Len(archives[at])
  BY <1>2 DEF LookupInv
<1>4. PICK k \in DOMAIN archives : \E i \in DOMAIN archives[k] :
        /\ methodmap[asked[1]][asked[2]] = b[k] + i - 1
        /\ FirstServer(archives, k, i, asked[1], asked[2])
  BY <1>1, <1>2, <1>3, EntryIsFile
<1>5. PICK i \in DOMAIN archives[k] :
        /\ methodmap[asked[1]][asked[2]] = b[k] + i - 1
        /\ FirstServer(archives, k, i, asked[1], asked[2])
  BY <1>4
<1>6. /\ Numbering(archives, Len(archives) + 1, cur, b)
      /\ archives \in Seq(Seq(Files)) /\ cur \in Nat /\ rest \in Nat
  BY <1>1, <1>2, <1>3, EntryIsFile DEF IndexTypeOK
<1>7. ASSUME lookup = "found" PROVE at = k /\ rest + 1 = i
  BY <1>3, <1>5, <1>6, <1>7, WithinIsHere
<1>8. IndexResolves
  BY <1>5, <1>7 DEF IndexResolves, FirstServer, Found
<1> QED BY <1>3, <1>8

\* The inductive invariant: every entry of the index is the number of the first file
\* that serves its name and method, and getidx stands for the entry it was called for.
THEOREM IndexInvariant == IndexSpec => []IndexInv
BY InitIndexInv, IndexInvStep, PTL DEF IndexSpec

\* getidx (webserver.go, 170-179) never returns nil for an entry of the index.
THEOREM LookupsStayInside == IndexSpec => []WalkStaysInside
BY IndexInvariant, IndexInvGives, PTL

\* What it returns is the first file of that name and method, in the order of the
\* archives, whatever their number and sizes.
THEOREM LookupsResolve == IndexSpec => []IndexResolves
BY IndexInvariant, IndexInvGives, PTL
====
