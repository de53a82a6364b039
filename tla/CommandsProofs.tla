---- MODULE CommandsProofs ----
(***************************************************************************)
(* Proofs about the smaller commands (ArchiveOffset, ZipToGzip,            *)
(* LinkRewriting), and that Commands, of which each process runs one,      *)
(* keeps the invariants of all of them.                                    *)
(***************************************************************************)
EXTENDS Commands, ZipSortProofs, NameTableProofs

---------------------------------------------------------------------------
(* ArchiveOffset.                                                          *)

\* What is known of the end record and of the directory at each step.
OffsetInv ==
    /\ IsLayout(layout)
    /\ opc \in {"tail", "find", "seek", "head", "returned"}
    /\ opc # "returned" => oresult = "none"
    /\ opc = "seek" =>
          idx = IF EndAt < FileSize - TailSize THEN -1 ELSE EndAt - (FileSize - TailSize)
    /\ opc = "head" => EndAt < FileSize - TailSize \/ head = DirectoryAt
    /\ TrimIsExact /\ RefusedHasCause

LEMMA LayoutNumbers ==
    ASSUME IsLayout(layout)
    PROVE  /\ Directory \in Nat /\ DirectoryAt \in Nat /\ EndAt \in Nat /\ FileSize \in Nat
           /\ EndAt = DirectoryAt + Directory /\ FileSize = EndAt + EndSize + layout.comment
           /\ layout.comment \in Nat /\ EndSize \in Nat /\ TailSize \in Nat
<1>1. layout.prefix \in Nat /\ layout.data \in Nat /\ layout.comment \in Nat
      /\ layout.header \in Nat /\ Len(layout.order) \in Nat
  BY DEF IsLayout
<1>2. Directory \in Nat  BY <1>1 DEF Directory
<1>3. DirectoryAt \in Nat  BY <1>1 DEF DirectoryAt
<1>4. EndSize \in Nat /\ TailSize \in Nat  BY OffsetAssumption
<1> QED BY <1>1, <1>2, <1>3, <1>4 DEF EndAt, FileSize

\* The header at the head of the directory is the first one; in the order of the data
\* it is that of the first entry, which begins where the prefix ends.
LEMMA FirstHeader ==
    ASSUME IsLayout(layout), InDataOrder, layout.order # <<>>
    PROVE  /\ DirectoryAt \in {DirectoryAt + layout.header * i : i \in 0..(Len(layout.order) - 1)}
           /\ LocalHeader(layout.order[(DirectoryAt - DirectoryAt) \div layout.header + 1]) = layout.prefix
<1>1. /\ layout.header \in Nat \ {0} /\ layout.prefix \in Nat
      /\ Len(layout.order) \in Nat \ {0} /\ DOMAIN layout.order = 1..Len(layout.order)
      /\ layout.starts # <<>> /\ layout.starts[1] = 0
  BY DEF IsLayout
<1>2. DirectoryAt \in Nat  BY LayoutNumbers
<1>3. DirectoryAt = DirectoryAt + layout.header * 0 /\ 0 \in 0..(Len(layout.order) - 1)
  BY <1>1, <1>2
<1>4. (DirectoryAt - DirectoryAt) \div layout.header = 0
  <2>1. DirectoryAt - DirectoryAt = 0  BY <1>2
  <2>2. 0 \div layout.header = 0  BY <1>1
  <2> QED BY <2>1, <2>2
<1>5. layout.order[1] = 1  BY <1>1 DEF InDataOrder
<1>6. LocalHeader(layout.order[(DirectoryAt - DirectoryAt) \div layout.header + 1]) = layout.prefix
  BY <1>1, <1>4, <1>5 DEF LocalHeader
<1> QED BY <1>3, <1>6

LEMMA OffsetStartsGood == ASSUME IsLayout(layout), OffsetStart PROVE OffsetInv
BY DEF OffsetStart, OffsetInv, TrimIsExact, RefusedHasCause

LEMMA OffsetStep == OffsetInv /\ [OffsetNext]_offsetVars => OffsetInv'
<1> SUFFICES ASSUME OffsetInv, [OffsetNext]_offsetVars PROVE OffsetInv'  OBVIOUS
<1>1. layout' = layout
  BY DEF OffsetNext, offsetVars, SeekTail, FindEnd, SeekDirectory, SeekSomewhere, ReadHead,
         OffsetUnreadable
<1>2. /\ Directory' = Directory /\ DirectoryAt' = DirectoryAt /\ EndAt' = EndAt
      /\ FileSize' = FileSize /\ IsLayout(layout)' /\ (InDataOrder' <=> InDataOrder)
  BY <1>1 DEF OffsetInv, Directory, DirectoryAt, EndAt, FileSize, IsLayout, InDataOrder
<1>3. IsLayout(layout)  BY DEF OffsetInv
<1>4. /\ Directory \in Nat /\ DirectoryAt \in Nat /\ EndAt \in Nat /\ FileSize \in Nat
      /\ EndAt = DirectoryAt + Directory /\ FileSize = EndAt + EndSize + layout.comment
      /\ layout.comment \in Nat /\ EndSize \in Nat /\ TailSize \in Nat
  BY <1>3, LayoutNumbers
<1>5. CASE SeekTail
  BY <1>1, <1>2, <1>5 DEF SeekTail, Give, OffsetInv, TrimIsExact, RefusedHasCause
<1>6. CASE FindEnd
  BY <1>1, <1>2, <1>6 DEF FindEnd, OffsetInv, TrimIsExact, RefusedHasCause
<1>7. CASE SeekDirectory
  <2>1. head' = DirectoryAt  BY <1>4, <1>7 DEF SeekDirectory, OffsetInv
  <2> QED BY <1>1, <1>2, <1>7, <2>1 DEF SeekDirectory, OffsetInv, TrimIsExact, RefusedHasCause
<1>8. CASE SeekSomewhere
  <2>1. EndAt < FileSize - TailSize  BY <1>4, <1>8 DEF SeekSomewhere, OffsetInv
  <2>2. EndSize + layout.comment > TailSize  BY <1>4, <2>1
  <2> QED BY <1>1, <1>2, <1>4, <1>8, <2>1, <2>2
           DEF SeekSomewhere, Give, OffsetInv, TrimIsExact, RefusedHasCause
<1>9. CASE ReadHead
  <2>1. opc' = "returned" /\ oresult' = "ok"  BY <1>9 DEF ReadHead, Give
  <2>2. ASSUME InDataOrder, EndSize + layout.comment <= TailSize
        PROVE  offs' = IF layout.order = <<>> THEN 0 ELSE layout.prefix
    <3>1. head = DirectoryAt  BY <1>4, <1>9, <2>2 DEF ReadHead, OffsetInv
    <3>2. CASE layout.order = <<>>
      <4>1. Len(layout.order) = 0  BY <3>2
      <4>2. {DirectoryAt + layout.header * i : i \in 0..(Len(layout.order) - 1)} = {}  BY <4>1
      <4> QED BY <1>9, <3>2, <4>2 DEF ReadHead, Give
    <3>3. CASE layout.order # <<>>
      BY <1>3, <1>9, <2>2, <3>1, <3>3, FirstHeader DEF ReadHead, Give
    <3> QED BY <3>2, <3>3
  <2>3. TrimIsExact'  BY <1>1, <1>2, <2>2 DEF TrimIsExact
  <2> QED BY <1>1, <1>2, <2>1, <2>3 DEF OffsetInv, RefusedHasCause
<1>10. CASE OffsetUnreadable
  BY <1>1, <1>2, <1>10 DEF OffsetUnreadable, Give, OffsetInv, TrimIsExact, RefusedHasCause
<1>11. CASE UNCHANGED offsetVars
  BY <1>2, <1>11 DEF offsetVars, OffsetInv, TrimIsExact, RefusedHasCause
<1> QED BY <1>5, <1>6, <1>7, <1>8, <1>9, <1>10, <1>11 DEF OffsetNext

LEMMA OffsetInvariant == OffsetSpec => []OffsetInv
<1>1. OffsetInit => OffsetInv
  BY OffsetAssumption, OffsetStartsGood DEF OffsetInit
<1> QED BY <1>1, OffsetStep, PTL DEF OffsetSpec

\* No entry of an archive that ziphttp has written is cut off, and exactly what
\* precedes the first one is, for files of every size (ArchiveOffset).
THEOREM TrimExact == OffsetSpec => []TrimIsExact
<1>1. OffsetInv => TrimIsExact  BY DEF OffsetInv
<1> QED BY <1>1, OffsetInvariant, PTL

\* A file is refused only when it is too short or the comment too long.
THEOREM RefusalCaused == OffsetSpec => []RefusedHasCause
<1>1. OffsetInv => RefusedHasCause  BY DEF OffsetInv
<1> QED BY <1>1, OffsetInvariant, PTL

---------------------------------------------------------------------------
(* ZipToGzip.                                                              *)

Forms == {"none", "plain", "gzip", "raw", "error"}

ExtractTypeOK ==
    /\ extract \in Seq(Entries) /\ all \in BOOLEAN /\ tar \in BOOLEAN
    /\ gpc \in {"entry", "ended"} /\ gnext \in 1..(Len(extract) + 1)
    /\ gresult \in {"none", "ok", "error"}
    /\ gpc = "entry" <=> gresult = "none"
    /\ gresult = "ok" => gnext > Len(extract)
    /\ targets \in [Targets -> [of : 0..Len(extract), form : Forms, whole : BOOLEAN]]
    /\ members \in Seq([size : Forms, content : [of : 1..Len(extract), form : Forms, whole : BOOLEAN]])

\* What has been written whole has the form that was announced; what has not is the
\* last and has ended the command.
WrittenInv ==
    /\ \A p \in Targets : targets[p].whole =>
          targets[p].of # 0 /\ targets[p].form = Announced(extract[targets[p].of].method)
    /\ \A p \in Targets : targets[p].of # 0 /\ ~targets[p].whole => gresult = "error"
    /\ \A i \in DOMAIN members :
          /\ members[i].size = Announced(extract[members[i].content.of].method)
          /\ members[i].content.whole => members[i].content.form = members[i].size
          /\ ~members[i].content.whole => i = Len(members) /\ gresult = "error"

\* The entries before gnext have been dealt with, unless the command has failed: the
\* file of one of them may then have been replaced by one that is cut short.
Treated(i) ==
    LET e == extract[i] IN
    \/ ~e.match \/ e.dots \/ (Announced(e.method) = "plain" /\ ~all)
    \/ tar /\ \E j \in DOMAIN members : members[j].content = [of |-> i, form |-> Announced(e.method), whole |-> TRUE]
    \/ ~tar /\ \E j \in i..(gnext - 1) : extract[j].path = e.path /\ targets[e.path].of = j
TreatedInv == gresult # "error" => \A i \in 1..(gnext - 1) : Treated(i)

ExtractInv == ExtractTypeOK /\ WrittenInv /\ TreatedInv

LEMMA ExtractStartsGood ==
    ASSUME extract \in Seq(Entries), all \in BOOLEAN, tar \in BOOLEAN, ExtractStart
    PROVE  ExtractInv
<1>1. Len(extract) \in Nat  OBVIOUS
<1>2. ExtractTypeOK
  <2>1. targets \in [Targets -> [of : 0..Len(extract), form : Forms, whole : BOOLEAN]]
    BY <1>1 DEF ExtractStart, Nothing, Forms
  <2> QED BY <1>1, <2>1 DEF ExtractTypeOK, ExtractStart
<1>3. WrittenInv  BY DEF WrittenInv, ExtractStart, Nothing
<1>4. TreatedInv  BY DEF TreatedInv, ExtractStart
<1> QED BY <1>2, <1>3, <1>4 DEF ExtractInv

\* The two lists of methods agree on all that output can write.
LEMMA ListsAgree ==
    ASSUME NEW m \in GzipMethods
    PROVE  /\ Written(m) # "error" => Written(m) = Announced(m)
           /\ Written(m) \in Forms /\ Announced(m) \in Forms
BY DEF GzipMethods, RawMethods, Written, Announced, Forms

LEMMA EntryIsTyped ==
    ASSUME ExtractTypeOK, AtEntry
    PROVE  /\ gnext \in 1..Len(extract) /\ Len(extract) \in Nat
           /\ Entry \in Entries /\ Entry.method \in GzipMethods /\ Entry.path \in Targets
<1>1. Len(extract) \in Nat /\ gnext \in 1..Len(extract)
  BY DEF ExtractTypeOK, AtEntry
<1>2. Entry \in Entries  BY <1>1 DEF ExtractTypeOK, Entry
<1> QED BY <1>1, <1>2 DEF Entries

LEMMA ExtractStep == ExtractInv /\ [ExtractNext]_extractVars => ExtractInv'
<1> SUFFICES ASSUME ExtractInv, [ExtractNext]_extractVars PROVE ExtractInv'  OBVIOUS
<1> USE DEF extractOptions
<1>1. ExtractTypeOK /\ WrittenInv /\ TreatedInv  BY DEF ExtractInv
<1>2. Len(extract) \in Nat /\ gnext \in Nat /\ gnext \in 1..(Len(extract) + 1)
  BY <1>1 DEF ExtractTypeOK
<1>3. CASE PassEntry
  <2>1. /\ AtEntry /\ Passed /\ gnext' = gnext + 1
        /\ UNCHANGED <<extract, all, tar, gpc, targets, members, gresult>>
    BY <1>3 DEF PassEntry
  <2>2. ExtractTypeOK'  BY <1>1, <1>2, <2>1, EntryIsTyped DEF ExtractTypeOK, AtEntry
  <2>3. WrittenInv'  BY <1>1, <2>1 DEF WrittenInv
  <2>4. ASSUME NEW i \in 1..gnext, gresult # "error" PROVE Treated(i)'
    <3>1. CASE i = gnext
      <4>1. ~Entry.match \/ Entry.dots \/ (Announced(Entry.method) = "plain" /\ ~all)
        BY <1>1, <2>1, EntryIsTyped, ListsAgree DEF Passed
      <4> QED BY <2>1, <3>1, <4>1 DEF Treated, Entry
    <3>2. CASE i # gnext
      <4>1. i \in 1..(gnext - 1)  BY <1>2, <3>2
      <4>2. Treated(i)  BY <1>1, <2>4, <4>1 DEF TreatedInv
      <4>3. i..(gnext - 1) \subseteq i..(gnext' - 1)  BY <1>2, <2>1
      <4> QED BY <2>1, <4>2, <4>3 DEF Treated
    <3> QED BY <3>1, <3>2
  <2>5. gnext' - 1 = gnext  BY <1>2, <2>1
  <2>6. TreatedInv'  BY <2>1, <2>4, <2>5 DEF TreatedInv
  <2> QED BY <2>2, <2>3, <2>6 DEF ExtractInv
<1>4. CASE ToTar
  <2>1. PICK whole \in {FALSE, Written(Entry.method) # "error"} :
           members' = Append(members, Member(whole)) /\ Continued(whole)
    BY <1>4 DEF ToTar
  <2>2. AtEntry /\ tar /\ UNCHANGED <<extract, all, tar, targets>>  BY <1>4 DEF ToTar
  <2>3. /\ gnext \in 1..Len(extract) /\ Entry.method \in GzipMethods
        /\ gpc = "entry" /\ gresult = "none"
    BY <1>1, <2>2, EntryIsTyped DEF ExtractTypeOK, AtEntry
  <2> DEFINE mb == Member(whole)
             M == Len(members)
  <2>4. /\ mb.size = Announced(extract[gnext].method) /\ mb.content.of = gnext
        /\ mb.content = [of |-> gnext, form |-> Written(Entry.method), whole |-> whole]
        /\ mb.content.whole = whole /\ (whole => mb.content.form = mb.size)
        /\ mb \in [size : Forms, content : [of : 1..Len(extract), form : Forms, whole : BOOLEAN]]
    BY <2>1, <2>3, ListsAgree DEF Member, Content, Entry
  <2>5. /\ whole => gnext' = gnext + 1 /\ gpc' = gpc /\ gresult' = gresult
        /\ ~whole => gnext' = gnext /\ gpc' = "ended" /\ gresult' = "error"
    BY <2>1 DEF Continued, Ended
  <2> HIDE DEF mb
  <2>6. /\ M \in Nat /\ DOMAIN members = 1..M /\ DOMAIN members' = 1..(M + 1) /\ Len(members') = M + 1
        /\ members'[M + 1] = mb /\ \A i \in 1..M : members'[i] = members[i]
    BY <1>1, <2>1, <2>4 DEF ExtractTypeOK, mb
  <2>7. members' \in Seq([size : Forms, content : [of : 1..Len(extract), form : Forms, whole : BOOLEAN]])
    BY <1>1, <2>1, <2>4 DEF ExtractTypeOK, mb
  <2>8. ExtractTypeOK'
    BY <1>1, <1>2, <2>2, <2>3, <2>5, <2>7 DEF ExtractTypeOK
  <2>9. WrittenInv'
    <3>1. \A p \in Targets : targets[p].of # 0 => targets[p].whole
      BY <1>1, <2>3 DEF WrittenInv, ExtractTypeOK
    <3>2. \A i \in 1..M : members[i].content.whole  BY <1>1, <2>3, <2>6 DEF WrittenInv
    <3>3. ASSUME NEW i \in 1..(M + 1)
          PROVE  /\ members'[i].size = Announced(extract[members'[i].content.of].method)
                 /\ members'[i].content.whole => members'[i].content.form = members'[i].size
                 /\ ~members'[i].content.whole => i = M + 1 /\ gresult' = "error"
      <4>1. CASE i = M + 1  BY <2>4, <2>5, <2>6, <4>1
      <4>2. CASE i \in 1..M  BY <1>1, <2>6, <3>2, <4>2 DEF WrittenInv
      <4> QED BY <2>6, <4>1, <4>2
    <3>4. \A p \in Targets : targets'[p].whole =>
             targets'[p].of # 0 /\ targets'[p].form = Announced(extract'[targets'[p].of].method)
      BY <1>1, <2>2 DEF WrittenInv
    <3> QED BY <2>2, <2>6, <3>1, <3>3, <3>4 DEF WrittenInv
  <2>10. ASSUME NEW i \in 1..(gnext' - 1), gresult' # "error" PROVE Treated(i)'
    <3>1. CASE i = gnext
      <4>1. whole  BY <1>2, <2>5, <3>1
      <4>2. members'[M + 1].content = [of |-> i, form |-> Announced(extract[i].method), whole |-> TRUE]
        <5>1. whole = TRUE  BY <2>1, <4>1
        <5>2. Written(Entry.method) = Announced(extract[i].method)
          BY <2>1, <2>3, <3>1, <4>1, ListsAgree DEF Entry
        <5> QED BY <2>4, <2>6, <3>1, <5>1, <5>2
      <4>3. M + 1 \in DOMAIN members'  BY <2>6
      <4> QED BY <2>2, <4>2, <4>3 DEF Treated
    <3>2. CASE i # gnext
      <4>1. i \in 1..(gnext - 1)  BY <1>2, <2>5, <3>2
      <4>2. Treated(i)  BY <1>1, <2>3, <4>1 DEF TreatedInv
      <4>3. \A j \in DOMAIN members : j \in DOMAIN members' /\ members'[j] = members[j]  BY <2>6
      <4> QED BY <2>2, <4>2, <4>3 DEF Treated
    <3> QED BY <3>1, <3>2
  <2> QED BY <2>8, <2>9, <2>10 DEF ExtractInv, TreatedInv
<1>5. CASE PathFails
  <2>1. AtEntry /\ gpc' = "ended" /\ gresult' = "error"
        /\ UNCHANGED <<extract, all, tar, gnext, targets, members>>
    BY <1>5 DEF PathFails, Ended
  <2>2. ExtractTypeOK'  BY <1>1, <2>1 DEF ExtractTypeOK
  <2>3. WrittenInv'  BY <1>1, <2>1 DEF WrittenInv
  <2>4. TreatedInv'  BY <1>1, <2>1 DEF TreatedInv, Treated
  <2> QED BY <2>2, <2>3, <2>4 DEF ExtractInv
<1>6. CASE ToFile
  <2>1. PICK whole \in {FALSE, Written(Entry.method) # "error"} :
           /\ targets' = [targets EXCEPT ![Entry.path] = Content(whole)]
           /\ Continued(whole) \/ Ended("error")
    BY <1>6 DEF ToFile
  <2>2. AtEntry /\ ~tar /\ UNCHANGED <<extract, all, tar, members>>  BY <1>6 DEF ToFile
  <2>3. /\ gnext \in 1..Len(extract) /\ Entry.method \in GzipMethods /\ Entry.path \in Targets
        /\ gpc = "entry" /\ gresult = "none"
    BY <1>1, <2>2, EntryIsTyped DEF ExtractTypeOK, AtEntry
  <2> DEFINE c == Content(whole)
  <2>4. /\ c.of = gnext /\ c.whole = whole /\ (whole => c.form = Announced(extract[gnext].method))
        /\ c \in [of : 0..Len(extract), form : Forms, whole : BOOLEAN]
    <3>1. gnext \in 0..Len(extract) /\ whole \in BOOLEAN
      <4>1. gnext \in 0..Len(extract)  BY <1>2, <2>3
      <4>2. whole \in BOOLEAN  BY <2>1, Zenon
      <4> QED BY <4>1, <4>2
    <3>2. Written(Entry.method) \in Forms
          /\ (whole => Written(Entry.method) = Announced(Entry.method))
      BY <2>1, <2>3, ListsAgree
    <3>3. c = [of |-> gnext, form |-> Written(Entry.method), whole |-> whole]
      BY DEF Content
    <3> QED BY <3>1, <3>2, <3>3 DEF Entry
  <2>5. \/ whole /\ gnext' = gnext + 1 /\ gpc' = gpc /\ gresult' = gresult
        \/ gnext' = gnext /\ gpc' = "ended" /\ gresult' = "error"
    BY <2>1 DEF Continued, Ended
  <2> HIDE DEF c
  <2>6. /\ targets'[Entry.path] = c
        /\ \A p \in Targets : p # Entry.path => targets'[p] = targets[p]
        /\ targets' \in [Targets -> [of : 0..Len(extract), form : Forms, whole : BOOLEAN]]
    BY <1>1, <2>1, <2>3, <2>4 DEF ExtractTypeOK, c
  <2>7. ExtractTypeOK'
    BY <1>1, <1>2, <2>2, <2>3, <2>5, <2>6 DEF ExtractTypeOK
  <2>8. WrittenInv'
    <3>1. ASSUME NEW p \in Targets
          PROVE  /\ targets'[p].whole =>
                       /\ targets'[p].of # 0
                       /\ targets'[p].form = Announced(extract[targets'[p].of].method)
                 /\ targets'[p].of # 0 /\ ~targets'[p].whole => gresult' = "error"
      <4>1. CASE p = Entry.path  BY <1>2, <2>3, <2>4, <2>5, <2>6, <4>1
      <4>2. CASE p # Entry.path  BY <1>1, <2>3, <2>6, <4>2 DEF WrittenInv
      <4> QED BY <4>1, <4>2
    <3>2. \A i \in DOMAIN members : members[i].content.whole
      BY <1>1, <2>3 DEF WrittenInv
    <3> QED BY <1>1, <2>2, <3>1, <3>2 DEF WrittenInv
  <2>9. ASSUME NEW i \in 1..(gnext' - 1), gresult' # "error" PROVE Treated(i)'
    <3>0. whole /\ gnext' = gnext + 1  BY <2>5, <2>9
    <3>1. i \in 1..Len(extract)  BY <1>2, <2>3, <2>5
    <3>2. extract[i] \in Entries  BY <1>1, <3>1 DEF ExtractTypeOK
    <3>3. extract[i].path \in Targets  BY <3>2 DEF Entries
    <3>4. CASE i = gnext
      <4>1. i \in i..(gnext' - 1) /\ extract[i].path = Entry.path /\ targets'[Entry.path].of = i
        BY <1>2, <2>4, <2>5, <2>6, <3>4 DEF Entry
      <4> QED BY <2>2, <4>1 DEF Treated
    <3>5. CASE i # gnext
      <4>1. i \in 1..(gnext - 1)  BY <1>2, <2>5, <3>5
      <4>2. Treated(i)  BY <1>1, <2>3, <4>1 DEF TreatedInv
      <4>3. i..(gnext - 1) \subseteq i..(gnext' - 1)  BY <1>2, <3>0
      <4>4. CASE extract[i].path # Entry.path
        <5>1. targets'[extract[i].path] = targets[extract[i].path]  BY <2>6, <3>3, <4>4
        <5> QED BY <2>2, <4>2, <4>3, <5>1 DEF Treated
      <4>5. CASE extract[i].path = Entry.path
        <5>1. gnext \in i..(gnext' - 1)  BY <1>2, <3>0, <4>1
        <5>2. extract[gnext].path = extract[i].path /\ targets'[extract[i].path].of = gnext
          BY <2>4, <2>6, <4>5 DEF Entry
        <5> QED BY <2>2, <5>1, <5>2 DEF Treated
      <4> QED BY <4>4, <4>5
    <3> QED BY <3>4, <3>5
  <2> QED BY <2>7, <2>8, <2>9 DEF ExtractInv, TreatedInv
<1>7. CASE ExtractReturns
  <2>1. gpc = "entry" /\ gnext > Len(extract) /\ gpc' = "ended" /\ gresult' = "ok"
        /\ UNCHANGED <<extract, all, tar, gnext, targets, members>>
    BY <1>7 DEF ExtractReturns, Ended
  <2>2. ExtractTypeOK'  BY <1>1, <2>1 DEF ExtractTypeOK
  <2>3. WrittenInv'  BY <1>1, <2>1 DEF WrittenInv, ExtractTypeOK
  <2>4. gresult # "error"  BY <1>1, <2>1 DEF ExtractTypeOK
  <2>5. \A i \in 1..(gnext - 1) : Treated(i)'
    BY <1>1, <2>1, <2>4 DEF TreatedInv, Treated
  <2>6. TreatedInv'  BY <2>1, <2>5 DEF TreatedInv
  <2> QED BY <2>2, <2>3, <2>6 DEF ExtractInv
<1>8. CASE UNCHANGED extractVars
  BY <1>1, <1>8 DEF extractVars, ExtractInv, ExtractTypeOK, WrittenInv, TreatedInv, Treated
<1> QED BY <1>3, <1>4, <1>5, <1>6, <1>7, <1>8 DEF ExtractNext

LEMMA ExtractInvariant == ExtractSpec => []ExtractInv
<1>1. ExtractInit => ExtractInv
  <2> SUFFICES ASSUME ExtractInit PROVE ExtractInv  OBVIOUS
  <2>1. extract \in Seq(Entries)  BY ExtractAssumption DEF ExtractInit
  <2> QED BY <2>1, ExtractStartsGood DEF ExtractInit
<1> QED BY <1>1, ExtractStep, PTL DEF ExtractSpec

LEMMA FormsAreTold == ExtractInv => NamesTellTheForm
BY DEF ExtractInv, WrittenInv, NamesTellTheForm

LEMMA CutsAreReported == ExtractInv => CutIsReported
<1> SUFFICES ASSUME ExtractInv PROVE CutIsReported  OBVIOUS
<1>1. ExtractTypeOK /\ WrittenInv /\ TreatedInv  BY DEF ExtractInv
<1>2. ASSUME gresult = "ok", NEW i \in DOMAIN extract
      PROVE  LET e == extract[i] IN
             \/ ~e.match \/ e.dots \/ (Announced(e.method) = "plain" /\ ~all)
             \/ tar /\ \E j \in DOMAIN members : members[j].content = [of |-> i, form |-> Announced(e.method), whole |-> TRUE]
             \/ ~tar /\ \E j \in i..Len(extract) : extract[j].path = e.path /\ targets[e.path].of = j
  <2>1. gnext - 1 = Len(extract) /\ i \in 1..Len(extract)
    BY <1>1, <1>2 DEF ExtractTypeOK
  <2>2. Treated(i)  BY <1>1, <1>2, <2>1 DEF TreatedInv
  <2> QED BY <2>1, <2>2 DEF Treated
<1>3. /\ \A p \in Targets : targets[p].of # 0 /\ ~targets[p].whole => gresult = "error"
      /\ \A i \in DOMAIN members : ~members[i].content.whole => i = Len(members) /\ gresult = "error"
  BY <1>1 DEF WrittenInv
<1> QED BY <1>2, <1>3 DEF CutIsReported

\* What zip2gzip has written whole has the form its name or its announced size tells
\* (namesize and output).
THEOREM FormsTold == ExtractSpec => []NamesTellTheForm
BY ExtractInvariant, FormsAreTold, PTL

\* What is cut short is last and is reported; success means that every entry asked
\* for is there.
THEOREM CutsReported == ExtractSpec => []CutIsReported
BY ExtractInvariant, CutsAreReported, PTL

---------------------------------------------------------------------------
(* LinkRewriting: paths.                                                   *)

\* Where s leads step by step, from nowhere.
IsWalk(r, s, n) ==
    /\ DOMAIN r = 0..n /\ r[0] = <<>>
    /\ \A i \in 1..n : r[i] = Follow(r[i - 1], s[i])

\* A path of n segments of S; after m segments s goes on along c.
IsPath(S, c, n) == c \in Seq(S) /\ n \in Nat /\ n = Len(c)
Along(s, m, c, n) == \A j \in 1..n : s[m + j] = c[j]
Back(s, m, n) == \A j \in 1..n : s[m + j] = ".."

LEMMA SamePath ==
    ASSUME NEW S, NEW a, NEW b, NEW n, IsPath(S, a, n), IsPath(S, b, n), Along(a, 0, b, n)
    PROVE  a = b
<1>1. \A j \in 1..n : a[j] = b[j]
  <2>1. \A j \in 1..n : 0 + j = j  BY DEF IsPath
  <2> QED BY <2>1 DEF Along
<1>2. a \in Seq(S) /\ b \in Seq(S) /\ Len(a) = n /\ Len(b) = n  BY DEF IsPath
<1> QED BY <1>1, <1>2

LEMMA JoinPath ==
    ASSUME NEW S, NEW a, NEW A, IsPath(S, a, A), NEW b, NEW B, IsPath(S, b, B)
    PROVE  IsPath(S, a \o b, A + B) /\ Along(a \o b, 0, a, A) /\ Along(a \o b, A, b, B)
BY DEF IsPath, Along

LEMMA CutPath ==
    ASSUME NEW S, NEW a, NEW A, IsPath(S, a, A), NEW n \in 0..A
    PROVE  /\ IsPath(S, SubSeq(a, 1, n), n) /\ Along(SubSeq(a, 1, n), 0, a, n)
           /\ IsPath(S, SubSeq(a, n + 1, A), A - n) /\ Along(a, n, SubSeq(a, n + 1, A), A - n)
BY DEF IsPath, Along

LEMMA WalkExists ==
    ASSUME NEW s \in Seq(Segments), NEW N \in Nat
    PROVE  \E r : r = [i \in 0..N |-> IF i = 0 THEN <<>> ELSE Follow(r[i - 1], s[i])]
<1> DEFINE Body(r, i) == IF i = 0 THEN <<>> ELSE Follow(r[i - 1], s[i])
           Walks(r, n) == r = [i \in 0..n |-> Body(r, i)]
           T == {n \in Nat : ~\E r : Walks(r, n)}
<1>1. SUFFICES ASSUME T # {} PROVE FALSE
  <2>1. T = {}  BY <1>1
  <2> QED BY <2>1
<1>2. PICK n \in T : \A m \in T : n <= m
  <2> HIDE DEF T
  <2>1. T \in SUBSET Nat  BY DEF T
  <2> QED BY <1>1, <2>1, LeastNatural
<1>3. n \in Nat  OBVIOUS
<1>4. CASE n = 0
  <2> DEFINE r == [i \in 0..0 |-> <<>>]
  <2>1. Walks(r, 0)  OBVIOUS
  <2> QED BY <1>4, <2>1
<1>5. CASE n # 0
  <2>1. n - 1 \in Nat /\ n - 1 \notin T  BY <1>2, <1>3, <1>5
  <2>2. PICK r : Walks(r, n - 1)  BY <2>1
  <2> DEFINE q == [i \in 0..n |-> IF i = n THEN Follow(r[n - 1], s[n]) ELSE r[i]]
  <2>3. ASSUME NEW i \in 0..n PROVE q[i] = Body(q, i)
    <3>1. CASE i = n
      <4>1. q[n - 1] = r[n - 1]  BY <1>3, <1>5
      <4> QED BY <1>5, <3>1, <4>1
    <3>2. CASE i # n
      <4>1. i \in 0..(n - 1)  BY <1>3, <3>2
      <4>2. r[i] = Body(r, i)  BY <2>2, <4>1
      <4>3. i # 0 => q[i - 1] = r[i - 1]  BY <1>3, <4>1
      <4> QED BY <3>2, <4>2, <4>3
    <3> QED BY <3>1, <3>2
  <2>4. Walks(q, n)  BY <2>3
  <2> QED BY <2>4
<1> QED BY <1>4, <1>5

LEMMA PlainWalks ==
    ASSUME NEW s \in Seq(Segments)
    PROVE  \E r : IsWalk(r, s, Len(s)) /\ Plain(s) = r[Len(s)]
<1> DEFINE N == Len(s)
           r == CHOOSE r : r = [i \in 0..N |-> IF i = 0 THEN <<>> ELSE Follow(r[i - 1], s[i])]
<1>1. N \in Nat  OBVIOUS
<1>2. Plain(s) = r[N]  BY DEF Plain
<1>3. r = [i \in 0..N |-> IF i = 0 THEN <<>> ELSE Follow(r[i - 1], s[i])]
  <2> HIDE DEF N
  <2>1. \E q : q = [i \in 0..N |-> IF i = 0 THEN <<>> ELSE Follow(q[i - 1], s[i])]
    BY <1>1, WalkExists
  <2> QED BY <2>1, Zenon
<1> HIDE DEF r
<1>4. IsWalk(r, s, N)  BY <1>1, <1>3 DEF IsWalk
<1> QED BY <1>2, <1>4

LEMMA AppendAfter ==
    ASSUME NEW d \in Seq(Names), NEW e \in Seq(Names), NEW x \in Names
    PROVE  Append(d \o e, x) = d \o Append(e, x)
<1> DEFINE p == Append(d \o e, x)
           q == d \o Append(e, x)
<1>1. p \in Seq(Names) /\ q \in Seq(Names) /\ Len(p) = Len(d) + Len(e) + 1 /\ Len(q) = Len(p)
  OBVIOUS
<1>2. \A i \in 1..Len(p) : p[i] = q[i]  OBVIOUS
<1> HIDE DEF p, q
<1>3. p = q  BY <1>1, <1>2
<1> QED BY <1>3 DEF p, q

\* Segments that are names are appended.
LEMMA WalkForward ==
    ASSUME NEW N \in Nat, NEW r, NEW s, IsWalk(r, s, N),
           NEW d \in Seq(Names), NEW c, NEW n, IsPath(Names, c, n),
           NEW m \in 0..N, m + n <= N, r[m] = d, Along(s, m, c, n)
    PROVE  r[m + n] = d \o c
<1> USE DEF IsPath, Along
<1> DEFINE T == {j \in 0..n : r[m + j] # d \o SubSeq(c, 1, j)}
<1>1. n \in Nat /\ c \o <<>> = c /\ SubSeq(c, 1, n) = c  OBVIOUS
<1>2. SUFFICES ASSUME T # {} PROVE FALSE
  <2>1. n \notin T  BY <1>2
  <2>2. n \in 0..n  OBVIOUS
  <2>3. r[m + n] = d \o SubSeq(c, 1, n)  BY <2>1, <2>2
  <2> QED BY <1>1, <2>3
<1>3. PICK j \in T : \A i \in T : j <= i
  <2> HIDE DEF T
  <2>1. T \in SUBSET Nat  BY <1>1 DEF T
  <2> QED BY <1>2, <2>1, LeastNatural
<1>4. j \in 0..n /\ r[m + j] # d \o SubSeq(c, 1, j)  OBVIOUS
<1>5. CASE j = 0
  <2>1. SubSeq(c, 1, 0) = <<>> /\ d \o <<>> = d  OBVIOUS
  <2> QED BY <1>4, <1>5, <2>1
<1>6. CASE j # 0
  <2>1. j \in 1..n /\ j - 1 \in 0..n /\ j - 1 < j  BY <1>1, <1>4, <1>6
  <2>2. r[m + (j - 1)] = d \o SubSeq(c, 1, j - 1)
    <3>1. j - 1 \notin T
      <4> HIDE DEF T
      <4> QED BY <1>3, <2>1
    <3> QED BY <2>1, <3>1
  <2>3. m + j \in 1..N /\ (m + j) - 1 = m + (j - 1)  BY <1>1, <2>1
  <2>4. r[m + j] = Follow(r[m + (j - 1)], s[m + j])  BY <2>3 DEF IsWalk
  <2>5. s[m + j] = c[j] /\ c[j] \in Names /\ c[j] \notin {".", ".."}
    BY <2>1, LinkAssumption
  <2>6. r[m + j] = Append(d \o SubSeq(c, 1, j - 1), c[j])
    BY <2>2, <2>4, <2>5 DEF Follow
  <2>7. Append(d \o SubSeq(c, 1, j - 1), c[j]) = d \o SubSeq(c, 1, j)
    <3>1. Append(SubSeq(c, 1, j - 1), c[j]) = SubSeq(c, 1, j)
      BY <2>1
    <3>2. SubSeq(c, 1, j - 1) \in Seq(Names)  BY <2>1
    <3> DEFINE e == SubSeq(c, 1, j - 1)
    <3>3. e \in Seq(Names)  BY <3>2
    <3> HIDE DEF e
    <3>4. Append(d \o e, c[j]) = d \o Append(e, c[j])  BY <2>5, <3>3, AppendAfter
    <3> QED BY <3>1, <3>4 DEF e
  <2> QED BY <1>4, <2>6, <2>7
<1> QED BY <1>5, <1>6

LEMMA WalkFromStart ==
    ASSUME NEW N \in Nat, NEW r, NEW s, IsWalk(r, s, N),
           NEW a, NEW A, IsPath(Names, a, A), A <= N, Along(s, 0, a, A)
    PROVE  r[A] = a
<1> DEFINE m == 0
           z == <<>>
<1>1. r[m + A] = z \o a
  <2>1. m + A <= N /\ m \in 0..N /\ A \in Nat  BY DEF IsPath
  <2>2. z \in Seq(Names) /\ r[m] = z /\ Along(s, m, a, A)  BY DEF IsWalk
  <2> HIDE DEF m, z
  <2> QED BY <2>1, <2>2, WalkForward
<1>2. m + A = A /\ z \o a = a  BY DEF IsPath
<1> QED BY <1>1, <1>2

\* Each ".." takes the last segment away.
LEMMA WalkBack ==
    ASSUME NEW N \in Nat, NEW r, NEW s, IsWalk(r, s, N),
           NEW d, NEW L, IsPath(Names, d, L), NEW m \in 0..N, NEW k \in 0..L,
           m + k <= N, r[m] = d, Back(s, m, k)
    PROVE  r[m + k] = SubSeq(d, 1, L - k)
<1> DEFINE T == {j \in 0..k : r[m + j] # SubSeq(d, 1, L - j)}
<1> USE DEF IsPath, Back
<1>1. L \in Nat /\ k \in Nat /\ k <= L  OBVIOUS
<1>2. SUFFICES ASSUME T # {} PROVE FALSE
  <2>1. k \notin T  BY <1>2
  <2> QED BY <1>1, <2>1
<1>3. PICK j \in T : \A i \in T : j <= i
  <2> HIDE DEF T
  <2>1. T \in SUBSET Nat  BY <1>1 DEF T
  <2> QED BY <1>2, <2>1, LeastNatural
<1>4. j \in 0..k /\ r[m + j] # SubSeq(d, 1, L - j)  OBVIOUS
<1>5. CASE j = 0
  <2>1. SubSeq(d, 1, L - 0) = d  OBVIOUS
  <2> QED BY <1>4, <1>5, <2>1
<1>6. CASE j # 0
  <2>1. j \in 1..k /\ j - 1 \in 0..k /\ j - 1 < j  BY <1>1, <1>4, <1>6
  <2>2. r[m + (j - 1)] = SubSeq(d, 1, L - (j - 1))
    <3>1. j - 1 \notin T
      <4> HIDE DEF T
      <4> QED BY <1>3, <2>1
    <3> QED BY <2>1, <3>1
  <2>3. m + j \in 1..N /\ (m + j) - 1 = m + (j - 1)  BY <1>1, <2>1
  <2>4. r[m + j] = Follow(SubSeq(d, 1, L - (j - 1)), "..")  BY <2>1, <2>2, <2>3 DEF IsWalk
  <2> DEFINE e == SubSeq(d, 1, L - (j - 1))
  <2>5. L - (j - 1) \in 1..L  BY <1>1, <2>1
  <2>6. e \in Seq(Names) /\ Len(e) = L - (j - 1) /\ e # <<>>
    <3>1. L - (j - 1) \in 1..Len(d)  BY <2>5
    <3> HIDE DEF T
    <3>2. \A x \in 1..Len(d) : SubSeq(d, 1, x) \in Seq(Names) /\ Len(SubSeq(d, 1, x)) = x
      OBVIOUS
    <3>3. e \in Seq(Names) /\ Len(e) = L - (j - 1)  BY <3>1, <3>2
    <3> QED BY <2>5, <3>3
  <2>7. Front(e) = SubSeq(d, 1, L - j)
    BY <1>1, <2>1, <2>5, <2>6 DEF Front
  <2>8. Follow(e, "..") = Front(e)  BY <2>6 DEF Follow
  <2> QED BY <1>4, <2>4, <2>7, <2>8
<1> QED BY <1>5, <1>6

\* A path without "." and ".." is plain.
LEMMA PlainOfNames == ASSUME NEW s \in Seq(Names) PROVE Plain(s) = s
<1>1. s \in Seq(Segments)  BY DEF Segments
<1>2. PICK r : IsWalk(r, s, Len(s)) /\ Plain(s) = r[Len(s)]  BY <1>1, PlainWalks
<1> DEFINE N == Len(s)
<1>3. N \in Nat /\ IsPath(Names, s, N) /\ N <= N /\ IsWalk(r, s, N) /\ Along(s, 0, s, N)
  BY <1>2 DEF IsPath, Along
<1>4. r[N] = s
  <2> HIDE DEF N
  <2> QED BY <1>3, WalkFromStart
<1> QED BY <1>2, <1>4

\* Along a, back by k segments and on along c.
Turns(s, a, A, k, c, C) ==
    /\ s \in Seq(Segments) /\ Len(s) = A + k + C
    /\ Along(s, 0, a, A) /\ Back(s, A, k) /\ Along(s, A + k, c, C)
Turned(a, A, k, c) == SubSeq(a, 1, A - k) \o c

LEMMA PlainGoesBack ==
    ASSUME NEW a, NEW A, IsPath(Names, a, A), NEW c, NEW C, IsPath(Names, c, C), NEW k \in 0..A,
           NEW s, Turns(s, a, A, k, c, C)
    PROVE  Plain(s) = Turned(a, A, k, c)
<1> DEFINE N == Len(s)
           d == SubSeq(a, 1, A - k)
<1>1. PICK r : IsWalk(r, s, N) /\ Plain(s) = r[N]  BY PlainWalks DEF Turns
<1>0. Along(s, 0, a, A) /\ Back(s, A, k) /\ Along(s, A + k, c, C)  BY DEF Turns
<1>2. N \in Nat /\ A \in Nat /\ C \in Nat /\ k \in Nat /\ k <= A /\ N = A + k + C
  BY DEF IsPath, Turns
<1>3. d \in Seq(Names)  BY <1>2 DEF IsPath
<1> HIDE DEF N, d
<1>4. r[A] = a
  <2>1. A <= N  BY <1>2
  <2> QED BY <1>0, <1>1, <1>2, <2>1, WalkFromStart
<1>5. r[A + k] = d
  <2>1. A \in 0..N /\ A + k <= N  BY <1>2
  <2>2. r[A + k] = SubSeq(a, 1, A - k)  BY <1>0, <1>1, <1>2, <1>4, <2>1, WalkBack
  <2> QED BY <2>2 DEF d
<1>6. r[(A + k) + C] = d \o c
  <2> DEFINE m == A + k
  <2>1. m \in 0..N /\ m + C <= N /\ Along(s, m, c, C) /\ r[m] = d  BY <1>0, <1>2, <1>5
  <2> HIDE DEF m
  <2>2. N \in Nat  BY <1>2
  <2>3. r[m + C] = d \o c  BY <1>1, <1>3, <2>1, <2>2, WalkForward
  <2> QED BY <2>3 DEF m
<1> QED BY <1>1, <1>2, <1>6 DEF d, Turned

\* The link of a folder to itself.
LEMMA PlainOfDot ==
    ASSUME NEW a \in Seq(Names) PROVE Plain(a \o <<".">>) = a
<1> DEFINE s == a \o <<".">>
           N == Len(s)
           A == Len(a)
<1>1. /\ s \in Seq(Segments) /\ A \in Nat /\ N = A + 1 /\ s[A + 1] = "."
      /\ \A i \in 1..A : s[i] = a[i]
  <2>1. a \in Seq(Segments)  BY DEF Segments
  <2>2. "." \in Segments  BY DEF Segments
  <2> QED BY <2>1, <2>2
<1> HIDE DEF s
<1>2. PICK r : IsWalk(r, s, N) /\ Plain(s) = r[N]  BY <1>1, PlainWalks
<1>3. N \in Nat /\ IsPath(Names, a, A) /\ A <= N /\ Along(s, 0, a, A)
  BY <1>1 DEF IsPath, Along
<1>4. r[A] = a
  <2> HIDE DEF N, A
  <2> QED BY <1>2, <1>3, WalkFromStart
<1>5. r[A + 1] = Follow(r[A], ".")  BY <1>1, <1>2 DEF IsWalk
<1>6. r[A + 1] = a  BY <1>4, <1>5 DEF Follow
<1> QED BY <1>1, <1>2, <1>6 DEF s

\* Whatever the path, what it leads to has no "." and no "..".
LEMMA PlainTyped == ASSUME NEW s \in Seq(Segments) PROVE Plain(s) \in Seq(Names)
<1>1. PICK r : IsWalk(r, s, Len(s)) /\ Plain(s) = r[Len(s)]  BY PlainWalks
<1> DEFINE N == Len(s)
           T == {j \in 0..N : r[j] \notin Seq(Names)}
<1>2. N \in Nat  OBVIOUS
<1>3. SUFFICES ASSUME T # {} PROVE FALSE
  <2>1. N \notin T  BY <1>3
  <2> QED BY <1>1, <1>2, <2>1
<1>4. PICK j \in T : \A i \in T : j <= i
  <2> HIDE DEF T
  <2>1. T \in SUBSET Nat  BY <1>2 DEF T
  <2> QED BY <1>3, <2>1, LeastNatural
<1>5. j \in 0..N /\ r[j] \notin Seq(Names)  OBVIOUS
<1>6. j # 0
  <2>1. r[0] = <<>> /\ <<>> \in Seq(Names)  BY <1>1 DEF IsWalk
  <2> QED BY <1>5, <2>1
<1>7. j \in 1..N /\ j - 1 \in 0..N /\ j - 1 < j  BY <1>2, <1>5, <1>6
<1>8. r[j - 1] \in Seq(Names)
  <2>1. j - 1 \notin T  BY <1>4, <1>7
  <2> QED BY <1>7, <2>1
<1>9. r[j] = Follow(r[j - 1], s[j]) /\ s[j] \in Segments  BY <1>1, <1>7 DEF IsWalk
<1> QED BY <1>5, <1>8, <1>9 DEF Follow, Front, Segments


LEMMA MaxIsIn ==
    ASSUME NEW N \in Nat, NEW T \in SUBSET (0..N), T # {} PROVE Max(T) \in T
<1> DEFINE D == {N - m : m \in T}
<1>1. D \in SUBSET Nat /\ D # {}
  <2>1. \A m \in T : N - m \in Nat  OBVIOUS
  <2> QED BY <2>1
<1>2. PICK d \in D : \A e \in D : d <= e
  <2> HIDE DEF D
  <2> QED BY <1>1, LeastNatural
<1>3. PICK x \in T : d = N - x  OBVIOUS
<1>4. \A y \in T : x >= y
  <2> TAKE y \in T
  <2>1. N - y \in D  OBVIOUS
  <2>2. d <= N - y
    <3> HIDE DEF D
    <3> QED BY <1>2, <2>1
  <2>3. x \in Int /\ y \in Int  OBVIOUS
  <2> QED BY <1>3, <2>2, <2>3
<1> QED BY <1>4 DEF Max

\* Two paths that begin with the same k segments: the second is what is left of the
\* first and the rest of the second, under any folder m.
Alike(d, p, k) == SubSeq(d, 1, k) = SubSeq(p, 1, k)
Swapped(m, M, d, k, p, P) == SubSeq(m \o d, 1, M + k) \o SubSeq(p, k + 1, P)

LEMMA SharedIsPrefix ==
    ASSUME NEW d, NEW D, IsPath(Names, d, D), NEW p, NEW P, IsPath(Names, p, P)
    PROVE  /\ Shared(d, p) \in 0..D /\ Shared(d, p) \in 0..P
           /\ Alike(d, p, Shared(d, p))
<1> DEFINE T == {k \in 0..D : k <= P /\ SubSeq(d, 1, k) = SubSeq(p, 1, k)}
<1>1. D \in Nat /\ P \in Nat /\ D = Len(d) /\ P = Len(p)  BY DEF IsPath
<1>2. T \in SUBSET (0..D)  OBVIOUS
<1>3. 0 \in T
  <2>1. SubSeq(d, 1, 0) = SubSeq(p, 1, 0)  BY DEF IsPath
  <2> QED BY <1>1, <2>1
<1>4. Shared(d, p) = Max(T)  BY <1>1 DEF Shared
<1>5. Max(T) \in T
  <2> HIDE DEF T
  <2> QED BY <1>1, <1>2, <1>3, MaxIsIn
<1> HIDE DEF T
<1>6. Shared(d, p) \in T  BY <1>4, <1>5
<1>7. ASSUME NEW k \in T PROVE k \in 0..D /\ k \in 0..P /\ Alike(d, p, k)
  BY <1>1 DEF T, Alike
<1> QED BY <1>6, <1>7

LEMMA SwapRest ==
    ASSUME NEW m, NEW M, IsPath(Names, m, M), NEW d, NEW D, IsPath(Names, d, D),
           NEW p, NEW P, IsPath(Names, p, P), NEW k \in 0..D, k \in 0..P,
           Alike(d, p, k)
    PROVE  Swapped(m, M, d, k, p, P) = m \o p
<1> DEFINE x == m \o d
           y == SubSeq(x, 1, M + k)
           z == SubSeq(p, k + 1, P)
           q == SubSeq(p, 1, k)
<1>1. IsPath(Names, x, M + D) /\ Along(x, 0, m, M) /\ Along(x, M, d, D)  BY JoinPath
<1>2. IsPath(Names, y, M + k) /\ Along(y, 0, x, M + k)
  <2>1. M + k \in 0..(M + D)  BY DEF IsPath
  <2> HIDE DEF x
  <2> QED BY <1>1, <2>1, CutPath
<1>3. /\ IsPath(Names, z, P - k) /\ Along(p, k, z, P - k)
      /\ IsPath(Names, q, k) /\ Along(q, 0, p, k)
  BY CutPath
<1>4. Along(q, 0, d, k)  BY CutPath DEF Alike
<1> HIDE DEF x, y, z, q
<1>5. IsPath(Names, y \o z, (M + k) + (P - k)) /\ Along(y \o z, 0, y, M + k) /\ Along(y \o z, M + k, z, P - k)
  BY <1>2, <1>3, JoinPath
<1>6. IsPath(Names, m \o p, M + P) /\ Along(m \o p, 0, m, M) /\ Along(m \o p, M, p, P)
  BY JoinPath
<1> DEFINE l == y \o z
           r == m \o p
<1> HIDE DEF l, r
<1>7. M \in Nat /\ D \in Nat /\ P \in Nat /\ k \in Nat /\ k <= D /\ k <= P  BY DEF IsPath
<1>8. ASSUME NEW i \in 1..(M + P) PROVE l[0 + i] = r[i]
  <2>1. CASE i \in 1..M
    <3>1. i \in 1..(M + k) /\ 0 + i = i  BY <1>7, <2>1
    <3>2. l[i] = y[i]  BY <1>5, <3>1 DEF l, Along
    <3>3. y[i] = x[i]  BY <1>2, <3>1 DEF Along
    <3>4. x[i] = m[i] /\ r[i] = m[i]  BY <1>1, <1>6, <2>1, <3>1 DEF r, Along
    <3> QED BY <3>1, <3>2, <3>3, <3>4
  <2>2. CASE i \in (M + 1)..(M + k)
    <3>1. i \in 1..(M + k) /\ 0 + i = i  BY <1>7, <2>2
    <3>2. PICK j \in 1..k : i = M + j
      <4>1. i - M \in 1..k /\ i = M + (i - M)  BY <1>7, <2>2
      <4> QED BY <4>1
    <3>3. l[i] = y[i]  BY <1>5, <3>1 DEF l, Along
    <3>4. y[i] = x[i]  BY <1>2, <3>1 DEF Along
    <3>5. j \in 1..D /\ j \in 1..P /\ 0 + j = j  BY <1>7, <3>2
    <3>6. x[i] = d[j]  BY <1>1, <3>2, <3>5 DEF Along
    <3>7. r[i] = p[j]  BY <1>6, <3>2, <3>5 DEF r, Along
    <3>8. d[j] = p[j]  BY <1>3, <1>4, <3>5 DEF Along
    <3> QED BY <3>1, <3>3, <3>4, <3>6, <3>7, <3>8
  <2>3. CASE i \in (M + k + 1)..(M + P)
    <3>1. PICK j \in 1..(P - k) : i = (M + k) + j
      <4>1. i - (M + k) \in 1..(P - k) /\ i = (M + k) + (i - (M + k))  BY <1>7, <2>3
      <4> QED BY <4>1
    <3>2. l[i] = z[j]  BY <1>5, <3>1 DEF l, Along
    <3>3. z[j] = p[k + j]  BY <1>3, <3>1 DEF Along
    <3>4. k + j \in 1..P /\ i = M + (k + j) /\ 0 + i = i  BY <1>7, <3>1
    <3>5. r[i] = p[k + j]  BY <1>6, <3>4 DEF r, Along
    <3> QED BY <3>2, <3>3, <3>4, <3>5
  <2> QED BY <1>7, <2>1, <2>2, <2>3
<1>9. (M + k) + (P - k) = M + P  BY <1>7
<1>10. IsPath(Names, l, M + P) /\ IsPath(Names, r, M + P) /\ Along(l, 0, r, M + P)
  BY <1>5, <1>6, <1>8, <1>9 DEF l, r, Along
<1>11. l = r  BY <1>10, SamePath
<1> QED BY <1>11 DEF Swapped, l, r, x, y, z

\* The path of a link, as fix_link writes it.
LinkPath(d, p) == IF PathFrom(d, p) = <<>> THEN <<".">> ELSE PathFrom(d, p)

\* It leads from the folder d to p, also when both are under another folder m, and it
\* ends in "." or ".." only where p is a folder of d.
LEMMA PathLeadsThere ==
    ASSUME NEW m, NEW M, IsPath(Names, m, M), NEW d, NEW D, IsPath(Names, d, D),
           NEW p, NEW P, IsPath(Names, p, P)
    PROVE  /\ LinkPath(d, p) \in Seq(Segments) /\ LinkPath(d, p) # <<>>
           /\ Plain((m \o d) \o LinkPath(d, p)) = m \o p
           /\ Last((m \o d) \o LinkPath(d, p)) \in {".", ".."} => IsPrefix(p, d)
<1> DEFINE k == Shared(d, p)
           n == D - k
           ups == [i \in 1..n |-> ".."]
           c == SubSeq(p, k + 1, P)
           a == m \o d
           f == PathFrom(d, p)
<1>1. IsPath(Names, m, M) /\ IsPath(Names, d, D) /\ IsPath(Names, p, P)
  OBVIOUS
<1>2. k \in 0..D /\ k \in 0..P /\ Alike(d, p, k)
  BY <1>1, SharedIsPrefix
<1> HIDE DEF k
<1>3. M \in Nat /\ D \in Nat /\ P \in Nat /\ k \in Nat /\ k <= D /\ k <= P
      /\ n \in Nat /\ n \in 0..(M + D) /\ P - k \in Nat
  BY <1>1, <1>2 DEF IsPath
<1>4. IsPath(Names, c, P - k)  BY <1>1, <1>2, CutPath
<1>5. IsPath(Names, a, M + D)  BY <1>1, JoinPath
<1>6. IsPath(Segments, c, P - k) /\ IsPath(Segments, a, M + D)
  BY <1>4, <1>5 DEF IsPath, Segments
<1>7. IsPath(Segments, ups, n) /\ Back(ups, 0, n)
  <2>1. ".." \in Segments  BY DEF Segments
  <2> QED BY <1>3, <2>1 DEF IsPath, Back
<1>8. f = ups \o c  BY DEF PathFrom, k, IsPath
<1> HIDE DEF a, c, ups, n, f
<1>9. IsPath(Segments, f, n + (P - k)) /\ Along(f, 0, ups, n) /\ Along(f, n, c, P - k)
  BY <1>6, <1>7, <1>8, JoinPath
<1>10. k = P => IsPrefix(p, d)
  BY <1>1, <1>2, <1>3 DEF IsPrefix, IsPath, Alike
<1>11. "." \in Segments  BY DEF Segments
<1>12. CASE f = <<>>
  <2>1. n + (P - k) = 0  BY <1>9, <1>12 DEF IsPath
  <2>2. n = 0 /\ P = k /\ D = k  BY <1>3, <2>1 DEF n
  <2>3. SubSeq(d, 1, D) = d /\ SubSeq(p, 1, P) = p  BY <1>1 DEF IsPath
  <2>4. d = p  BY <1>2, <2>2, <2>3 DEF Alike
  <2>5. LinkPath(d, p) = <<".">>  BY <1>12 DEF LinkPath, f
  <2>6. Plain(a \o <<".">>) = a
    <3>1. a \in Seq(Names)  BY <1>5 DEF IsPath
    <3> QED BY <3>1, PlainOfDot
  <2>7. <<".">> \in Seq(Segments) /\ <<".">> # <<>>  BY <1>11
  <2> QED BY <1>10, <2>2, <2>4, <2>5, <2>6, <2>7 DEF a
<1>13. CASE f # <<>>
  <2> DEFINE A == M + D
             C == P - k
             s == a \o f
  <2>1. LinkPath(d, p) = f  BY <1>13 DEF LinkPath, f
  <2>2. IsPath(Segments, s, A + (n + C)) /\ Along(s, 0, a, A) /\ Along(s, A, f, n + C)
    BY <1>6, <1>9, JoinPath
  <2>3. A \in Nat /\ C \in Nat /\ n \in 0..A  BY <1>3
  <2>4. IsPath(Names, a, A) /\ IsPath(Names, c, C)  BY <1>4, <1>5
  <2> HIDE DEF A, C, s
  <2>5. Back(s, A, n)
    <3>1. ASSUME NEW i \in 1..n PROVE s[A + i] = ".."
      <4>1. i \in 1..(n + C) /\ 0 + i = i  BY <1>3, <2>3
      <4>2. s[A + i] = f[i]  BY <2>2, <4>1 DEF Along
      <4>3. f[0 + i] = ups[i] /\ ups[0 + i] = ".."  BY <1>7, <1>9 DEF Along, Back
      <4> QED BY <4>1, <4>2, <4>3
    <3> QED BY <3>1 DEF Back
  <2>6. Along(s, A + n, c, C)
    <3>1. ASSUME NEW i \in 1..C PROVE s[(A + n) + i] = c[i]
      <4>1. n + i \in 1..(n + C) /\ (A + n) + i = A + (n + i)  BY <1>3, <2>3
      <4>2. s[A + (n + i)] = f[n + i]  BY <2>2, <4>1 DEF Along
      <4>3. f[n + i] = c[i]  BY <1>9 DEF Along, C
      <4> QED BY <4>1, <4>2, <4>3
    <3> QED BY <3>1 DEF Along
  <2>7. s \in Seq(Segments) /\ Len(s) = A + n + C  BY <1>3, <2>2, <2>3 DEF IsPath
  <2>8. Plain(s) = Turned(a, A, n, c)
    <3>1. Turns(s, a, A, n, c, C)  BY <2>2, <2>5, <2>6, <2>7 DEF Turns
    <3> QED BY <2>3, <2>4, <3>1, PlainGoesBack
  <2>9. A - n = M + k  BY <1>3 DEF n, A
  <2>10. Swapped(m, M, d, k, p, P) = m \o p  BY <1>1, <1>2, SwapRest
  <2>11. Plain(s) = m \o p  BY <2>8, <2>9, <2>10 DEF Turned, Swapped, a, c
  <2>12. ASSUME k # P PROVE Last(s) \notin {".", ".."}
    <3>1. C \in 1..C /\ Len(s) = (A + n) + C  BY <1>3, <2>7, <2>12 DEF C
    <3>2. Last(s) = c[C]  BY <2>6, <3>1 DEF Last, Along
    <3>3. c[C] \in Names  BY <2>4, <3>1 DEF IsPath
    <3> QED BY <3>2, <3>3, LinkAssumption
  <2>13. f \in Seq(Segments)  BY <1>9 DEF IsPath
  <2> QED BY <1>10, <1>13, <2>1, <2>11, <2>12, <2>13 DEF s, a
<1> QED BY <1>12, <1>13

---------------------------------------------------------------------------
(* LinkRewriting: one link.                                                *)

LEMMA FolderTyped ==
    ASSUME NEW q, IsPage(q)
    PROVE  Folder(q.url) \in Seq(Names)
<1>1. q.url.path \in Seq(Names)  BY DEF IsPage
<1> QED BY <1>1 DEF Folder, Front

\* A link that names no other site is resolved to a place of the page's site.
LEMMA ResolveIs ==
    ASSUME NEW q, IsPage(q), NEW u \in Urls, NEW t, t = Resolve(q.url, u)
    PROVE  /\ ~t.abs => t = u /\ u.site # NoSite
           /\ t.abs => t \in Urls /\ t.path \in Seq(Names) /\ (u.site = NoSite => t.site = q.url.site)
           /\ t.kept = u.kept
           /\ u.site # NoSite => \A c : Resolve(c, u) = t
<1> DEFINE b == q.url
<1>1. /\ b.site \in Sites /\ b.site # NoSite /\ b.abs = TRUE /\ b.path \in Seq(Names)
      /\ b.slash \in BOOLEAN
  BY DEF IsPage, Urls
<1>2. /\ u.site \in Sites \union {NoSite} /\ u.abs \in BOOLEAN /\ u.path \in Seq(Segments)
      /\ u.slash \in BOOLEAN /\ u.kept \in BOOLEAN
  BY DEF Urls
<1>3. ASSUME NEW site \in Sites, NEW path \in Seq(Segments), NEW slash \in BOOLEAN
      PROVE  LET l == Located(u, site, path, slash) IN
             l \in Urls /\ l.abs /\ l.path \in Seq(Names) /\ l.site = site /\ l.kept = u.kept
  <2>1. Plain(path) \in Seq(Names)  BY PlainTyped
  <2>2. Plain(path) \in Seq(Segments)  BY <2>1 DEF Segments
  <2> QED BY <1>2, <2>1, <2>2 DEF Located, Urls
<1>4. CASE u.site # NoSite /\ ~u.abs
  <2>1. \A c : Resolve(c, u) = u  BY <1>4 DEF Resolve
  <2> QED BY <1>4, <2>1
<1>5. CASE u.site # NoSite /\ u.abs
  <2>1. \A c : Resolve(c, u) = Located(u, u.site, u.path, u.slash)  BY <1>5 DEF Resolve
  <2>2. t = Located(u, u.site, u.path, u.slash)  BY <2>1
  <2> QED BY <1>2, <1>3, <1>5, <2>1, <2>2
<1>6. CASE u.site = NoSite /\ u.abs
  <2>1. t = Located(u, b.site, u.path, u.slash)  BY <1>6 DEF Resolve
  <2> QED BY <1>1, <1>2, <1>3, <1>6, <2>1
<1>7. CASE u.site = NoSite /\ ~u.abs /\ u.path = <<>>
  <2>1. t = Located(u, b.site, b.path, b.slash)  BY <1>7 DEF Resolve
  <2>2. b.path \in Seq(Segments)  BY <1>1 DEF Segments
  <2> QED BY <1>1, <1>3, <1>7, <2>1, <2>2
<1>8. CASE u.site = NoSite /\ ~u.abs /\ u.path # <<>>
  <2> DEFINE path == Folder(b) \o u.path
  <2>1. t = Located(u, b.site, path, u.slash)  BY <1>8 DEF Resolve
  <2>2. path \in Seq(Segments)
    <3>1. Folder(b) \in Seq(Names)  BY FolderTyped
    <3>2. Folder(b) \in Seq(Segments)  BY <3>1 DEF Segments
    <3> QED BY <1>2, <3>2
  <2> HIDE DEF path
  <2> QED BY <1>1, <1>2, <1>3, <1>8, <2>1, <2>2
<1> QED BY <1>2, <1>4, <1>5, <1>6, <1>7, <1>8

LEMMA MovedFolder ==
    ASSUME NEW q, IsPage(q)
    PROVE  Folder(Moved(q.url)) = MovedTo.path \o Folder(q.url)
<1> DEFINE m == MovedTo.path
           p == q.url.path
<1>1. m \in Seq(Names) /\ p \in Seq(Names)  BY LinkAssumption DEF IsPage
<1>2. Moved(q.url).path = m \o p /\ Moved(q.url).slash = q.url.slash
  BY DEF Moved, IsPage, Urls
<1>3. CASE q.url.slash  BY <1>2, <1>3 DEF Folder
<1>4. CASE ~q.url.slash
  <2>1. p # <<>>  BY <1>4 DEF IsPage
  <2>2. Folder(q.url) = Front(p) /\ Folder(Moved(q.url)) = Front(m \o p)
    <3>1. m \o p # <<>>  BY <1>1, <2>1
    <3> QED BY <1>2, <1>4, <2>1, <3>1 DEF Folder
  <2> HIDE DEF m, p
  <2>3. Front(m \o p) = m \o Front(p)
    <3> DEFINE l == Front(m \o p)
               r == m \o Front(p)
               N == Len(m) + Len(p) - 1
    <3>1. N \in Nat /\ l \in Seq(Names) /\ r \in Seq(Names) /\ Len(l) = N /\ Len(r) = N
      BY <1>1, <2>1 DEF Front
    <3>2. \A i \in 1..N : l[i] = r[i]  BY <1>1, <2>1 DEF Front
    <3> HIDE DEF l, r, N
    <3>3. l = r  BY <3>1, <3>2
    <3> QED BY <3>3 DEF l, r
  <2> QED BY <2>2, <2>3 DEF m, p
<1> QED BY <1>3, <1>4

LEMMA WithSlash ==
    ASSUME NEW site, NEW abs, NEW path, NEW slash, NEW kept, NEW y
    PROVE  [[site |-> site, abs |-> abs, path |-> path, slash |-> slash, kept |-> kept] EXCEPT !.slash = y]
              = [site |-> site, abs |-> abs, path |-> path, slash |-> y, kept |-> kept]
OBVIOUS

LEMMA LinkSurvives ==
    ASSUME NEW q, IsPage(q), NEW u \in Urls
    PROVE  FixLink(q.url, u) \in Urls /\ Survives(q.url, u, FixLink(q.url, u))
<1> DEFINE b == q.url
           t == Resolve(b, u)
           m == MovedTo.path
           d == Folder(b)
           v == FixLink(b, u)
           now == Resolve(Moved(b), v)
<1>1. /\ ~t.abs => t = u /\ u.site # NoSite
      /\ t.abs => t \in Urls /\ t.path \in Seq(Names) /\ (u.site = NoSite => t.site = b.site)
      /\ t.kept = u.kept
      /\ u.site # NoSite => \A c : Resolve(c, u) = t
  BY ResolveIs
<1> HIDE DEF t
<1>2. CASE u.kept \/ ~t.abs \/ ~SameHost(t, b)
  <2>1. v = u  BY <1>2 DEF FixLink, t
  <2>2. CASE u.kept  BY <2>1, <2>2 DEF Survives
  <2>3. CASE ~u.kept
    <3>1. u.site # NoSite
      <4>1. CASE ~t.abs  BY <1>1, <4>1
      <4>2. CASE ~SameHost(t, b) /\ t.abs
        <5>1. t.site # b.site  BY <4>2, Zenon DEF SameHost
        <5> QED BY <1>1, <4>2, <5>1
      <4> QED BY <1>2, <2>3, <4>1, <4>2
    <3>2. now = t  BY <1>1, <2>1, <3>1
    <3>3. (~t.abs /\ now = t) \/ (~SameHost(t, b) /\ now = t)  BY <1>2, <2>3, <3>2
    <3> QED BY <2>1, <3>3 DEF Survives, t
  <2> QED BY <2>1, <2>2, <2>3
<1>3. CASE ~(u.kept \/ ~t.abs \/ ~SameHost(t, b))
  <2>1. t \in Urls /\ t.path \in Seq(Names) /\ t.abs /\ SameHost(t, b)  BY <1>1, <1>3
  <2> DEFINE l == LinkPath(d, t.path)
             s == (m \o d) \o l
             mt == [site |-> MovedTo.site, abs |-> t.abs, path |-> m \o t.path,
                    slash |-> t.slash, kept |-> t.kept]
  <2>2. v = [site |-> NoSite, abs |-> FALSE, path |-> l, slash |-> t.slash, kept |-> t.kept]
    BY <1>3 DEF FixLink, Rel, LinkPath, t
  <2>3. /\ l \in Seq(Segments) /\ l # <<>> /\ Plain(s) = m \o t.path
        /\ Last(s) \in {".", ".."} => IsPrefix(t.path, d)
    <3> DEFINE p == t.path
               M == Len(m)
               D == Len(d)
               P == Len(p)
    <3>1. d \in Seq(Names)  BY FolderTyped
    <3>2. IsPath(Names, m, M) /\ IsPath(Names, d, D) /\ IsPath(Names, p, P)
      BY <2>1, <3>1, LinkAssumption DEF IsPath
    <3> HIDE DEF m, d, p, M, D, P
    <3>3. /\ LinkPath(d, p) \in Seq(Segments) /\ LinkPath(d, p) # <<>>
          /\ Plain((m \o d) \o LinkPath(d, p)) = m \o p
          /\ Last((m \o d) \o LinkPath(d, p)) \in {".", ".."} => IsPrefix(p, d)
      BY <3>2, PathLeadsThere
    <3> QED BY <3>3 DEF p
  <2>4. v \in Urls
    <3>1. NoSite \in Sites \union {NoSite} /\ t.slash \in BOOLEAN /\ t.kept \in BOOLEAN
      BY <2>1 DEF Urls
    <3> HIDE DEF l
    <3> QED BY <2>2, <2>3, <3>1 DEF Urls
  <2>5. now = [site |-> MovedTo.site, abs |-> TRUE, path |-> Plain(s),
               slash |-> t.slash \/ Plain(s) = <<>> \/ Last(s) \in {".", ".."}, kept |-> t.kept]
    <3>1. Folder(Moved(b)) = m \o d  BY MovedFolder
    <3>2. Moved(b).site = MovedTo.site  BY DEF Moved
    <3> HIDE DEF l
    <3>3. v.site = NoSite /\ v.abs = FALSE /\ v.path = l /\ v.slash = t.slash /\ v.kept = t.kept
      BY <2>2
    <3>4. now = Located(v, MovedTo.site, Folder(Moved(b)) \o l, t.slash)
      <4> HIDE DEF v
      <4> QED BY <2>3, <3>2, <3>3 DEF Resolve
    <3> HIDE DEF now, v
    <3> QED BY <3>1, <3>3, <3>4 DEF Located
  <2>6. Moved(t) = mt  BY DEF Moved
  <2>7. Plain(s) = <<>> => IsPrefix(t.path, d)
    <3>1. ASSUME m \o t.path = <<>> PROVE t.path = <<>>
      BY <2>1, <3>1, LinkAssumption
    <3>2. IsPrefix(<<>>, d)
      <4>1. d \in Seq(Names)  BY FolderTyped
      <4> HIDE DEF d
      <4> QED BY <4>1 DEF IsPrefix
    <3> QED BY <2>3, <3>1, <3>2
  <2> HIDE DEF l, s, d, now, v, m
  <2>8. t.slash \in BOOLEAN /\ t.abs \in BOOLEAN  BY <2>1 DEF Urls
  <2>9. now \in {Moved(t), [Moved(t) EXCEPT !.slash = TRUE]}
        /\ (now.slash # t.slash => IsPrefix(t.path, d))
    <3> DEFINE dots == Plain(s) = <<>> \/ Last(s) \in {".", ".."}
    <3>1. CASE ~dots
      <4>1. (t.slash \/ Plain(s) = <<>> \/ Last(s) \in {".", ".."}) = t.slash  BY <2>8, <3>1
      <4>2. now = mt  BY <2>1, <2>3, <2>5, <2>8, <4>1
      <4>3. now.slash = t.slash  BY <4>2
      <4> QED BY <2>6, <4>2, <4>3
    <3>2. CASE dots
      <4>1. (t.slash \/ Plain(s) = <<>> \/ Last(s) \in {".", ".."}) = TRUE  BY <3>2
      <4>2. now = [site |-> MovedTo.site, abs |-> t.abs, path |-> m \o t.path,
                   slash |-> TRUE, kept |-> t.kept]
        BY <2>1, <2>3, <2>5, <2>8, <4>1
      <4>3. [mt EXCEPT !.slash = TRUE] = [site |-> MovedTo.site, abs |-> t.abs,
                   path |-> m \o t.path, slash |-> TRUE, kept |-> t.kept]
        <5> DEFINE site == MovedTo.site
                   abs == t.abs
                   path == m \o t.path
                   slash == t.slash
                   kept == t.kept
                   y == TRUE
        <5>1. mt = [site |-> site, abs |-> abs, path |-> path, slash |-> slash, kept |-> kept]
          OBVIOUS
        <5> HIDE DEF site, abs, path, slash, kept, y, mt
        <5>2. [mt EXCEPT !.slash = y] =
                 [site |-> site, abs |-> abs, path |-> path, slash |-> y, kept |-> kept]
          BY <5>1, WithSlash
        <5> QED BY <5>2 DEF site, abs, path, slash, kept, y
      <4> QED BY <2>3, <2>6, <2>7, <3>2, <4>2, <4>3
    <3> QED BY <3>1, <3>2
  <2> QED BY <2>1, <2>4, <2>9 DEF Survives, t, d, now, v
<1> QED BY <1>2, <1>3

---------------------------------------------------------------------------
(* LinkRewriting: the pipe.                                                *)

LinkTypeOK ==
    /\ IsPage(page) /\ doc \in Seq(Urls) /\ via \in {"pipe", "copy", "link"}
    /\ lpc \in {"read", "write", "closed"} /\ cpc \in {"copy", "wait", "returned"}
    /\ left \in Seq(Urls) /\ pipe \in Seq(Urls) /\ dst \in Seq(Urls)
    /\ failed \in BOOLEAN /\ dropped \in BOOLEAN

\* What has been written and what will be is a beginning of the page; it is the whole
\* page unless the rewriter has failed.
Sent(d, p, l) == \E k \in 0..Len(doc) : (d \o p) \o l = SubSeq(Fixed, 1, k) /\ dropped = (k < Len(doc))
Begins(d) == \A i \in 1..Len(d) : i <= Len(doc) /\ d[i] = Fixed[i]

PipeInv ==
    /\ lpc = "read" => cpc = "copy" /\ left = <<>> /\ pipe = <<>> /\ dst = <<>>
    /\ lpc = "closed" => left = <<>> /\ pipe = <<>>
    /\ cpc = "copy" => ~failed
    /\ cpc = "wait" => failed \/ lpc = "closed"
    /\ cpc = "returned" => lpc = "closed"
    /\ Begins(dst)
    /\ lpc # "read" /\ ~failed => Sent(dst, pipe, left)

\* Without the pipe the page is copied in one step.
DirectInv ==
    /\ lpc = "read" /\ pipe = <<>> /\ left = <<>> /\ cpc \in {"copy", "returned"}
    /\ via = "link" => Begins(dst)
    /\ cpc = "returned" /\ ~failed => dst = IF via = "link" THEN Fixed ELSE doc

LinkInv ==
    /\ LinkTypeOK
    /\ via = "pipe" => PipeInv
    /\ via # "pipe" => DirectInv

LEMMA FixedTyped ==
    ASSUME LinkTypeOK
    PROVE  /\ Fixed \in Seq(Urls) /\ Len(Fixed) = Len(doc) /\ Len(doc) \in Nat
           /\ page.html => \A i \in 1..Len(doc) : Fixed[i] = FixLink(page.url, doc[i])
<1>1. IsPage(page) /\ doc \in Seq(Urls)  BY DEF LinkTypeOK
<1>2. \A i \in 1..Len(doc) : doc[i] \in Urls  BY <1>1
<1>3. \A i \in 1..Len(doc) : FixLink(page.url, doc[i]) \in Urls  BY <1>1, <1>2, LinkSurvives
<1> QED BY <1>1, <1>3 DEF Fixed

LEMMA WriteMoves ==
    ASSUME NEW d \in Seq(Urls), NEW l \in Seq(Urls), l # <<>>
    PROVE  (d \o <<Head(l)>>) \o Tail(l) = (d \o <<>>) \o l
<1> DEFINE a == (d \o <<Head(l)>>) \o Tail(l)
           b == (d \o <<>>) \o l
           N == Len(d) + Len(l)
           h == Head(l)
           t == Tail(l)
<1>1. h \in Urls /\ t \in Seq(Urls) /\ Len(t) = Len(l) - 1 /\ h = l[1]
      /\ (\A i \in 1..Len(t) : t[i] = l[i + 1]) /\ Len(l) \in Nat \ {0} /\ Len(d) \in Nat
  OBVIOUS
<1> HIDE DEF h, t
<1>2. /\ a \in Seq(Urls) /\ Len(a) = N
      /\ (\A i \in 1..Len(d) : a[i] = d[i]) /\ a[Len(d) + 1] = h
      /\ \A i \in 1..Len(t) : a[Len(d) + 1 + i] = t[i]
  BY <1>1 DEF h, t
<1>3. /\ b \in Seq(Urls) /\ Len(b) = N
      /\ (\A i \in 1..Len(d) : b[i] = d[i]) /\ \A i \in 1..Len(l) : b[Len(d) + i] = l[i]
  BY <1>1
<1> HIDE DEF a, b
<1>4. ASSUME NEW i \in 1..N PROVE a[i] = b[i]
  <2>1. CASE i \in 1..Len(d)  BY <1>2, <1>3, <2>1
  <2>2. CASE i = Len(d) + 1
    <3>1. 1 \in 1..Len(l)  BY <1>1
    <3> QED BY <1>1, <1>2, <1>3, <2>2, <3>1
  <2>3. CASE i \in (Len(d) + 2)..N
    <3>1. PICK j \in 1..Len(t) : i = Len(d) + 1 + j
      <4>1. i - (Len(d) + 1) \in 1..Len(t) /\ i = Len(d) + 1 + (i - (Len(d) + 1))  BY <1>1, <2>3
      <4> QED BY <4>1
    <3>2. j + 1 \in 1..Len(l) /\ Len(d) + 1 + j = Len(d) + (j + 1)  BY <1>1, <3>1
    <3> QED BY <1>1, <1>2, <1>3, <3>1, <3>2
  <2>4. Len(d) \in Nat /\ N \in Nat /\ i \in 1..N  BY <1>1
  <2>5. i \in 1..Len(d) \/ i = Len(d) + 1 \/ i \in (Len(d) + 2)..N
    <3> HIDE DEF N
    <3> QED BY <2>4
  <2> QED BY <2>1, <2>2, <2>3, <2>5
<1>5. a = b  BY <1>2, <1>3, <1>4
<1> QED BY <1>5 DEF a, b, h, t

LEMMA SentBegins ==
    ASSUME LinkTypeOK, NEW d \in Seq(Urls), NEW l \in Seq(Urls),
           \E k \in 0..Len(doc) : d \o l = SubSeq(Fixed, 1, k)
    PROVE  Begins(d)
<1> DEFINE f == Fixed
           N == Len(doc)
<1>1. f \in Seq(Urls) /\ Len(f) = N /\ N \in Nat  BY FixedTyped
<1>2. PICK k \in 0..N : d \o l = SubSeq(f, 1, k)  OBVIOUS
<1> HIDE DEF f, N
<1>3. Len(SubSeq(f, 1, k)) = k /\ \A i \in 1..k : SubSeq(f, 1, k)[i] = f[i]  BY <1>1
<1>4. Len(d) \in Nat /\ Len(l) \in Nat /\ Len(d \o l) = Len(d) + Len(l)
      /\ \A i \in 1..Len(d) : (d \o l)[i] = d[i]
  OBVIOUS
<1>5. ASSUME NEW i \in 1..Len(d) PROVE i <= N /\ d[i] = f[i]
  <2>1. k = Len(d) + Len(l)  BY <1>2, <1>3, <1>4
  <2>2. i \in 1..k  BY <1>4, <2>1
  <2> QED BY <1>1, <1>2, <1>3, <1>4, <2>2
<1> QED BY <1>5 DEF Begins, f, N

LEMMA LinkStarts ==
    ASSUME IsPage(page), doc \in Seq(Urls), via \in {"pipe", "copy", "link"}, LinkStart
    PROVE  LinkInv
<1>1. LinkTypeOK
  <2>1. <<>> \in Seq(Urls)  OBVIOUS
  <2>2. left \in Seq(Urls) /\ pipe \in Seq(Urls) /\ dst \in Seq(Urls)  BY <2>1 DEF LinkStart
  <2> QED BY <2>2 DEF LinkTypeOK, LinkStart
<1>2. Begins(dst)  BY DEF Begins, LinkStart
<1> QED BY <1>1, <1>2 DEF LinkInv, PipeInv, DirectInv, LinkStart

LEMMA LinkStep == LinkInv /\ [LinkNext]_linkVars => LinkInv'
<1> SUFFICES ASSUME LinkInv, [LinkNext]_linkVars PROVE LinkInv'  OBVIOUS
<1> USE DEF linkOptions
<1>1. LinkTypeOK /\ (via = "pipe" => PipeInv) /\ (via # "pipe" => DirectInv)  BY DEF LinkInv
<1>2. UNCHANGED <<page, doc, via>>
  BY DEF LinkNext, linkVars, ReadPage, WritePipe, ClosePipe, CopyChunk, CopyFails, CopyEnds,
         WaitReturns, CopyDirectly
<1>3. Fixed' = Fixed  BY <1>2 DEF Fixed
<1>4. Fixed \in Seq(Urls) /\ Len(Fixed) = Len(doc) /\ Len(doc) \in Nat  BY <1>1, FixedTyped
<1>5. \A d : Begins(d)' <=> Begins(d)  BY <1>2, <1>3 DEF Begins
<1>6. CASE ReadPage
  <2>1. /\ via = "pipe" /\ lpc = "read" /\ lpc' = "write"
        /\ UNCHANGED <<pipe, cpc, dst, failed>>
    BY <1>6 DEF ReadPage
  <2>2. PICK k \in 0..Len(doc) : left' = SubSeq(Fixed, 1, k) /\ dropped' = (k < Len(doc))
    BY <1>4, <1>6 DEF ReadPage
  <2>3. cpc = "copy" /\ left = <<>> /\ pipe = <<>> /\ dst = <<>> /\ Begins(dst) /\ ~failed
    BY <1>1, <2>1 DEF PipeInv
  <2>4. left' \in Seq(Urls) /\ dropped' \in BOOLEAN  BY <1>4, <2>2
  <2>5. LinkTypeOK'  BY <1>1, <1>2, <2>1, <2>4 DEF LinkTypeOK
  <2>6. (dst' \o pipe') \o left' = SubSeq(Fixed', 1, k)
    BY <1>3, <2>1, <2>2, <2>3, <2>4
  <2>7. Sent(dst, pipe, left)'  BY <1>2, <2>2, <2>6 DEF Sent
  <2>8. Begins(dst)'  BY <1>2, <1>3, <2>1, <2>3 DEF Begins
  <2> QED BY <1>2, <2>1, <2>3, <2>5, <2>7, <2>8 DEF LinkInv, PipeInv
<1>7. CASE WritePipe
  <2>1. /\ lpc = "write" /\ pipe = <<>> /\ left # <<>> /\ pipe' = <<Head(left)>>
        /\ left' = Tail(left) /\ UNCHANGED <<lpc, cpc, dst, failed, dropped>>
    BY <1>7 DEF WritePipe
  <2>2. via = "pipe" /\ PipeInv  BY <1>1, <2>1 DEF DirectInv
  <2>3. pipe' \in Seq(Urls) /\ left' \in Seq(Urls)
    <3>1. left \in Seq(Urls)  BY <1>1 DEF LinkTypeOK
    <3>2. Head(left) \in Urls /\ Tail(left) \in Seq(Urls)  BY <2>1, <3>1
    <3> QED BY <2>1, <3>2
  <2>4. LinkTypeOK'  BY <1>1, <1>2, <2>1, <2>3 DEF LinkTypeOK
  <2>5. (dst \o <<Head(left)>>) \o Tail(left) = (dst \o <<>>) \o left
    BY <1>1, <2>1, WriteMoves DEF LinkTypeOK
  <2>6. ~failed => Sent(dst, pipe, left)'
    BY <1>2, <1>3, <2>1, <2>2, <2>5 DEF PipeInv, Sent
  <2>7. Begins(dst)'  BY <1>2, <1>3, <2>1, <2>2 DEF PipeInv, Begins
  <2> QED BY <1>2, <2>1, <2>2, <2>4, <2>6, <2>7 DEF LinkInv, PipeInv
<1>8. CASE ClosePipe
  <2>1. /\ lpc = "write" /\ pipe = <<>> /\ left = <<>> /\ lpc' = "closed"
        /\ UNCHANGED <<left, pipe, cpc, dst, failed, dropped>>
    BY <1>8 DEF ClosePipe
  <2>2. via = "pipe" /\ PipeInv  BY <1>1, <2>1 DEF DirectInv
  <2>3. LinkTypeOK'  BY <1>1, <1>2, <2>1 DEF LinkTypeOK
  <2>4. ~failed => Sent(dst, pipe, left)'
    BY <1>2, <1>3, <2>1, <2>2 DEF PipeInv, Sent
  <2>5. Begins(dst)'  BY <1>2, <1>3, <2>1, <2>2 DEF PipeInv, Begins
  <2> QED BY <1>2, <2>1, <2>2, <2>3, <2>4, <2>5 DEF LinkInv, PipeInv
<1>9. CASE CopyChunk
  <2>1. /\ cpc = "copy" /\ pipe # <<>> /\ dst' = dst \o pipe /\ pipe' = <<>>
        /\ UNCHANGED <<lpc, left, cpc, failed, dropped>>
    BY <1>9 DEF CopyChunk
  <2>2. via = "pipe" /\ PipeInv /\ lpc = "write" /\ ~failed
    BY <1>1, <2>1 DEF DirectInv, PipeInv, LinkTypeOK
  <2>3. dst' \in Seq(Urls) /\ pipe' \in Seq(Urls) /\ dst' \o <<>> = dst'
    BY <1>1, <2>1 DEF LinkTypeOK
  <2>4. LinkTypeOK'  BY <1>1, <1>2, <2>1, <2>3 DEF LinkTypeOK
  <2>5. PICK k \in 0..Len(doc) : (dst \o pipe) \o left = SubSeq(Fixed, 1, k) /\ dropped = (k < Len(doc))
    BY <2>2 DEF PipeInv, Sent
  <2>6. (dst' \o pipe') \o left' = SubSeq(Fixed, 1, k)  BY <2>1, <2>3, <2>5
  <2>7. Sent(dst, pipe, left)'  BY <1>2, <1>3, <2>1, <2>5, <2>6 DEF Sent
  <2>8. Begins(dst \o pipe)
    <3> DEFINE d == dst \o pipe
    <3>1. d \in Seq(Urls) /\ left \in Seq(Urls)  BY <1>1, <2>1, <2>3 DEF LinkTypeOK
    <3>2. d \o left = SubSeq(Fixed, 1, k)  BY <2>5
    <3> HIDE DEF d
    <3>3. Begins(d)  BY <1>1, <3>1, <3>2, SentBegins
    <3> QED BY <3>3 DEF d
  <2>9. Begins(dst)'  BY <1>2, <1>3, <2>1, <2>8 DEF Begins
  <2> QED BY <1>2, <2>1, <2>2, <2>4, <2>7, <2>9 DEF LinkInv, PipeInv
<1>10. CASE CopyFails
  <2>1. /\ cpc = "copy" /\ pipe # <<>> /\ pipe' = <<>> /\ failed' = TRUE /\ cpc' = "wait"
        /\ UNCHANGED <<lpc, left, dst, dropped>>
    BY <1>10 DEF CopyFails
  <2>2. via = "pipe" /\ PipeInv /\ lpc = "write"
    BY <1>1, <2>1 DEF DirectInv, PipeInv, LinkTypeOK
  <2>3. LinkTypeOK'
    <3>1. pipe' \in Seq(Urls)  BY <2>1
    <3> QED BY <1>1, <1>2, <2>1, <3>1 DEF LinkTypeOK
  <2>4. Begins(dst)'  BY <1>2, <1>3, <2>1, <2>2 DEF PipeInv, Begins
  <2> QED BY <1>2, <2>1, <2>2, <2>3, <2>4 DEF LinkInv, PipeInv
<1>11. CASE CopyEnds
  <2>1. /\ via = "pipe" /\ cpc = "copy" /\ lpc = "closed" /\ cpc' = "wait"
        /\ UNCHANGED <<lpc, left, pipe, dst, failed, dropped>>
    BY <1>11 DEF CopyEnds
  <2>2. LinkTypeOK'  BY <1>1, <1>2, <2>1 DEF LinkTypeOK
  <2>3. ~failed => Sent(dst, pipe, left)'
    BY <1>1, <1>2, <1>3, <2>1 DEF PipeInv, Sent
  <2>4. Begins(dst)'  BY <1>1, <1>2, <1>3, <2>1 DEF PipeInv, Begins
  <2> QED BY <1>1, <1>2, <2>1, <2>2, <2>3, <2>4 DEF LinkInv, PipeInv
<1>12. CASE WaitReturns
  <2>1. /\ cpc = "wait" /\ lpc = "closed" /\ cpc' = "returned"
        /\ UNCHANGED <<lpc, left, pipe, dst, failed, dropped>>
    BY <1>12 DEF WaitReturns
  <2>2. via = "pipe" /\ PipeInv  BY <1>1, <2>1 DEF DirectInv
  <2>3. LinkTypeOK'  BY <1>1, <1>2, <2>1 DEF LinkTypeOK
  <2>4. ~failed => Sent(dst, pipe, left)'
    BY <1>2, <1>3, <2>1, <2>2 DEF PipeInv, Sent
  <2>5. Begins(dst)'  BY <1>2, <1>3, <2>1, <2>2 DEF PipeInv, Begins
  <2> QED BY <1>2, <2>1, <2>2, <2>3, <2>4, <2>5 DEF LinkInv, PipeInv
<1>13. CASE CopyDirectly
  <2>1. /\ via # "pipe" /\ cpc = "copy" /\ cpc' = "returned" /\ UNCHANGED <<lpc, left, pipe, dropped>>
    BY <1>13 DEF CopyDirectly
  <2> DEFINE f == IF via = "link" THEN Fixed ELSE doc
  <2>2. PICK k \in 0..Len(doc) : dst' = SubSeq(f, 1, k) /\ failed' = (k < Len(doc))
    BY <1>13 DEF CopyDirectly
  <2>3. f \in Seq(Urls) /\ Len(f) = Len(doc)  BY <1>1, <1>4 DEF LinkTypeOK
  <2>4. via = "link" => f = Fixed  OBVIOUS
  <2>5. f' = f  BY <1>2, <1>3
  <2> HIDE DEF f
  <2>6. dst' \in Seq(Urls) /\ Len(dst') = k /\ (\A i \in 1..k : dst'[i] = f[i]) /\ failed' \in BOOLEAN
    BY <1>4, <2>2, <2>3
  <2>7. LinkTypeOK'  BY <1>1, <1>2, <2>1, <2>6 DEF LinkTypeOK
  <2>8. via = "link" => Begins(dst)'  BY <1>2, <1>3, <1>4, <2>4, <2>6 DEF Begins
  <2>9. ~failed' => dst' = f
    <3>1. k < Len(doc) => failed'  BY <2>2, Zenon
    <3>2. k < Len(doc) \/ k = Len(doc)  BY <1>4
    <3>3. SubSeq(f, 1, Len(doc)) = f  BY <2>3
    <3> QED BY <2>2, <3>1, <3>2, <3>3, Zenon
  <2>10. f' = IF via' = "link" THEN Fixed' ELSE doc'  BY DEF f
  <2> QED BY <1>1, <1>2, <2>1, <2>5, <2>7, <2>8, <2>9, <2>10 DEF LinkInv, DirectInv
<1>14. CASE UNCHANGED linkVars
  BY <1>1, <1>2, <1>3, <1>14 DEF linkVars, LinkInv, LinkTypeOK, PipeInv, DirectInv, Sent, Begins
<1> QED BY <1>6, <1>7, <1>8, <1>9, <1>10, <1>11, <1>12, <1>13, <1>14 DEF LinkNext

LEMMA LinkInvariant == LinkSpec => []LinkInv
<1>1. LinkInit => LinkInv
  <2> SUFFICES ASSUME LinkInit PROVE LinkInv  OBVIOUS
  <2>1. IsPage(page) /\ doc \in Seq(Urls)  BY LinkAssumption DEF LinkInit
  <2> QED BY <2>1, LinkStarts DEF LinkInit
<1> QED BY <1>1, LinkStep, PTL DEF LinkSpec

LEMMA LinksAreKept == LinkInv => LinksSurviveMove
<1> SUFFICES ASSUME LinkInv, page.html, via # "copy", NEW i \in DOMAIN dst
             PROVE  Survives(page.url, doc[i], dst[i])
  BY DEF LinksSurviveMove
<1>1. LinkTypeOK /\ Begins(dst)  BY DEF LinkInv, LinkTypeOK, PipeInv, DirectInv
<1>2. IsPage(page) /\ doc \in Seq(Urls) /\ dst \in Seq(Urls)  BY <1>1 DEF LinkTypeOK
<1>3. i \in 1..Len(doc) /\ dst[i] = Fixed[i]  BY <1>1, <1>2 DEF Begins
<1>4. dst[i] = FixLink(page.url, doc[i])  BY <1>1, <1>3, FixedTyped
<1>5. doc[i] \in Urls  BY <1>2, <1>3
<1> QED BY <1>2, <1>4, <1>5, LinkSurvives

LEMMA PagesAreWhole == LinkInv => FilteredIsWhole
<1> SUFFICES ASSUME LinkInv, cpc = "returned", ~failed
             PROVE  IF via = "copy" THEN dst = doc
                    ELSE dst = Fixed \/ (dropped /\ IsStrictPrefix(dst, Fixed))
  BY DEF FilteredIsWhole
<1>1. CASE via # "pipe"
  <2>1. dst = IF via = "link" THEN Fixed ELSE doc  BY <1>1 DEF LinkInv, DirectInv
  <2>2. via \in {"copy", "link"}  BY <1>1 DEF LinkInv, LinkTypeOK
  <2> QED BY <2>1, <2>2
<1>2. CASE via = "pipe"
  <2>1. LinkTypeOK /\ left = <<>> /\ pipe = <<>> /\ Sent(dst, pipe, left)
    BY <1>2 DEF LinkInv, PipeInv
  <2>2. dst \in Seq(Urls) /\ (dst \o <<>>) \o <<>> = dst  BY <2>1 DEF LinkTypeOK
  <2>3. PICK k \in 0..Len(doc) : dst = SubSeq(Fixed, 1, k) /\ dropped = (k < Len(doc))
    BY <2>1, <2>2 DEF Sent
  <2>4. Fixed \in Seq(Urls) /\ Len(Fixed) = Len(doc) /\ Len(doc) \in Nat  BY <2>1, FixedTyped
  <2>5. k = Len(doc) => dst = Fixed
    <3>1. SubSeq(Fixed, 1, Len(doc)) = Fixed  BY <2>4
    <3> QED BY <2>3, <3>1
  <2>6. k < Len(doc) => dropped  BY <2>3, Zenon
  <2>7. k < Len(doc) => IsStrictPrefix(dst, Fixed)
    <3> DEFINE f == Fixed
               n == Len(doc)
    <3> HIDE DEF f, n
    <3>1. f \in Seq(Urls) /\ Len(f) = n /\ n \in Nat /\ k \in 0..n /\ dst = SubSeq(f, 1, k)
      BY <2>3, <2>4 DEF f, n
    <3>2. Len(dst) = k  BY <3>1
    <3>3. k < n => dst # f /\ IsPrefix(dst, f)  BY <3>1, <3>2 DEF IsPrefix
    <3> QED BY <3>3 DEF f, n, IsStrictPrefix
  <2>8. k < Len(doc) \/ k = Len(doc)  BY <2>4
  <2> QED BY <1>2, <2>5, <2>6, <2>7, <2>8
<1> QED BY <1>1, <1>2

LEMMA HangsAreCaused == LinkInv => HangHasCause
<1> SUFFICES ASSUME LinkInv PROVE HangHasCause  OBVIOUS
<1>1. CASE via = "pipe"
  BY <1>1 DEF LinkInv, LinkTypeOK, PipeInv, HangHasCause, Hung
<1>2. CASE via # "pipe"
  BY <1>2 DEF LinkInv, LinkTypeOK, DirectInv, HangHasCause, Hung
<1> QED BY <1>1, <1>2

\* Wherever a site is moved to, the links of a page that has been rewritten lead to the
\* same pages, for every path (fix_link).
THEOREM LinksKept == LinkSpec => []LinksSurviveMove
BY LinkInvariant, LinksAreKept, PTL

\* A page arrives whole or the command fails, unless LinkRelative has (filtercopy).
THEOREM PagesWhole == LinkSpec => []FilteredIsWhole
BY LinkInvariant, PagesAreWhole, PTL

\* filtercopy waits for ever only after its destination has failed, and then returns
\* that failure only when nothing was left to write.
THEOREM HangsCaused == LinkSpec => []HangHasCause
BY LinkInvariant, HangsAreCaused, PTL

---------------------------------------------------------------------------
(* The commands together.  A command that is not run has no arguments: its *)
(* part of the state stays as it starts, and the invariant of that command *)
(* holds of it, except that NoSite is no page.                             *)

CommandsInv ==
    /\ NameTableGood
    /\ SortInv /\ CopyInv
    /\ ExtractInv
    /\ OffsetInv
    /\ IF command = "link" THEN LinkInv ELSE LinkStart

LEMMA NothingToZip == NoZip => NameTableGood
<1> SUFFICES ASSUME NoZip PROVE NameTableGood  OBVIOUS
<1>1. Inputs  BY DEF NoZip, Inputs
<1> QED BY <1>1, NameTableStartsGood DEF NoZip

LEMMA LinesToZip == NameTableInit => NameTableGood
<1> SUFFICES ASSUME NameTableInit PROVE NameTableGood  OBVIOUS
<1>1. Inputs  BY NameTableAssumption DEF NameTableInit, Inputs
<1> QED BY <1>1, NameTableStartsGood DEF NameTableInit

LEMMA SortBegins == SortInit \/ NoSort => SortInv /\ CopyInv
<1> SUFFICES ASSUME SortInit \/ NoSort PROVE SortInv /\ CopyInv  OBVIOUS
<1>1. SortStart  BY DEF SortInit, NoSort
<1>2. sargs \in Seq(Seq(SortFiles)) /\ same \in 0..Len(sargs)
  <2>1. SortInit => sargs \in Seq(Seq(SortFiles)) /\ same \in 0..Len(sargs)
    BY SortAssumption DEF SortInit
  <2>2. NoSort => sargs \in Seq(Seq(SortFiles)) /\ same \in 0..Len(sargs)
    <3> SUFFICES ASSUME NoSort PROVE sargs \in Seq(Seq(SortFiles)) /\ same \in 0..Len(sargs)
      OBVIOUS
    <3>1. sargs = <<>> /\ same = 0  BY DEF NoSort
    <3>2. <<>> \in Seq(Seq(SortFiles)) /\ 0 \in 0..Len(<<>>)  OBVIOUS
    <3> QED BY <3>1, <3>2
  <2> QED BY <2>1, <2>2
<1>3. SortInv  BY <1>1, <1>2, SortStarts
<1>4. CopyInv  BY <1>1 DEF SortStart, CopyInv, Copying
<1> QED BY <1>3, <1>4

LEMMA ExtractBegins == ExtractInit \/ NoExtract => ExtractInv
<1> SUFFICES ASSUME ExtractInit \/ NoExtract PROVE ExtractInv  OBVIOUS
<1>1. extract \in Seq(Entries) /\ all \in BOOLEAN /\ tar \in BOOLEAN /\ ExtractStart
  <2>1. ExtractInit => extract \in Seq(Entries) /\ all \in BOOLEAN /\ tar \in BOOLEAN /\ ExtractStart
    BY ExtractAssumption DEF ExtractInit
  <2>2. NoExtract => extract \in Seq(Entries) /\ all \in BOOLEAN /\ tar \in BOOLEAN /\ ExtractStart
    <3> SUFFICES ASSUME NoExtract
                 PROVE  extract \in Seq(Entries) /\ all \in BOOLEAN /\ tar \in BOOLEAN /\ ExtractStart
      OBVIOUS
    <3>1. extract = <<>> /\ <<>> \in Seq(Entries)  BY DEF NoExtract
    <3>2. all = FALSE /\ tar = FALSE /\ ExtractStart  BY DEF NoExtract
    <3>3. all \in BOOLEAN /\ tar \in BOOLEAN  BY <3>2, Zenon
    <3> QED BY <3>1, <3>2, <3>3
  <2> QED BY <2>1, <2>2
<1> QED BY <1>1, ExtractStartsGood

LEMMA OffsetBegins == OffsetInit \/ NoOffset => OffsetInv
<1>1. NoOffset => IsLayout(layout) /\ OffsetStart
  <2> SUFFICES ASSUME NoOffset PROVE IsLayout(layout) /\ OffsetStart  OBVIOUS
  <2>1. /\ layout.prefix = 0 /\ layout.comment = 0 /\ layout.header = 1 /\ layout.data = 0
        /\ layout.starts = <<>> /\ layout.order = <<>>
    BY DEF NoOffset
  <2>2. <<>> \in Seq(0..(0 - 1)) /\ <<>> \in Seq(DOMAIN <<>>)  OBVIOUS
  <2> QED BY <2>1, <2>2 DEF IsLayout, NoOffset
<1>2. OffsetInit => IsLayout(layout) /\ OffsetStart
  BY OffsetAssumption DEF OffsetInit
<1> QED BY <1>1, <1>2, OffsetStartsGood

LEMMA LinkBegins == LinkInit => LinkInv
<1> SUFFICES ASSUME LinkInit PROVE LinkInv  OBVIOUS
<1>1. IsPage(page) /\ doc \in Seq(Urls)  BY LinkAssumption DEF LinkInit
<1> QED BY <1>1, LinkStarts DEF LinkInit

LEMMA CommandsBegin == CommandsInit => CommandsInv
<1> SUFFICES ASSUME CommandsInit PROVE CommandsInv  OBVIOUS
<1>1. NameTableGood  BY NothingToZip, LinesToZip DEF CommandsInit
<1>2. SortInv /\ CopyInv  BY SortBegins DEF CommandsInit
<1>3. ExtractInv  BY ExtractBegins DEF CommandsInit
<1>4. OffsetInv  BY OffsetBegins DEF CommandsInit
<1>5. IF command = "link" THEN LinkInv ELSE LinkStart  BY LinkBegins DEF CommandsInit, NoLink
<1> QED BY <1>1, <1>2, <1>3, <1>4, <1>5 DEF CommandsInv

\* A step of a process is one of its command, and none of the others.
LEMMA StepOfOne ==
    ASSUME [CommandsNext]_commandVars
    PROVE  /\ command' = command
           /\ [NameTableNext]_nameTableVars /\ [SortNext]_sortVars
           /\ [ExtractNext]_extractVars /\ [OffsetNext]_offsetVars
           /\ [command = "link" /\ LinkNext]_linkVars
BY DEF CommandsNext, commandVars, RunZip, RunZipSort, RunZipToGzip, RunOffset, RunLink

LEMMA CommandsStep == CommandsInv /\ [CommandsNext]_commandVars => CommandsInv'
<1> SUFFICES ASSUME CommandsInv, [CommandsNext]_commandVars PROVE CommandsInv'  OBVIOUS
<1>1. NameTableGood'  BY StepOfOne, NameTableKeepsGood DEF CommandsInv
<1>2. SortInv'  BY StepOfOne, SortTypeStep, SelfStep, PickStep DEF CommandsInv, SortInv
<1>3. CopyInv'  BY StepOfOne, CopyStep DEF CommandsInv
<1>4. ExtractInv'  BY StepOfOne, ExtractStep DEF CommandsInv
<1>5. OffsetInv'  BY StepOfOne, OffsetStep DEF CommandsInv
<1>6. IF command' = "link" THEN LinkInv' ELSE LinkStart'
  <2>1. CASE command = "link"  BY <2>1, StepOfOne, LinkStep DEF CommandsInv
  <2>2. CASE command # "link"
    BY <2>2, StepOfOne DEF CommandsInv, linkVars, LinkStart
  <2> QED BY <2>1, <2>2
<1> QED BY <1>1, <1>2, <1>3, <1>4, <1>5, <1>6 DEF CommandsInv

LEMMA CommandsInvariant == CommandsSpec => []CommandsInv
BY CommandsBegin, CommandsStep, PTL DEF CommandsSpec

LEMMA NoLinkIsRight == LinkStart => LinksSurviveMove /\ FilteredIsWhole /\ HangHasCause
BY DEF LinkStart, LinksSurviveMove, FilteredIsWhole, HangHasCause, Hung

\* Whichever command a process runs, it keeps the properties of all: those of the
\* names and sources of zip, ...
THEOREM ZipAsCommand ==
    CommandsSpec => [](/\ TableIsComplete /\ OnlyGoneIsRemoved /\ NewestIsChosen
                       /\ LastIsChosen /\ ContentDecides /\ CrashHasCause)
<1>1. CommandsInv => /\ TableIsComplete /\ OnlyGoneIsRemoved /\ NewestIsChosen
                     /\ LastIsChosen /\ ContentDecides /\ CrashHasCause
  BY CompleteWhenRead, ChoicesRead DEF CommandsInv, NameTableGood
<1> QED BY <1>1, CommandsInvariant, PTL

\* ... those of zipsort, ...
THEOREM ZipSortAsCommand == CommandsSpec => [](PickIsBest /\ SortIsComplete /\ SelfSortIsReported)
<1>1. CommandsInv => PickIsBest /\ SortIsComplete
  BY CopyInvIsComplete DEF CommandsInv, SortInv
<1>2. CommandsInv => SelfSortIsReported
  BY DEF CommandsInv, SortInv, SelfInv, SelfSortIsReported
<1> QED BY <1>1, <1>2, CommandsInvariant, PTL

\* ... and those of zip2gzip, ArchiveOffset and the rewriting of links.
THEOREM OthersAsCommand ==
    CommandsSpec => [](/\ NamesTellTheForm /\ CutIsReported
                       /\ TrimIsExact /\ RefusedHasCause
                       /\ LinksSurviveMove /\ FilteredIsWhole /\ HangHasCause)
<1>1. CommandsInv => NamesTellTheForm /\ CutIsReported
  BY FormsAreTold, CutsAreReported DEF CommandsInv
<1>2. CommandsInv => TrimIsExact /\ RefusedHasCause
  BY DEF CommandsInv, OffsetInv
<1>3. CommandsInv => LinksSurviveMove /\ FilteredIsWhole /\ HangHasCause
  BY LinksAreKept, PagesAreWhole, HangsAreCaused, NoLinkIsRight DEF CommandsInv
<1> QED BY <1>1, <1>2, <1>3, CommandsInvariant, PTL
====
