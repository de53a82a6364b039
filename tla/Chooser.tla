---- MODULE Chooser ----
(***************************************************************************)
(* chooser.go: which of several files of one name goes into the archive.   *)
(* A candidate is a record: time and its zone, usize, csize (0 for a file  *)
(* of a directory), crc, zip, root.  The crc of an entry of an archive is  *)
(* the stored checksum; that of a file of a directory is what FixCRC       *)
(* computes, which for an HTML file is the checksum of the page with its   *)
(* links rewritten, also without --baseurl (zipcmd.go:463, 469 pass a base *)
(* that is never empty).                                                   *)
(*                                                                         *)
(* sort.Sort sorts up to twelve elements by insertion, which is what is    *)
(* modelled; the comparisons are not orders, so the algorithm matters, and *)
(* what is said here of a name is not said of one with more candidates.    *)
(***************************************************************************)
EXTENDS Integers, SequencesExt

\* Two times are compared with !=, which also compares the zone: times of different
\* zones are different and neither has to be before the other.
SameTime(a, b) == a.time = b.time /\ a.zone = b.zone

\* Mutant of SameCRCLess: the larger of two compressed files is better.
SameCRCLessLarger(a, b) ==
    \/ a.csize # 0 /\ b.csize = 0
    \/ a.csize # 0 /\ b.csize # 0 /\ a.csize > b.csize
    \/ a.csize = b.csize /\ a.time < b.time
    \/ a.csize = b.csize /\ SameTime(a, b) /\ a.usize > b.usize

\* Compressed is better, smaller is better, older is better, bigger is better.
SameCRCLess(a, b) ==
    \/ a.csize # 0 /\ b.csize = 0
    \/ a.csize # 0 /\ b.csize # 0 /\ a.csize < b.csize
    \/ a.csize = b.csize /\ a.time < b.time
    \/ a.csize = b.csize /\ SameTime(a, b) /\ a.usize > b.usize

\* Mutant of DiffCRCLess: the sizes are compared first.
DiffCRCLessSizeFirst(a, b) ==
    \/ a.usize > b.usize
    \/ a.usize = b.usize /\ a.time > b.time

\* Newer is better, bigger is better, smaller when compressed is better; two files
\* that agree in all of it are each better than the other.
DiffCRCLess(a, b) ==
    \/ a.time > b.time
    \/ SameTime(a, b) /\ a.usize > b.usize
    \/ /\ SameTime(a, b) /\ a.usize = b.usize
       /\ b.csize = 0 \/ (a.csize # 0 /\ a.csize < b.csize)

\* The element that sort.Sort puts first, of those at the indices I: at its turn an
\* element moves to the left past every element it is less than, so the front is taken
\* by each that is less than all before it, and the last of these keeps it.
First(Less(_, _), s, I) == s[Max({i \in I : \A j \in I : j < i => Less(s[i], s[j])})]

ChooseFromNoCRC(s) == First(DiffCRCLess, s, DOMAIN s)

\* The first of each group of equal checksums; FixCRC fails for the files in bad.
GroupHeads(s, bad) ==
    LET good == {i \in DOMAIN s : s[i] \notin bad}
    IN {First(SameCRCLess, s, {i \in good : s[i].crc = r}) : r \in {s[i].crc : i \in good}}

\* The groups come out of a map, in any order.
ChooseFrom(s, bad) ==
    LET heads == GroupHeads(s, bad)
    IN IF Len(s) = 1 THEN {s[1]}
       ELSE {First(DiffCRCLess, p, DOMAIN p) : p \in Bijection(1..Cardinality(heads), heads)}

\* Mutant of ChooseFromLast: the last file with the checksum is returned.
ChooseFromLastItself(s, bad) == s[Max(DOMAIN s)]

\* The first file whose content is that of the last one; s has a file for each
\* argument that has one.
ChooseFromLast(s, bad) ==
    LET last == s[Max(DOMAIN s)] IN
    IF Cardinality(DOMAIN s) = 1 \/ last \in bad THEN last
    ELSE s[Min({k \in DOMAIN s : s[k] \notin bad /\ s[k].crc = last.crc})]
====
