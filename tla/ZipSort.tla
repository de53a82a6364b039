---- MODULE ZipSort ----
(***************************************************************************)
(* The zipsort command (zipsort.go): the files of all inputs are gathered  *)
(* under their stripped names, one per name, and copied to the output in   *)
(* the requested order.  The output is truncated before the inputs are     *)
(* opened, and the deferred calls, which run last to first, decide whether *)
(* the archive gets its central directory.  The output is a plain archive: *)
(* with --self the executable would be copied ahead of it.                 *)
(***************************************************************************)
EXTENDS Integers, Sequences, FiniteSets

CONSTANTS
    SortNames,  \* names in the output, after --strip-prefix, numbered in their order
    SortFiles,  \* the files: name, crc, time, usize, csize, skip (directory or excluded)
    SortLines,  \* the lists of archives that may be given
    Unpicked    \* no file

ASSUME SortAssumption ==
    /\ SortNames \subseteq Int /\ IsFiniteSet(SortNames)
    /\ SortLines \subseteq Seq(Seq(SortFiles))
    /\ \A f \in SortFiles :
          /\ f.name \in SortNames /\ f.skip \in BOOLEAN
          /\ f.time \in Int /\ f.csize \in Nat /\ f.usize \in Nat
    /\ Unpicked \notin SortFiles

Orders == {"none", "name", "time", "usize", "csize"}

VARIABLES
    sargs,      \* the archives
    same,       \* the argument that is the output file as well; 0: none
    sortby, reverse,
    spc,        \* where Execute is
    sarg, sfile,  \* the archive and the file it looks at
    picked,     \* files: for each name a file
    todo,       \* the names that are still to be copied, in order
    output,     \* the names copied so far
    archive,    \* what the output file is: "old" | "torn" | "complete"
    isopen,     \* the output file is open
    deferred,   \* the deferred calls
    sresult     \* what Execute returns: "none" while it runs

sortOptions == <<sargs, same, sortby, reverse>>
readVars == <<sarg, sfile, picked>>
writeVars == <<todo, output>>
fileVars == <<archive, isopen, deferred>>
sortVars == <<sortOptions, spc, readVars, writeVars, fileVars, sresult>>

SortStart ==
    /\ spc = "output"
    /\ sarg = 1 /\ sfile = 0
    /\ picked = [n \in SortNames |-> Unpicked]
    /\ todo = <<>> /\ output = <<>>
    /\ archive = "old" /\ isopen = FALSE /\ deferred = <<>>
    /\ sresult = "none"

SortInit ==
    /\ sargs \in SortLines /\ same \in 0..Len(sargs)
    /\ sortby \in Orders /\ reverse \in BOOLEAN
    /\ SortStart

---------------------------------------------------------------------------
(* Execute.                                                                *)

\* prepare_output truncates the file; then the two deferred calls are set up.
SortOutput ==
    /\ spc = "output"
    /\ archive' = "torn" /\ isopen' = TRUE
    /\ deferred' = <<"writer", "file">>
    /\ spc' = "read"
    /\ UNCHANGED <<sortOptions, readVars, writeVars, sresult>>

\* It cannot be opened, or (after the truncation) not be made executable.
SortOutputFails ==
    /\ spc = "output"
    /\ archive' \in {"old", "torn"}
    /\ spc' = "return" /\ sresult' = "error"
    /\ UNCHANGED <<sortOptions, readVars, writeVars, isopen, deferred>>

Fail ==
    /\ spc' = "return" /\ sresult' = "error"
    /\ UNCHANGED <<sortOptions, readVars, writeVars, fileVars>>

\* Mutant of OpenInput: the output can be opened as an input.
OpenInputAnyway ==
    /\ spc = "read" /\ sarg <= Len(sargs) /\ sfile = 0
    /\ sfile' = 1
    /\ deferred' = Append(deferred, "input")
    /\ UNCHANGED <<sortOptions, spc, sarg, picked, writeVars, archive, isopen, sresult>>

\* zip.OpenReader: the output, which has just been truncated, is no archive.
OpenInput ==
    /\ spc = "read" /\ sarg <= Len(sargs) /\ sfile = 0
    /\ sarg # same
    /\ sfile' = 1
    /\ deferred' = Append(deferred, "input")
    /\ UNCHANGED <<sortOptions, spc, sarg, picked, writeVars, archive, isopen, sresult>>

OpenInputFails ==
    /\ spc = "read" /\ sarg <= Len(sargs) /\ sfile = 0
    /\ Fail

Reading == spc = "read" /\ sfile # 0
SortFile == sargs[sarg][sfile]

\* Mutant of CompareFile: the older file is taken.
CompareFileOlder(a, b) ==
    IF a.crc = b.crc
    THEN a.csize > b.csize \/ (a.csize = b.csize /\ a.time > b.time)
    ELSE a.time > b.time \/ (a.time = b.time /\ a.usize <= b.usize)

\* compare_file: is b to replace a?  Of one content the smaller, then the older
\* file; of two contents the newer, then the larger one, or else the later one.
CompareFile(a, b) ==
    IF a.crc = b.crc
    THEN a.csize > b.csize \/ (a.csize = b.csize /\ a.time > b.time)
    ELSE a.time < b.time \/ (a.time = b.time /\ a.usize <= b.usize)

Replaces(f) == picked[f.name] = Unpicked \/ CompareFile(picked[f.name], f)

TakeFile ==
    /\ Reading /\ sfile <= Len(sargs[sarg])
    /\ ~SortFile.skip
    /\ picked' = [picked EXCEPT ![SortFile.name] = IF Replaces(SortFile) THEN SortFile ELSE @]
    /\ sfile' = sfile + 1
    /\ UNCHANGED <<sortOptions, spc, sarg, writeVars, fileVars, sresult>>

SkipSortFile ==
    /\ Reading /\ sfile <= Len(sargs[sarg])
    /\ SortFile.skip
    /\ sfile' = sfile + 1
    /\ UNCHANGED <<sortOptions, spc, sarg, picked, writeVars, fileVars, sresult>>

NextSortInput ==
    /\ Reading /\ sfile > Len(sargs[sarg])
    /\ sarg' = sarg + 1 /\ sfile' = 0
    /\ UNCHANGED <<sortOptions, spc, picked, writeVars, fileVars, sresult>>

\* Mutant of Key: the times are sorted upwards.
KeyUpwards(n) ==
    CASE sortby = "usize" -> picked[n].usize
      [] sortby = "csize" -> picked[n].csize
      [] sortby = "time" -> picked[n].time
      [] OTHER -> n

\* What is sorted by: upwards, but the newest first.
Key(n) ==
    CASE sortby = "usize" -> picked[n].usize
      [] sortby = "csize" -> picked[n].csize
      [] sortby = "time" -> -picked[n].time
      [] OTHER -> n
InOrder(s) ==
    sortby = "none" \/ \A i, j \in DOMAIN s :
        i < j => IF reverse THEN Key(s[i]) >= Key(s[j]) ELSE Key(s[i]) <= Key(s[j])

PickedNames == {n \in SortNames : picked[n] # Unpicked}

\* The names come out of a map in any order; sort.Slice is not stable.
SortNamesOut ==
    /\ spc = "read" /\ sarg > Len(sargs)
    /\ todo' \in {s \in [1..Cardinality(PickedNames) -> PickedNames] :
                    InOrder(s) /\ \A i, j \in DOMAIN s : s[i] = s[j] => i = j}
    /\ spc' = "copy"
    /\ UNCHANGED <<sortOptions, readVars, output, fileVars, sresult>>

CopyEntry ==
    /\ spc = "copy" /\ todo # <<>>
    /\ output' = Append(output, picked[Head(todo)])
    /\ todo' = Tail(todo)
    /\ UNCHANGED <<sortOptions, spc, readVars, fileVars, sresult>>

\* OpenRaw, CreateRaw, Copy or Flush.
CopyEntryFails ==
    /\ spc = "copy" /\ todo # <<>>
    /\ Fail

SortReturns ==
    /\ spc = "copy" /\ todo = <<>>
    /\ spc' = "return" /\ sresult' = "ok"
    /\ UNCHANGED <<sortOptions, readVars, writeVars, fileVars>>

\* The deferred calls, last to first.  zipfile.Close needs the file to be open; its
\* error goes nowhere.
RunDeferred ==
    /\ spc = "return" /\ deferred # <<>>
    /\ LET call == deferred[Len(deferred)] IN
         /\ isopen' = (isopen /\ call # "file")
         /\ archive' = IF call = "writer" /\ isopen THEN "complete" ELSE archive
    /\ deferred' = SubSeq(deferred, 1, Len(deferred) - 1)
    /\ UNCHANGED <<sortOptions, spc, readVars, writeVars, sresult>>

SortNext ==
    \/ SortOutput \/ SortOutputFails
    \/ OpenInput \/ OpenInputFails \/ TakeFile \/ SkipSortFile \/ NextSortInput
    \/ SortNamesOut \/ CopyEntry \/ CopyEntryFails \/ SortReturns
    \/ RunDeferred

SortSpec == SortInit /\ [][SortNext]_sortVars

---------------------------------------------------------------------------
(* Properties.                                                             *)

\* The files of a name that have been looked at, by their place.
Seen(n) ==
    {p \in UNION {{k} \X DOMAIN sargs[k] : k \in DOMAIN sargs} :
        /\ p[1] < sarg \/ (p[1] = sarg /\ p[2] < sfile)
        /\ sargs[p[1]][p[2]].name = n /\ ~sargs[p[1]][p[2]].skip}
At(p) == sargs[p[1]][p[2]]

\* The file held for a name is the best of those seen, although compare_file is not
\* an order and only ever compares with the file held: when all have one content, none
\* is smaller and none as small is older; when all contents differ, none is newer and
\* none as new is larger.
PickIsBest ==
    \A n \in SortNames :
        /\ picked[n] = Unpicked <=> Seen(n) = {}
        /\ Seen(n) # {} =>
            /\ \E p \in Seen(n) : picked[n] = At(p)
            /\ (\A p, q \in Seen(n) : At(p).crc = At(q).crc) =>
                 \A p \in Seen(n) : /\ picked[n].csize <= At(p).csize
                                    /\ picked[n].csize = At(p).csize => picked[n].time <= At(p).time
            /\ (\A p, q \in Seen(n) : p # q => At(p).crc # At(q).crc) =>
                 \A p \in Seen(n) : /\ At(p).time <= picked[n].time
                                    /\ At(p).time = picked[n].time => At(p).usize <= picked[n].usize

\* Success means that every name of every input is in the output once, with the file
\* picked for it, and in the order of --sort-by and --reverse.
SortIsComplete ==
    sresult = "ok" =>
        /\ \A n \in SortNames : Cardinality({j \in DOMAIN output : output[j].name = n})
                                  = IF Seen(n) = {} THEN 0 ELSE 1
        /\ \A j \in DOMAIN output : output[j] = picked[output[j].name]
        /\ \A i, j \in DOMAIN output : i < j =>
              LET first == IF reverse THEN output[j] ELSE output[i]
                  second == IF reverse THEN output[i] ELSE output[j] IN
              CASE sortby = "name" -> first.name < second.name
                [] sortby = "time" -> first.time >= second.time
                [] sortby = "usize" -> first.usize <= second.usize
                [] sortby = "csize" -> first.csize <= second.csize
                [] OTHER -> TRUE

\* An archive that is sorted into itself is lost, but never silently: the command
\* returns an error whatever else happens (an archive, not an executable with one,
\* which --self would write to the output before the inputs are opened).
SelfSortIsReported == same # 0 => sresult # "ok"

\* A sort that reports success leaves an archive that can be listed (SKILL.md, line
\* 62: "Re-run `ziplist` to confirm expected entries after write/sort operations").
SortedArchiveIsReadable == sresult = "ok" /\ deferred = <<>> => archive = "complete"
====
