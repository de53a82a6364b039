---- MODULE ZipToGzip ----
(***************************************************************************)
(* The zip2gzip command (ziptogzip.go): the entries of an archive are      *)
(* written as compressed files, without decompression where the format     *)
(* allows it, to files under the current directory or to one tar file.     *)
(* The name and the size that are announced (namesize) and the bytes that  *)
(* are written (output) are decided in two places by two lists of methods. *)
(* The trailer of the tar file, written by a deferred call whose error is  *)
(* dropped, is left out.                                                   *)
(***************************************************************************)
EXTENDS Integers, Sequences

CONSTANTS
    Extracts,  \* the archives: sequences of entries
    Targets    \* the paths that may be written

\* "other": in neither list.
GzipMethods == {"store", "deflate", "br", "zstd", "lzma", "bzip2", "xz", "jpeg", "mp3", "webpack", "other"}
RawMethods == {"br", "zstd", "mp3", "xz", "lzma", "jpeg", "webpack"}

\* An entry: where it is written, the directories on the way, whether it is asked for,
\* has "..", or is absolute or behind a symbolic link.
Entries == [method : GzipMethods, path : Targets, dirs : SUBSET Targets,
            match : BOOLEAN, dots : BOOLEAN, unsafe : BOOLEAN]

ASSUME ExtractAssumption == Extracts \subseteq Seq(Entries)

VARIABLES
    extract,       \* the archive
    all, tar,      \* --all; --tar
    gpc, gnext,    \* where Execute is; the entry it looks at
    targets,       \* the content of each path that has been written
    members,       \* the members of the tar file
    gresult

extractOptions == <<extract, all, tar>>
extractVars == <<extractOptions, gpc, gnext, targets, members, gresult>>

Nothing == [of |-> 0, form |-> "none", whole |-> FALSE]

ExtractStart ==
    /\ gpc = "entry" /\ gnext = 1
    /\ targets = [p \in Targets |-> Nothing]
    /\ members = <<>>
    /\ gresult = "none"

ExtractInit ==
    /\ extract \in Extracts /\ all \in BOOLEAN /\ tar \in BOOLEAN
    /\ ExtractStart

Entry == extract[gnext]
AtEntry == gpc = "entry" /\ gnext <= Len(extract)

\* namesize: the form the name and the size announce.
Announced(m) ==
    CASE m = "deflate" -> "gzip"
      [] m \in RawMethods \union {"bzip2"} -> "raw"
      [] OTHER -> "plain"

\* Mutant of Written: zstd is missing in the list of raw methods.
WrittenNoZstd(m) ==
    CASE m = "deflate" -> "gzip"
      [] m \in RawMethods \ {"zstd"} -> "raw"
      [] m \in {"store", "zstd"} -> "plain"
      [] OTHER -> "error"

\* output: what is written.  Bzip2 and methods in neither list are to be decompressed,
\* for which archive/zip has no decompressor.
Written(m) ==
    CASE m = "deflate" -> "gzip"
      [] m \in RawMethods -> "raw"
      [] m = "store" -> "plain"
      [] OTHER -> "error"

\* Not asked for, a suspicious name, or nothing to be gained without --all.
Passed == ~Entry.match \/ Entry.dots \/ (Announced(Entry.method) = "plain" /\ ~all)

PassEntry ==
    /\ AtEntry /\ Passed
    /\ gnext' = gnext + 1
    /\ UNCHANGED <<extractOptions, gpc, targets, members, gresult>>

Content(whole) == [of |-> gnext, form |-> Written(Entry.method), whole |-> whole]
Member(whole) == [size |-> Announced(Entry.method), content |-> Content(whole)]

Ended(result) == gpc' = "ended" /\ gresult' = result /\ UNCHANGED gnext
\* Mutant of Continued: the error of the copy is logged only.
ContinuedAnyway(whole) == gnext' = gnext + 1 /\ UNCHANGED <<gpc, gresult>>
\* A copy that fails ends the command with what has been written so far.
Continued(whole) ==
    IF whole THEN gnext' = gnext + 1 /\ UNCHANGED <<gpc, gresult>> ELSE Ended("error")

ToTar ==
    /\ AtEntry /\ ~Passed /\ tar
    /\ \E whole \in {FALSE, Written(Entry.method) # "error"} :
          /\ members' = Append(members, Member(whole))
          /\ Continued(whole)
    /\ UNCHANGED <<extractOptions, targets>>

\* With --all a directory is an entry like others: an empty file is written for it,
\* and then no directory can be made of that name; or it exists by then.
Blocked ==
    \/ \E p \in Entry.dirs : targets[p].of # 0
    \/ \E p \in Targets : targets[p].of # 0 /\ Entry.path \in extract[targets[p].of].dirs

\* An absolute path or a symbolic link on the way (unsafe), MkdirAll or OpenFile; the
\* header of the tar member.
PathFails ==
    /\ AtEntry /\ ~Passed
    /\ Ended("error")
    /\ UNCHANGED <<extractOptions, targets, members>>

\* The file is opened with O_TRUNC: a second entry for the path replaces the first.
\* Closing it may still fail.
ToFile ==
    /\ AtEntry /\ ~Passed /\ ~tar /\ ~Entry.unsafe /\ ~Blocked
    /\ \E whole \in {FALSE, Written(Entry.method) # "error"} :
          /\ targets' = [targets EXCEPT ![Entry.path] = Content(whole)]
          /\ Continued(whole) \/ Ended("error")
    /\ UNCHANGED <<extractOptions, members>>

ExtractReturns ==
    /\ gpc = "entry" /\ gnext > Len(extract)
    /\ Ended("ok")
    /\ UNCHANGED <<extractOptions, targets, members>>

ExtractNext == PassEntry \/ ToTar \/ PathFails \/ ToFile \/ ExtractReturns

ExtractSpec == ExtractInit /\ [][ExtractNext]_extractVars

---------------------------------------------------------------------------
(* Properties.                                                             *)

\* The form of what is written whole is the one its name says and, in a tar file, the
\* one its size was computed for: the two lists of methods agree, except for bzip2
\* and for methods in neither list, which end the command.
NamesTellTheForm ==
    /\ \A p \in Targets : targets[p].whole =>
          targets[p].form = Announced(extract[targets[p].of].method)
    /\ \A i \in DOMAIN members : members[i].content.whole =>
          members[i].content.form = members[i].size

\* A file or member that is cut short is the last one written, and the command
\* reports an error; after success every entry asked for is there whole, unless a
\* later entry has the same path.
CutIsReported ==
    /\ \A p \in Targets : targets[p].of # 0 /\ ~targets[p].whole => gresult = "error"
    /\ \A i \in DOMAIN members : ~members[i].content.whole =>
          i = Len(members) /\ gresult = "error"
    /\ gresult = "ok" => \A i \in DOMAIN extract :
          LET e == extract[i] IN
          \/ ~e.match \/ e.dots \/ (Announced(e.method) = "plain" /\ ~all)
          \/ tar /\ \E j \in DOMAIN members : members[j].content = [of |-> i, form |-> Announced(e.method), whole |-> TRUE]
          \/ ~tar /\ \E j \in i..Len(extract) : extract[j].path = e.path /\ targets[e.path].of = j
====
