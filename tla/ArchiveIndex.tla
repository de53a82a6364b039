---- MODULE ArchiveIndex ----
(***************************************************************************)
(* The index of ZipHandler (webserver.go): init2 walks the archives and    *)
(* numbers their files through; getidx walks the archives again and counts *)
(* down from such a number to the file.  The two walks must agree for      *)
(* every number of archives, empty ones included, or a request is answered *)
(* with the content of another file.                                       *)
(*                                                                         *)
(* A file is a record; served is FALSE for a directory and for a name that *)
(* contains "..", which init2 skips.  The locking of index and archives is *)
(* the subject of ZipHandler: here a load is complete before lookups.      *)
(***************************************************************************)
EXTENDS Integers, Sequences

CONSTANTS
    Names,     \* names of files in the archives
    Methods,   \* compression methods: the variants of a name
    Files,     \* what the model tells of a file in an archive
    Loads      \* the lists of archives a server may load

Absent == -1   \* no entry in the index (idx = -1 in ServeHTTP)

ASSUME IndexAssumption ==
    /\ Loads \subseteq Seq(Seq(Files))
    /\ \A f \in Files : f.name \in Names /\ f.method \in Methods /\ f.served \in BOOLEAN

VARIABLES
    archives,   \* the archives loaded, each a sequence of files
    methodmap,  \* the index: a number for each name and method
    arch, pos,  \* where init2 is: the next file is number pos of archive arch
    cur,        \* files in the archives that init2 has done
    asked,      \* the name and method that getidx is called for
    lookup,     \* "none" | "walking" | "found"
    at, rest    \* where getidx is: archive at, and the number of files to skip

indexVars == <<archives, methodmap, arch, pos, cur>>
lookupVars == <<asked, lookup, at, rest>>
archiveIndexVars == <<indexVars, lookupVars>>

IndexInit ==
    /\ archives \in Loads
    /\ methodmap = [n \in Names |-> [m \in Methods |-> Absent]]
    /\ arch = 1 /\ pos = 1 /\ cur = 0
    /\ lookup = "none" /\ asked = <<>> /\ at = 1 /\ rest = 0

---------------------------------------------------------------------------
(* init2.                                                                  *)

Indexing == arch <= Len(archives)
File == archives[arch][pos]
New(f) == f.served /\ methodmap[f.name][f.method] = Absent

\* Mutant of AddFile: a later file of the name and method replaces the first.
AddFileReplacing ==
    /\ Indexing /\ pos <= Len(archives[arch])
    /\ File.served
    /\ methodmap' = [methodmap EXCEPT ![File.name][File.method] = cur + pos - 1]
    /\ pos' = pos + 1
    /\ UNCHANGED <<archives, arch, cur, lookupVars>>

AddFile ==
    /\ Indexing /\ pos <= Len(archives[arch])
    /\ New(File)
    /\ methodmap' = [methodmap EXCEPT ![File.name][File.method] = cur + pos - 1]
    /\ pos' = pos + 1
    /\ UNCHANGED <<archives, arch, cur, lookupVars>>

\* Suspicious names, directories and duplicates.
SkipFile ==
    /\ Indexing /\ pos <= Len(archives[arch])
    /\ ~New(File)
    /\ pos' = pos + 1
    /\ UNCHANGED <<archives, methodmap, arch, cur, lookupVars>>

\* cur += input.Files()
NextInput ==
    /\ Indexing /\ pos > Len(archives[arch])
    /\ cur' = cur + Len(archives[arch])
    /\ arch' = arch + 1 /\ pos' = 1
    /\ UNCHANGED <<archives, methodmap, lookupVars>>

\* A reload: another list of archives, and a new map.
Load ==
    /\ ~Indexing /\ lookup = "none"
    /\ archives' \in Loads
    /\ methodmap' = [n \in Names |-> [m \in Methods |-> Absent]]
    /\ arch' = 1 /\ pos' = 1 /\ cur' = 0
    /\ UNCHANGED lookupVars

IndexStep == AddFile \/ SkipFile \/ NextInput \/ Load

---------------------------------------------------------------------------
(* getidx.                                                                 *)

Ready == ~Indexing /\ lookup = "none"
Stored(n) == {m \in Methods : methodmap[n][m] # Absent}

CallGetIdx(n, m) ==
    /\ methodmap[n][m] # Absent
    /\ lookup' = "walking" /\ asked' = <<n, m>>
    /\ at' = 1 /\ rest' = methodmap[n][m]
    /\ UNCHANGED indexVars

\* The walk never passes the last archive (WalkStaysInside): getidx returns no nil.
FoundHere ==
    /\ lookup = "walking" /\ rest < Len(archives[at])
    /\ lookup' = "found"
    /\ UNCHANGED <<indexVars, asked, at, rest>>

\* Mutant of NotHere: idx is not reduced.
NotHereKeepsIdx ==
    /\ lookup = "walking" /\ rest >= Len(archives[at])
    /\ at' = at + 1
    /\ UNCHANGED <<indexVars, lookup, asked, rest>>

NotHere ==
    /\ lookup = "walking" /\ rest >= Len(archives[at])
    /\ rest' = rest - Len(archives[at])
    /\ at' = at + 1
    /\ UNCHANGED <<indexVars, lookup, asked>>

\* The caller has used the file.
EndLookup ==
    /\ lookup' = "none" /\ asked' = <<>> /\ at' = 1 /\ rest' = 0
    /\ UNCHANGED indexVars

Found == archives[at][rest + 1]

GetIdxStep == FoundHere \/ NotHere

IndexNext ==
    \/ IndexStep
    \/ GetIdxStep
    \/ \E n \in Names, m \in Methods : Ready /\ CallGetIdx(n, m)
    \/ lookup = "found" /\ EndLookup

IndexSpec == IndexInit /\ [][IndexNext]_archiveIndexVars

---------------------------------------------------------------------------
(* Properties.                                                             *)

\* getidx stays within the archives: it never returns nil, on which ServeHTTP
\* and handle_pre would give up.
WalkStaysInside == lookup # "none" => at \in DOMAIN archives

\* What getidx returns for an entry of the index is a file that has the name and
\* the method of the entry, is neither a directory nor suspicious, and no
\* archive before it, nor its own archive before it, has another such file: the
\* first archive on the command line wins, whatever the sizes of the archives.
Earlier(k, i, l, j) == k < l \/ (k = l /\ i < j)
Serves(f, n, m) == f.served /\ f.name = n /\ f.method = m
IndexResolves ==
    lookup = "found" =>
        /\ Serves(Found, asked[1], asked[2])
        /\ \A k \in DOMAIN archives : \A i \in DOMAIN archives[k] :
              Earlier(k, i, at, rest + 1) => ~Serves(archives[k][i], asked[1], asked[2])
====
