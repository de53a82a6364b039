---- MODULE NameTable ----
(***************************************************************************)
(* The zip command (zipcmd.go) up to the jobs for its workers: the main    *)
(* goroutine walks the arguments and starts a goroutine for each directory *)
(* and archive; all add their files to one table of names, under a mutex,  *)
(* so that the candidates of a name stand in any order of the arguments.   *)
(* When all have ended, names are deleted and for each name a source is    *)
(* chosen.  What then becomes of a name is the subject of ZipPipeline.     *)
(*                                                                         *)
(* A step that ends in "crashed" is a nil pointer the code dereferences    *)
(* after it has logged an error.                                           *)
(***************************************************************************)
EXTENDS Chooser

CONSTANTS
    ZipNames,     \* names in the table
    ZipFiles,     \* files as the walk of a directory or the list of an archive shows them
    Arguments,    \* directories, archives, single files, and others (a device, say)
    CommandLines  \* lists of arguments

\* A single file is not subject to --exclude; a path given twice is one argument.
ASSUME NameTableAssumption ==
    /\ \A f \in ZipFiles :
          /\ f.name \in ZipNames /\ f.excluded \in BOOLEAN
          /\ f.time \in Int /\ f.usize \in Nat /\ f.csize \in Nat /\ f.zone # "local"
    /\ \A a \in Arguments :
          /\ a.kind \in {"dir", "zip", "file", "other"} /\ a.readable \in BOOLEAN
          /\ a.files \in Seq(ZipFiles)
          /\ a.kind = "file" => Len(a.files) = 1 /\ ~a.files[1].excluded
          /\ a.kind = "other" => a.files = <<>>
    /\ \A z \in CommandLines :
          /\ z \in Seq(Arguments)
          /\ \A k, l \in DOMAIN z : z[k].path = z[l].path => z[k] = z[l]

\* Nothing has been chosen.
NoFile == [arg |-> 0]

VARIABLES
    zargs, zmode, zdelete,  \* arguments; "crc" | "nocrc" | "last"; --delete
    zpc,        \* where the main goroutine is
    argno,      \* the next argument
    scan,       \* for each argument the next file its goroutine looks at; 0: not started
    nametable,  \* for each name, its candidates
    removed,    \* names that --delete has taken out
    chosen,     \* for each name, its source
    unread      \* an input could not be read

zipOptions == <<zargs, zmode, zdelete>>
scanVars == <<argno, scan>>
nameTableVars == <<zipOptions, zpc, scanVars, nametable, removed, chosen, unread>>

NameTableStart ==
    /\ zpc = "args" /\ argno = 1
    /\ scan = [k \in DOMAIN zargs |-> 0]
    /\ nametable = [n \in ZipNames |-> <<>>]
    /\ removed = {}
    /\ chosen = [n \in ZipNames |-> NoFile]
    /\ unread = FALSE

NameTableInit ==
    /\ zargs \in CommandLines
    /\ zmode \in {"crc", "nocrc", "last"} /\ zdelete \in BOOLEAN
    /\ NameTableStart

\* os.Stat gives a time in the local zone, archive/zip one in UTC or in a zone that it
\* makes from the entry: one for each whole hour, one of its own for any other ("own").
Zone(k, i) ==
    LET f == zargs[k].files[i] IN
    IF zargs[k].kind # "zip" THEN <<"local", 0, 0>>
    ELSE IF f.zone = "own" THEN <<"own", k, i>> ELSE <<f.zone, 0, 0>>

\* The candidate for file i of argument k.  The root of a single file is its directory.
Candidate(k, i) ==
    LET a == zargs[k] f == a.files[i] IN
    [arg |-> k, pos |-> i, root |-> IF a.kind = "file" THEN a.dir ELSE a.path,
     zip |-> a.kind = "zip", time |-> f.time, zone |-> Zone(k, i), usize |-> f.usize,
     csize |-> IF a.kind = "zip" THEN f.csize ELSE 0, crc |-> f.crc]

\* nameadd
Added(k, i) == [nametable EXCEPT ![zargs[k].files[i].name] = Append(@, Candidate(k, i))]

---------------------------------------------------------------------------
(* create_nametable.                                                       *)

Arg == zargs[argno]
AtArg == zpc = "args" /\ argno <= Len(zargs)

StartScan ==
    /\ AtArg /\ Arg.kind \in {"dir", "zip"} /\ Arg.readable
    /\ scan' = [scan EXCEPT ![argno] = 1]
    /\ argno' = argno + 1
    /\ UNCHANGED <<zipOptions, zpc, nametable, removed, chosen, unread>>

AddSingleFile ==
    /\ AtArg /\ Arg.kind = "file" /\ Arg.readable
    /\ nametable' = Added(argno, 1)
    /\ scan' = [scan EXCEPT ![argno] = 2]
    /\ argno' = argno + 1
    /\ UNCHANGED <<zipOptions, zpc, removed, chosen, unread>>

\* Neither a directory nor named like an archive nor a regular file: passed over.
SkipArg ==
    /\ AtArg /\ Arg.kind = "other" /\ Arg.readable
    /\ scan' = [scan EXCEPT ![argno] = 1]
    /\ argno' = argno + 1
    /\ UNCHANGED <<zipOptions, zpc, nametable, removed, chosen, unread>>

Crash ==
    /\ zpc' = "crashed" /\ unread' = TRUE
    /\ UNCHANGED <<zipOptions, scanVars, nametable, removed, chosen>>

\* os.Stat or zip.OpenReader fails, or a single file vanishes between two calls of
\* os.Stat: the error is logged, the nil result used.
BadArg == AtArg /\ (~Arg.readable \/ Arg.kind = "file") /\ Crash

Scanning(k) ==
    /\ zpc \in {"args", "delete"}
    /\ scan[k] # 0 /\ scan[k] <= Len(zargs[k].files)
ThisFile(k) == zargs[k].files[scan[k]]

\* Lock, nameadd, Unlock.
ScanFile(k) ==
    /\ Scanning(k) /\ ~ThisFile(k).excluded
    /\ nametable' = Added(k, scan[k])
    /\ scan' = [scan EXCEPT ![k] = @ + 1]
    /\ UNCHANGED <<zipOptions, zpc, argno, removed, chosen, unread>>

\* A directory, or a match of --exclude.
ScanSkips(k) ==
    /\ Scanning(k) /\ ThisFile(k).excluded
    /\ scan' = [scan EXCEPT ![k] = @ + 1]
    /\ UNCHANGED <<zipOptions, zpc, argno, nametable, removed, chosen, unread>>

\* A part of a directory cannot be read: WalkDir goes on without it.
ScanUnreadable(k) ==
    /\ Scanning(k) /\ zargs[k].kind = "dir"
    /\ scan' = [scan EXCEPT ![k] = @ + 1]
    /\ unread' = TRUE
    /\ UNCHANGED <<zipOptions, zpc, argno, nametable, removed, chosen>>

\* A file is removed after the walk has found it: NewChooseFileFromDir is nil.
ScanVanished(k) ==
    /\ Scanning(k) /\ ~ThisFile(k).excluded
    /\ zargs[k].kind = "dir"
    /\ Crash

\* Mutant of WaitScans: the wait is left out.
WaitScansNot ==
    /\ zpc = "args" /\ argno > Len(zargs)
    /\ zpc' = "delete"
    /\ UNCHANGED <<zipOptions, scanVars, nametable, removed, chosen, unread>>

\* wg.Wait
WaitScans ==
    /\ zpc = "args" /\ argno > Len(zargs)
    /\ \A k \in DOMAIN zargs : scan[k] > Len(zargs[k].files)
    /\ zpc' = "delete"
    /\ UNCHANGED <<zipOptions, scanVars, nametable, removed, chosen, unread>>

\* Mutant of Gone: a name counts as gone when its first candidate is of the first argument.
GoneFirst(n) ==
    /\ zdelete /\ Len(zargs) # 1
    /\ nametable[n] # <<>> /\ nametable[n][1].root = zargs[1].path

\* --delete: a name whose one candidate is of the first argument.
Gone(n) ==
    /\ zdelete /\ Len(zargs) # 1
    /\ Len(nametable[n]) = 1 /\ nametable[n][1].root = zargs[1].path

DeleteGone ==
    /\ zpc = "delete"
    /\ removed' = {n \in ZipNames : Gone(n)}
    /\ nametable' = [n \in ZipNames |-> IF Gone(n) THEN <<>> ELSE nametable[n]]
    /\ zpc' = "choose"
    /\ UNCHANGED <<zipOptions, scanVars, chosen, unread>>

---------------------------------------------------------------------------
(* compress_process: the choice for each name, in any order.               *)

Pending == {n \in ZipNames : nametable[n] # <<>> /\ chosen[n] = NoFile}

\* The candidates of a name whose root is an argument.
WithRoot(n, k) == {i \in DOMAIN nametable[n] : nametable[n][i].root = zargs[k].path}

\* Mutant of ByArgument: the loop over the arguments begins with the second.
ByArgumentFromSecond(n) ==
    [k \in {l \in DOMAIN zargs \ {1} : WithRoot(n, l) # {}} |-> nametable[n][Min(WithRoot(n, k))]]

\* --choose-last: for each argument, the first candidate that has it as its root.
ByArgument(n) ==
    [k \in {l \in DOMAIN zargs : WithRoot(n, l) # {}} |-> nametable[n][Min(WithRoot(n, k))]]

\* The candidates FixCRC opens and reads; a single one is chosen without.
Fixable(s) == IF Cardinality(DOMAIN s) = 1 THEN {} ELSE {c \in Range(s) : ~c.zip}

Choose(n, c) ==
    /\ chosen' = [chosen EXCEPT ![n] = c]
    /\ UNCHANGED <<zipOptions, zpc, scanVars, nametable, removed>>

ChooseNewest(n) ==
    /\ zpc = "choose" /\ n \in Pending /\ zmode = "nocrc"
    /\ Choose(n, ChooseFromNoCRC(nametable[n]))
    /\ UNCHANGED unread

ChooseLast(n) ==
    /\ zpc = "choose" /\ n \in Pending /\ zmode = "last"
    /\ DOMAIN ByArgument(n) # {}
    /\ \E bad \in SUBSET Fixable(ByArgument(n)) :
          /\ Choose(n, ChooseFromLast(ByArgument(n), bad))
          /\ unread' = (unread \/ bad # {})

ChooseByContent(n) ==
    /\ zpc = "choose" /\ n \in Pending /\ zmode = "crc"
    /\ \E bad \in SUBSET Fixable(nametable[n]) :
          /\ Range(nametable[n]) \ bad # {}
          /\ \E c \in ChooseFrom(nametable[n], bad) : Choose(n, c)
          /\ unread' = (unread \/ bad # {})

\* No candidate is left whose checksum is known.
ContentUnknown(n) ==
    /\ zpc = "choose" /\ n \in Pending /\ zmode = "crc"
    /\ Len(nametable[n]) > 1 /\ Fixable(nametable[n]) = Range(nametable[n])
    /\ Crash

\* --choose-last finds no candidate by its root: the choice is nil.
NoArgument(n) ==
    /\ zpc = "choose" /\ n \in Pending /\ zmode = "last"
    /\ DOMAIN ByArgument(n) = {}
    /\ zpc' = "crashed"
    /\ UNCHANGED <<zipOptions, scanVars, nametable, removed, chosen, unread>>

AllChosen ==
    /\ zpc = "choose" /\ Pending = {}
    /\ zpc' = "done"
    /\ UNCHANGED <<zipOptions, scanVars, nametable, removed, chosen, unread>>

NameTableNext ==
    \/ StartScan \/ AddSingleFile \/ SkipArg \/ BadArg
    \/ \E k \in DOMAIN zargs : ScanFile(k) \/ ScanSkips(k) \/ ScanUnreadable(k) \/ ScanVanished(k)
    \/ WaitScans \/ DeleteGone
    \/ \E n \in ZipNames :
          ChooseNewest(n) \/ ChooseLast(n) \/ ChooseByContent(n) \/ ContentUnknown(n) \/ NoArgument(n)
    \/ AllChosen

NameTableSpec == NameTableInit /\ [][NameTableNext]_nameTableVars

---------------------------------------------------------------------------
(* Properties.                                                             *)

\* All that the arguments offer for a name.
Offers(k, n) ==
    {i \in DOMAIN zargs[k].files : zargs[k].files[i].name = n /\ ~zargs[k].files[i].excluded}
Offered(n) == UNION {{Candidate(k, i) : i \in Offers(k, n)} : k \in DOMAIN zargs}

\* When names are deleted and sources chosen, every file that every argument offers
\* is in the table, once, in whatever order the goroutines have run; a directory that
\* cannot be read costs its own files only.
TableIsComplete ==
    zpc \in {"delete", "choose", "done"} =>
        \A n \in ZipNames \ removed :
            /\ Len(nametable[n]) = Cardinality(Range(nametable[n]))
            /\ Range(nametable[n]) \subseteq Offered(n)
            /\ \A c \in Offered(n) \ Range(nametable[n]) : unread /\ zargs[c.arg].kind = "dir"

\* --delete takes out only what the later arguments no longer have, except a single
\* file of the directory that is the first argument, which has the same root, and
\* the files of a directory that could not be read: they count as gone.
OnlyGoneIsRemoved ==
    \A n \in removed : \A c \in Offered(n) :
        \/ c.arg = 1
        \/ zargs[c.arg].kind = "file" /\ zargs[c.arg].dir = zargs[1].path
        \/ zargs[c.arg].kind = "dir" /\ unread

\* --no-crc: no candidate is newer than the chosen one, although two files of the
\* same time are each better than the other.
NewestIsChosen ==
    zmode = "nocrc" /\ ~unread =>
        \A n \in ZipNames : chosen[n] # NoFile =>
            chosen[n] \in Offered(n) /\ \A c \in Offered(n) : c.time <= chosen[n].time

\* --choose-last: the content is that of the last argument under whose path the name
\* is found, and the source is the first argument that has this content: the order of
\* the goroutines does not show.  (A single file is found under its directory, if that
\* is an argument too; an archive may hold a name twice: of one root, any counts.)
FoundAt(n, k) == {c \in Offered(n) : c.root = zargs[k].path}
LastIsChosen ==
    zmode = "last" /\ ~unread =>
        \A n \in ZipNames :
            /\ chosen[n] # NoFile
            /\ \A c, d \in Offered(n) : c.root = d.root => c = d
            => \E k, l \in DOMAIN zargs :
                  /\ \E c \in FoundAt(n, k) : c.crc = chosen[n].crc
                  /\ \A m \in DOMAIN zargs : m > k => FoundAt(n, m) = {}
                  /\ chosen[n] \in FoundAt(n, l)
                  /\ \A m \in DOMAIN zargs : m < l =>
                        \A c \in FoundAt(n, m) : c.crc # chosen[n].crc

\* By content: when no two candidates have the same time, the choice is the newest
\* among the best of each content, where the best is the compressed, then the
\* smaller, then the older one; goroutines, map order and sort do not show.
Better(a, b) ==
    \/ a.csize # 0 /\ b.csize = 0
    \/ a.csize # 0 /\ a.csize < b.csize
    \/ a.csize = b.csize /\ a.time < b.time
Best(n) == {c \in Offered(n) : \A d \in Offered(n) \ {c} : d.crc = c.crc => Better(c, d)}
ContentDecides ==
    zmode = "crc" /\ ~unread =>
        \A n \in ZipNames :
            /\ chosen[n] # NoFile
            /\ \A c, d \in Offered(n) : c # d => c.time # d.time
            => chosen[n] \in Best(n) /\ \A d \in Best(n) : d.time <= chosen[n].time

\* The command crashes only when an input cannot be read, or when --choose-last
\* meets a name that only single files have.
CrashHasCause ==
    zpc = "crashed" =>
        \/ unread
        \/ zmode = "last" /\ \E n \in ZipNames :
                Offered(n) # {} /\ \A k \in DOMAIN zargs : FoundAt(n, k) = {}
====
