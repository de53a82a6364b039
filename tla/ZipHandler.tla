---- MODULE ZipHandler ----
(***************************************************************************)
(* ZipHandler (webserver.go): the index of the archives it serves, the     *)
(* archives it holds open, the requests that read both under a read lock,  *)
(* and the loads (initialize) that replace both under the write lock.      *)
(*                                                                         *)
(* The index and the archive handles are two fields assigned one after the *)
(* other (zipfiles, then methodmap); a request reads an index entry first  *)
(* and resolves it to a file of an archive later (getidx), so the two must *)
(* come from the same load for the answer to be the indexed file.          *)
(*                                                                         *)
(* Data abstraction: the index of an archive is the version it was built   *)
(* from; a body is the version of the archive its bytes belong to.         *)
(***************************************************************************)
EXTENDS ArchiveFiles, RWMutex, Sequences

CONSTANTS
    Loaders,   \* goroutines that call initialize
    Requests,  \* connections: each has at most one ServeHTTP call at a time
    None,      \* no entry, no file, no body, no read in progress
    Garbled,   \* bytes of another version than the one the index describes
    Closed     \* the archive was closed: the read fails

ASSUME HandlerAssumption ==
    /\ NoOne \notin Loaders
    /\ None \notin Nat /\ Garbled \notin Nat /\ Closed \notin Nat
    /\ None # Garbled /\ None # Closed /\ Garbled # Closed

VARIABLES
    inmemory,   \* --in-memory: the bytes of the archives are kept, not the files
    zipfiles,   \* the archives served
    methodmap,  \* the index: for each archive, the version it indexes
    open,       \* ids of the archive files that are open
    nextid,     \* id of the next archive file to open
    hclosed,    \* the handler's Close has run
    lpc,        \* where each loader is in initialize
    inputs,     \* the archives each loader has opened so far
    part,       \* what a loader that is reading an archive into memory has seen
    rpc,        \* where each request is in ServeHTTP
    entry,      \* the index entry the request found
    file,       \* the archive handle the request resolved the entry to
    body        \* what the request sent as the body

loadVars == <<lpc, inputs, part>>
indexVars == <<zipfiles, methodmap>>
handleVars == <<open, nextid, hclosed>>
requestVars == <<rpc, entry, file, body>>
handlerVars == <<diskVars, lockVars, inmemory, loadVars, indexVars, handleVars, requestVars>>

\* An archive that is open: the inode it reads, the version its central
\* directory was read from, and in memory the bytes that were kept.
Handles ==
    {h \in [id : Nat, ino : Inodes, ver : Versions, copy : Versions \union {Garbled}] :
        h.copy \in {h.ver, Garbled}}
Entries == [arch : Archives, ver : Versions]

Ids(files) == {files[k].id : k \in DOMAIN files}

HandlerInit ==
    /\ DiskInit
    /\ LockInit
    /\ inmemory \in BOOLEAN
    /\ zipfiles = <<>> /\ methodmap = <<>>
    /\ open = {} /\ nextid = 1 /\ hclosed = FALSE
    /\ lpc = [l \in Loaders |-> "idle"]
    /\ inputs = [l \in Loaders |-> <<>>]
    /\ part = [l \in Loaders |-> None]
    /\ rpc = [r \in Requests |-> "idle"]
    /\ entry = [r \in Requests |-> None]
    /\ file = [r \in Requests |-> None]
    /\ body = [r \in Requests |-> None]

---------------------------------------------------------------------------
(* initialize: open every archive, build the index, swap under the lock.   *)

Opening(l) == lpc[l] = "open" /\ Len(inputs[l]) < NArchives
NextArchive(l) == Len(inputs[l]) + 1

BeginLoad(l) ==
    /\ lpc[l] = "idle"
    /\ lpc' = [lpc EXCEPT ![l] = "open"]
    /\ UNCHANGED <<diskVars, lockVars, inmemory, inputs, part, indexVars, handleVars, requestVars>>

\* Mutant of OpenFile: the error of zip.OpenReader is not checked.
OpenFileUnchecked(l) ==
    /\ Opening(l) /\ ~inmemory
    /\ LET i == path[NextArchive(l)] IN
         inputs' = [inputs EXCEPT ![l] =
                      Append(@, [id |-> nextid, ino |-> i, ver |-> bytes[i], copy |-> bytes[i]])]
    /\ open' = open \union {nextid}
    /\ nextid' = nextid + 1
    /\ UNCHANGED <<diskVars, lockVars, inmemory, lpc, part, indexVars, hclosed, requestVars>>

\* zip.OpenReader: the file stays open and its central directory is read.
OpenFile(l) ==
    /\ Opening(l) /\ ~inmemory
    /\ LET i == path[NextArchive(l)] IN
         /\ bytes[i] # Torn
         /\ inputs' = [inputs EXCEPT ![l] =
                         Append(@, [id |-> nextid, ino |-> i, ver |-> bytes[i], copy |-> bytes[i]])]
    /\ open' = open \union {nextid}
    /\ nextid' = nextid + 1
    /\ UNCHANGED <<diskVars, lockVars, inmemory, lpc, part, indexVars, hclosed, requestVars>>

\* ArchiveOffset, os.Open and the first reads of io.ReadAll.
StartRead(l) ==
    /\ Opening(l) /\ inmemory /\ part[l] = None
    /\ LET i == path[NextArchive(l)] IN
         /\ bytes[i] # Torn
         /\ part' = [part EXCEPT ![l] = [ino |-> i, head |-> bytes[i]]]
    /\ UNCHANGED <<diskVars, lockVars, inmemory, lpc, inputs, indexVars, handleVars, requestVars>>

\* The last reads of io.ReadAll: the central directory, at the end of the file,
\* may be that of a later version than the bytes read first.
FinishRead(l) ==
    /\ Opening(l) /\ part[l] # None
    /\ LET v == bytes[part[l].ino] IN
         /\ v # Torn
         /\ inputs' = [inputs EXCEPT ![l] =
                         Append(@, [id |-> 0, ino |-> part[l].ino, ver |-> v,
                                    copy |-> IF v = part[l].head THEN v ELSE Garbled])]
    /\ part' = [part EXCEPT ![l] = None]
    /\ UNCHANGED <<diskVars, lockVars, inmemory, lpc, indexVars, handleVars, requestVars>>

\* The file is not an archive at the moment: initialize returns the error, and
\* the archives it has opened before stay open.
OpenFails(l) ==
    /\ Opening(l)
    /\ LET i == IF part[l] # None THEN part[l].ino ELSE path[NextArchive(l)] IN bytes[i] = Torn
    /\ lpc' = [lpc EXCEPT ![l] = "failed"]
    /\ inputs' = [inputs EXCEPT ![l] = <<>>]
    /\ part' = [part EXCEPT ![l] = None]
    /\ UNCHANGED <<diskVars, lockVars, inmemory, indexVars, handleVars, requestVars>>

\* init2 has built the new index and asks for the write lock.
LockRequest(l) ==
    /\ lpc[l] = "open" /\ Len(inputs[l]) = NArchives
    /\ Announce(l)
    /\ lpc' = [lpc EXCEPT ![l] = "wait"]
    /\ UNCHANGED <<diskVars, inmemory, inputs, part, indexVars, handleVars, requestVars>>

\* Mutant of CloseOld: the write lock does not wait for the requests.
CloseOldUnlocked(l) ==
    /\ lpc[l] = "wait"
    /\ open' = open \ Ids(zipfiles)
    /\ lpc' = [lpc EXCEPT ![l] = "files"]
    /\ UNCHANGED <<diskVars, lockVars, inmemory, inputs, part, indexVars, nextid, hclosed, requestVars>>

\* Mutant of CloseOld: every archive file the process has open is closed.
CloseOldClosesAll(l) ==
    /\ lpc[l] = "wait" /\ Exclusive(l)
    /\ open' = {}
    /\ lpc' = [lpc EXCEPT ![l] = "files"]
    /\ UNCHANGED <<diskVars, lockVars, inmemory, inputs, part, indexVars, nextid, hclosed, requestVars>>

\* The write lock is held: the archives served so far are closed.
CloseOld(l) ==
    /\ lpc[l] = "wait" /\ Exclusive(l)
    /\ open' = open \ Ids(zipfiles)
    /\ lpc' = [lpc EXCEPT ![l] = "files"]
    /\ UNCHANGED <<diskVars, lockVars, inmemory, inputs, part, indexVars, nextid, hclosed, requestVars>>

SetFiles(l) ==
    /\ lpc[l] = "files"
    /\ zipfiles' = inputs[l]
    /\ lpc' = [lpc EXCEPT ![l] = "map"]
    /\ UNCHANGED <<diskVars, lockVars, inmemory, inputs, part, methodmap, handleVars, requestVars>>

\* Mutant of SetMap: the lock is not released.
SetMapKeepsLock(l) ==
    /\ lpc[l] = "map"
    /\ methodmap' = [k \in 1 .. NArchives |-> inputs[l][k].ver]
    /\ inputs' = [inputs EXCEPT ![l] = <<>>]
    /\ lpc' = [lpc EXCEPT ![l] = "done"]
    /\ UNCHANGED <<diskVars, lockVars, inmemory, part, zipfiles, handleVars, requestVars>>

\* The new index takes effect and the deferred Unlock lets the requests in.
SetMap(l) ==
    /\ lpc[l] = "map"
    /\ methodmap' = [k \in 1 .. NArchives |-> inputs[l][k].ver]
    /\ inputs' = [inputs EXCEPT ![l] = <<>>]
    /\ Unlock
    /\ lpc' = [lpc EXCEPT ![l] = "done"]
    /\ UNCHANGED <<diskVars, inmemory, part, zipfiles, handleVars, requestVars>>

LoadReturns(l) ==
    /\ lpc[l] \in {"done", "failed"}
    /\ lpc' = [lpc EXCEPT ![l] = "idle"]
    /\ UNCHANGED <<diskVars, lockVars, inmemory, inputs, part, indexVars, handleVars, requestVars>>

---------------------------------------------------------------------------
(* ServeHTTP, under the read lock from its first step to its return.       *)

Arrive(r) ==
    /\ rpc[r] = "idle"
    /\ RLock(r)
    /\ rpc' = [rpc EXCEPT ![r] = "lookup"]
    /\ UNCHANGED <<diskVars, inmemory, loadVars, indexVars, handleVars, entry, file, body>>

\* Mutant of Lookup: the index is read before the read lock is held.
LookupUnlocked(r, k) ==
    /\ rpc[r] = "lookup"
    /\ k \in DOMAIN methodmap
    /\ entry' = [entry EXCEPT ![r] = [arch |-> k, ver |-> methodmap[k]]]
    /\ rpc' = [rpc EXCEPT ![r] = "getidx"]
    /\ UNCHANGED <<diskVars, lockVars, inmemory, loadVars, indexVars, handleVars, file, body>>

\* The name is in the index: the variant chosen is in archive k.
Lookup(r, k) ==
    /\ rpc[r] = "lookup" /\ r \in readers
    /\ k \in DOMAIN methodmap
    /\ entry' = [entry EXCEPT ![r] = [arch |-> k, ver |-> methodmap[k]]]
    /\ rpc' = [rpc EXCEPT ![r] = "getidx"]
    /\ UNCHANGED <<diskVars, lockVars, inmemory, loadVars, indexVars, handleVars, file, body>>

\* 404, or a redirect to the name of the directory.
NotServed(r) ==
    /\ rpc[r] = "lookup" /\ r \in readers
    /\ rpc' = [rpc EXCEPT ![r] = "done"]
    /\ UNCHANGED <<diskVars, lockVars, inmemory, loadVars, indexVars, handleVars, entry, file, body>>

\* Mutant of GetIdx: the read lock is released once the file is known.
GetIdxReleases(r) ==
    /\ rpc[r] = "getidx"
    /\ file' = [file EXCEPT ![r] = zipfiles[entry[r].arch]]
    /\ rpc' = [rpc EXCEPT ![r] = "file"]
    /\ RUnlock(r)
    /\ UNCHANGED <<diskVars, inmemory, loadVars, indexVars, handleVars, entry, body>>

\* getidx resolves the entry against the archives, and the headers are written
\* from the file header found there.
GetIdx(r) ==
    /\ rpc[r] = "getidx"
    /\ file' = [file EXCEPT ![r] = zipfiles[entry[r].arch]]
    /\ rpc' = [rpc EXCEPT ![r] = "file"]
    /\ UNCHANGED <<diskVars, lockVars, inmemory, loadVars, indexVars, handleVars, entry, body>>

NotModified(r) ==
    /\ rpc[r] = "file"
    /\ rpc' = [rpc EXCEPT ![r] = "done"]
    /\ UNCHANGED <<diskVars, lockVars, inmemory, loadVars, indexVars, handleVars, entry, file, body>>

\* What the offsets of the index entry lead to: the bytes kept in memory, or
\* those the file holds now.
BodyOf(h) ==
    IF inmemory THEN h.copy
    ELSE IF h.id \notin open THEN Closed
    ELSE IF bytes[h.ino] = h.ver THEN h.ver ELSE Garbled

CopyBody(r) ==
    /\ rpc[r] = "file"
    /\ body' = [body EXCEPT ![r] = BodyOf(file[r])]
    /\ rpc' = [rpc EXCEPT ![r] = "done"]
    /\ UNCHANGED <<diskVars, lockVars, inmemory, loadVars, indexVars, handleVars, entry, file>>

\* Mutant of Return: the read lock is not released.
ReturnKeepsLock(r) ==
    /\ rpc[r] = "done"
    /\ rpc' = [rpc EXCEPT ![r] = "idle"]
    /\ entry' = [entry EXCEPT ![r] = None]
    /\ file' = [file EXCEPT ![r] = None]
    /\ body' = [body EXCEPT ![r] = None]
    /\ UNCHANGED <<diskVars, lockVars, inmemory, loadVars, indexVars, handleVars>>

Return(r) ==
    /\ rpc[r] = "done"
    /\ RUnlock(r)
    /\ rpc' = [rpc EXCEPT ![r] = "idle"]
    /\ entry' = [entry EXCEPT ![r] = None]
    /\ file' = [file EXCEPT ![r] = None]
    /\ body' = [body EXCEPT ![r] = None]
    /\ UNCHANGED <<diskVars, inmemory, loadVars, indexVars, handleVars>>

---------------------------------------------------------------------------
\* Close takes no lock.
HandlerClose ==
    /\ ~hclosed
    /\ open' = open \ Ids(zipfiles)
    /\ hclosed' = TRUE
    /\ UNCHANGED <<diskVars, lockVars, inmemory, loadVars, indexVars, nextid, requestVars>>

LoadStep(l) ==
    \/ OpenFile(l) \/ StartRead(l) \/ FinishRead(l) \/ OpenFails(l)
    \/ LockRequest(l) \/ CloseOld(l) \/ SetFiles(l) \/ SetMap(l)

ServeStep(r) ==
    \/ \E k \in Archives : Lookup(r, k)
    \/ NotServed(r) \/ GetIdx(r) \/ NotModified(r) \/ CopyBody(r) \/ Return(r)

DiskStep ==
    \/ \E k \in Archives : BeginOverwrite(k) \/ Replace(k)
    \/ \E i \in Inodes : EndOverwrite(i)

HandlerNext ==
    \/ \E l \in Loaders : BeginLoad(l) \/ LoadStep(l) \/ LoadReturns(l)
    \/ \E r \in Requests : Arrive(r) \/ ServeStep(r)
    \/ HandlerClose
    \/ DiskStep /\ UNCHANGED <<lockVars, inmemory, loadVars, indexVars, handleVars, requestVars>>

HandlerSpec == HandlerInit /\ [][HandlerNext]_handlerVars

---------------------------------------------------------------------------
(* Properties.                                                             *)

\* Type invariant of the handler, the lock and the disk.
HandlerTypeOK ==
    /\ DiskTypeOK
    /\ writer \in Loaders \union {NoOne}
    /\ readers \subseteq Requests /\ blocked \subseteq Requests
    /\ inmemory \in BOOLEAN
    /\ zipfiles \in Seq(Handles) /\ methodmap \in Seq(Versions)
    /\ open \subseteq Nat /\ nextid \in Nat \ {0} /\ hclosed \in BOOLEAN
    /\ lpc \in [Loaders -> {"idle", "open", "wait", "files", "map", "done", "failed"}]
    /\ inputs \in [Loaders -> Seq(Handles)]
    /\ part \in [Loaders -> [ino : Inodes, head : Versions] \union {None}]
    /\ rpc \in [Requests -> {"idle", "lookup", "getidx", "file", "done"}]
    /\ entry \in [Requests -> Entries \union {None}]
    /\ file \in [Requests -> Handles \union {None}]
    /\ body \in [Requests -> Versions \union {None, Garbled, Closed}]

\* The file a request resolves its entry to (getidx) belongs to the load that
\* built the entry, although the index and the archives are two fields and a
\* reload may begin, or even wait for the lock, in between.
AnswersFromOneLoad ==
    \A r \in Requests : file[r] # None => file[r].ver = entry[r].ver

\* A body is the content the index entry describes.  It can be damaged only when
\* the archive is changed in place under the server, and cut off only when
\* the handler itself was closed: a reload closes no archive under a request.
BodyIsIndexed ==
    \A r \in Requests : body[r] # None =>
        \/ body[r] = entry[r].ver
        \/ body[r] = Garbled /\ entry[r].arch \in Rewritten
        \/ body[r] = Closed /\ hclosed

\* Unless a load is exchanging them at this moment, the archives the index points
\* into are open: no load closes an archive another load has installed.
InstalledArchivesAreOpen ==
    (~inmemory /\ ~hclosed /\ \A l \in Loaders : lpc[l] # "files") => Ids(zipfiles) \subseteq open

\* The handler implements AtomicArchive: its index is replaced as a whole, and
\* every answer is the content that an index current during the call promised.
Abstract == INSTANCE AtomicArchive WITH
    current <- methodmap,
    shut <- hclosed,
    phase <- [r \in Requests |->
                CASE rpc[r] = "idle" -> "idle"
                  [] rpc[r] = "lookup" -> "called"
                  [] rpc[r] \in {"getidx", "file"} -> "found"
                  [] OTHER -> "answered"],
    promised <- entry,
    sent <- body

ImplementsAtomicArchive == Abstract!ASpec

---------------------------------------------------------------------------
(* The inductive invariant behind the properties.                          *)

\* A loader has announced itself exactly while it is between Lock and Unlock,
\* and exchanges the archives only when no request is inside.
LockInv ==
    /\ \A l \in Loaders : lpc[l] \in {"wait", "files", "map"} <=> writer = l
    /\ \A l \in Loaders : lpc[l] \in {"files", "map"} => readers = {}
    /\ readers \intersect blocked = {}
    /\ \A r \in Requests : rpc[r] # "idle" <=> r \in readers \union blocked
    /\ \A r \in Requests : rpc[r] \in {"getidx", "file", "done"} => r \in readers

\* A loader asks for the lock with all the archives opened, and keeps none after.
LoadInv ==
    \A l \in Loaders :
        /\ Len(inputs[l]) <= NArchives
        /\ lpc[l] \in {"wait", "files", "map"} => Len(inputs[l]) = NArchives
        /\ lpc[l] \in {"idle", "done", "failed"} => inputs[l] = <<>>
        /\ part[l] # None => inmemory /\ lpc[l] = "open" /\ Len(inputs[l]) < NArchives

\* Outside SetFiles..SetMap the index describes the archives held.
IndexInv ==
    /\ Len(zipfiles) \in {0, NArchives}
    /\ (\A l \in Loaders : lpc[l] # "map") =>
          /\ DOMAIN methodmap = DOMAIN zipfiles
          /\ \A k \in DOMAIN zipfiles : methodmap[k] = zipfiles[k].ver
    /\ \A l \in Loaders : lpc[l] = "map" => zipfiles = inputs[l]

\* What a request has found so far is what the index and the archives still hold.
RequestInv ==
    \A r \in Requests :
        /\ rpc[r] \in {"idle", "lookup"} => entry[r] = None /\ file[r] = None
        /\ rpc[r] \in {"getidx", "file"} =>
              /\ entry[r] \in Entries
              /\ entry[r].arch \in DOMAIN methodmap
              /\ entry[r].ver = methodmap[entry[r].arch]
        /\ rpc[r] = "getidx" => file[r] = None
        /\ rpc[r] = "file" => file[r] = zipfiles[entry[r].arch]
        /\ rpc[r] # "done" => body[r] = None

\* Archive files are opened once and closed once: no two loads share a file.
OpenInv ==
    ~inmemory =>
        /\ \A i \in Ids(zipfiles) : i < nextid
        /\ \A l \in Loaders : \A i \in Ids(inputs[l]) : i < nextid
        /\ \A l \in Loaders : lpc[l] # "map" =>
              /\ Ids(inputs[l]) \subseteq open
              /\ Ids(inputs[l]) \intersect Ids(zipfiles) = {}
        /\ \A l, m \in Loaders : l # m => Ids(inputs[l]) \intersect Ids(inputs[m]) = {}

\* Inodes are numbered in the order in which they are made.
PathInv == \A k \in Archives : path[k] <= NArchives + writes

\* An inode that only archive k has led to.
OwnedBy(k, i) ==
    /\ i <= NArchives + writes
    /\ \A j \in Archives \ {k} : path[j] # i

Intact(k, h) == OwnedBy(k, h.ino) /\ bytes[h.ino] = h.ver /\ h.copy = h.ver

\* An archive that is only replaced keeps, in every file held open and in every
\* copy in memory, the content it had when its index was read.
DataInv ==
    \A k \in Archives \ Rewritten :
        /\ OwnedBy(k, path[k]) /\ bytes[path[k]] # Torn
        /\ k \in DOMAIN zipfiles => Intact(k, zipfiles[k])
        /\ \A l \in Loaders : k \in DOMAIN inputs[l] => Intact(k, inputs[l][k])
        /\ \A l \in Loaders : part[l] # None /\ k = NextArchive(l) =>
              OwnedBy(k, part[l].ino) /\ bytes[part[l].ino] = part[l].head

HandlerInv ==
    /\ HandlerTypeOK
    /\ LockInv /\ LoadInv /\ IndexInv /\ RequestInv /\ OpenInv
    /\ PathInv /\ DataInv
    /\ InstalledArchivesAreOpen /\ AnswersFromOneLoad /\ BodyIsIndexed
====
