# A verification of ziphttp

TLA+ models of `ziphttp` (Go): the web server that serves files out of zip archives and
reloads them while it serves, the `zip` command that builds archives with parallel
workers, and the smaller commands around them. TLC checks the models on small instances, TLAPS proves theorems
about them for every instance: every safety property that a passing run checks is also proved. Line numbers are those of the source in `src/`.

## 1. Inventory

| Part | State | Operations | Hard behaviour |
|---|---|---|---|
| HTTP handler (`webserver.go`, `ZipHandler`) | `zipfiles` (open archives), `methodmap` (index), `rwlock` | `initialize`, `init2`, `ServeHTTP`, `getidx`, `Close` | two fields replaced under requests; archives closed by reloads; `Close` without the lock |
| Server process (`WebServer`) | signal channel, watcher, `http.Server` | `Execute`, `Reload`, `Shutdown` | signals and file events concurrent with serving; failing reloads; shutdown order |
| Archives on disk | names, inodes, contents | written in place by `zip`, renamed over by other tools | content changes under an open handle, torn reads |
| `zip` workers and output (`zipcmd.go`, `util.go`, `zipio.go`) | channel of jobs, temporary archives, output | `boot_workers`, `compress_process`, `CompressWorker`, `prepare_output`, `ZipPassThru` | bounded channel, failing workers, the output may be an input |
| `zip` names and choice (`zipcmd.go`, `chooser.go`) | `nametable`, checksums | `create_nametable`, `ChooseFrom*` | goroutine interleaving fixes the order of candidates |
| Content negotiation (`webserver.go`) | none | `accept_encoding`, `send_raw`, `handle_*`, `conditional` | falls from variant to variant with headers already set |
| `zipsort` (`zipsort.go`) | output, inputs, deferred calls | `Execute` | order of deferred calls, output truncated first |
| Link rewriting (`util.go`, `link.go`) | a pipe | `fix_link`, `LinkRelative`, `filtercopy` | a failing destination leaves the rewriter blocked; links that lead elsewhere |
| Archive offset (`util.go`) | none | `ArchiveOffset` | end record searched in the last 512 bytes only |
| `zip2gzip` (`ziptogzip.go`) | files or tar members written | `namesize`, `output`, `Execute` | two lists of methods that must agree, cut files |
| `ziplist`, sitemap, skill, telemetry, compressors | none worth a model | | sequential I/O |

Interactions. The main goroutine of the server, the goroutine that takes signals and the
watcher all call `ZipHandler.initialize`; every HTTP connection calls `ServeHTTP`. They share
the handler under `rwlock`. The `zip` command (another process) writes the files the server
reads. Inside `zip`, the main goroutine hands jobs to the workers over a channel and reads
their temporary archives when they have ended; before that, one goroutine for each directory
and archive on the command line adds to the table of names.

What makes each part correct: an answer of the server is the content of one index, never a
mixture of two loads; a reload never closes an archive under a request; requests and reloads
always finish; a changed archive is loaded in the end; shutdown waits for requests. For `zip`:
the output is touched only when no input is read any more; success means that every name is
in the output once; no failed worker goes unnoticed; the command returns; the file chosen for
a name does not depend on the order in which goroutines and maps deliver the candidates. For
an answer: its headers describe its bytes, whatever was tried before; a 304 is true. For the
other commands: success means complete output, and what is lost is reported. The full list of
hazards, each at its line, is in `PROJECT.json`.

## 2. Modules

| Module | Models | Kind |
|---|---|---|
| `ArchiveFiles` | the archives on disk and how they change | component (file system, `prepare_output`) |
| `RWMutex` | `sync.RWMutex` as the handler uses it | external component |
| `ZipHandler` | loads and requests; extends the two above | component |
| `AtomicArchive` | what a handler promises: one index, replaced as a whole | abstract specification |
| `WebServer` | the goroutines around the handler; extends `ZipHandler` | composition |
| `ZipPipeline` | the `zip` command from `boot_workers` to the merged output | component |
| `ArchiveIndex` | `init2` and `getidx`: the flat numbering of the files of all archives | component |
| `Negotiation` | `ServeHTTP` from request to answer, with a client that asks again; extends `ArchiveIndex` | component |
| `Chooser` | the comparisons and choices of `chooser.go` as operators | pure algorithms |
| `NameTable` | `zip` up to its jobs: scanners, `--delete`, the choice; extends `Chooser` | component |
| `ZipSort`, `ZipToGzip`, `ArchiveOffset`, `LinkRewriting` | `zipsort`, `zip2gzip`, `ArchiveOffset`, `fix_link` and `filtercopy` | components |
| `Commands` | a process runs one of the five above | composition |
| `MCWebServer`, `MCZipPipeline`, `MCNegotiation`, `MCCommands` | instances for TLC | |
| `ZipHandlerProofs`, `WebServerProofs`, `ZipPipelineProofs`, `ArchiveIndexProofs`, `NegotiationProofs`, `ZipSortProofs`, `NameTableProofs`, `CommandsProofs` | theorems | |

**Disk.** A file is a version number, or `Torn` between truncation and central directory. A
name leads to an inode; `BeginOverwrite`/`EndOverwrite` change the inode in place (what
`ziphttp zip -f` does, `zipcmd.go:67-77`), `Replace` renames a complete new file over the
name. `MaxWrites` bounds the changes. A second overwrite of an archive waits for the first.

**Handler.** The index of an archive is the version it was built from, so an entry is the pair
(archive, version), and a body is the version its bytes belong to, `Garbled` when the file no
longer has the indexed version, `Closed` when the handle is closed. One action per step that
another goroutine can come between: a load opens the archives one by one (`OpenFile`, or
`StartRead`/`FinishRead` with `--in-memory`), announces itself at the lock (`LockRequest`),
closes the old archives (`CloseOld`), assigns `zipfiles` (`SetFiles`) and `methodmap`
(`SetMap`), and unlocks. A request takes the read lock (`Arrive`), finds an entry (`Lookup`),
resolves it (`GetIdx`), sends (`CopyBody`) and unlocks (`Return`). `Lookup` leaves the variant
and hence the archive open: content negotiation is the subject of `Negotiation`. A load that fails leaves the
archives it has opened open, as the code does.

**Server.** `main`, `sig` and `watch` are where the three goroutines are. The signal goroutine
ends after a failed reload and after a shutdown; the watcher goes on after a failed reload.
`sigch` has room for one signal, a second one is dropped; before `signal.Notify` a signal ends
the process. `serving` is set when the listener is open: requests arrive from then on (`Accept`),
also after a shutdown has begun, over connections accepted before, until `Shutdown` returns. A
watcher that cannot be made is nil and crashes the process (`NilWatcher`); an accept may fail for
good (`ServeFails`), after which `Execute` closes the handler under requests. A write event is raised for the watched inode; at most two are pending, since
inotify merges equal ones. The deferred calls of `Execute` are `CloseWatcher` and
`CloseHandler`, in that order.

**Pipeline.** The main goroutine takes the names in any order (a Go map), and for each copies
the entry as it is, leaves it out (`--skip-store`) or sends a job; each worker takes jobs until
the channel is closed and empty, and only then writes the central directory of its temporary
archive. Every failure the code handles (or only logs) is an action: `BootFails`, a raw copy
that stops half-way (`NotAsIs`), `OpenFails`, `SiteMapFails`, `RewriteFails`, `CompressFails`,
`WriteFailsInPipe`, `FinishFails`, `OutputFails`, `MergeCutShort`, and `NilWriter` (the main
goroutine's archive cannot be opened once more, the error is ignored, and the nil is used);
`MaxFaults` bounds their number. `sitemap.initialize` never fails (`sitemap.go:33-36`). An archive without central directory cannot be read (`MergeFails`). An entry is
`whole`, `cut`, or `empty` (the sitemap). The choice of the source of a name, the compression
method, the order of the output and its bytes are left out. `logged` is the one variable that
is not in the code: it records the names whose failure was only logged.

**Index.** `AddFile`, `SkipFile` and `NextInput` are the loop of `init2` (`webserver.go:496-527`), one
step for each file; `CallGetIdx`, `FoundHere` and `NotHere` are `getidx` (`:170-179`), one step
for each archive. A file is a record with name, method and `served`, which is false for a
directory or a name with `..`. The two walks are atomic under the lock in `ZipHandler`; here
they are compared step by step, and there is no concurrency.

**Negotiation.** `stage` is the place in `ServeHTTP` and `send_raw`: a coding that is tried, the
fallback, the `.gz` branch. `answer` collects the headers the code adds (`Header().Add` never
replaces), so that a variant that cannot be opened (`RawFails`) leaves its own behind. `copy` is
the client's last complete answer; it asks again with its ETag, its date or both, after any
number of loads (`Load`). The two loops over the map of variants are two free choices
(`PickVariant`). Times carry their zone, since the code prints local time as GMT. Left out:
weights (`;q=`), content types, fixed headers, and I/O errors in the middle of a body.

**Names and choice.** One action for each step of a scanner under the mutex (`ScanFile`), for
each single file of the main goroutine (`AddSingleFile`), for an argument that is neither
directory, archive nor regular file (`SkipArg`), for the wait, `--delete` and each
choice. Inputs that vanish, cannot be read or cannot be checksummed are actions; where the code
uses the nil it got, the step ends in `crashed`. `Chooser!First` is what an insertion sort puts in front, which
is what `sort.Sort` runs for up to twelve elements: the comparisons are no orders, so the result
depends on the algorithm (a name with more than twelve candidates is sorted in another way, and
neither the model nor the theorems speak of it). `MCCommands` has the sort itself and compares
the two over all short inputs. The groups of `ChooseFrom` come out of a map, so the operator
returns a set. Times are compared with `!=` and so by their zone, too: `Zone` is local for a file of
a directory, and for an entry UTC, one of the whole hours, or one of its own. `filepath.Rel`
(`zipcmd.go:279-282`) cannot fail for a path below its own root.

**zipsort.** One action for each statement that can fail or that orders others: `deferred` is
the stack of deferred calls, `archive` what the output file is. `--self` is left out.
**zip2gzip.** `Announced` is the list of `namesize`, `Written` that of `output`, over all methods
they name and one they do not (`other`); a path is safe or not, and the trailer of the tar file is left out. **Archive offset.** A file is a layout
(prefix, where the entries begin, sizes, comment, order of the directory) and the offsets are computed; opening and
reading may fail (`OffsetUnreadable`). A comment that contains the signature of the end record is
left out.

**Links.** A URL is a site, a path of segments and its slashes; `Resolve` (with `Plain`, which
walks a path with `.` and `..` to where it leads), the folder of a page and `PathFrom` stand for
`net/url` and `filepath`. In `filtercopy` the rewriter writes link by link to the
pipe (`WritePipe`; `pipe` is a sequence of at most one write), the copier takes each (`CopyChunk`), fails (`CopyFails`), ends at the close,
and waits. A page is copied through the pipe (`zip --baseurl`), directly (`zip`) or rewritten
directly (`testlink`, one file of its list). The URL of a page is clean, as `url.JoinPath` makes
it (a `testlink --url` that is not is left out); empty segments, queries, fragments, escapes and
references with a host but no scheme are left out, as is the markup. A link with a user or one
that cannot be parsed is `kept`. `LinkRelative_xml` is not called by the program.

## 3. Runs

| Run | Question | Result |
|---|---|---|
| `server_safety` | do answers come from one load and match the index, does the handler implement `AtomicArchive` | holds, 2.3 million states |
| `server_liveness` | are requests answered, do reloads end, does autoreload settle | holds |
| `pipeline` | the five properties of the pipeline | holds, 1.2 million states |
| `negotiation` | index and answers: headers, codings, ETags and dates over three loads | holds, 52 thousand states |
| `commands` | `zip` up to its jobs, `zipsort`, `zip2gzip`, offset, links | holds, 26 thousand states |
| `graceful_shutdown` | does shutdown wait for requests (log line 799) | violated |
| `hangup_after_failed_reload` | is a SIGHUP always taken (README 55-56) | violated |
| `autoreload_second_archive` | are `--add` archives followed (README 57) | violated |
| `autoreload_and_hangup` | does the newest load win (README 57) | violated |
| `sitemap_content` | does `--sitemap` write a sitemap (`zipcmd.go:29`) | violated |
| `gzip_file_revalidation` | can every ETag be asked for again (README 16) | violated |
| `sorted_archive` | is a sorted archive readable (`SKILL.md` 62) | violated |

Properties of the server. `AnswersFromOneLoad`: `getidx` resolves an entry in the archives of
the load that built it. `BodyIsIndexed`: a body is the indexed content; damaged only when the
archive is overwritten in place, cut off only when the handler is closed.
`InstalledArchivesAreOpen`: two reloading goroutines never close each other's archives.
`ImplementsAtomicArchive`: refinement; each `SetMap` is one `Install`, and it cannot happen
while a request stands between index and answer. `HandlerInv` is the inductive invariant of
the proofs, checked first. `RequestAnswered`, `ReloadFinishes`, `ShutdownEnds`,
`AutoreloadSettles` are liveness.

Properties of the pipeline. `OutputUntouchedWhileReading`, `SuccessIsComplete` (every name
once and whole, up to the failures the code only logs), `FailedWorkerIsNoticed`, and `Returns`
(the command ends, unless a worker hangs in `filtercopy` or all workers died before a full
channel: both are states the code can reach, and the run reaches them). Because of these two
states, and because a command that has returned stops, the pipeline run does not check for
deadlock.

Properties of answers. `WalkStaysInside` and `IndexResolves`: `getidx` never runs past the last
archive and returns the first file that serves the name and the method. `HeadersDescribeBody`:
one length, one ETag, the coding of the bytes, those of the file sent, unless a variant failed
on the way, which in the code leaves wrong headers. `AcceptableForm`: no coding the client has
not named, and no decompression while a named coding is stored. `RevalidatesByETag`: an ETag of
current content is answered with 304, whichever variant the map yields. `NotModifiedIsTrue`: a
304 means that a current variant has the content of the copy; the exceptions (a date alone, a
copy with the headers of a failed variant) are named in it. `LoggedStatusIsSent`: the access log
shows what was sent, except for a last variant that cannot be opened (logged 500, sent 200).

Properties of the commands. `TableIsComplete` (no candidate lost under any interleaving),
`OnlyGoneIsRemoved` (a directory that cannot be read makes `--delete` drop its names: the
property names the exception), `NewestIsChosen`, `LastIsChosen`, `ContentDecides` (the choice is
a function of the candidates, not of their order), `CrashHasCause`. `PickIsBest`,
`SortIsComplete`, `SelfSortIsReported` for `zipsort`; `NamesTellTheForm`, `CutIsReported` for
`zip2gzip`; `TrimIsExact`, `RefusedHasCause` for the offset. `LinksSurviveMove`: the rewritten
page, moved with its site to another host and directory, has the same links; a link to another
port of the same host loses its port (`fix_link` compares `Hostname`), which the property does not
count; an absolute link without a path to the same host is left as it is. `FilteredIsWhole`: success without the whole page only where the code drops the error.
`HangHasCause`: `filtercopy` waits for ever exactly when its destination failed with more to be
written. The run does not check for deadlock, since commands end, and since that state is real.

Bounds. Two archives are needed for one to be overwritten and one to be replaced, and for the
position in the index to matter; two changes give three versions, enough for an old load, a
new load and a file newer than both; two requests, one inside and one blocked behind the
writer; the three loaders are the three goroutines there are. The liveness run has one
archive, one request, two overwrites and one signal: the competition is between the request,
the watcher and the signal reload. `ListenerFails` is true there. It is false in the safety
run, to keep it to minutes, and in the runs of the findings, whose counterexamples
then have no other cause; the theorems about the server hold for both values. The pipeline has four names, so that two workers can die on
two jobs, a third fill the channel of one and a fourth block; the channel of ten of the code
is a parameter of the proofs. Requests are symmetric (safety only); names in the sitemap run.
The archives of `negotiation` are three lists: one with an empty archive, a directory and a name
in three methods (an empty archive and skipped files are where numbering goes wrong), a newer
one from other time zones, and one whose variants disagree. The command lines of `commands`
hold an update of an old archive from a directory and a newer archive, single files and
duplicates with equal times in three zones, a single file and a device beside their own directory, one name in five inputs of two contents, and
an unreadable archive; at most five
candidates, so insertion sort is what the code runs. `zipsort` gets three versions of a name.
The offset run has 16 and 4 bytes for the 512 and 22 of the code, and comments on both sides of
the limit. Pages lie in a folder two deep, in a folder itself, at the root; links are relative,
rooted, and of five kinds of sites.

Fairness. Each goroutine that can go on does: Go's scheduler is preemptive. A request is not
held for ever by its client, since `http.Server` has a write timeout (30s by default,
`webserver.go:650-668`). A write of an archive that has begun is finished. Nothing is assumed
of arrivals, signals, changes of files or failures. A request or load waiting for the lock gets
it because `RWMutex` lets blocked readers in at each `Unlock`, which the model does, not
because fairness says so.

Each property has a mutant in `PROJECT.json`: a plausible bug in one action (an unlock
forgotten, a lock not waited for, a channel not closed) that TLC shows to violate it.

## 4. Findings

The seven violated runs are disagreements between code and documentation; `PROJECT.json` quotes
both sides. In short: (1) `Serve` returns when `Shutdown` begins, so that `Execute` closes the
archives and exits under requests; (2) one failed reload ends the signal goroutine, after which
neither reload nor termination by signal works; (3) only the first archive is watched;
(4) two loads can be installed in the wrong order and the server stays on the old content;
(5) the sitemap is written only when creating its entry has failed; (6) the ETag of a `.gz` file
is sent but never compared; (7) `zipsort` closes its file before the zip writer and leaves an
archive without central directory, with success.

Other behaviour the properties except, each at its place in the module: headers of a failed
variant stay on the answer; `--delete` takes the names of an unreadable directory for gone;
`--choose-last` crashes on a name that only single files have; `filtercopy` hangs on a failing
destination and drops the error of a failing source. No document speaks of these.

## 5. Proofs

Assumptions: only those named in the modules (`DiskAssumption`, `HandlerAssumption`,
`ServerAssumption`, `PipelineAssumption`, `IndexAssumption`, `NegotiationAssumption`,
`SortAssumption`, `NameTableAssumption`, `ExtractAssumption`,
`OffsetAssumption`, `LinkAssumption`): sizes are natural numbers, special values are distinct, the loaders are the
three goroutines, files, archives, pages and links are of their types, the end record fits the
tail, and `.` and `..` are not names of files. TLC evaluates them in the passing runs.

*Handler* (`ZipHandlerProofs`). `HandlerInv` is the conjunction of `HandlerTypeOK` and of
`LockInv` (a loader between `Lock` and `Unlock` is the announced writer and, once it has
touched the index, no reader is inside), `LoadInv` (it has all archives then), `IndexInv`
(outside the two assignments the index describes the archives held), `RequestInv` (what a
request has found is still what the index says), `OpenInv` (file handles are opened once) and
`DataInv`/`PathInv` (contents and handles agree unless the archive is overwritten in place).
None of the properties is inductive: `AnswersFromOneLoad` needs to know that the index cannot
change between `Lookup` and `GetIdx`, which is `LockInv` and `IndexInv`; `BodyIsIndexed` also
needs that inodes of replaced files keep their content, and that nobody reuses an inode
(`PathInv`, `DataInv`); `InstalledArchivesAreOpen` needs unique handles (`OpenInv`). Each
conjunct has a lemma with one step per action; `InvStep` joins them.
Theorems: `HandlerInvariant`, `HandlerTyped`, `OneLoadPerAnswer`, `BodiesAreIndexed`,
`InstalledStayOpen`.

*Refinement* (end of `ZipHandlerProofs`): every step of the handler is a step of `AtomicArchive` or a
stutter, under the invariant: `HandlerImplementsAtomicArchive`.

*Server* (`WebServerProofs`): every step of the server is a step of the handler or leaves it
alone (`ServerStepIsHandlerStep`), so all the above holds of the server
(`ServerImplementsHandler` and its corollaries, one for each safety property of the run); `ServerTyped`.

*Pipeline* (`ZipPipelineProofs`): `PipeInv` joins `TypeOK`, `PhaseInv` (past the wait no worker
works) and `CentralInv` (only a worker that has ended has a central directory, and success
needs them all). Theorems: `PipelineTyped`, `OutputIsLast`, `FailuresAreNoticed`.

*No name lost or doubled* (end of `ZipPipelineProofs`): `SuccessIsComplete` says nothing before the
merge, so it is not inductive. `CompleteInv` adds where a name is on its way: `SomewhereInv`
(still to do, with the main goroutine, in the channel, with a worker, in a temporary archive,
or excused: left out, logged, or lost with a worker that gave up), `OnceInv` (in one such place
and there once) and `WorkInv` (a worker ends behind a closed and empty channel only, and no
name is with a worker that does not work). One lemma per step that moves a name, one for all
that move none; at the merge no worker has given up, so every name that is not excused is in
one archive, once: `SuccessMeansComplete`.

*Index* (`ArchiveIndexProofs`): `IndexInv` says that there is a numbering `b` of the archives
walked so far (the number of files ahead of each) such that every entry of the index is
`b[k] + i - 1` for the first file `i` of archive `k` that serves the name and the method, and that
what `getidx` has still to skip is the entry less `b[at]`. `b` is quantified, not computed, since
sums over a sequence are recursive; it grows by one value at `NextInput`. Theorems:
`IndexInvariant`, `LookupsStayInside`, `LookupsResolve`.

*Answers* (`NegotiationProofs`): every step of `Negotiation` is a step of `ArchiveIndex` or leaves it
alone (`StepIsIndexStep`), so `IndexInv` is inherited. `NegotiationInv` adds types, that the
request is kept while it is answered (`RequestInv`), and what is looked up at which stage
(`StageInv`); `AnswerInv` that nothing is sent before the end and that only
variants that failed leave headers. On top of it each
property has what it needs: `CleanHeaders` (a first try sets exactly one ETag, length and coding) for
`HeadersHold`; `CopyInv` (the client's copy has the content of its ETag unless a variant had
failed) for `NotModifiedHolds`, which spans two requests and the loads between; `PassedInv` (a
coding that has been passed over is not accepted, not stored, or has failed) for
`AcceptableHolds`. `ETagRevalidates` and `LogIsTrue` follow from the kinds of last steps.

*zipsort* (`ZipSortProofs`): `SortInv` is types, `SelfInv` (the output has not been opened as an
input) and `PickIsBest`, which is inductive with them: each `TakeFile` compares with the file
held only, and the proof shows that this is enough when contents all agree or all differ.
`CopyInv` is what `SortIsComplete` becomes while copying: copied and waiting names are together
each picked name once (`EachOnce`), in order (`OrderKept`). Theorems: `SortInvariant`,
`BestIsPicked`, `SelfSortFails`, `SortMeansComplete`.

*Names and choice* (`NameTableProofs`). `NameTableInv` relates the table to where the goroutines
are: `TableInv` says that a name has each file that a goroutine has passed, once, and nothing else
(`EntriesArePassed`, `EntriesDiffer`, `PassedAreEntries`, the last but for unreadable directories and
removed names), `ScanInv` that arguments not yet reached have no goroutine and that after the wait
every goroutine is past its last file. It gives `TableComplete`. `RemovedAreGone` is a step
property of `DeleteGone`, turned into an invariant since the candidates offered never change. The
choices (`ChoicesAreRight`, `ChoiceStaysRight`) are argued in two parts. About `Chooser`, for
sequences of every length (`First` is what `sort.Sort` puts in front up to twelve candidates, see
section 2): what `First` returns is beaten by none, although the comparisons are not
transitive; the proof takes the least index of a better element, which would have moved to the
front (`LeastNatural` derives that a set of numbers has a least one from the finiteness of intervals,
since induction itself is out of reach; `FirstIsNewest`, `FirstIsBest`). About the table: it is
complete when a choice is made, so what is best in it is best of all that is offered
(`NewestOffered`, `LastOffered`, `BestOffered`). Theorems: `NewestChosen`, `LastChosen`,
`ContentChosen`, `CrashCaused`.

*Archive offset* (`CommandsProofs`): `OffsetInv` carries what is known at each step of the reading:
where in the tail the end record was found, and that the head is the begin of the directory unless
the record was not found. `TrimExact`, `RefusalCaused`, for every layout, tail and size of record.

*zip2gzip* (`CommandsProofs`): `WrittenInv` (what is whole has the form announced, what is cut is the
last and has failed the command) and `TreatedInv` (every entry passed is written, left out, or
replaced by a later one of its path); `FormsTold`, `CutsReported`.

*Links* (`CommandsProofs`): `LinkSurvives` says for every page, link and place that the rewritten
link, resolved on the moved page, leads where the old one led. `Plain` is a recursive function; a
*walk* (`IsWalk`) is any sequence of folders that obeys its recursion, and the lemmas compare walks
position by position, by least counterexample: from a longer folder (`WalkForward`), back over as
many `..` as there are names to leave (`WalkBack`, `PlainGoesBack`), and on to the target
(`PathLeadsThere`). `PipeInv` is the pipe: what has arrived, is under way and is still to be
written is a beginning of the page, the whole of it unless `LinkRelative` has failed, as long as the
destination has not. Theorems: `LinksKept`, `PagesWhole`, `HangsCaused`.

*Commands together* (`CommandsProofs`): `CommandsInv` joins the invariants of the five components. A
process takes steps of one command only (`StepOfOne`), and the others stay as they start, without
arguments, where their invariants hold as well; a page is the exception, since `NoSite` is none.
`ZipAsCommand`, `ZipSortAsCommand` and `OthersAsCommand` are the sixteen invariants of the run
`commands`, for its specification.

Only model-checked: liveness (`RequestAnswered`, `ReloadFinishes`, `ShutdownEnds`,
`AutoreloadSettles`, `Returns`), which is out of reach of the prover. That `First` is the front of
Go's insertion sort (`FirstIsSorted` in `MCCommands`) is checked over all sequences of three, since
the sort is a recursion over data. The violated runs are counterexamples and have nothing to prove.

## 6. What is left

A property for the SIGTERM that is dropped while a SIGHUP waits in the channel, and one for the
files that failing reloads leave open: both are in the model (`SendSignal`, `OpenFails`), but no
document promises anything about either. `server_liveness` also holds with `MaxSignals = 2` (438
thousand states, several minutes); its configuration keeps one signal to stay short.

Not modelled, and why: compression, markup, MIME types and option parsing are data
transformations without state; `ziplist`, `version` and `installskill` print or copy; the XML of
the sitemap is only told from an empty entry; telemetry and the compressors wrap libraries. Real
time appears only as fairness.
