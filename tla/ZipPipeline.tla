---- MODULE ZipPipeline ----
(***************************************************************************)
(* "ziphttp zip": the main goroutine goes through the names of the new     *)
(* archive, copies some entries as they are into a temporary archive of    *)
(* its own (0) and hands the others over a bounded channel to workers, who *)
(* compress them into one temporary archive each (1 .. Parallel).  Only    *)
(* then is the output truncated, and the temporary archives are merged     *)
(* into it.  The output may itself be one of the inputs.                   *)
(*                                                                         *)
(* Names are model values; an entry is whole, or cut when its copy stopped *)
(* half-way.  Failures (of a source, a temporary file or the output) are   *)
(* choices, bounded by MaxFaults.                                          *)
(***************************************************************************)
EXTENDS Naturals, Sequences, FiniteSets

CONSTANTS
    Names,      \* the names in the nametable
    Parallel,   \* number of workers (--parallel)
    ChanCap,    \* capacity of the channel of jobs (10 in the code)
    MaxFaults,  \* bound on the number of failures
    NoName,     \* no job
    SiteMap     \* the name "sitemap.xml"

ASSUME PipelineAssumption ==
    /\ Parallel \in Nat \ {0}
    /\ ChanCap \in Nat \ {0}
    /\ MaxFaults \in Nat
    /\ NoName \notin Names /\ SiteMap \notin Names

Workers == 1 .. Parallel
Zips == 0 .. Parallel
Entries == [name : Names \union {SiteMap}, quality : {"whole", "cut", "empty"}]
Outputs == {"old", "torn", "empty", "built"}

VARIABLES
    baseurl,   \* --baseurl: entries are rewritten through a pipe
    sitemap,   \* --sitemap, and no input has that name
    pc,        \* where Execute is
    todo,      \* names not yet processed
    cur,       \* the job the main goroutine is sending
    skipped,   \* names left out by --skip-store
    jobs,      \* the channel
    closed,    \* the channel is closed
    wpc,       \* where each worker is
    wjob,      \* the job each worker has taken
    zio,       \* the entries of each temporary archive
    central,   \* temporary archives whose central directory has been written
    out,       \* the output file
    merged,    \* entries merged into the output, with the archive they come from
    result,    \* what Execute returned
    faults,    \* failures so far
    logged     \* names whose failure was logged and nothing more (not in the code)

options == <<baseurl, sitemap>>
producerVars == <<pc, todo, cur, skipped, closed, result>>
workerVars == <<wpc, wjob>>
outputVars == <<out, merged>>
faultVars == <<faults, logged>>
vars == <<options, producerVars, jobs, workerVars, zio, central, outputVars, faultVars>>

Init ==
    /\ baseurl \in BOOLEAN /\ sitemap \in BOOLEAN
    /\ pc = "boot"
    /\ todo = Names /\ cur = NoName /\ skipped = {}
    /\ jobs = <<>> /\ closed = FALSE
    /\ wpc = [w \in Workers |-> "off"]
    /\ wjob = [w \in Workers |-> NoName]
    /\ zio = [z \in Zips |-> {}]
    /\ central = {}
    /\ out = "old" /\ merged = {}
    /\ result = "none"
    /\ faults = 0 /\ logged = {}

Fault == faults < MaxFaults /\ faults' = faults + 1

\* Execute returns, and with it the process: the workers are not waited for.
Ends(r) == pc' = "done" /\ result' = r

Add(z, n, q) == zio' = [zio EXCEPT ![z] = @ \union {[name |-> n, quality |-> q]}]

---------------------------------------------------------------------------
(* boot_workers.                                                           *)

Boot ==
    /\ pc = "boot"
    /\ pc' = "next"
    /\ wpc' = [w \in Workers |-> "wait"]
    /\ UNCHANGED <<options, todo, cur, skipped, closed, result, jobs, wjob, zio, central,
                   outputVars, faultVars>>

\* A temporary archive cannot be made: the workers started so far are left behind.
BootFails ==
    /\ pc = "boot" /\ Fault
    /\ Ends("error")
    /\ \E z \in Zips : wpc' = [w \in Workers |-> IF w < z THEN "wait" ELSE "off"]
    /\ UNCHANGED <<options, todo, cur, skipped, closed, jobs, wjob, zio, central, outputVars, logged>>

---------------------------------------------------------------------------
(* compress_process: one name after the other, in any order (a Go map).    *)

\* copy_asis succeeds: the raw entry goes to the main goroutine's own archive.
CopyAsIs(n) ==
    /\ pc = "next" /\ n \in todo
    /\ todo' = todo \ {n}
    /\ Add(0, n, "whole")
    /\ UNCHANGED <<options, pc, cur, skipped, closed, result, jobs, workerVars, central,
                   outputVars, faultVars>>

\* copy_asis is not tried, refuses the entry before it writes anything, or stops
\* half-way through it; the entry is then compressed all the same.
NotAsIs(n) ==
    \/ UNCHANGED <<zio, faults>>
    \/ Fault /\ Add(0, n, "cut")

\* --skip-store leaves the entry out of the archive.
SkipStore(n) ==
    /\ pc = "next" /\ n \in todo
    /\ todo' = todo \ {n}
    /\ skipped' = skipped \union {n}
    /\ NotAsIs(n)
    /\ UNCHANGED <<options, pc, cur, closed, result, jobs, workerVars, central, outputVars, logged>>

\* copy_compress_job opens the source and builds the job.
MakeJob(n) ==
    /\ pc = "next" /\ n \in todo
    /\ todo' = todo \ {n}
    /\ cur' = n
    /\ pc' = "send"
    /\ NotAsIs(n)
    /\ UNCHANGED <<options, skipped, closed, result, jobs, workerVars, central, outputVars, logged>>

\* The source cannot be opened: compress_process gives up.
OpenFails(n) ==
    /\ pc = "next" /\ n \in todo /\ Fault
    /\ Ends("error")
    /\ UNCHANGED <<options, todo, cur, skipped, closed, jobs, workerVars, zio, central, outputVars, logged>>

\* Mutant of Send: the channel has no bound.
SendUnbounded ==
    /\ pc = "send"
    /\ jobs' = Append(jobs, cur)
    /\ cur' = NoName
    /\ pc' = "next"
    /\ UNCHANGED <<options, todo, skipped, closed, result, workerVars, zio, central, outputVars, faultVars>>

\* jobs <- cw: blocks while the channel is full.
Send ==
    /\ pc = "send" /\ Len(jobs) < ChanCap
    /\ jobs' = Append(jobs, cur)
    /\ cur' = NoName
    /\ pc' = "next"
    /\ UNCHANGED <<options, todo, skipped, closed, result, workerVars, zio, central, outputVars, faultVars>>

\* Mutant of CloseJobs: close(jobs) is forgotten.
CloseJobsForgotten ==
    /\ pc = "next" /\ todo = {}
    /\ pc' = "wait"
    /\ IF sitemap THEN Add(0, SiteMap, "empty") ELSE UNCHANGED zio
    /\ UNCHANGED <<options, todo, cur, skipped, closed, result, jobs, workerVars, central, outputVars, faultVars>>

\* generate_sitemap, then close(jobs).  The sitemap is written when CreateHeader
\* has failed, and not when it has succeeded (zipcmd.go:410): the entry stays empty.
CloseJobs ==
    /\ pc = "next" /\ todo = {}
    /\ closed' = TRUE
    /\ pc' = "wait"
    /\ IF sitemap THEN Add(0, SiteMap, "empty") ELSE UNCHANGED zio
    /\ UNCHANGED <<options, todo, cur, skipped, result, jobs, workerVars, central, outputVars, faultVars>>

\* CreateHeader fails: the sitemap is written to the writer it did not return.
SiteMapFails ==
    /\ pc = "next" /\ todo = {} /\ sitemap /\ Fault
    /\ Ends("panic")
    /\ UNCHANGED <<options, todo, cur, skipped, closed, jobs, workerVars, zio, central, outputVars, logged>>

---------------------------------------------------------------------------
(* CompressWorker.                                                         *)

At(w, p) == pc # "done" /\ wpc[w] = p

Take(w) ==
    /\ At(w, "wait") /\ jobs # <<>>
    /\ wjob' = [wjob EXCEPT ![w] = Head(jobs)]
    /\ jobs' = Tail(jobs)
    /\ wpc' = [wpc EXCEPT ![w] = "busy"]
    /\ UNCHANGED <<options, producerVars, zio, central, outputVars, faultVars>>

Compressed(w) ==
    /\ At(w, "busy")
    /\ Add(w, wjob[w], "whole")
    /\ wjob' = [wjob EXCEPT ![w] = NoName]
    /\ wpc' = [wpc EXCEPT ![w] = "wait"]
    /\ UNCHANGED <<options, producerVars, jobs, central, outputVars, faultVars>>

\* filtercopy logs the error of LinkRelative and drops it: the worker goes on as if
\* the entry were whole.
RewriteFails(w) ==
    /\ At(w, "busy") /\ baseurl /\ Fault
    /\ Add(w, wjob[w], "cut")
    /\ logged' = logged \union {wjob[w]}
    /\ wjob' = [wjob EXCEPT ![w] = NoName]
    /\ wpc' = [wpc EXCEPT ![w] = "wait"]
    /\ UNCHANGED <<options, producerVars, jobs, central, outputVars>>

\* Mutant of CompressFails: the worker closes its archive on every return.
CompressFailsCloses(w) ==
    /\ At(w, "busy") /\ Fault
    /\ Add(w, wjob[w], "cut")
    /\ wjob' = [wjob EXCEPT ![w] = NoName]
    /\ wpc' = [wpc EXCEPT ![w] = "dead"]
    /\ central' = central \union {w}
    /\ UNCHANGED <<options, producerVars, jobs, outputVars, logged>>

\* CreateHeader or the copy fails: the worker returns, and does not close its archive.
CompressFails(w) ==
    /\ At(w, "busy") /\ Fault
    /\ UNCHANGED zio \/ Add(w, wjob[w], "cut")
    /\ wjob' = [wjob EXCEPT ![w] = NoName]
    /\ wpc' = [wpc EXCEPT ![w] = "dead"]
    /\ UNCHANGED <<options, producerVars, jobs, central, outputVars, logged>>

\* The temporary file cannot be written while an entry is rewritten: filtercopy waits
\* for the goroutine that waits for its reader.
WriteFailsInPipe(w) ==
    /\ At(w, "busy") /\ baseurl /\ Fault
    /\ wpc' = [wpc EXCEPT ![w] = "stuck"]
    /\ UNCHANGED <<options, producerVars, jobs, wjob, zio, central, outputVars, logged>>

\* Mutant of Finish: the worker ends when the channel is closed, empty or not.
FinishEarly(w) ==
    /\ At(w, "wait") /\ closed
    /\ wpc' = [wpc EXCEPT ![w] = "ended"]
    /\ central' = central \union {w}
    /\ UNCHANGED <<options, producerVars, jobs, wjob, zio, outputVars, faultVars>>

\* The channel is closed and empty: the worker writes its central directory.
Finish(w) ==
    /\ At(w, "wait") /\ closed /\ jobs = <<>>
    /\ wpc' = [wpc EXCEPT ![w] = "ended"]
    /\ central' = central \union {w}
    /\ UNCHANGED <<options, producerVars, jobs, wjob, zio, outputVars, faultVars>>

\* wr.Close fails, which is only logged.
FinishFails(w) ==
    /\ At(w, "wait") /\ closed /\ jobs = <<>> /\ Fault
    /\ wpc' = [wpc EXCEPT ![w] = "ended"]
    /\ UNCHANGED <<options, producerVars, jobs, wjob, zio, central, outputVars, logged>>

---------------------------------------------------------------------------
(* The end of Execute.                                                     *)

\* Mutant of WaitWorkers: wgp.Wait is dropped.
WaitNoWorkers ==
    /\ pc = "wait"
    /\ pc' = "output"
    /\ central' = central \union {0}
    /\ UNCHANGED <<options, todo, cur, skipped, closed, result, jobs, workerVars, zio, outputVars, faultVars>>

\* wgp.Wait, and the main goroutine's own archive is closed; an error of that is
\* only logged.
WaitWorkers ==
    /\ pc = "wait"
    /\ \A w \in Workers : wpc[w] \in {"ended", "dead"}
    /\ pc' = "output"
    /\ \/ central' = central \union {0} /\ UNCHANGED faults
       \/ Fault /\ UNCHANGED central
    /\ UNCHANGED <<options, todo, cur, skipped, closed, result, jobs, workerVars, zio, outputVars, logged>>

\* The main goroutine's archive could not be opened once more (zipcmd.go:535) and the
\* error was dropped: the writer that is nil crashes the process when it is first used,
\* for a raw copy, for the sitemap or at the latest for its Close.
NilWriter ==
    /\ zio[0] = {} /\ Fault
    /\ \/ pc = "next" /\ (todo # {} \/ sitemap)
       \/ pc = "wait" /\ \A w \in Workers : wpc[w] \in {"ended", "dead"}
    /\ Ends("panic")
    /\ UNCHANGED <<options, todo, cur, skipped, closed, jobs, workerVars, zio, central, outputVars, logged>>

\* prepare_output: the output is opened and truncated.
Truncate ==
    /\ pc = "output"
    /\ out' = "torn"
    /\ pc' = "merge"
    /\ UNCHANGED <<options, todo, cur, skipped, closed, result, jobs, workerVars, zio, central, merged, faultVars>>

\* prepare_output fails: on the open, or after the truncation, with --self.
OutputFails ==
    /\ pc = "output" /\ Fault
    /\ out' \in {"old", "torn"}
    /\ Ends("error")
    /\ UNCHANGED <<options, todo, cur, skipped, closed, jobs, workerVars, zio, central, merged, logged>>

AllEntries == UNION {{[zip |-> z, entry |-> e] : e \in zio[z]} : z \in Zips}

\* Every temporary archive can be read: all entries are copied, and the deferred
\* Close of the writer adds the central directory.
Merge ==
    /\ pc = "merge" /\ central = Zips
    /\ merged' = AllEntries
    /\ out' = "built"
    /\ Ends("ok")
    /\ UNCHANGED <<options, todo, cur, skipped, closed, jobs, workerVars, zio, central, faultVars>>

\* ZipPassThru fails half-way: the error is logged, and Execute returns nil.
MergeCutShort ==
    /\ pc = "merge" /\ central = Zips /\ Fault
    /\ merged' \in SUBSET AllEntries
    /\ out' \in {"torn", "built"}
    /\ Ends("ok")
    /\ logged' = Names
    /\ UNCHANGED <<options, todo, cur, skipped, closed, jobs, workerVars, zio, central>>

\* A temporary archive has no central directory: Execute returns the error, and the
\* deferred Close makes the output an archive without entries.
MergeFails ==
    /\ pc = "merge" /\ central # Zips
    /\ out' = "empty"
    /\ Ends("error")
    /\ UNCHANGED <<options, todo, cur, skipped, closed, jobs, workerVars, zio, central, merged, faultVars>>

Done == pc = "done" /\ UNCHANGED vars

NameStep(n) == CopyAsIs(n) \/ SkipStore(n) \/ MakeJob(n)

MainStep ==
    \/ Boot \/ Send \/ CloseJobs \/ WaitWorkers \/ Truncate \/ Merge \/ MergeFails
    \/ \E n \in Names : NameStep(n)

WorkerStep(w) == Take(w) \/ Compressed(w) \/ Finish(w)
WorkerFailure(w) == RewriteFails(w) \/ CompressFails(w) \/ WriteFailsInPipe(w) \/ FinishFails(w)

Failure ==
    \/ BootFails \/ SiteMapFails \/ NilWriter \/ OutputFails \/ MergeCutShort
    \/ \E n \in Names : OpenFails(n)
    \/ \E w \in Workers : WorkerFailure(w)

Next ==
    \/ MainStep
    \/ \E w \in Workers : WorkerStep(w)
    \/ Failure
    \/ Done

\* A goroutine that can go on does in the end; nothing has to fail.
Fairness ==
    /\ WF_vars(MainStep)
    /\ \A w \in Workers : WF_vars(WorkerStep(w))

Spec == Init /\ [][Next]_vars
FairSpec == Spec /\ Fairness

---------------------------------------------------------------------------
(* Properties.                                                             *)

\* Type invariant.
TypeOK ==
    /\ baseurl \in BOOLEAN /\ sitemap \in BOOLEAN /\ closed \in BOOLEAN
    /\ pc \in {"boot", "next", "send", "wait", "output", "merge", "done"}
    /\ todo \subseteq Names /\ skipped \subseteq Names /\ logged \subseteq Names
    /\ cur \in Names \union {NoName}
    /\ pc = "send" => cur # NoName
    /\ jobs \in Seq(Names) /\ Len(jobs) <= ChanCap
    /\ wpc \in [Workers -> {"off", "wait", "busy", "stuck", "dead", "ended"}]
    /\ wjob \in [Workers -> Names \union {NoName}]
    /\ \A w \in Workers : wpc[w] = "busy" => wjob[w] # NoName
    /\ zio \in [Zips -> SUBSET Entries]
    /\ central \subseteq Zips
    /\ out \in Outputs
    /\ merged \subseteq [zip : Zips, entry : Entries]
    /\ result \in {"none", "ok", "error", "panic"}
    /\ faults \in 0 .. MaxFaults

Gone(w) == wpc[w] \in {"ended", "dead"}

\* The output is truncated (zipcmd.go:563) only when no goroutine is left that may
\* still read an input (551-552): an archive can be updated from itself.
OutputUntouchedWhileReading ==
    out # "old" => todo = {} /\ cur = NoName /\ \A w \in Workers : Gone(w)

Copies(n) == {m \in merged : m.entry.name = n /\ m.entry.quality = "whole"}

\* When Execute reports success, every name that --skip-store did not leave out is in
\* the output once, whole, whichever worker took it and whatever failed; except where
\* the failure was logged and nothing more (util.go:316-319, zipcmd.go:593-595).
\* A name whose raw copy stopped half-way is there a second time, cut.
SuccessIsComplete ==
    result = "ok" => \A n \in Names \ (skipped \union logged) : Cardinality(Copies(n)) = 1

\* A worker that gave up is never passed over: its archive has no central directory
\* (util.go:350-357), and the merge cannot read it (zipcmd.go:583-588).
FailedWorkerIsNoticed ==
    result = "ok" => \A w \in Workers : wpc[w] # "dead"

\* The channel is full and no worker is left to take a job (zipcmd.go:182).
Stranded == pc = "send" /\ Len(jobs) = ChanCap /\ \A w \in Workers : wpc[w] = "dead"

\* Execute returns, whatever fails, unless a worker waits for ever in filtercopy or
\* the last worker has left the main goroutine with a full channel.
Returns == <>(pc = "done" \/ Stranded \/ \E w \in Workers : wpc[w] = "stuck")

\* --sitemap: "generate sitemap.xml" (zipcmd.go:29).  The sitemap that is in the
\* output has a content.
SiteMapIsWritten ==
    \A m \in merged : m.entry.name = SiteMap => m.entry.quality # "empty"
====
