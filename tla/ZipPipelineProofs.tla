---- MODULE ZipPipelineProofs ----
(***************************************************************************)
(* Type correctness of ZipPipeline and its safety properties, for every    *)
(* number of names, workers and failures and every channel; at the end     *)
(* that a success has every name in the output, once and whole.            *)
(***************************************************************************)
EXTENDS ZipPipeline, FiniteSetTheorems, TLAPS

\* What the main goroutine has left behind at each point of Execute.
PhaseInv ==
    /\ pc # "send" => cur = NoName
    /\ pc \in {"wait", "output", "merge"} => todo = {}
    /\ pc \in {"output", "merge"} => \A w \in Workers : Gone(w)
    /\ out # "old" =>
         pc \in {"merge", "done"} /\ todo = {} /\ \A w \in Workers : Gone(w)

\* Only a worker that has ended has written its central directory, and only with
\* all of them is there a success.
CentralInv ==
    /\ pc = "boot" => central = {} /\ ~closed
    /\ \A w \in Workers : w \in central => wpc[w] = "ended"
    /\ result = "ok" => pc = "done" /\ central = Zips

PipeInv == TypeOK /\ PhaseInv /\ CentralInv

\* The invariant holds when Execute begins.
LEMMA PipeInvInit == Init => PipeInv
<1>1. Workers \subseteq Zips /\ 0 \in Zips
  BY PipelineAssumption DEF Workers, Zips
<1>2. ASSUME Init PROVE TypeOK
  BY <1>1, <1>2, PipelineAssumption DEF Init, TypeOK, Workers, Zips, Outputs
<1>3. ASSUME Init PROVE PhaseInv /\ CentralInv
  BY <1>3 DEF Init, PhaseInv, CentralInv
<1>. QED
  BY <1>2, <1>3 DEF PipeInv

\* Every step keeps the types.
LEMMA TypeStep == TypeOK /\ [Next]_vars => TypeOK'
<1>. SUFFICES ASSUME TypeOK, [Next]_vars PROVE TypeOK'
  OBVIOUS
<1>. USE PipelineAssumption DEF Workers, Zips
<1>1. ASSUME Boot PROVE TypeOK'
  BY <1>1 DEF Boot, TypeOK, options, outputVars, faultVars
<1>2. ASSUME BootFails PROVE TypeOK'
  BY <1>2 DEF BootFails, TypeOK, Fault, Ends, options, outputVars
<1>3. ASSUME NEW n \in Names, CopyAsIs(n) PROVE TypeOK'
  BY <1>3 DEF CopyAsIs, TypeOK, Add, Entries, options, workerVars, outputVars, faultVars
<1>4. ASSUME NEW n \in Names, SkipStore(n) PROVE TypeOK'
  BY <1>4 DEF SkipStore, TypeOK, Fault, Add, Entries, options, workerVars, outputVars, NotAsIs
<1>5. ASSUME NEW n \in Names, MakeJob(n) PROVE TypeOK'
  BY <1>5 DEF MakeJob, TypeOK, Fault, Add, Entries, options, workerVars, outputVars, NotAsIs
<1>6. ASSUME NEW n \in Names, OpenFails(n) PROVE TypeOK'
  BY <1>6 DEF OpenFails, TypeOK, Fault, Ends, options, workerVars, outputVars
<1>7. ASSUME Send PROVE TypeOK'
  BY <1>7 DEF Send, TypeOK, options, workerVars, outputVars, faultVars
<1>8. ASSUME CloseJobs PROVE TypeOK'
  BY <1>8 DEF CloseJobs, TypeOK, Add, Entries, options, workerVars, outputVars, faultVars
<1>9. ASSUME SiteMapFails \/ NilWriter PROVE TypeOK'
  BY <1>9 DEF SiteMapFails, NilWriter, TypeOK, Fault, Ends, options, workerVars, outputVars
<1>10. ASSUME NEW w \in Workers, Take(w) PROVE TypeOK'
  BY <1>10 DEF Take, TypeOK, At, options, producerVars, outputVars, faultVars
<1>11. ASSUME NEW w \in Workers, Compressed(w) PROVE TypeOK'
  BY <1>11 DEF Compressed, TypeOK, Add, At, Entries, options, producerVars, outputVars, faultVars
<1>12. ASSUME NEW w \in Workers, RewriteFails(w) PROVE TypeOK'
  BY <1>12 DEF RewriteFails, TypeOK, Fault, Add, At, Entries, options, producerVars, outputVars
<1>13. ASSUME NEW w \in Workers, CompressFails(w) PROVE TypeOK'
  BY <1>13 DEF CompressFails, TypeOK, Fault, Add, At, Entries, options, producerVars, outputVars
<1>14. ASSUME NEW w \in Workers, WriteFailsInPipe(w) PROVE TypeOK'
  BY <1>14 DEF WriteFailsInPipe, TypeOK, Fault, At, options, producerVars, outputVars
<1>15. ASSUME NEW w \in Workers, Finish(w) PROVE TypeOK'
  BY <1>15 DEF Finish, TypeOK, At, options, producerVars, outputVars, faultVars
<1>16. ASSUME NEW w \in Workers, FinishFails(w) PROVE TypeOK'
  BY <1>16 DEF FinishFails, TypeOK, Fault, At, options, producerVars, outputVars
<1>17. ASSUME WaitWorkers PROVE TypeOK'
  <2>1. 0 \in 0 .. Parallel /\ central \subseteq 0 .. Parallel
    BY DEF TypeOK
  <2>2. central' = central \union {0} \/ central' = central
    BY <1>17 DEF WaitWorkers
  <2>3. central' \subseteq 0 .. Parallel
    BY <2>1, <2>2, Zenon
  <2>. QED
    BY <1>17, <2>3 DEF WaitWorkers, TypeOK, Fault, options, workerVars, outputVars
<1>18. ASSUME Truncate PROVE TypeOK'
  BY <1>18 DEF Truncate, TypeOK, Outputs, options, workerVars, faultVars
<1>19. ASSUME OutputFails PROVE TypeOK'
  BY <1>19 DEF OutputFails, TypeOK, Fault, Ends, Outputs, options, workerVars
<1>20. ASSUME Merge PROVE TypeOK'
  BY <1>20 DEF Merge, TypeOK, Ends, Entries, Outputs, options, workerVars, faultVars, AllEntries
<1>21. ASSUME MergeCutShort PROVE TypeOK'
  BY <1>21 DEF MergeCutShort, TypeOK, Fault, Ends, Entries, Outputs, options, workerVars, AllEntries
<1>22. ASSUME MergeFails PROVE TypeOK'
  BY <1>22 DEF MergeFails, TypeOK, Ends, Entries, Outputs, options, workerVars, faultVars
<1>23. ASSUME UNCHANGED vars PROVE TypeOK'
  BY <1>23 DEF vars, options, producerVars, workerVars, outputVars, faultVars, TypeOK
<1>. QED
  BY <1>1, <1>2, <1>3, <1>4, <1>5, <1>6, <1>7, <1>8, <1>9, <1>10, <1>11, <1>12, <1>13, <1>14, <1>15, <1>16, <1>17, <1>18, <1>19, <1>20, <1>21, <1>22, <1>23 DEF Next, MainStep, NameStep, WorkerStep, WorkerFailure, Failure, Done

\* No step leaves a worker at work behind the main goroutine.
LEMMA PhaseStep == TypeOK /\ PhaseInv /\ [Next]_vars => PhaseInv'
<1>. SUFFICES ASSUME TypeOK, PhaseInv, [Next]_vars PROVE PhaseInv'
  OBVIOUS
<1>1. ASSUME Boot PROVE PhaseInv'
  BY <1>1 DEF Boot, PhaseInv, TypeOK, Gone, options, outputVars, faultVars
<1>2. ASSUME BootFails PROVE PhaseInv'
  BY <1>2 DEF BootFails, PhaseInv, TypeOK, Gone, Fault, Ends, options, outputVars
<1>3. ASSUME NEW n \in Names, CopyAsIs(n) PROVE PhaseInv'
  BY <1>3 DEF CopyAsIs, PhaseInv, TypeOK, Gone, Add, options, workerVars, outputVars, faultVars
<1>4. ASSUME NEW n \in Names, SkipStore(n) PROVE PhaseInv'
  BY <1>4 DEF SkipStore, PhaseInv, TypeOK, Gone, Fault, Add, options, workerVars, outputVars, NotAsIs
<1>5. ASSUME NEW n \in Names, MakeJob(n) PROVE PhaseInv'
  BY <1>5 DEF MakeJob, PhaseInv, TypeOK, Gone, Fault, Add, options, workerVars, outputVars, NotAsIs
<1>6. ASSUME NEW n \in Names, OpenFails(n) PROVE PhaseInv'
  BY <1>6 DEF OpenFails, PhaseInv, TypeOK, Gone, Fault, Ends, options, workerVars, outputVars
<1>7. ASSUME Send PROVE PhaseInv'
  BY <1>7 DEF Send, PhaseInv, TypeOK, Gone, options, workerVars, outputVars, faultVars
<1>8. ASSUME CloseJobs PROVE PhaseInv'
  BY <1>8 DEF CloseJobs, PhaseInv, TypeOK, Gone, Add, options, workerVars, outputVars, faultVars
<1>9. ASSUME SiteMapFails \/ NilWriter PROVE PhaseInv'
  BY <1>9 DEF SiteMapFails, NilWriter, PhaseInv, TypeOK, Gone, Fault, Ends, options, workerVars, outputVars
<1>10. ASSUME NEW w \in Workers, Take(w) PROVE PhaseInv'
  BY <1>10 DEF Take, PhaseInv, TypeOK, Gone, At, options, producerVars, outputVars, faultVars
<1>11. ASSUME NEW w \in Workers, Compressed(w) PROVE PhaseInv'
  BY <1>11 DEF Compressed, PhaseInv, TypeOK, Gone, Add, At, options, producerVars, outputVars, faultVars
<1>12. ASSUME NEW w \in Workers, RewriteFails(w) PROVE PhaseInv'
  BY <1>12 DEF RewriteFails, PhaseInv, TypeOK, Gone, Fault, Add, At, options, producerVars, outputVars
<1>13. ASSUME NEW w \in Workers, CompressFails(w) PROVE PhaseInv'
  BY <1>13 DEF CompressFails, PhaseInv, TypeOK, Gone, Fault, Add, At, options, producerVars, outputVars
<1>14. ASSUME NEW w \in Workers, WriteFailsInPipe(w) PROVE PhaseInv'
  BY <1>14 DEF WriteFailsInPipe, PhaseInv, TypeOK, Gone, Fault, At, options, producerVars, outputVars
<1>15. ASSUME NEW w \in Workers, Finish(w) PROVE PhaseInv'
  BY <1>15 DEF Finish, PhaseInv, TypeOK, Gone, At, options, producerVars, outputVars, faultVars
<1>16. ASSUME NEW w \in Workers, FinishFails(w) PROVE PhaseInv'
  BY <1>16 DEF FinishFails, PhaseInv, TypeOK, Gone, Fault, At, options, producerVars, outputVars
<1>17. ASSUME WaitWorkers PROVE PhaseInv'
  BY <1>17 DEF WaitWorkers, PhaseInv, TypeOK, Gone, Fault, options, workerVars, outputVars
<1>18. ASSUME Truncate PROVE PhaseInv'
  BY <1>18 DEF Truncate, PhaseInv, TypeOK, Gone, options, workerVars, faultVars
<1>19. ASSUME OutputFails PROVE PhaseInv'
  BY <1>19 DEF OutputFails, PhaseInv, TypeOK, Gone, Fault, Ends, options, workerVars
<1>20. ASSUME Merge PROVE PhaseInv'
  BY <1>20 DEF Merge, PhaseInv, TypeOK, Gone, Ends, options, workerVars, faultVars, AllEntries
<1>21. ASSUME MergeCutShort PROVE PhaseInv'
  BY <1>21 DEF MergeCutShort, PhaseInv, TypeOK, Gone, Fault, Ends, options, workerVars, AllEntries
<1>22. ASSUME MergeFails PROVE PhaseInv'
  BY <1>22 DEF MergeFails, PhaseInv, TypeOK, Gone, Ends, options, workerVars, faultVars
<1>23. ASSUME UNCHANGED vars PROVE PhaseInv'
  BY <1>23 DEF vars, options, producerVars, workerVars, outputVars, faultVars, PhaseInv, TypeOK, Gone
<1>. QED
  BY <1>1, <1>2, <1>3, <1>4, <1>5, <1>6, <1>7, <1>8, <1>9, <1>10, <1>11, <1>12, <1>13, <1>14, <1>15, <1>16, <1>17, <1>18, <1>19, <1>20, <1>21, <1>22, <1>23 DEF Next, MainStep, NameStep, WorkerStep, WorkerFailure, Failure, Done

\* A worker that gives up does not write its central directory.
LEMMA CentralStep == PipeInv /\ [Next]_vars => CentralInv'
<1>. SUFFICES ASSUME PipeInv, [Next]_vars PROVE CentralInv'
  OBVIOUS
<1>1. ASSUME Boot PROVE CentralInv'
  BY <1>1 DEF Boot, PipeInv, PhaseInv, CentralInv, TypeOK, Gone, options, outputVars, faultVars
<1>2. ASSUME BootFails PROVE CentralInv'
  BY <1>2 DEF BootFails, PipeInv, PhaseInv, CentralInv, TypeOK, Gone, Fault, Ends, options, outputVars
<1>3. ASSUME NEW n \in Names, CopyAsIs(n) PROVE CentralInv'
  BY <1>3 DEF CopyAsIs, PipeInv, PhaseInv, CentralInv, TypeOK, Gone, Add, options, workerVars, outputVars, faultVars
<1>4. ASSUME NEW n \in Names, SkipStore(n) PROVE CentralInv'
  BY <1>4 DEF SkipStore, PipeInv, PhaseInv, CentralInv, TypeOK, Gone, Fault, Add, options, workerVars, outputVars, NotAsIs
<1>5. ASSUME NEW n \in Names, MakeJob(n) PROVE CentralInv'
  BY <1>5 DEF MakeJob, PipeInv, PhaseInv, CentralInv, TypeOK, Gone, Fault, Add, options, workerVars, outputVars, NotAsIs
<1>6. ASSUME NEW n \in Names, OpenFails(n) PROVE CentralInv'
  BY <1>6 DEF OpenFails, PipeInv, PhaseInv, CentralInv, TypeOK, Gone, Fault, Ends, options, workerVars, outputVars
<1>7. ASSUME Send PROVE CentralInv'
  BY <1>7 DEF Send, PipeInv, PhaseInv, CentralInv, TypeOK, Gone, options, workerVars, outputVars, faultVars
<1>8. ASSUME CloseJobs PROVE CentralInv'
  BY <1>8 DEF CloseJobs, PipeInv, PhaseInv, CentralInv, TypeOK, Gone, Add, options, workerVars, outputVars, faultVars
<1>9. ASSUME SiteMapFails \/ NilWriter PROVE CentralInv'
  BY <1>9 DEF SiteMapFails, NilWriter, PipeInv, PhaseInv, CentralInv, TypeOK, Gone, Fault, Ends, options, workerVars, outputVars
<1>10. ASSUME NEW w \in Workers, Take(w) PROVE CentralInv'
  BY <1>10 DEF Take, PipeInv, PhaseInv, CentralInv, TypeOK, Gone, At, options, producerVars, outputVars, faultVars
<1>11. ASSUME NEW w \in Workers, Compressed(w) PROVE CentralInv'
  BY <1>11 DEF Compressed, PipeInv, PhaseInv, CentralInv, TypeOK, Gone, Add, At, options, producerVars, outputVars, faultVars
<1>12. ASSUME NEW w \in Workers, RewriteFails(w) PROVE CentralInv'
  BY <1>12 DEF RewriteFails, PipeInv, PhaseInv, CentralInv, TypeOK, Gone, Fault, Add, At, options, producerVars, outputVars
<1>13. ASSUME NEW w \in Workers, CompressFails(w) PROVE CentralInv'
  BY <1>13 DEF CompressFails, PipeInv, PhaseInv, CentralInv, TypeOK, Gone, Fault, Add, At, options, producerVars, outputVars
<1>14. ASSUME NEW w \in Workers, WriteFailsInPipe(w) PROVE CentralInv'
  BY <1>14 DEF WriteFailsInPipe, PipeInv, PhaseInv, CentralInv, TypeOK, Gone, Fault, At, options, producerVars, outputVars
<1>15. ASSUME NEW w \in Workers, Finish(w) PROVE CentralInv'
  BY <1>15 DEF Finish, PipeInv, PhaseInv, CentralInv, TypeOK, Gone, At, options, producerVars, outputVars, faultVars
<1>16. ASSUME NEW w \in Workers, FinishFails(w) PROVE CentralInv'
  BY <1>16 DEF FinishFails, PipeInv, PhaseInv, CentralInv, TypeOK, Gone, Fault, At, options, producerVars, outputVars
<1>17. ASSUME WaitWorkers PROVE CentralInv'
  BY <1>17 DEF WaitWorkers, PipeInv, PhaseInv, CentralInv, TypeOK, Gone, Fault, options, workerVars, outputVars
<1>18. ASSUME Truncate PROVE CentralInv'
  BY <1>18 DEF Truncate, PipeInv, PhaseInv, CentralInv, TypeOK, Gone, options, workerVars, faultVars
<1>19. ASSUME OutputFails PROVE CentralInv'
  BY <1>19 DEF OutputFails, PipeInv, PhaseInv, CentralInv, TypeOK, Gone, Fault, Ends, options, workerVars
<1>20. ASSUME Merge PROVE CentralInv'
  BY <1>20 DEF Merge, PipeInv, PhaseInv, CentralInv, TypeOK, Gone, Ends, options, workerVars, faultVars, AllEntries
<1>21. ASSUME MergeCutShort PROVE CentralInv'
  BY <1>21 DEF MergeCutShort, PipeInv, PhaseInv, CentralInv, TypeOK, Gone, Fault, Ends, options, workerVars, AllEntries
<1>22. ASSUME MergeFails PROVE CentralInv'
  BY <1>22 DEF MergeFails, PipeInv, PhaseInv, CentralInv, TypeOK, Gone, Ends, options, workerVars, faultVars
<1>23. ASSUME UNCHANGED vars PROVE CentralInv'
  BY <1>23 DEF vars, options, producerVars, workerVars, outputVars, faultVars, PipeInv, PhaseInv, CentralInv, TypeOK, Gone
<1>. QED
  BY <1>1, <1>2, <1>3, <1>4, <1>5, <1>6, <1>7, <1>8, <1>9, <1>10, <1>11, <1>12, <1>13, <1>14, <1>15, <1>16, <1>17, <1>18, <1>19, <1>20, <1>21, <1>22, <1>23 DEF Next, MainStep, NameStep, WorkerStep, WorkerFailure, Failure, Done

\* The whole invariant is kept.
LEMMA PipeInvStep == PipeInv /\ [Next]_vars => PipeInv'
BY TypeStep, PhaseStep, CentralStep DEF PipeInv

\* The inductive invariant of the pipeline.
THEOREM PipelineInvariant == Spec => []PipeInv
BY PipeInvInit, PipeInvStep, PTL DEF Spec

\* Every variable keeps its type; the channel never holds more than its capacity.
THEOREM PipelineTyped == Spec => []TypeOK
BY PipelineInvariant, PTL DEF PipeInv

\* However many workers there are and whatever fails, the output is not touched while
\* a goroutine may still read an input.
THEOREM OutputIsLast == Spec => []OutputUntouchedWhileReading
<1>1. PipeInv => OutputUntouchedWhileReading
  BY DEF PipeInv, PhaseInv, TypeOK, OutputUntouchedWhileReading
<1>. QED
  BY <1>1, PipelineInvariant, PTL

\* Execute never reports success over a worker that gave up.
THEOREM FailuresAreNoticed == Spec => []FailedWorkerIsNoticed
<1>1. Workers \subseteq Zips
  BY DEF Workers, Zips
<1>2. PipeInv => FailedWorkerIsNoticed
  BY <1>1 DEF PipeInv, CentralInv, FailedWorkerIsNoticed
<1>. QED
  BY <1>2, PipelineInvariant, PTL

---------------------------------------------------------------------------
(* No name gets lost on its way through the pipeline, and none is taken    *)
(* twice: when Execute reports success, every name is in the output once.  *)

Queued(n) == \E i \in 1 .. Len(jobs) : jobs[i] = n
Held(n) == \E w \in Workers : wjob[w] = n
WholeEntry(n) == [name |-> n, quality |-> "whole"]
Stored(n) == \E z \in Zips : WholeEntry(n) \in zio[z]

\* A name that need not be in the output: it was left out, its failure was logged, or
\* a worker has given up, so that there will be no success.
Excused(n) == n \in skipped \/ n \in logged \/ \E w \in Workers : wpc[w] = "dead"

\* Every name is somewhere.
SomewhereInv ==
    \A n \in Names :
        n \in todo \/ cur = n \/ Queued(n) \/ Held(n) \/ Stored(n) \/ Excused(n)

\* No name is in two places.
OnceInv ==
    \A n \in Names :
        /\ n \in todo => cur # n /\ ~Queued(n) /\ ~Held(n) /\ ~Stored(n)
        /\ cur = n => ~Queued(n) /\ ~Held(n) /\ ~Stored(n)
        /\ Queued(n) => ~Held(n) /\ ~Stored(n)
        /\ Held(n) => ~Stored(n)
        /\ \A i, j \in 1 .. Len(jobs) : jobs[i] = n /\ jobs[j] = n => i = j
        /\ \A v, w \in Workers : wjob[v] = n /\ wjob[w] = n => v = w
        /\ \A y, z \in Zips : WholeEntry(n) \in zio[y] /\ WholeEntry(n) \in zio[z] => y = z

\* Where a worker can be.
WorkerPcs == {"off", "wait", "busy", "stuck", "dead", "ended"}

\* A worker that has ended has left nothing behind it.
WorkInv ==
    /\ pc = "boot" => \A w \in Workers : wpc[w] = "off"
    /\ closed => todo = {} /\ cur = NoName /\ pc \in {"wait", "output", "merge", "done"}
    /\ \A w \in Workers :
          /\ wjob[w] # NoName => wpc[w] \in {"busy", "stuck"}
          /\ wpc[w] = "ended" => closed /\ jobs = <<>>

CompleteInv == SomewhereInv /\ OnceInv /\ WorkInv /\ SuccessIsComplete

---------------------------------------------------------------------------
(* What each step does to the places.                                      *)

\* Adding a whole entry puts one name in one archive.
LEMMA AddWhole ==
  ASSUME TypeOK, NEW z \in Zips, NEW n \in Names, Add(z, n, "whole"),
         NEW m \in Names, NEW y \in Zips
  PROVE  WholeEntry(m) \in zio'[y] <=> WholeEntry(m) \in zio[y] \/ (m = n /\ y = z)
BY DEF TypeOK, Add, WholeEntry

\* Adding an entry that is not whole stores no name.
LEMMA AddOther ==
  ASSUME TypeOK, NEW z \in Zips, NEW n, NEW q, q # "whole", Add(z, n, q),
         NEW m \in Names, NEW y \in Zips
  PROVE  WholeEntry(m) \in zio'[y] <=> WholeEntry(m) \in zio[y]
BY DEF TypeOK, Add, WholeEntry

\* The archives of the workers and of the main goroutine.
LEMMA ZipsAre == Workers \subseteq Zips /\ 0 \in Zips /\ Workers # {}
BY PipelineAssumption DEF Workers, Zips

\* A copy as it is that is not one stores no name.
LEMMA NotAsIsStoresNothing ==
  ASSUME TypeOK, NEW n \in Names, NotAsIs(n), NEW m \in Names, NEW y \in Zips
  PROVE  WholeEntry(m) \in zio'[y] <=> WholeEntry(m) \in zio[y]
<1>1. CASE UNCHANGED zio
  BY <1>1
<1>2. CASE Add(0, n, "cut")
  BY <1>2, AddOther, ZipsAre
<1>. QED
  BY <1>1, <1>2 DEF NotAsIs

\* A job sent joins the end of the queue.
LEMMA SendQueues ==
  ASSUME TypeOK, Send
  PROVE  /\ cur \in Names
         /\ Len(jobs') = Len(jobs) + 1
         /\ \A i \in 1 .. Len(jobs) : jobs'[i] = jobs[i]
         /\ jobs'[Len(jobs) + 1] = cur
         /\ Len(jobs) \in Nat
<1>1. cur \in Names /\ jobs \in Seq(Names) /\ jobs' = Append(jobs, cur)
  BY DEF TypeOK, Send
<1>. QED
  BY <1>1

\* A job taken leaves the head of the queue.
LEMMA TakeUnqueues ==
  ASSUME TypeOK, NEW w \in Workers, Take(w)
  PROVE  /\ Len(jobs) \in Nat \ {0}
         /\ Len(jobs') = Len(jobs) - 1
         /\ \A i \in 1 .. Len(jobs') : jobs'[i] = jobs[i + 1]
         /\ jobs[1] \in Names
         /\ wjob' = [wjob EXCEPT ![w] = jobs[1]]
<1>1. jobs \in Seq(Names) /\ jobs # <<>> /\ jobs' = Tail(jobs)
  BY DEF TypeOK, Take
<1>2. wjob' = [wjob EXCEPT ![w] = Head(jobs)]
  BY DEF Take
<1>. QED
  BY <1>1, <1>2

\* A step that moves no name and takes no excuse away keeps the invariants.
LEMMA NothingMoves ==
  ASSUME SomewhereInv, OnceInv, UNCHANGED <<todo, cur, jobs, wjob>>,
         \A m \in Names, y \in Zips : WholeEntry(m) \in zio'[y] <=> WholeEntry(m) \in zio[y],
         \A m \in Names : Excused(m) => Excused(m)'
  PROVE  SomewhereInv' /\ OnceInv'
<1>1. \A m \in Names : Stored(m)' <=> Stored(m)
  BY DEF Stored, WholeEntry
<1>2. \A m \in Names : (Queued(m)' <=> Queued(m)) /\ (Held(m)' <=> Held(m))
  BY DEF Queued, Held
<1>3. SomewhereInv'
  BY <1>1, <1>2 DEF SomewhereInv
<1>4. OnceInv'
  BY <1>1, <1>2 DEF OnceInv, WholeEntry
<1>. QED
  BY <1>3, <1>4

\* Every step that moves no name keeps the invariants.
LEMMA StillSteps ==
  ASSUME TypeOK, SomewhereInv, OnceInv, WorkInv,
         \/ Boot \/ BootFails \/ CloseJobs \/ SiteMapFails \/ NilWriter \/ WaitWorkers \/ Truncate
         \/ OutputFails \/ Merge \/ MergeCutShort \/ MergeFails
         \/ \E n \in Names : OpenFails(n)
         \/ \E w \in Workers : WriteFailsInPipe(w) \/ Finish(w) \/ FinishFails(w)
         \/ UNCHANGED vars
  PROVE  SomewhereInv' /\ OnceInv'
<1>1. ASSUME Boot PROVE SomewhereInv' /\ OnceInv'
  <2>1. \A m \in Names, y \in Zips : WholeEntry(m) \in zio'[y] <=> WholeEntry(m) \in zio[y]
    BY <1>1 DEF Boot
  <2>2. \A m \in Names : Excused(m) => Excused(m)'
    BY <1>1 DEF Boot, options, outputVars, faultVars, Excused, TypeOK, WorkInv
  <2>. QED
    BY <1>1, <2>1, <2>2, NothingMoves DEF Boot, options, outputVars, faultVars
<1>2. ASSUME BootFails PROVE SomewhereInv' /\ OnceInv'
  <2>1. \A m \in Names, y \in Zips : WholeEntry(m) \in zio'[y] <=> WholeEntry(m) \in zio[y]
    BY <1>2 DEF BootFails
  <2>2. \A m \in Names : Excused(m) => Excused(m)'
    BY <1>2 DEF BootFails, Fault, Ends, options, outputVars, Excused, TypeOK, WorkInv
  <2>. QED
    BY <1>2, <2>1, <2>2, NothingMoves DEF BootFails, Fault, Ends, options, outputVars
<1>3. ASSUME NEW n \in Names, OpenFails(n) PROVE SomewhereInv' /\ OnceInv'
  <2>1. \A m \in Names, y \in Zips : WholeEntry(m) \in zio'[y] <=> WholeEntry(m) \in zio[y]
    BY <1>3 DEF OpenFails
  <2>2. \A m \in Names : Excused(m) => Excused(m)'
    BY <1>3 DEF OpenFails, Fault, Ends, options, workerVars, outputVars, Excused, TypeOK, WorkInv
  <2>. QED
    BY <1>3, <2>1, <2>2, NothingMoves DEF OpenFails, Fault, Ends, options, workerVars, outputVars
<1>4. ASSUME CloseJobs PROVE SomewhereInv' /\ OnceInv'
  <2>1. \A m \in Names, y \in Zips : WholeEntry(m) \in zio'[y] <=> WholeEntry(m) \in zio[y]
    BY <1>4, AddOther, ZipsAre DEF CloseJobs
  <2>2. \A m \in Names : Excused(m) => Excused(m)'
    BY <1>4 DEF CloseJobs, Add, options, workerVars, outputVars, faultVars, Excused, TypeOK, WorkInv
  <2>. QED
    BY <1>4, <2>1, <2>2, NothingMoves DEF CloseJobs, Add, options, workerVars, outputVars, faultVars
<1>5. ASSUME SiteMapFails \/ NilWriter PROVE SomewhereInv' /\ OnceInv'
  <2>1. \A m \in Names, y \in Zips : WholeEntry(m) \in zio'[y] <=> WholeEntry(m) \in zio[y]
    BY <1>5 DEF SiteMapFails, NilWriter
  <2>2. \A m \in Names : Excused(m) => Excused(m)'
    BY <1>5 DEF SiteMapFails, NilWriter, Fault, Ends, options, workerVars, outputVars, Excused, TypeOK, WorkInv
  <2>. QED
    BY <1>5, <2>1, <2>2, NothingMoves DEF SiteMapFails, NilWriter, Fault, Ends, options, workerVars, outputVars
<1>6. ASSUME NEW w \in Workers, WriteFailsInPipe(w) PROVE SomewhereInv' /\ OnceInv'
  <2>1. \A m \in Names, y \in Zips : WholeEntry(m) \in zio'[y] <=> WholeEntry(m) \in zio[y]
    BY <1>6 DEF WriteFailsInPipe
  <2>2. \A m \in Names : Excused(m) => Excused(m)'
    BY <1>6 DEF WriteFailsInPipe, Fault, At, options, producerVars, outputVars, Excused, TypeOK, WorkInv
  <2>. QED
    BY <1>6, <2>1, <2>2, NothingMoves DEF WriteFailsInPipe, Fault, At, options, producerVars, outputVars
<1>7. ASSUME NEW w \in Workers, Finish(w) PROVE SomewhereInv' /\ OnceInv'
  <2>1. \A m \in Names, y \in Zips : WholeEntry(m) \in zio'[y] <=> WholeEntry(m) \in zio[y]
    BY <1>7 DEF Finish
  <2>2. \A m \in Names : Excused(m) => Excused(m)'
    BY <1>7 DEF Finish, At, options, producerVars, outputVars, faultVars, Excused, TypeOK, WorkInv
  <2>. QED
    BY <1>7, <2>1, <2>2, NothingMoves DEF Finish, At, options, producerVars, outputVars, faultVars
<1>8. ASSUME NEW w \in Workers, FinishFails(w) PROVE SomewhereInv' /\ OnceInv'
  <2>1. \A m \in Names, y \in Zips : WholeEntry(m) \in zio'[y] <=> WholeEntry(m) \in zio[y]
    BY <1>8 DEF FinishFails
  <2>2. \A m \in Names : Excused(m) => Excused(m)'
    BY <1>8 DEF FinishFails, Fault, At, options, producerVars, outputVars, Excused, TypeOK, WorkInv
  <2>. QED
    BY <1>8, <2>1, <2>2, NothingMoves DEF FinishFails, Fault, At, options, producerVars, outputVars
<1>9. ASSUME WaitWorkers PROVE SomewhereInv' /\ OnceInv'
  <2>1. \A m \in Names, y \in Zips : WholeEntry(m) \in zio'[y] <=> WholeEntry(m) \in zio[y]
    BY <1>9 DEF WaitWorkers
  <2>2. \A m \in Names : Excused(m) => Excused(m)'
    BY <1>9 DEF WaitWorkers, Fault, options, workerVars, outputVars, Excused, TypeOK, WorkInv
  <2>. QED
    BY <1>9, <2>1, <2>2, NothingMoves DEF WaitWorkers, Fault, options, workerVars, outputVars
<1>10. ASSUME Truncate PROVE SomewhereInv' /\ OnceInv'
  <2>1. \A m \in Names, y \in Zips : WholeEntry(m) \in zio'[y] <=> WholeEntry(m) \in zio[y]
    BY <1>10 DEF Truncate
  <2>2. \A m \in Names : Excused(m) => Excused(m)'
    BY <1>10 DEF Truncate, options, workerVars, faultVars, Excused, TypeOK, WorkInv
  <2>. QED
    BY <1>10, <2>1, <2>2, NothingMoves DEF Truncate, options, workerVars, faultVars
<1>11. ASSUME OutputFails PROVE SomewhereInv' /\ OnceInv'
  <2>1. \A m \in Names, y \in Zips : WholeEntry(m) \in zio'[y] <=> WholeEntry(m) \in zio[y]
    BY <1>11 DEF OutputFails
  <2>2. \A m \in Names : Excused(m) => Excused(m)'
    BY <1>11 DEF OutputFails, Fault, Ends, options, workerVars, Excused, TypeOK, WorkInv
  <2>. QED
    BY <1>11, <2>1, <2>2, NothingMoves DEF OutputFails, Fault, Ends, options, workerVars
<1>12. ASSUME Merge PROVE SomewhereInv' /\ OnceInv'
  <2>1. \A m \in Names, y \in Zips : WholeEntry(m) \in zio'[y] <=> WholeEntry(m) \in zio[y]
    BY <1>12 DEF Merge
  <2>2. \A m \in Names : Excused(m) => Excused(m)'
    BY <1>12 DEF Merge, Ends, options, workerVars, faultVars, Excused, TypeOK, WorkInv
  <2>. QED
    BY <1>12, <2>1, <2>2, NothingMoves DEF Merge, Ends, options, workerVars, faultVars
<1>13. ASSUME MergeCutShort PROVE SomewhereInv' /\ OnceInv'
  <2>1. \A m \in Names, y \in Zips : WholeEntry(m) \in zio'[y] <=> WholeEntry(m) \in zio[y]
    BY <1>13 DEF MergeCutShort
  <2>2. \A m \in Names : Excused(m) => Excused(m)'
    BY <1>13 DEF MergeCutShort, Fault, Ends, options, workerVars, Excused, TypeOK, WorkInv
  <2>. QED
    BY <1>13, <2>1, <2>2, NothingMoves DEF MergeCutShort, Fault, Ends, options, workerVars
<1>14. ASSUME MergeFails PROVE SomewhereInv' /\ OnceInv'
  <2>1. \A m \in Names, y \in Zips : WholeEntry(m) \in zio'[y] <=> WholeEntry(m) \in zio[y]
    BY <1>14 DEF MergeFails
  <2>2. \A m \in Names : Excused(m) => Excused(m)'
    BY <1>14 DEF MergeFails, Ends, options, workerVars, faultVars, Excused, TypeOK, WorkInv
  <2>. QED
    BY <1>14, <2>1, <2>2, NothingMoves DEF MergeFails, Ends, options, workerVars, faultVars
<1>15. ASSUME UNCHANGED vars PROVE SomewhereInv' /\ OnceInv'
  <2>1. \A m \in Names : Excused(m) => Excused(m)'
    BY <1>15 DEF vars, workerVars, producerVars, faultVars, Excused
  <2>. QED
    BY <1>15, <2>1, NothingMoves DEF vars, workerVars, producerVars
<1>. QED
  BY <1>1, <1>2, <1>3, <1>4, <1>5, <1>6, <1>7, <1>8, <1>9, <1>10, <1>11, <1>12, <1>13, <1>14, <1>15

\* From the names to do to the main goroutine's archive.
LEMMA CopyAsIsMoves ==
  ASSUME TypeOK, SomewhereInv, OnceInv, WorkInv, NEW n \in Names, CopyAsIs(n)
  PROVE  SomewhereInv' /\ OnceInv'
<1>1. \A m \in Names, y \in Zips :
        WholeEntry(m) \in zio'[y] <=> WholeEntry(m) \in zio[y] \/ (m = n /\ y = 0)
  BY AddWhole, ZipsAre DEF CopyAsIs
<1>2. /\ n \in todo /\ todo' = todo \ {n}
      /\ UNCHANGED <<cur, jobs, wjob, wpc, skipped, logged>>
  BY DEF CopyAsIs, workerVars, faultVars
<1>3. \A m \in Names : Stored(m)' <=> Stored(m) \/ m = n
  BY <1>1, ZipsAre DEF Stored, WholeEntry
<1>4. \A m \in Names : (Queued(m)' <=> Queued(m)) /\ (Held(m)' <=> Held(m)) /\ (Excused(m)' <=> Excused(m))
  BY <1>2 DEF Queued, Held, Excused
<1>5. SomewhereInv'
  BY <1>2, <1>3, <1>4 DEF SomewhereInv
<1>6. \A m \in Names, y, z \in Zips :
        WholeEntry(m) \in zio'[y] /\ WholeEntry(m) \in zio'[z] => y = z
  BY <1>1, <1>2 DEF OnceInv, Stored
<1>7. OnceInv'
  BY <1>2, <1>3, <1>4, <1>6 DEF OnceInv, WholeEntry
<1>. QED
  BY <1>5, <1>7

\* From the names to do to the names left out.
LEMMA SkipStoreMoves ==
  ASSUME TypeOK, SomewhereInv, OnceInv, WorkInv, PhaseInv, NEW n \in Names, SkipStore(n)
  PROVE  SomewhereInv' /\ OnceInv'
<1>1. \A m \in Names, y \in Zips : WholeEntry(m) \in zio'[y] <=> WholeEntry(m) \in zio[y]
  BY NotAsIsStoresNothing DEF SkipStore
<1>2. /\ n \in todo /\ todo' = todo \ {n}
      /\ skipped' = skipped \union {n} /\ UNCHANGED <<cur, jobs, wjob, wpc, logged>>
  BY DEF SkipStore, workerVars, faultVars, PhaseInv
<1>3. \A m \in Names : Stored(m)' <=> Stored(m)
  BY <1>1 DEF Stored, WholeEntry
<1>4. \A m \in Names : (Queued(m)' <=> Queued(m)) /\ (Held(m)' <=> Held(m)) /\ (Excused(m) => Excused(m)')
  BY <1>2 DEF Queued, Held, Excused
<1>5. SomewhereInv'
  BY <1>2, <1>3, <1>4, PipelineAssumption DEF SomewhereInv, Excused
<1>6. OnceInv'
  BY <1>1, <1>2, <1>3, <1>4, PipelineAssumption DEF OnceInv, WholeEntry
<1>. QED
  BY <1>5, <1>6

\* From the names to do to the job that is sent.
LEMMA MakeJobMoves ==
  ASSUME TypeOK, SomewhereInv, OnceInv, WorkInv, PhaseInv, NEW n \in Names, MakeJob(n)
  PROVE  SomewhereInv' /\ OnceInv'
<1>1. \A m \in Names, y \in Zips : WholeEntry(m) \in zio'[y] <=> WholeEntry(m) \in zio[y]
  BY NotAsIsStoresNothing DEF MakeJob
<1>2. /\ n \in todo /\ todo' = todo \ {n}
      /\ cur' = n /\ cur = NoName /\ UNCHANGED <<jobs, wjob, wpc, skipped, logged>>
  BY DEF MakeJob, workerVars, faultVars, PhaseInv
<1>3. \A m \in Names : Stored(m)' <=> Stored(m)
  BY <1>1 DEF Stored, WholeEntry
<1>4. \A m \in Names : (Queued(m)' <=> Queued(m)) /\ (Held(m)' <=> Held(m)) /\ (Excused(m) => Excused(m)')
  BY <1>2 DEF Queued, Held, Excused
<1>5. SomewhereInv'
  BY <1>2, <1>3, <1>4, PipelineAssumption DEF SomewhereInv, Excused
<1>6. OnceInv'
  BY <1>1, <1>2, <1>3, <1>4, PipelineAssumption DEF OnceInv, WholeEntry
<1>. QED
  BY <1>5, <1>6

\* From the main goroutine to the channel.
LEMMA SendMoves ==
  ASSUME TypeOK, SomewhereInv, OnceInv, WorkInv, Send
  PROVE  SomewhereInv' /\ OnceInv'
<1>1. UNCHANGED <<zio, todo, wjob, wpc, skipped, logged>> /\ cur' = NoName
  BY DEF Send, workerVars, faultVars
<1>2. \A m \in Names : Queued(m)' <=> Queued(m) \/ m = cur
  BY SendQueues DEF Queued
<1>3. \A m \in Names : (Stored(m)' <=> Stored(m)) /\ (Held(m)' <=> Held(m)) /\ (Excused(m)' <=> Excused(m))
  BY <1>1 DEF Stored, WholeEntry, Held, Excused
<1>4. SomewhereInv'
  BY <1>1, <1>2, <1>3 DEF SomewhereInv
<1>5. \A m \in Names : \A i, j \in 1 .. Len(jobs') : jobs'[i] = m /\ jobs'[j] = m => i = j
  <2>1. \A i \in 1 .. Len(jobs) : jobs[i] # cur
    BY SendQueues DEF OnceInv, Queued
  <2>2. \A m \in Names : \A i, j \in 1 .. Len(jobs) : jobs[i] = m /\ jobs[j] = m => i = j
    BY DEF OnceInv
  <2>3. \A i \in 1 .. Len(jobs') : i \in 1 .. Len(jobs) \/ i = Len(jobs) + 1
    BY SendQueues
  <2>. QED
    BY <2>1, <2>2, <2>3, SendQueues
<1>6. OnceInv'
  BY <1>1, <1>2, <1>3, <1>5, PipelineAssumption, SendQueues DEF OnceInv, WholeEntry
<1>. QED
  BY <1>4, <1>6

\* From the channel to a worker.
LEMMA TakeMoves ==
  ASSUME TypeOK, SomewhereInv, OnceInv, WorkInv, NEW w \in Workers, Take(w)
  PROVE  SomewhereInv' /\ OnceInv'
<1>1. UNCHANGED <<zio, todo, cur, skipped, logged>> /\ wpc[w] = "wait" /\ wpc' = [wpc EXCEPT ![w] = "busy"]
  BY DEF Take, At, producerVars, faultVars
<1>2. wjob[w] = NoName /\ wjob \in [Workers -> Names \union {NoName}] /\ wpc \in [Workers -> WorkerPcs]
  BY <1>1 DEF WorkInv, TypeOK, WorkerPcs
<1>3. \A m \in Names : Queued(m) <=> Queued(m)' \/ m = jobs[1]
  <2>1. \A i \in 1 .. Len(jobs) : i = 1 \/ i - 1 \in 1 .. Len(jobs')
    BY TakeUnqueues
  <2>2. \A i \in 1 .. Len(jobs') : i + 1 \in 1 .. Len(jobs)
    BY TakeUnqueues
  <2>3. \A i \in 1 .. Len(jobs) : i = 1 \/ jobs'[i - 1] = jobs[i]
    BY <2>1, TakeUnqueues
  <2>4. ASSUME NEW m \in Names, Queued(m) PROVE Queued(m)' \/ m = jobs[1]
    BY <2>1, <2>3, <2>4 DEF Queued
  <2>5. ASSUME NEW m \in Names, Queued(m)' PROVE Queued(m)
    BY <2>2, <2>5, TakeUnqueues DEF Queued
  <2>6. Queued(jobs[1])
    BY TakeUnqueues DEF Queued
  <2>. QED
    BY <2>4, <2>5, <2>6
<1>4. \A m \in Names : ~(Queued(m)' /\ m = jobs[1])
  <2>1. \A m \in Names : \A i, j \in 1 .. Len(jobs) : jobs[i] = m /\ jobs[j] = m => i = j
    BY DEF OnceInv
  <2>. QED
    BY <2>1, TakeUnqueues DEF Queued
<1>5. \A m \in Names : Held(m)' <=> Held(m) \/ m = jobs[1]
  BY <1>2, TakeUnqueues, PipelineAssumption DEF Held
<1>6. \A m \in Names : (Stored(m)' <=> Stored(m)) /\ (Excused(m)' <=> Excused(m))
  BY <1>1, <1>2 DEF Stored, WholeEntry, Excused
<1>7. SomewhereInv'
  BY <1>1, <1>3, <1>5, <1>6 DEF SomewhereInv
<1>8. \A m \in Names : \A i, j \in 1 .. Len(jobs') : jobs'[i] = m /\ jobs'[j] = m => i = j
  <2>1. \A m \in Names : \A i, j \in 1 .. Len(jobs) : jobs[i] = m /\ jobs[j] = m => i = j
    BY DEF OnceInv
  <2>2. \A i \in 1 .. Len(jobs') : i + 1 \in 1 .. Len(jobs)
    BY TakeUnqueues
  <2>. QED
    BY <2>1, <2>2, TakeUnqueues
<1>9. \A m \in Names : \A u, v \in Workers : wjob'[u] = m /\ wjob'[v] = m => u = v
  <2>1. ~Held(jobs[1])
    BY <1>3, TakeUnqueues DEF OnceInv
  <2>2. \A m \in Names : \A u, v \in Workers : wjob[u] = m /\ wjob[v] = m => u = v
    BY DEF OnceInv
  <2>. QED
    BY <1>2, <2>1, <2>2, TakeUnqueues DEF Held
<1>10. OnceInv'
  <2>1. \A m \in Names : Queued(m)' \/ (Held(m)' /\ ~Held(m)) => Queued(m)
    BY <1>3, <1>5
  <2>. QED
    BY <1>1, <1>3, <1>4, <1>5, <1>6, <1>8, <1>9, <2>1 DEF OnceInv, WholeEntry
<1>. QED
  BY <1>7, <1>10

\* From a worker to its archive.
LEMMA CompressedMoves ==
  ASSUME TypeOK, SomewhereInv, OnceInv, WorkInv, NEW w \in Workers, Compressed(w)
  PROVE  SomewhereInv' /\ OnceInv'
<1>1. /\ UNCHANGED <<todo, cur, jobs, skipped, logged>>
      /\ wpc[w] = "busy" /\ wpc' = [wpc EXCEPT ![w] = "wait"]
      /\ wjob' = [wjob EXCEPT ![w] = NoName]
  BY DEF Compressed, At, producerVars, faultVars
<1>2. wjob[w] \in Names /\ wjob \in [Workers -> Names \union {NoName}] /\ wpc \in [Workers -> WorkerPcs]
  BY <1>1 DEF TypeOK, WorkerPcs
<1>3. \A m \in Names, y \in Zips :
        WholeEntry(m) \in zio'[y] <=> WholeEntry(m) \in zio[y] \/ (m = wjob[w] /\ y = w)
  BY <1>2, AddWhole, ZipsAre DEF Compressed
<1>4. \A m \in Names : Stored(m)' <=> Stored(m) \/ m = wjob[w]
  BY <1>3, ZipsAre DEF Stored, WholeEntry
<1>5. \A m \in Names : Held(m)' <=> Held(m) /\ m # wjob[w]
  BY <1>1, <1>2, PipelineAssumption DEF Held, OnceInv
<1>6. \A m \in Names : (Queued(m)' <=> Queued(m)) /\ (Excused(m)' <=> Excused(m))
  BY <1>1, <1>2 DEF Queued, Excused
<1>7. Held(wjob[w])
  BY DEF Held
<1>8. SomewhereInv'
  BY <1>1, <1>4, <1>5, <1>6 DEF SomewhereInv
<1>9. \A m \in Names, y, z \in Zips :
        WholeEntry(m) \in zio'[y] /\ WholeEntry(m) \in zio'[z] => y = z
  BY <1>2, <1>3, <1>7 DEF OnceInv, Stored
<1>10. \A m \in Names : \A u, v \in Workers : wjob'[u] = m /\ wjob'[v] = m => u = v
  BY <1>1, <1>2, PipelineAssumption DEF OnceInv
<1>11. OnceInv'
  BY <1>1, <1>2, <1>4, <1>5, <1>6, <1>7, <1>9, <1>10 DEF OnceInv, WholeEntry
<1>. QED
  BY <1>8, <1>11

\* From a worker to the names whose failure was logged.
LEMMA RewriteFailsMoves ==
  ASSUME TypeOK, SomewhereInv, OnceInv, WorkInv, NEW w \in Workers, RewriteFails(w)
  PROVE  SomewhereInv' /\ OnceInv'
<1>1. /\ logged' = logged \union {wjob[w]} /\ UNCHANGED <<todo, cur, jobs, skipped>>
      /\ wpc[w] = "busy" /\ wpc' = [wpc EXCEPT ![w] = "wait"]
      /\ wjob' = [wjob EXCEPT ![w] = NoName]
  BY DEF RewriteFails, At, producerVars
<1>2. wjob[w] \in Names /\ wjob \in [Workers -> Names \union {NoName}] /\ wpc \in [Workers -> WorkerPcs]
  BY <1>1 DEF TypeOK, WorkerPcs
<1>3. \A m \in Names, y \in Zips : WholeEntry(m) \in zio'[y] <=> WholeEntry(m) \in zio[y]
  BY AddOther, ZipsAre DEF RewriteFails
<1>4. \A m \in Names : (Stored(m)' <=> Stored(m)) /\ (Queued(m)' <=> Queued(m))
  BY <1>1, <1>3 DEF Stored, WholeEntry, Queued
<1>5. \A m \in Names : Held(m)' <=> Held(m) /\ m # wjob[w]
  BY <1>1, <1>2, PipelineAssumption DEF Held, OnceInv
<1>6. \A m \in Names : Excused(m) \/ m = wjob[w] => Excused(m)'
  BY <1>1, <1>2 DEF Excused
<1>7. SomewhereInv'
  BY <1>1, <1>4, <1>5, <1>6 DEF SomewhereInv
<1>8. \A m \in Names : \A u, v \in Workers : wjob'[u] = m /\ wjob'[v] = m => u = v
  BY <1>1, <1>2, PipelineAssumption DEF OnceInv
<1>9. OnceInv'
  BY <1>1, <1>3, <1>4, <1>5, <1>8 DEF OnceInv, WholeEntry
<1>. QED
  BY <1>7, <1>9

\* A name is dropped together with its worker.
LEMMA CompressFailsMoves ==
  ASSUME TypeOK, SomewhereInv, OnceInv, WorkInv, NEW w \in Workers, CompressFails(w)
  PROVE  SomewhereInv' /\ OnceInv'
<1>1. /\ UNCHANGED <<todo, cur, jobs, skipped, logged>>
      /\ wpc[w] = "busy" /\ wpc' = [wpc EXCEPT ![w] = "dead"]
      /\ wjob' = [wjob EXCEPT ![w] = NoName]
  BY DEF CompressFails, At, producerVars
<1>2. wjob[w] \in Names /\ wjob \in [Workers -> Names \union {NoName}] /\ wpc \in [Workers -> WorkerPcs]
  BY <1>1 DEF TypeOK, WorkerPcs
<1>3. \A m \in Names, y \in Zips : WholeEntry(m) \in zio'[y] <=> WholeEntry(m) \in zio[y]
  BY AddOther, ZipsAre DEF CompressFails
<1>4. \A m \in Names : (Stored(m)' <=> Stored(m)) /\ (Queued(m)' <=> Queued(m))
  BY <1>1, <1>3 DEF Stored, WholeEntry, Queued
<1>5. \A m \in Names : Held(m)' <=> Held(m) /\ m # wjob[w]
  BY <1>1, <1>2, PipelineAssumption DEF Held, OnceInv
<1>6. \A m \in Names : Excused(m) \/ m = wjob[w] => Excused(m)'
  BY <1>1, <1>2 DEF Excused
<1>7. SomewhereInv'
  BY <1>1, <1>4, <1>5, <1>6 DEF SomewhereInv
<1>8. \A m \in Names : \A u, v \in Workers : wjob'[u] = m /\ wjob'[v] = m => u = v
  BY <1>1, <1>2, PipelineAssumption DEF OnceInv
<1>9. OnceInv'
  BY <1>1, <1>3, <1>4, <1>5, <1>8 DEF OnceInv, WholeEntry
<1>. QED
  BY <1>7, <1>9

---------------------------------------------------------------------------
(* The invariant and the theorem.                                          *)

\* A worker ends only behind a closed and empty channel.
LEMMA WorkStep == PipeInv /\ WorkInv /\ [Next]_vars => WorkInv'
<1>. SUFFICES ASSUME PipeInv, WorkInv, [Next]_vars PROVE WorkInv'
  OBVIOUS
<1>1. ASSUME Boot PROVE WorkInv'
  BY <1>1 DEF Boot, options, outputVars, faultVars, WorkInv, PipeInv, PhaseInv, TypeOK, Gone
<1>2. ASSUME BootFails PROVE WorkInv'
  BY <1>2 DEF BootFails, Fault, Ends, options, outputVars, WorkInv, PipeInv, PhaseInv, TypeOK, Gone
<1>3. ASSUME NEW n \in Names, CopyAsIs(n) PROVE WorkInv'
  BY <1>3 DEF CopyAsIs, Add, options, workerVars, outputVars, faultVars, WorkInv, PipeInv, PhaseInv, TypeOK, Gone
<1>4. ASSUME NEW n \in Names, SkipStore(n) PROVE WorkInv'
  BY <1>4 DEF SkipStore, Add, NotAsIs, options, workerVars, outputVars, Fault, WorkInv, PipeInv, PhaseInv, TypeOK, Gone
<1>5. ASSUME NEW n \in Names, MakeJob(n) PROVE WorkInv'
  BY <1>5 DEF MakeJob, Add, NotAsIs, options, workerVars, outputVars, Fault, WorkInv, PipeInv, PhaseInv, TypeOK, Gone
<1>6. ASSUME NEW n \in Names, OpenFails(n) PROVE WorkInv'
  BY <1>6 DEF OpenFails, Fault, Ends, options, workerVars, outputVars, WorkInv, PipeInv, PhaseInv, TypeOK, Gone
<1>7. ASSUME Send PROVE WorkInv'
  BY <1>7 DEF Send, options, workerVars, outputVars, faultVars, WorkInv, PipeInv, PhaseInv, TypeOK, Gone
<1>8. ASSUME CloseJobs PROVE WorkInv'
  BY <1>8 DEF CloseJobs, Add, options, workerVars, outputVars, faultVars, WorkInv, PipeInv, PhaseInv, TypeOK, Gone
<1>9. ASSUME SiteMapFails \/ NilWriter PROVE WorkInv'
  BY <1>9 DEF SiteMapFails, NilWriter, Fault, Ends, options, workerVars, outputVars, WorkInv, PipeInv, PhaseInv, TypeOK, Gone
<1>10. ASSUME NEW w \in Workers, Take(w) PROVE WorkInv'
  BY <1>10 DEF Take, At, options, producerVars, outputVars, faultVars, WorkInv, PipeInv, PhaseInv, TypeOK, Gone
<1>11. ASSUME NEW w \in Workers, Compressed(w) PROVE WorkInv'
  BY <1>11 DEF Compressed, Add, At, options, producerVars, outputVars, faultVars, WorkInv, PipeInv, PhaseInv, TypeOK, Gone
<1>12. ASSUME NEW w \in Workers, RewriteFails(w) PROVE WorkInv'
  BY <1>12 DEF RewriteFails, Fault, Add, At, options, producerVars, outputVars, WorkInv, PipeInv, PhaseInv, TypeOK, Gone
<1>13. ASSUME NEW w \in Workers, CompressFails(w) PROVE WorkInv'
  BY <1>13 DEF CompressFails, Fault, Add, At, options, producerVars, outputVars, WorkInv, PipeInv, PhaseInv, TypeOK, Gone
<1>14. ASSUME NEW w \in Workers, WriteFailsInPipe(w) PROVE WorkInv'
  BY <1>14 DEF WriteFailsInPipe, Fault, At, options, producerVars, outputVars, WorkInv, PipeInv, PhaseInv, TypeOK, Gone
<1>15. ASSUME NEW w \in Workers, Finish(w) PROVE WorkInv'
  BY <1>15 DEF Finish, At, options, producerVars, outputVars, faultVars, WorkInv, PipeInv, PhaseInv, TypeOK, Gone
<1>16. ASSUME NEW w \in Workers, FinishFails(w) PROVE WorkInv'
  BY <1>16 DEF FinishFails, Fault, At, options, producerVars, outputVars, WorkInv, PipeInv, PhaseInv, TypeOK, Gone
<1>17. ASSUME WaitWorkers PROVE WorkInv'
  BY <1>17 DEF WaitWorkers, Fault, options, workerVars, outputVars, WorkInv, PipeInv, PhaseInv, TypeOK, Gone
<1>18. ASSUME Truncate PROVE WorkInv'
  BY <1>18 DEF Truncate, options, workerVars, faultVars, WorkInv, PipeInv, PhaseInv, TypeOK, Gone
<1>19. ASSUME OutputFails PROVE WorkInv'
  BY <1>19 DEF OutputFails, Fault, Ends, options, workerVars, WorkInv, PipeInv, PhaseInv, TypeOK, Gone
<1>20. ASSUME Merge PROVE WorkInv'
  BY <1>20 DEF Merge, Ends, options, workerVars, faultVars, WorkInv, PipeInv, PhaseInv, TypeOK, Gone
<1>21. ASSUME MergeCutShort PROVE WorkInv'
  BY <1>21 DEF MergeCutShort, Fault, Ends, options, workerVars, WorkInv, PipeInv, PhaseInv, TypeOK, Gone
<1>22. ASSUME MergeFails PROVE WorkInv'
  BY <1>22 DEF MergeFails, Ends, options, workerVars, faultVars, WorkInv, PipeInv, PhaseInv, TypeOK, Gone
<1>23. ASSUME UNCHANGED vars PROVE WorkInv'
  BY <1>23 DEF vars, producerVars, workerVars, WorkInv
<1>. QED
  BY <1>1, <1>2, <1>3, <1>4, <1>5, <1>6, <1>7, <1>8, <1>9, <1>10, <1>11, <1>12, <1>13, <1>14, <1>15, <1>16, <1>17, <1>18, <1>19, <1>20, <1>21, <1>22, <1>23 DEF Next, MainStep, NameStep, WorkerStep, WorkerFailure, Failure, Done

\* When all temporary archives can be read, each name is in exactly one of them.
LEMMA MergeIsComplete ==
  ASSUME PipeInv, CompleteInv, Merge
  PROVE  SuccessIsComplete'
<1>1. \A w \in Workers : wpc[w] = "ended"
  BY ZipsAre DEF PipeInv, CentralInv, Merge
<1>2. closed /\ jobs = <<>> /\ todo = {} /\ cur = NoName /\ \A w \in Workers : wjob[w] = NoName
  BY <1>1, ZipsAre DEF CompleteInv, WorkInv
<1>3. SUFFICES ASSUME NEW n \in Names, n \notin skipped, n \notin logged
               PROVE  Cardinality(Copies(n))' = 1
  BY DEF SuccessIsComplete, Merge, faultVars
<1>4. ~Queued(n) /\ ~Held(n) /\ ~Excused(n) /\ n \notin todo /\ cur # n
  BY <1>1, <1>2, <1>3, PipelineAssumption DEF Queued, Held, Excused
<1>5. PICK z \in Zips : WholeEntry(n) \in zio[z]
  BY <1>4 DEF CompleteInv, SomewhereInv, Stored
<1>6. \A y \in Zips : WholeEntry(n) \in zio[y] => y = z
  BY <1>5 DEF CompleteInv, OnceInv
<1>7. Copies(n)' = {[zip |-> z, entry |-> WholeEntry(n)]}
  <2>1. \A m : m \in Copies(n)' <=> \E y \in Zips : \E e \in zio[y] :
                  m = [zip |-> y, entry |-> e] /\ e.name = n /\ e.quality = "whole"
    BY DEF Copies, Merge, AllEntries
  <2>2. \A y \in Zips : \A e \in zio[y] : e.name = n /\ e.quality = "whole" => e = WholeEntry(n)
    BY DEF PipeInv, TypeOK, Entries, WholeEntry
  <2>3. WholeEntry(n).name = n /\ WholeEntry(n).quality = "whole"
    BY DEF WholeEntry
  <2>4. \A m : m \in Copies(n)' => m = [zip |-> z, entry |-> WholeEntry(n)]
    BY <1>6, <2>1, <2>2
  <2>5. [zip |-> z, entry |-> WholeEntry(n)] \in Copies(n)'
    BY <1>5, <2>1, <2>3
  <2>. QED
    BY <2>4, <2>5
<1>. QED
  BY <1>7, FS_Singleton

\* Every step keeps what a success means.
LEMMA SuccessStep == PipeInv /\ CompleteInv /\ [Next]_vars => SuccessIsComplete'
<1>. SUFFICES ASSUME PipeInv, CompleteInv, [Next]_vars PROVE SuccessIsComplete'
  OBVIOUS
<1>1. CASE Merge
  BY <1>1, MergeIsComplete
<1>2. CASE MergeCutShort
  BY <1>2 DEF MergeCutShort, SuccessIsComplete
<1>3. CASE UNCHANGED <<result, merged, skipped, logged>>
  BY <1>3 DEF CompleteInv, SuccessIsComplete, Copies
<1>4. CASE result' # "ok"
  BY <1>4 DEF SuccessIsComplete
<1>5. ASSUME Boot PROVE SuccessIsComplete'
  BY <1>3, <1>5 DEF Boot, options, outputVars, faultVars
<1>6. ASSUME BootFails PROVE SuccessIsComplete'
  BY <1>4, <1>6 DEF BootFails, Ends
<1>7. ASSUME NEW n \in Names, CopyAsIs(n) PROVE SuccessIsComplete'
  BY <1>3, <1>7 DEF CopyAsIs, Add, options, workerVars, outputVars, faultVars
<1>8. ASSUME NEW n \in Names, SkipStore(n) PROVE SuccessIsComplete'
  BY <1>4, <1>8 DEF SkipStore, Add, NotAsIs, options, workerVars, outputVars, Fault, PipeInv, CentralInv
<1>9. ASSUME NEW n \in Names, MakeJob(n) PROVE SuccessIsComplete'
  BY <1>3, <1>9 DEF MakeJob, Add, NotAsIs, options, workerVars, outputVars, Fault
<1>10. ASSUME NEW n \in Names, OpenFails(n) PROVE SuccessIsComplete'
  BY <1>4, <1>10 DEF OpenFails, Ends
<1>11. ASSUME Send PROVE SuccessIsComplete'
  BY <1>3, <1>11 DEF Send, options, workerVars, outputVars, faultVars
<1>12. ASSUME CloseJobs PROVE SuccessIsComplete'
  BY <1>3, <1>12 DEF CloseJobs, Add, options, workerVars, outputVars, faultVars
<1>13. ASSUME SiteMapFails \/ NilWriter PROVE SuccessIsComplete'
  BY <1>4, <1>13 DEF SiteMapFails, NilWriter, Ends
<1>14. ASSUME NEW w \in Workers, Take(w) PROVE SuccessIsComplete'
  BY <1>3, <1>14 DEF Take, At, options, producerVars, outputVars, faultVars
<1>15. ASSUME NEW w \in Workers, Compressed(w) PROVE SuccessIsComplete'
  BY <1>3, <1>15 DEF Compressed, Add, At, options, producerVars, outputVars, faultVars
<1>16. ASSUME NEW w \in Workers, RewriteFails(w) PROVE SuccessIsComplete'
  BY <1>4, <1>16 DEF RewriteFails, Fault, Add, At, options, producerVars, outputVars, PipeInv, CentralInv
<1>17. ASSUME NEW w \in Workers, CompressFails(w) PROVE SuccessIsComplete'
  BY <1>3, <1>17 DEF CompressFails, Fault, Add, At, options, producerVars, outputVars
<1>18. ASSUME NEW w \in Workers, WriteFailsInPipe(w) PROVE SuccessIsComplete'
  BY <1>3, <1>18 DEF WriteFailsInPipe, Fault, At, options, producerVars, outputVars
<1>19. ASSUME NEW w \in Workers, Finish(w) PROVE SuccessIsComplete'
  BY <1>3, <1>19 DEF Finish, At, options, producerVars, outputVars, faultVars
<1>20. ASSUME NEW w \in Workers, FinishFails(w) PROVE SuccessIsComplete'
  BY <1>3, <1>20 DEF FinishFails, Fault, At, options, producerVars, outputVars
<1>21. ASSUME WaitWorkers PROVE SuccessIsComplete'
  BY <1>3, <1>21 DEF WaitWorkers, Fault, options, workerVars, outputVars
<1>22. ASSUME Truncate PROVE SuccessIsComplete'
  BY <1>3, <1>22 DEF Truncate, options, workerVars, faultVars
<1>23. ASSUME OutputFails PROVE SuccessIsComplete'
  BY <1>4, <1>23 DEF OutputFails, Ends
<1>24. ASSUME MergeFails PROVE SuccessIsComplete'
  BY <1>4, <1>24 DEF MergeFails, Ends
<1>25. ASSUME UNCHANGED vars PROVE SuccessIsComplete'
  BY <1>3, <1>25 DEF vars, producerVars, outputVars, faultVars
<1>. QED
  BY <1>1, <1>2, <1>5, <1>6, <1>7, <1>8, <1>9, <1>10, <1>11, <1>12, <1>13, <1>14, <1>15, <1>16, <1>17, <1>18, <1>19, <1>20, <1>21, <1>22, <1>23, <1>24, <1>25 DEF Next, MainStep, NameStep, WorkerStep, WorkerFailure, Failure, Done

\* The invariant holds when Execute begins.
LEMMA CompleteInit == Init => CompleteInv
<1>. SUFFICES ASSUME Init PROVE CompleteInv
  OBVIOUS
<1>1. SomewhereInv
  BY DEF Init, SomewhereInv
<1>2. \A n \in Names : ~Queued(n) /\ ~Held(n) /\ ~Stored(n)
  BY PipelineAssumption DEF Init, Queued, Held, Stored
<1>3. OnceInv
  BY <1>2, PipelineAssumption DEF Init, OnceInv
<1>4. WorkInv /\ SuccessIsComplete
  BY DEF Init, WorkInv, SuccessIsComplete
<1>. QED
  BY <1>1, <1>3, <1>4 DEF CompleteInv

\* Every step keeps the invariant.
LEMMA CompleteStep == PipeInv /\ CompleteInv /\ [Next]_vars => CompleteInv'
<1>. SUFFICES ASSUME PipeInv, CompleteInv, [Next]_vars PROVE CompleteInv'
  OBVIOUS
<1>1. TypeOK /\ PhaseInv /\ SomewhereInv /\ OnceInv /\ WorkInv
  BY DEF PipeInv, CompleteInv
<1>2. SomewhereInv' /\ OnceInv'
  BY <1>1, StillSteps, CopyAsIsMoves, SkipStoreMoves, MakeJobMoves, SendMoves, TakeMoves,
     CompressedMoves, RewriteFailsMoves, CompressFailsMoves
  DEF Next, MainStep, NameStep, WorkerStep, WorkerFailure, Failure, Done
<1>3. WorkInv' /\ SuccessIsComplete'
  BY <1>1, WorkStep, SuccessStep
<1>. QED
  BY <1>2, <1>3 DEF CompleteInv

\* However many names, workers and failures there are: when Execute reports success,
\* every name that was not left out, and whose failure was not merely logged, is in
\* the output exactly once, whole.
THEOREM SuccessMeansComplete == Spec => []SuccessIsComplete
<1>1. Init => CompleteInv
  BY CompleteInit
<1>2. PipeInv /\ CompleteInv /\ [Next]_vars => CompleteInv'
  BY CompleteStep
<1>3. CompleteInv => SuccessIsComplete
  BY DEF CompleteInv
<1>. QED
  BY <1>1, <1>2, <1>3, PipelineInvariant, PTL DEF Spec
====
