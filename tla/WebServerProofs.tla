---- MODULE WebServerProofs ----
(***************************************************************************)
(* WebServer uses the handler only through the handler's own steps, so all *)
(* that is proved of the handler holds of the server; and the types of the *)
(* server's own state.                                                     *)
(***************************************************************************)
EXTENDS WebServer, ZipHandlerProofs

\* Every step of the server is a step of the handler or leaves it alone.
LEMMA ServerStepIsHandlerStep ==
  ASSUME [Next]_vars
  PROVE  [HandlerNext]_handlerVars
<1> USE ServerAssumption DEF Goroutines
<1>1. CASE MainStep \/ BadHeader \/ NilWatcher \/ AbortStartup \/ ServeFails
  BY <1>1 DEF MainStep, Boot, Loaded, StartGoroutines, AddWatch, Listen, ServeReturns, CloseWatcher,
     CloseHandler, Exit, BadHeader, NilWatcher, AbortStartup, ServeFails, HandlerNext
<1>2. CASE SignalStep \/ \E s \in Signals : SendSignal(s)
  BY <1>2 DEF SignalStep, TakeHup, HupDone, TakeTerm, ShutdownReturns, SendSignal, HandlerNext
<1>3. CASE WatcherStep
  BY <1>3 DEF WatcherStep, TakeEvent, EventDone, WatcherEnds, HandlerNext
<1>4. ASSUME NEW l \in Loaders, Load(l) PROVE HandlerNext
  BY <1>4 DEF Load, HandlerNext
<1>5. ASSUME NEW r \in Requests, Accept(r) \/ Serve(r) PROVE HandlerNext
  BY <1>5 DEF Accept, Serve, HandlerNext
<1>6. ASSUME NEW k \in Archives, Truncate(k) \/ Rename(k) PROVE HandlerNext
  BY <1>6 DEF Truncate, Rename, DiskUnchanged, HandlerNext, DiskStep
<1>7. ASSUME NEW i \in Inodes, FinishWrite(i) PROVE HandlerNext
  BY <1>7 DEF FinishWrite, DiskUnchanged, HandlerNext, DiskStep
<1>8. CASE Exited \/ UNCHANGED vars
  BY <1>8 DEF Exited, vars
<1>9. QED
  BY <1>1, <1>2, <1>3, <1>4, <1>5, <1>6, <1>7, <1>8 DEF Next

\* The server is an implementation of the handler's specification.
THEOREM ServerImplementsHandler == Spec => HandlerSpec
<1>1. Init => HandlerInit
  BY DEF Init
<1>2. [Next]_vars => [HandlerNext]_handlerVars
  BY ServerStepIsHandlerStep
<1>3. QED
  BY <1>1, <1>2, PTL DEF Spec, HandlerSpec

\* What the handler guarantees, the server's clients get: one index at a time.
THEOREM ServerServesOneIndexAtATime == Spec => ImplementsAtomicArchive
  BY ServerImplementsHandler, HandlerImplementsAtomicArchive

\* The inductive invariant of the handler holds in every state of the server.
THEOREM ServerKeepsHandlerInv == Spec => []HandlerInv
  BY ServerImplementsHandler, HandlerInvariant

\* A body the server sends is the content its index describes, except where the
\* archive is written over in place or the process is closing.
THEOREM ServerBodiesAreIndexed == Spec => []BodyIsIndexed
  BY ServerImplementsHandler, BodiesAreIndexed

\* Whatever the three goroutines load, no request of the server resolves an index entry
\* against the archives of another load.
THEOREM ServerAnswersFromOneLoad == Spec => []AnswersFromOneLoad
  BY ServerImplementsHandler, OneLoadPerAnswer

\* No goroutine of the server closes an archive that another has installed.
THEOREM ServerKeepsArchivesOpen == Spec => []InstalledArchivesAreOpen
  BY ServerImplementsHandler, InstalledStayOpen

\* Type correctness of the whole server.
THEOREM ServerTyped == Spec => []TypeOK
<1>1. ASSUME Init PROVE ServerTypeOK
  <2> USE <1>1, ServerAssumption DEF Init, MaxEvents
  <2>1. autoreload \in BOOLEAN
    OBVIOUS
  <2>2. shutting \in BOOLEAN /\ serving \in BOOLEAN
    OBVIOUS
  <2>3. sigch \in {<<>>} \union {<<s>> : s \in Signals}
    OBVIOUS
  <2>4. sent \in 0 .. MaxSignals /\ watched \in Inodes \union {None} /\ events \in 0 .. MaxEvents
    OBVIOUS
  <2>5. QED
    BY <2>1, <2>2, <2>3, <2>4 DEF ServerTypeOK
<1>2. ASSUME HandlerTypeOK, ServerTypeOK, [Next]_vars PROVE ServerTypeOK'
  <2> USE <1>2, ServerAssumption DEF ServerTypeOK, serverVars, MaxEvents, Signals
  <2>1. CASE MainStep \/ BadHeader \/ NilWatcher \/ AbortStartup \/ ServeFails
    <3>1. path[1] \in Inodes
      <4>1. 1 \in Archives
        BY DiskAssumption DEF Archives
      <4>2. path \in [Archives -> Inodes]
        BY <1>2 DEF HandlerTypeOK, DiskTypeOK
      <4>3. QED
        BY <4>1, <4>2
    <3>2. CASE Listen
      <4>1. serving' \in BOOLEAN
        BY <3>2, Zenon DEF Listen
      <4>2. QED
        BY <3>2, <4>1 DEF Listen
    <3>3. CASE MainStep /\ ~Listen
      BY <3>1, <3>3 DEF MainStep, Boot, Loaded, StartGoroutines, AddWatch, ServeReturns, CloseWatcher,
         CloseHandler, Exit
    <3>4. CASE BadHeader \/ NilWatcher \/ AbortStartup \/ ServeFails
      BY <3>4 DEF BadHeader, NilWatcher, AbortStartup, ServeFails
    <3>5. QED
      BY <2>1, <3>2, <3>3, <3>4
  <2>2. CASE SignalStep
    BY <2>2 DEF SignalStep, TakeHup, HupDone, TakeTerm, ShutdownReturns
  <2>3. ASSUME NEW s \in Signals, SendSignal(s) PROVE ServerTypeOK'
    BY <2>3 DEF SendSignal
  <2>4. CASE WatcherStep
    BY <2>4 DEF WatcherStep, TakeEvent, EventDone, WatcherEnds
  <2>5. ASSUME NEW l \in Loaders, Load(l) PROVE ServerTypeOK'
    BY <2>5 DEF Load
  <2>6. ASSUME NEW r \in Requests, Accept(r) \/ Serve(r) PROVE ServerTypeOK'
    BY <2>6 DEF Accept, Serve
  <2>7. ASSUME NEW k \in Archives, Truncate(k) \/ Rename(k) PROVE ServerTypeOK'
    BY <2>7 DEF Truncate, Rename, DiskUnchanged, Notify
  <2>8. ASSUME NEW i \in Inodes, FinishWrite(i) PROVE ServerTypeOK'
    BY <2>8 DEF FinishWrite, DiskUnchanged, Notify
  <2>9. CASE Exited \/ UNCHANGED vars
    BY <2>9 DEF Exited, vars
  <2>10. QED
    BY <2>1, <2>2, <2>3, <2>4, <2>5, <2>6, <2>7, <2>8, <2>9 DEF Next
<1>3. Spec => []HandlerTypeOK
  BY ServerImplementsHandler, HandlerTyped
<1>4. QED
  BY <1>1, <1>2, <1>3, PTL DEF Spec, TypeOK
====
