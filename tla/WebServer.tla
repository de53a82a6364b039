---- MODULE WebServer ----
(***************************************************************************)
(* WebServer.Execute: the goroutines around the handler.  The main one     *)
(* loads the archives, starts the others, serves and, when Serve returns,  *)
(* runs its deferred calls and exits.  One goroutine takes signals (reload *)
(* on SIGHUP, shutdown on SIGINT and SIGTERM); with --autoreload another   *)
(* takes the fsnotify events of the first archive.                         *)
(***************************************************************************)
EXTENDS ZipHandler

CONSTANTS
    MaxSignals,    \* bound on the number of signals sent to the process
    ListenerFails  \* Serve may also return because the listener fails

Goroutines == {"main", "signals", "watcher"}
Signals == {"HUP", "TERM"}

\* Kernel and fsnotify together hold at most two write events that the watcher
\* has not taken: one that fsnotify is handing over, and one in the queue of the
\* kernel, which merges an event that equals the last one queued.
MaxEvents == 2

ASSUME ServerAssumption ==
    /\ Loaders = Goroutines
    /\ MaxSignals \in Nat
    /\ ListenerFails \in BOOLEAN

VARIABLES
    autoreload,  \* --autoreload
    main,        \* where Execute is
    sig,         \* where the signal goroutine is
    watch,       \* where the watcher goroutine is
    sigch,       \* the channel of signals, with room for one
    sent,        \* signals sent so far
    watched,     \* the inode fsnotify watches, or None
    events,      \* write events the watcher has not taken
    shutting,    \* the server's Shutdown has begun
    serving      \* Serve has accepted connections

serverVars == <<autoreload, main, sig, watch, sigch, sent, watched, events, shutting, serving>>
vars == <<handlerVars, serverVars>>

Init ==
    /\ HandlerInit
    /\ autoreload \in BOOLEAN
    /\ main = "boot" /\ sig = "off" /\ watch = "off"
    /\ sigch = <<>> /\ sent = 0
    /\ watched = None /\ events = 0
    /\ shutting = FALSE /\ serving = FALSE

Running == main # "exited"

---------------------------------------------------------------------------
(* The main goroutine.                                                     *)

Boot ==
    /\ main = "boot"
    /\ BeginLoad("main")
    /\ main' = "load"
    /\ UNCHANGED <<autoreload, sig, watch, sigch, sent, watched, events, shutting, serving>>

\* The first load returns: with an error Execute returns at once.
Loaded ==
    /\ main = "load"
    /\ LoadReturns("main")
    /\ main' = IF lpc["main"] = "failed" THEN "exited" ELSE "loaded"
    /\ UNCHANGED <<autoreload, sig, watch, sigch, sent, watched, events, shutting, serving>>

\* A bad --header: Execute returns, and closes the handler.
BadHeader ==
    /\ main = "loaded"
    /\ main' = "unwatched"
    /\ UNCHANGED <<handlerVars, autoreload, sig, watch, sigch, sent, watched, events, shutting, serving>>

\* signal.Notify, and the goroutines that take the signals and the events.
StartGoroutines ==
    /\ main = "loaded"
    /\ main' = "setup"
    /\ sig' = "wait"
    /\ watch' = IF autoreload THEN "wait" ELSE "off"
    /\ UNCHANGED <<handlerVars, autoreload, sigch, sent, watched, events, shutting, serving>>

\* wt.Add: from here on writes to the inode the name leads to raise events.
AddWatch ==
    /\ main = "setup" /\ autoreload /\ watched = None
    /\ watched' = path[1]
    /\ UNCHANGED <<handlerVars, autoreload, main, sig, watch, sigch, sent, events, shutting, serving>>

\* After a Shutdown Serve returns at once, without a connection.
Listen ==
    /\ main = "setup" /\ (autoreload => watched # None)
    /\ main' = "serve"
    /\ serving' = ~shutting
    /\ UNCHANGED <<handlerVars, autoreload, sig, watch, sigch, sent, watched, events, shutting>>

\* fsnotify.NewWatcher fails: the error is only logged, and the watcher that is nil
\* crashes the process when it is used.
NilWatcher ==
    /\ main = "setup" /\ autoreload /\ watched = None
    /\ main' = "exited"
    /\ UNCHANGED <<handlerVars, autoreload, sig, watch, sigch, sent, watched, events, shutting, serving>>

\* wt.Add or the listen fails.
AbortStartup ==
    /\ main = "setup"
    /\ main' = "closing"
    /\ UNCHANGED <<handlerVars, autoreload, sig, watch, sigch, sent, watched, events, shutting, serving>>

\* Serve returns as soon as Shutdown has begun; it does not wait for requests.
ServeReturns ==
    /\ main = "serve" /\ shutting
    /\ main' = "closing"
    /\ UNCHANGED <<handlerVars, autoreload, sig, watch, sigch, sent, watched, events, shutting, serving>>

\* Any other error of Serve: Execute returns it, and nobody has called Shutdown.
ServeFails ==
    /\ main = "serve" /\ ~shutting /\ ListenerFails
    /\ main' = "closing"
    /\ UNCHANGED <<handlerVars, autoreload, sig, watch, sigch, sent, watched, events, shutting, serving>>

\* The deferred calls, last first: wt.Close and then handler.Close.
CloseWatcher ==
    /\ main = "closing" /\ autoreload
    /\ main' = "unwatched"
    /\ watched' = None /\ events' = 0
    /\ UNCHANGED <<handlerVars, autoreload, sig, watch, sigch, sent, shutting, serving>>

CloseHandler ==
    /\ main = "unwatched" \/ (main = "closing" /\ ~autoreload)
    /\ HandlerClose
    /\ main' = "closed"
    /\ UNCHANGED <<autoreload, sig, watch, sigch, sent, watched, events, shutting, serving>>

\* main returns: every other goroutine ends where it is.
Exit ==
    /\ main = "closed"
    /\ main' = "exited"
    /\ UNCHANGED <<handlerVars, autoreload, sig, watch, sigch, sent, watched, events, shutting, serving>>

---------------------------------------------------------------------------
(* Signals.  Before signal.Notify the default action ends the process.     *)

SendSignal(s) ==
    /\ Running /\ sent < MaxSignals
    /\ sent' = sent + 1
    /\ IF sig = "off"
         THEN main' = "exited" /\ UNCHANGED sigch
         ELSE /\ sigch' = IF sigch = <<>> THEN <<s>> ELSE sigch
              /\ UNCHANGED main
    /\ UNCHANGED <<handlerVars, autoreload, sig, watch, watched, events, shutting, serving>>

TakeHup ==
    /\ Running /\ sig = "wait" /\ sigch = <<"HUP">>
    /\ sigch' = <<>>
    /\ BeginLoad("signals")
    /\ sig' = "reload"
    /\ UNCHANGED <<autoreload, main, watch, sent, watched, events, shutting, serving>>

\* Reload returns: after an error the goroutine ends.
HupDone ==
    /\ Running /\ sig = "reload"
    /\ LoadReturns("signals")
    /\ sig' = IF lpc["signals"] = "failed" THEN "ended" ELSE "wait"
    /\ UNCHANGED <<autoreload, main, watch, sigch, sent, watched, events, shutting, serving>>

\* Mutant of TakeTerm: the signal ends the goroutine without a Shutdown.
TakeTermWithoutShutdown ==
    /\ Running /\ sig = "wait" /\ sigch = <<"TERM">>
    /\ sigch' = <<>>
    /\ sig' = "shutdown"
    /\ UNCHANGED <<handlerVars, autoreload, main, watch, sent, watched, events, shutting, serving>>

TakeTerm ==
    /\ Running /\ sig = "wait" /\ sigch = <<"TERM">>
    /\ sigch' = <<>>
    /\ sig' = "shutdown"
    /\ shutting' = TRUE
    /\ UNCHANGED <<handlerVars, autoreload, main, watch, sent, watched, events, serving>>

\* Shutdown waits for the requests in progress; the process does not wait for it.
ShutdownReturns ==
    /\ Running /\ sig = "shutdown"
    /\ \A r \in Requests : rpc[r] = "idle"
    /\ sig' = "ended"
    /\ UNCHANGED <<handlerVars, autoreload, main, watch, sigch, sent, watched, events, shutting, serving>>

---------------------------------------------------------------------------
(* The watcher.                                                            *)

TakeEvent ==
    /\ Running /\ watch = "wait" /\ events > 0
    /\ events' = events - 1
    /\ BeginLoad("watcher")
    /\ watch' = "reload"
    /\ UNCHANGED <<autoreload, main, sig, sigch, sent, watched, shutting, serving>>

\* Mutant of EventDone: the watcher ends when a reload fails.
EventDoneStops ==
    /\ Running /\ watch = "reload"
    /\ LoadReturns("watcher")
    /\ watch' = IF lpc["watcher"] = "failed" THEN "ended" ELSE "wait"
    /\ UNCHANGED <<autoreload, main, sig, sigch, sent, watched, events, shutting, serving>>

\* Reload returns: an error is logged and the loop goes on.
EventDone ==
    /\ Running /\ watch = "reload"
    /\ LoadReturns("watcher")
    /\ watch' = "wait"
    /\ UNCHANGED <<autoreload, main, sig, sigch, sent, watched, events, shutting, serving>>

\* The channel of events is closed.
WatcherEnds ==
    /\ main \in {"unwatched", "closed"} /\ watch = "wait"
    /\ watch' = "ended"
    /\ UNCHANGED <<handlerVars, autoreload, main, sig, sigch, sent, watched, events, shutting, serving>>

---------------------------------------------------------------------------
(* The handler's steps, the connections and the disk.                      *)

Load(l) == Running /\ LoadStep(l) /\ UNCHANGED serverVars

\* A request of a connection that is open: once the listener is closed there are only
\* those it has accepted before, and none when Shutdown has returned.
Accept(r) ==
    /\ Running /\ serving /\ (shutting => sig = "shutdown")
    /\ Arrive(r) /\ UNCHANGED serverVars

Serve(r) == Running /\ ServeStep(r) /\ UNCHANGED serverVars

\* A write to the watched inode raises an event.
Notify(i) ==
    events' = IF i = watched /\ events < MaxEvents THEN events + 1 ELSE events

DiskUnchanged ==
    UNCHANGED <<lockVars, inmemory, loadVars, indexVars, handleVars, requestVars,
                autoreload, main, sig, watch, sigch, sent, watched, shutting, serving>>

Truncate(k) == Running /\ BeginOverwrite(k) /\ Notify(path[k]) /\ DiskUnchanged

FinishWrite(i) == Running /\ EndOverwrite(i) /\ Notify(i) /\ DiskUnchanged

Rename(k) == Running /\ Replace(k) /\ UNCHANGED events /\ DiskUnchanged

Exited == ~Running /\ UNCHANGED vars

MainStep ==
    \/ Boot \/ Loaded \/ StartGoroutines \/ AddWatch \/ Listen \/ ServeReturns
    \/ CloseWatcher \/ CloseHandler \/ Exit
SignalStep == TakeHup \/ HupDone \/ TakeTerm \/ ShutdownReturns
WatcherStep == TakeEvent \/ EventDone \/ WatcherEnds

Next ==
    \/ MainStep \/ BadHeader \/ NilWatcher \/ AbortStartup \/ ServeFails
    \/ SignalStep \/ \E s \in Signals : SendSignal(s)
    \/ WatcherStep
    \/ \E l \in Loaders : Load(l)
    \/ \E r \in Requests : Accept(r) \/ Serve(r)
    \/ \E k \in Archives : Truncate(k) \/ Rename(k)
    \/ \E i \in Inodes : FinishWrite(i)
    \/ Exited

\* Every goroutine that can take a step takes one in the end, and a request is
\* never held up for ever by its client (--write-timeout is 30s by default).
\* Nothing is assumed of the clients, of who sends signals, or of when archives
\* are changed, but a change that has begun is finished.
Fairness ==
    /\ WF_vars(MainStep)
    /\ WF_vars(SignalStep)
    /\ WF_vars(WatcherStep)
    /\ \A l \in Loaders : WF_vars(Load(l))
    /\ \A r \in Requests : WF_vars(Serve(r))
    /\ \A i \in Inodes : WF_vars(FinishWrite(i))

Spec == Init /\ [][Next]_vars
FairSpec == Spec /\ Fairness

---------------------------------------------------------------------------
(* Properties.                                                             *)

\* Type invariant of the goroutines, signals and events.
ServerTypeOK ==
    /\ autoreload \in BOOLEAN /\ shutting \in BOOLEAN /\ serving \in BOOLEAN
    /\ main \in {"boot", "load", "loaded", "setup", "serve", "closing", "unwatched", "closed", "exited"}
    /\ sig \in {"off", "wait", "reload", "shutdown", "ended"}
    /\ watch \in {"off", "wait", "reload", "ended"}
    /\ sigch \in {<<>>} \union {<<s>> : s \in Signals}
    /\ sent \in 0 .. MaxSignals
    /\ watched \in Inodes \union {None}
    /\ events \in 0 .. MaxEvents

TypeOK == HandlerTypeOK /\ ServerTypeOK

\* Every request is answered although reloads ask for the write lock, and requests
\* that arrive meanwhile wait behind them, unless the process ends.
RequestAnswered ==
    \A r \in Requests : (rpc[r] # "idle") ~> (rpc[r] = "idle" \/ ~Running)

\* A reload comes to its end, by success or by failure, although requests hold
\* the lock it needs and the two reloading goroutines compete for it.
ReloadFinishes ==
    \A l \in Loaders : (lpc[l] # "idle") ~> (lpc[l] = "idle" \/ ~Running)

\* A SIGINT or SIGTERM that the signal goroutine has taken ends the process, whatever
\* the requests in progress, the reloads and the main goroutine are doing then.
ShutdownEnds == (sig = "shutdown") ~> ~Running

\* The archive that is watched is being written over while it is served.
WatchedOverwrite ==
    main = "serve" /\ autoreload /\ bytes[watched] = Torn

IndexIsFresh ==
    main = "serve" /\ autoreload => methodmap[1] = bytes[watched]

\* With --autoreload and no signals, the index settles on the last content that is
\* written over the watched archive, although the first events of a write make
\* reloads that fail and events are merged while a reload is under way.
AutoreloadSettles == WatchedOverwrite ~> [](sent = 0 => IndexIsFresh)

\* A SIGHUP sent while the server serves is taken: "reload zip: kill -HUP <pid>"
\* (README.md:55-56).
HangupIsTaken ==
    (main = "serve" /\ sigch = <<"HUP">>) ~> (sigch = <<>> \/ main # "serve")

\* Shutdown is graceful (webserver.go:799): no body is cut off by it, and the
\* process does not exit under a request.
GracefulShutdown ==
    /\ \A r \in Requests : body[r] # Closed
    /\ main = "exited" /\ shutting => \A r \in Requests : rpc[r] = "idle"

\* With --autoreload a change of an archive that is served is detected and the
\* archive is loaded again (README.md:57), whichever archive it is.
AutoreloadFollowsEveryArchive ==
    \A k \in Archives :
        (main = "serve" /\ autoreload /\ bytes[path[k]] = Torn)
            ~> (main # "serve" \/ methodmap[k] = bytes[path[k]])

\* With --autoreload the index settles on the last content written over the watched
\* archive (README.md:57), also when a SIGHUP makes the two reloads overlap.
AutoreloadSettlesUnderHangup == WatchedOverwrite ~> []IndexIsFresh
====
