---- MODULE RWMutex ----
(***************************************************************************)
(* Go's sync.RWMutex as the handler uses it (rwlock, webserver.go:103).  A *)
(* writer that has announced itself makes every later RLock wait, and then *)
(* waits for the readers that already hold the lock; its Unlock lets all   *)
(* the readers that waited in before another writer can announce itself.   *)
(***************************************************************************)
CONSTANT NoOne  \* no writer has announced itself

VARIABLES
    writer,   \* the writer that has announced itself, or NoOne
    readers,  \* requests that hold the lock for reading
    blocked   \* requests whose RLock waits for the writer

lockVars == <<writer, readers, blocked>>

LockInit ==
    /\ writer = NoOne
    /\ readers = {}
    /\ blocked = {}

RLock(r) ==
    /\ IF writer = NoOne
         THEN readers' = readers \union {r} /\ UNCHANGED blocked
         ELSE blocked' = blocked \union {r} /\ UNCHANGED readers
    /\ UNCHANGED writer

RUnlock(r) ==
    /\ readers' = readers \ {r}
    /\ UNCHANGED <<writer, blocked>>

Announce(w) ==
    /\ writer = NoOne
    /\ writer' = w
    /\ UNCHANGED <<readers, blocked>>

\* w holds the lock: Lock() has returned.
Exclusive(w) == writer = w /\ readers = {}

Unlock ==
    /\ writer' = NoOne
    /\ readers' = readers \union blocked
    /\ blocked' = {}
====
