---- MODULE AtomicArchive ----
(***************************************************************************)
(* What the handler promises: there is one current index, replaced as a    *)
(* whole, and every answer is the content one index promised: the index    *)
(* that was current at an instant between the call and the return.         *)
(***************************************************************************)
EXTENDS Naturals

CONSTANTS
    NArchives, MaxWrites,
    Requests,
    Rewritten,  \* archives whose files are changed in place
    None, Garbled, Closed

VARIABLES
    current,   \* current[k] is the version of archive k the index describes
    shut,      \* the handler has been closed
    phase,     \* each request: "idle", "called", "found", "answered"
    promised,  \* what the index promised the request
    sent       \* the body of its answer

Promises == [arch : 1 .. NArchives, ver : 0 .. MaxWrites]
avars == <<current, shut, phase, promised, sent>>

AInit ==
    /\ current = <<>>
    /\ shut = FALSE
    /\ phase = [r \in Requests |-> "idle"]
    /\ promised = [r \in Requests |-> None]
    /\ sent = [r \in Requests |-> None]

\* A reload replaces the whole index while no request stands between the index
\* and its answer.
Install ==
    /\ current' \in [1 .. NArchives -> 0 .. MaxWrites]
    /\ \A r \in Requests : phase[r] # "found"
    /\ UNCHANGED <<shut, phase, promised, sent>>

Shut ==
    /\ ~shut
    /\ shut' = TRUE
    /\ UNCHANGED <<current, phase, promised, sent>>

Call(r) ==
    /\ phase[r] = "idle"
    /\ phase' = [phase EXCEPT ![r] = "called"]
    /\ UNCHANGED <<current, shut, promised, sent>>

Find(r) ==
    /\ phase[r] = "called"
    /\ \E p \in Promises :
         /\ p.arch \in DOMAIN current /\ current[p.arch] = p.ver
         /\ promised' = [promised EXCEPT ![r] = p]
    /\ phase' = [phase EXCEPT ![r] = "found"]
    /\ UNCHANGED <<current, shut, sent>>

\* A name that is not served, or a client that has the content already.
AnswerWithoutBody(r) ==
    /\ phase[r] \in {"called", "found"}
    /\ phase' = [phase EXCEPT ![r] = "answered"]
    /\ UNCHANGED <<current, shut, promised, sent>>

\* The body is the one the index promised.  The two exceptions are the file that
\* was written over in place, and the handler that was closed under the request.
Answer(r) ==
    /\ phase[r] = "found"
    /\ \/ sent' = [sent EXCEPT ![r] = promised[r].ver]
       \/ promised[r].arch \in Rewritten /\ sent' = [sent EXCEPT ![r] = Garbled]
       \/ shut /\ sent' = [sent EXCEPT ![r] = Closed]
    /\ phase' = [phase EXCEPT ![r] = "answered"]
    /\ UNCHANGED <<current, shut, promised>>

Leave(r) ==
    /\ phase[r] = "answered"
    /\ phase' = [phase EXCEPT ![r] = "idle"]
    /\ promised' = [promised EXCEPT ![r] = None]
    /\ sent' = [sent EXCEPT ![r] = None]
    /\ UNCHANGED <<current, shut>>

ANext ==
    \/ Install \/ Shut
    \/ \E r \in Requests :
         Call(r) \/ Find(r) \/ AnswerWithoutBody(r) \/ Answer(r) \/ Leave(r)

ASpec == AInit /\ [][ANext]_avars
====
