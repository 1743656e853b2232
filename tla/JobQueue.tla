------------------------------ MODULE JobQueue ------------------------------
(***************************************************************************)
(* What the worker pool promises the event loop                            *)
(* (src/include/cache/thread_pool.h): a bounded first-in first-out queue   *)
(* of jobs, each handed to one idle worker, that can be closed and then    *)
(* stopped.  Mutexes, condition variables and joins are left out.          *)
(***************************************************************************)
EXTENDS Integers, Sequences

CONSTANTS Job, Worker, MaxPending, NoJob

VARIABLES
    queue,    \* accepted jobs nobody has taken
    active,   \* the job each worker is executing, or NoJob
    phase     \* "open", then "closed" to new jobs, then "stopped"

poolvars == <<queue, active, phase>>

Init ==
    /\ queue = <<>>
    /\ active = [w \in Worker |-> NoJob]
    /\ phase = "open"

CanSubmit == phase = "open" /\ Len(queue) < MaxPending

Submit(j) ==
    /\ CanSubmit
    /\ queue' = Append(queue, j)
    /\ UNCHANGED <<active, phase>>

Take(w) ==
    /\ active[w] = NoJob
    /\ queue # <<>>
    /\ phase # "stopped"
    /\ active' = [active EXCEPT ![w] = Head(queue)]
    /\ queue' = Tail(queue)
    /\ UNCHANGED phase

Finish(w) ==
    /\ active[w] # NoJob
    /\ active' = [active EXCEPT ![w] = NoJob]
    /\ UNCHANGED <<queue, phase>>

Close == phase = "open" /\ phase' = "closed" /\ UNCHANGED <<queue, active>>

Discard == phase = "closed" /\ queue' = <<>> /\ UNCHANGED <<active, phase>>

\* All work that was taken is finished and none is left.
Stop ==
    /\ phase = "closed"
    /\ queue = <<>>
    /\ \A w \in Worker : active[w] = NoJob
    /\ phase' = "stopped"
    /\ UNCHANGED <<queue, active>>

Next ==
    \/ \E j \in Job : Submit(j)
    \/ \E w \in Worker : Take(w) \/ Finish(w)
    \/ Close
    \/ Discard
    \/ Stop

Spec == Init /\ [][Next]_poolvars
=============================================================================
