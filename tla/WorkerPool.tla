----------------------------- MODULE WorkerPool -----------------------------
(***************************************************************************)
(* WorkerPool (src/src/thread_pool.cpp): a fixed set of worker threads and *)
(* the one thread that owns the pool, the event loop, which submits jobs   *)
(* and finally calls drain_and_stop().                                     *)
(*                                                                         *)
(* A stretch of code that holds mutex_ is one action.  Waiting on a        *)
(* condition variable ends an action; a thread that is woken has to take   *)
(* the mutex again, so being woken and going on are two steps.  notify_one *)
(* and notify_all after the unlock are steps of their own.                 *)
(***************************************************************************)
EXTENDS Integers, Sequences, FiniteSets

CONSTANTS
    Worker,       \* the threads of threads_
    MaxPending,   \* max_pending_
    Timeout,      \* the timeouts drain_and_stop() may be called with
    MaxJobs,      \* bound on the number of submissions, for model checking
    NoJob

ASSUME PoolAssumption ==
    /\ IsFiniteSet(Worker) /\ Worker # {}
    /\ MaxPending \in Nat
    /\ Timeout \subseteq Nat
    /\ MaxJobs \in Nat
    /\ NoJob \notin Nat

VARIABLES
    queue,        \* queue_
    accepting,    \* accepting_
    stopping,     \* stopping_
    worker,       \* where each worker is: "lock", "waiting", "running", "exited"
    job,          \* the job a running worker executes
    owner,        \* where the owner is
    timeout,      \* the argument of drain_and_stop(), once it is called
    \* History: the jobs in the order they were accepted and taken, those whose
    \* handler has returned (what completed_ counts), those cleared from the queue.
    accepted, started, done, discarded

poolstate == <<queue, accepting, stopping, worker, job, owner, timeout>>
vars == <<poolstate, accepted, started, done, discarded>>

OwnerAt ==
    {"serving",   \* between calls
     "notify",    \* in try_submit(), before notify_one
     "draining",  \* in wait_for() on queue_drained_
     "drained",   \* woken from it, about to retake the mutex
     "stopped",   \* stopping_ is set, before notify_all
     "joining",   \* in the joins
     "joined"}

Init ==
    /\ queue = <<>>
    /\ accepting = TRUE
    /\ stopping = FALSE
    /\ worker = [w \in Worker |-> "lock"]
    /\ job = [w \in Worker |-> NoJob]
    /\ owner = "serving"
    /\ timeout = 0
    /\ accepted = <<>>
    /\ started = <<>>
    /\ done = {}
    /\ discarded = <<>>

(***************************************************************************)
(* The owner.                                                              *)
(***************************************************************************)
push_back(next) ==
    /\ owner = "serving"
    /\ Len(accepted) < MaxJobs
    /\ LET j == Len(accepted) + 1
       IN queue' = Append(queue, j) /\ accepted' = Append(accepted, j)
    /\ owner' = next
    /\ UNCHANGED <<accepting, stopping, worker, job, timeout, started, done, discarded>>

\* Mutants: a notification only when the queue was empty; no notification.
try_submit_edge ==
    /\ accepting /\ Len(queue) < MaxPending
    /\ push_back(IF queue = <<>> THEN "notify" ELSE "serving")
try_submit_silent == accepting /\ Len(queue) < MaxPending /\ push_back("serving")

\* try_submit(): refused when closed or full, which changes nothing; otherwise
\* the job is queued, and the notification follows after the unlock.
try_submit == accepting /\ Len(queue) < MaxPending /\ push_back("notify")

\* notify_one wakes some waiting worker, if there is one.
notify_one ==
    /\ owner = "notify"
    /\ owner' = "serving"
    /\ IF \E w \in Worker : worker[w] = "waiting"
         THEN \E w \in Worker :
                worker[w] = "waiting" /\ worker' = [worker EXCEPT ![w] = "lock"]
         ELSE UNCHANGED worker
    /\ UNCHANGED <<queue, accepting, stopping, job, timeout,
                   accepted, started, done, discarded>>

\* Mutant: the queue is not closed.
drain_without_closing(t) ==
    /\ owner = "serving"
    /\ ~(~accepting /\ stopping)
    /\ timeout' = t
    /\ IF t > 0 /\ queue # <<>>
         THEN owner' = "draining" /\ UNCHANGED stopping
         ELSE owner' = "stopped" /\ stopping' = TRUE
    /\ UNCHANGED <<queue, accepting, worker, job, accepted, started, done, discarded>>

\* The first critical section of drain_and_stop(): close the queue, then wait
\* for it to drain if it is not empty and the timeout allows.
drain_and_stop(t) ==
    /\ owner = "serving"
    /\ ~(~accepting /\ stopping)
    /\ accepting' = FALSE
    /\ timeout' = t
    /\ IF t > 0 /\ queue # <<>>
         THEN owner' = "draining" /\ UNCHANGED stopping
         ELSE owner' = "stopped" /\ stopping' = TRUE
    /\ UNCHANGED <<queue, worker, job, accepted, started, done, discarded>>

\* wait_for() returns once its predicate holds, and goes back to waiting after
\* a wakeup that finds it false.
drain_wake ==
    /\ owner = "drained"
    /\ IF queue = <<>>
         THEN owner' = "stopped" /\ stopping' = TRUE
         ELSE owner' = "draining" /\ UNCHANGED stopping
    /\ UNCHANGED <<queue, accepting, worker, job, timeout,
                   accepted, started, done, discarded>>

\* The timeout passes: the mutex is retaken, the predicate is tried a last
\* time, and what is still queued is cleared.
drain_timeout ==
    /\ owner = "draining"
    /\ queue' = <<>>
    /\ discarded' = discarded \o queue
    /\ owner' = "stopped"
    /\ stopping' = TRUE
    /\ UNCHANGED <<accepting, worker, job, timeout, accepted, started, done>>

announce_stop(woken) ==
    /\ owner = "stopped"
    /\ owner' = "joining"
    /\ worker' = [w \in Worker |-> IF w \in woken THEN "lock" ELSE worker[w]]
    /\ UNCHANGED <<queue, accepting, stopping, job, timeout,
                   accepted, started, done, discarded>>

\* Mutant: only one worker is told to stop.
stop_notify_one ==
    \E woken \in SUBSET {w \in Worker : worker[w] = "waiting"} :
        Cardinality(woken) <= 1 /\ announce_stop(woken)

\* notify_all wakes every waiting worker.
stop_notify_all == announce_stop({w \in Worker : worker[w] = "waiting"})

join ==
    /\ owner = "joining"
    /\ \A w \in Worker : worker[w] = "exited"
    /\ owner' = "joined"
    /\ UNCHANGED <<queue, accepting, stopping, worker, job, timeout,
                   accepted, started, done, discarded>>

(***************************************************************************)
(* The workers.                                                            *)
(***************************************************************************)
\* The critical section of worker_loop(): sleep while the predicate is false,
\* return when stopping with nothing left, else take the oldest job and tell
\* the owner when it was the last.
worker_wait(w) ==
    /\ worker[w] = "lock"
    /\ ~stopping /\ queue = <<>>
    /\ worker' = [worker EXCEPT ![w] = "waiting"]
    /\ UNCHANGED <<queue, accepting, stopping, job, owner, timeout,
                   accepted, started, done, discarded>>

worker_return(w) ==
    /\ worker[w] = "lock"
    /\ stopping /\ queue = <<>>
    /\ worker' = [worker EXCEPT ![w] = "exited"]
    /\ UNCHANGED <<queue, accepting, stopping, job, owner, timeout,
                   accepted, started, done, discarded>>

take_job(w, j, rest) ==
    /\ worker[w] = "lock"
    /\ queue # <<>>
    /\ job' = [job EXCEPT ![w] = j]
    /\ started' = Append(started, j)
    /\ queue' = rest
    /\ owner' = IF rest = <<>> /\ owner = "draining" THEN "drained" ELSE owner
    /\ worker' = [worker EXCEPT ![w] = "running"]
    /\ UNCHANGED <<accepting, stopping, timeout, accepted, done, discarded>>

\* Mutant: the newest job first.
worker_take_newest(w) ==
    take_job(w, queue[Len(queue)], SubSeq(queue, 1, Len(queue) - 1))

worker_take(w) == take_job(w, Head(queue), Tail(queue))

\* handler_ returns and completed_ is incremented.
worker_complete(w) ==
    /\ worker[w] = "running"
    /\ done' = done \cup {job[w]}
    /\ job' = [job EXCEPT ![w] = NoJob]
    /\ worker' = [worker EXCEPT ![w] = "lock"]
    /\ UNCHANGED <<queue, accepting, stopping, owner, timeout,
                   accepted, started, discarded>>

\* A condition variable may wake a thread for no reason.
spurious_wakeup ==
    /\ \/ /\ \E w \in Worker :
               worker[w] = "waiting" /\ worker' = [worker EXCEPT ![w] = "lock"]
          /\ UNCHANGED owner
       \/ owner = "draining" /\ owner' = "drained" /\ UNCHANGED worker
    /\ UNCHANGED <<queue, accepting, stopping, job, timeout,
                   accepted, started, done, discarded>>

worker_loop(w) == worker_wait(w) \/ worker_return(w) \/ worker_take(w) \/ worker_complete(w)

\* The owner's steps once it is inside a call.
in_call == notify_one \/ drain_wake \/ drain_timeout \/ stop_notify_all \/ join

\* A later call, the destructor's, finds the pool stopped and returns.
stop_again ==
    /\ owner = "joined"
    /\ ~accepting /\ stopping
    /\ UNCHANGED vars

Next ==
    \/ try_submit
    \/ \E t \in Timeout : drain_and_stop(t)
    \/ in_call
    \/ \E w \in Worker : worker_loop(w)
    \/ spurious_wakeup
    \/ stop_again

Spec == Init /\ [][Next]_vars

\* A thread that can run is eventually scheduled, a handler returns, and a
\* timeout passes.  The owner need never submit nor stop.
Fairness == WF_vars(in_call) /\ \A w \in Worker : WF_vars(worker_loop(w))
FairSpec == Spec /\ Fairness

(***************************************************************************)
(* Properties.                                                             *)
(***************************************************************************)
\* The shape of the state, with the bound on the queue.
TypeOK ==
    /\ queue \in Seq(Nat) /\ Len(queue) <= MaxPending
    /\ accepting \in BOOLEAN /\ stopping \in BOOLEAN
    /\ worker \in [Worker -> {"lock", "waiting", "running", "exited"}]
    /\ job \in [Worker -> Nat \cup {NoJob}]
    /\ owner \in OwnerAt
    /\ timeout \in Nat
    /\ accepted \in Seq(Nat) /\ started \in Seq(Nat) /\ discarded \in Seq(Nat)
    /\ done \in SUBSET Nat

Awake == {w \in Worker : worker[w] = "lock"}
Sleeping == {w \in Worker : worker[w] = "waiting"}

\* No wakeup is lost, although try_submit() notifies after it unlocked: while
\* any worker sleeps, every queued job has a worker of its own coming for it,
\* or the owner is about to wake one.
WorkConserving ==
    Sleeping # {} =>
        Len(queue) <= Cardinality(Awake) + (IF owner = "notify" THEN 1 ELSE 0)

\* No worker sleeps through the stop: drain_and_stop() never joins a thread
\* that is waiting for work, whichever way the drain ended.
NobodySleepsThroughStop ==
    owner \in {"joining", "joined"} => Sleeping = {}

\* Jobs are taken once each, in the order they were accepted, and only a drain
\* timeout drops any, from the tail; every job taken is being executed or done.
TakenInOrderOnce ==
    /\ accepted = started \o queue \o discarded
    /\ {started[i] : i \in DOMAIN started}
         = done \cup {job[w] : w \in {v \in Worker : worker[v] = "running"}}
    /\ \A v, w \in Worker : worker[v] = "running" /\ worker[w] = "running" /\ job[v] = job[w]
                              => v = w
    /\ \A w \in Worker : worker[w] = "running" => job[w] \notin done

\* When drain_and_stop() returns no handler is running or can run any more, and
\* every accepted job was executed to the end or discarded.
QuietAfterStop ==
    owner = "joined" =>
        /\ queue = <<>>
        /\ \A w \in Worker : worker[w] = "exited"
        /\ \A i \in DOMAIN accepted : accepted[i] \in done \/ i > Len(started)

\* Every accepted job is executed or discarded, and drain_and_stop() returns: no
\* job is stranded in the queue by a missed notification or by the stop, the drain
\* ends and every worker can be joined.
EverythingSettles ==
    /\ \A j \in 1..MaxJobs :
          (\E i \in DOMAIN accepted : accepted[i] = j)
              ~> (j \in done \/ \E i \in DOMAIN discarded : discarded[i] = j)
    /\ ~accepting ~> owner = "joined"

\* The pool implements the queue of jobs the event loop reasons with.
phaseBar == IF accepting THEN "open" ELSE IF owner = "joined" THEN "stopped" ELSE "closed"
Abstract == INSTANCE JobQueue WITH Job <- 1..MaxJobs, active <- job, phase <- phaseBar

\* To its owner the pool behaves like the bounded FIFO queue of JobQueue.
ImplementsJobQueue == Abstract!Spec
=============================================================================
