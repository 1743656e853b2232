-------------------------- MODULE ServerCounters --------------------------
(***************************************************************************)
(* Proofs about what the loop and the workers count and announce: the      *)
(* output and in-flight counters, the drain and the notices.               *)
(***************************************************************************)
EXTENDS ServerShape

(***************************************************************************)
(* The output counters and the drain.                                      *)
(***************************************************************************)
Balanced == \A c \in Client : Balance(conn[c]) = 0

\* The pending counter that backpressure, EPOLLOUT and drain_complete() rely on is
\* the length of the two output buffers, whoever stages, swaps or sends.
THEOREM PendingIsExact == Spec => []PendingExact
<1>1. Init => Balanced
  BY DEF Init, Balanced, Balance
<1>2. Shape /\ Balanced /\ [Next]_vars => Balanced'
  BY FootprintStep DEF Footprint, KeepsBalance, Balanced
<1>3. ASSUME Shape, Balanced PROVE PendingExact
  <2> SUFFICES ASSUME NEW c \in Client
               PROVE  conn[c].pending = Len(conn[c].staged) + Len(conn[c].out)
    BY Zenon DEF PendingExact
  <2>1. /\ conn[c].pending \in Int /\ Len(conn[c].staged) \in Nat /\ Len(conn[c].out) \in Nat
        /\ Balance(conn[c]) = 0
    <3>1. /\ conn[c].pending \in Int /\ conn[c].staged \in Seq(Response)
          /\ conn[c].out \in Seq(Response)
      BY <1>3 DEF Shape, ConnShape, ConnType
    <3> QED  BY <1>3, <3>1 DEF Balanced
  <2> DEFINE p == conn[c].pending
             s == Len(conn[c].staged)
             o == Len(conn[c].out)
  <2>2. p \in Int /\ s \in Nat /\ o \in Nat /\ p - s - o = 0
    BY <2>1 DEF Balance
  <2> HIDE DEF p, s, o
  <2>3. p = s + o
    BY ONLY <2>2
  <2> QED  BY <2>3 DEF p, s, o
<1> QED  BY <1>1, <1>2, <1>3, ShapeInvariant, PTL DEF Spec

\* Once the shutdown has begun nothing is read from a client and nothing is
\* submitted: the drain gets shorter.
THEOREM DrainsOnlyWhatWasSubmitted == Spec => DrainsOnly
<1>1. ASSUME Shape, [Next]_vars, draining
      PROVE  Len(queue') <= Len(queue) /\ \A c \in Client : conn'[c].in = conn[c].in
  <2>1. \A c \in Client : conn'[c].in = conn[c].in
    BY <1>1, FootprintStep DEF Footprint, KeepsInput
  <2>2. queue \in Seq(Job) /\ Len(queue) \in Nat
    BY <1>1 DEF Shape, PoolShape
  <2>3. CASE queue' = queue
    BY <2>1, <2>2, <2>3
  <2>4. ASSUME NEW c \in Client, process_submit(c) PROVE FALSE
    BY <1>1, <2>4 DEF process_submit, At, Shape, LoopShape
  <2>5. ASSUME NEW w \in Worker, worker_take(w) PROVE Len(queue') <= Len(queue)
    BY <2>2, <2>5 DEF worker_take, Pool!Take
  <2>6. CASE teardown_discard
    BY <2>2, <2>6 DEF teardown_discard, Pool!Discard
  <2> QED  BY <1>1, <2>1, <2>3, <2>4, <2>5, <2>6, QueueSteps
<1>2. Shape /\ [Next]_vars =>
        [draining => /\ Len(queue') <= Len(queue)
                     /\ \A c \in Client : conn'[c].in = conn[c].in]_vars
  BY <1>1
<1> QED  BY <1>2, ShapeInvariant, PTL DEF Spec, DrainsOnly

(***************************************************************************)
(* The in-flight counters.                                                 *)
(***************************************************************************)
Queued(c) == Count(Owners(queue), c)
Executing(c) == WorkersAt(c, {"check", "stage", "settle"})
Outstanding(c) == Queued(c) + Cardinality(Executing(c))

\* The teardown may discard queued jobs, which stay counted.
Counted ==
    \A c \in Client :
        /\ conn[c].inflight >= Outstanding(c)
        /\ phase = "open" => conn[c].inflight = Outstanding(c)

\* The queue is not opened again.
LEMMA PhaseSteps ==
    ASSUME Shape, [Next]_vars, phase' = "open"
    PROVE  phase = "open"
<1>1. ASSUME NEW c \in Client, connection_step(c)
      PROVE  phase' = phase
  BY <1>1, ZenonT(30)
  DEF connection_step, read_some, process_return, process_malformed, process_submit,
      process_reject, process_busy, flush_swap, flush_send, settle, interest_in,
      interest_out, Pool!Submit, pool
<1>2. ASSUME NEW w \in Worker, worker_step(w)
      PROVE  phase' = phase
  BY <1>2
  DEF worker_step, worker_take, enqueue_check, enqueue_stage, enqueue_settle,
      mark_close_after_flush, try_mark_notified, push_ready, poke, handler_returns,
      Pool!Take, Pool!Finish, pool
<1>3. CASE environment \/ UNCHANGED vars
  BY <1>3
  DEF environment, connect, client_send, client_recv, client_leave, request_shutdown, signal,
      deadline_passes, vars, pool
<1>4. CASE dispatch
  BY <1>4
  DEF dispatch, dispatch_listen, dispatch_completion, dispatch_shutdown, dispatch_signal,
      dispatch_conn, pool
<1>5. CASE \/ epoll_wait \/ batch_end \/ accept_return \/ accept_reject \/ accept_client
           \/ completions_swap \/ completions_next \/ quiesce_next \/ list_end \/ drain_queue
           \/ drain_inflight \/ drain_output \/ drain_deadline \/ teardown_close
           \/ teardown_discard \/ teardown_join \/ teardown
  BY <1>5
  DEF epoll_wait, batch_end, accept_return, accept_reject, accept_client, completions_swap,
      completions_next, quiesce_next, list_end, drain_queue, drain_inflight, drain_output,
      drain_deadline, teardown_close, teardown_discard, teardown_join, teardown,
      Pool!Close, Pool!Discard, Pool!Stop, pool
<1> QED  BY <1>1, <1>2, <1>3, <1>4, <1>5 DEF Next, loop_step

\* What makes up the outstanding requests of a connection.
LEMMA OutstandingType ==
    ASSUME Shape, NEW c \in Client
    PROVE  /\ Queued(c) \in Nat /\ Cardinality(Executing(c)) \in Nat
           /\ conn[c].inflight \in Int
<1>1. Owners(queue) \in Seq(Client)
  BY OwnersOf DEF Shape, PoolShape
<1>2. Executing(c) \in SUBSET Worker
  BY DEF Executing, WorkersAt
<1>3. conn[c].inflight \in Int
  BY DEF Shape, ConnShape, ConnType
<1> QED  BY <1>1, <1>2, <1>3, CountNat, WorkersFinite, Zenon DEF Queued

\* The same after a step.
LEMMA OutstandingTypeNext ==
    ASSUME Shape', NEW c \in Client
    PROVE  /\ Queued(c)' \in Nat /\ Cardinality(Executing(c)') \in Nat
           /\ conn'[c].inflight \in Int
<1>1. Owners(queue') \in Seq(Client)
  BY OwnersOf DEF Shape, PoolShape
<1>2. Executing(c)' \in SUBSET Worker
  BY DEF Executing, WorkersAt
<1>3. conn'[c].inflight \in Int
  BY DEF Shape, ConnShape, ConnType
<1> QED  BY <1>1, <1>2, <1>3, CountNat, WorkersFinite, Zenon DEF Queued

\* A step that leaves the sum alone, or changes it as it changes the counter.
LEMMA CountedBy ==
    ASSUME Shape, Shape', Counted, phase' = "open" => phase = "open",
           \A c \in Client : \/ conn'[c].inflight - conn[c].inflight
                                = Outstanding(c)' - Outstanding(c)
                             \/ /\ phase' # "open" /\ conn'[c].inflight = conn[c].inflight
                                /\ Outstanding(c)' <= Outstanding(c)
    PROVE  Counted'
<1> SUFFICES ASSUME NEW c \in Client
             PROVE  /\ conn'[c].inflight >= Outstanding(c)'
                    /\ phase' = "open" => conn'[c].inflight = Outstanding(c)'
  BY DEF Counted
<1> DEFINE a == conn[c].inflight
           b == conn'[c].inflight
           m == Outstanding(c)
           n == Outstanding(c)'
<1>1. a \in Int /\ b \in Int /\ m \in Nat /\ n \in Nat
  <2>1. Queued(c) \in Nat /\ Cardinality(Executing(c)) \in Nat /\ conn[c].inflight \in Int
    BY OutstandingType
  <2>2. Queued(c)' \in Nat /\ Cardinality(Executing(c)') \in Nat /\ conn'[c].inflight \in Int
    BY OutstandingTypeNext
  <2> QED  BY <2>1, <2>2 DEF Outstanding
<1>2. a >= m /\ (phase = "open" => a = m)
  BY DEF Counted
<1>3. b - a = n - m \/ (phase' # "open" /\ b = a /\ n <= m)
  OBVIOUS
<1> HIDE DEF a, b, m, n
<1>4. b >= n /\ (phase' = "open" => b = n)
  BY <1>1, <1>2, <1>3
<1> QED  BY <1>4 DEF b, n

\* Every step keeps the in-flight counters and what they count together.
LEMMA CountedStep ==
    ASSUME Shape, Counted, [Next]_vars
    PROVE  Counted'
<1> DEFINE P == {"check", "stage", "settle"}
<1>1. Shape'
  BY ShapeStep
<1>2. phase' = "open" => phase = "open"
  BY PhaseSteps
<1>3. /\ queue \in Seq(Job) /\ Owners(queue) \in Seq(Client)
      /\ \A c \in Client : /\ Queued(c) \in Nat /\ Cardinality(Executing(c)) \in Nat
                           /\ conn[c].inflight \in Int
  BY OutstandingType, OwnersOf DEF Shape, PoolShape
<1>4. ASSUME NEW w \in Worker, enqueue_settle(w) PROVE Counted'
  <2>1. active[w] # NoJob /\ worker[w].at = "settle" /\ UNCHANGED pool /\ Owner(w) \in Client
    BY <1>4, OwnerType DEF enqueue_settle, Answering
  <2>2. worker'[w].at \in {"notify", "mark"}
    BY <1>4 DEF enqueue_settle, WorkerGoto, Shape, PoolShape, WorkerType
  <2>3. \A c \in Client : conn'[c].inflight = conn[c].inflight - IF c = Owner(w) THEN 1 ELSE 0
    <3> DEFINE d == Owner(w)
               n == conn[d].inflight - 1
    <3>1. conn' = [conn EXCEPT ![d].inflight = n]
      BY <1>4 DEF enqueue_settle
    <3>2. conn \in [Client -> ConnType] /\ d \in Client
      BY <2>1 DEF Shape, ConnShape
    <3>3. \A c \in Client : conn'[c].inflight = IF c = d THEN n ELSE conn[c].inflight
      <4> HIDE DEF n, d
      <4> QED  BY <3>1, <3>2 DEF ConnType
    <3> QED  BY <1>3, <3>3
  <2> SUFFICES ASSUME NEW c \in Client
               PROVE  conn'[c].inflight - conn[c].inflight = Outstanding(c)' - Outstanding(c)
    BY <1>1, <1>2, CountedBy
  <2>4. Busy(w, c, P) <=> c = Owner(w)
    BY <2>1 DEF Busy
  <2>5. ~Busy(w, c, P)'
    BY <2>2 DEF Busy
  <2>6. Cardinality(Executing(c)') = Cardinality(Executing(c)) - IF c = Owner(w) THEN 1 ELSE 0
    <3>2. \A v \in Worker \ {w} : worker'[v] = worker[v] /\ active'[v] = active[v]
      BY <1>4 DEF enqueue_settle, WorkerGoto, pool, Shape, PoolShape
    <3> HIDE DEF P
    <3>3. /\ Cardinality(WorkersAt(c, P)) \in Nat
          /\ Cardinality(WorkersAt(c, P)') =
                Cardinality(WorkersAt(c, P)) + (IF Busy(w, c, P)' THEN 1 ELSE 0)
                                             - (IF Busy(w, c, P) THEN 1 ELSE 0)
      BY <3>2, OneWorker
    <3> QED  BY <2>4, <2>5, <3>3 DEF Executing, P
  <2>7. Queued(c)' = Queued(c)
    BY <2>1 DEF Queued, Owners, pool
  <2> QED  BY <1>3, <2>3, <2>6, <2>7 DEF Outstanding
<1>5. ASSUME NEW d \in Client, process_submit(d) PROVE Counted'
  <2> DEFINE j == <<d, NextFrame(d)>>
  <2>1. UNCHANGED <<worker, active>> /\ queue' = Append(queue, j)
    BY <1>5 DEF process_submit, Pool!Submit
  <2>2. j \in Job
    <3>1. conn[d].in \in Seq(Nat \ {0}) /\ conn[d].in # <<>>
      BY <1>5 DEF process_submit, Parsable, Shape, ConnShape, ConnType
    <3> QED  BY <3>1 DEF NextFrame, Job
  <2>3. \A c \in Client : conn'[c].inflight = conn[c].inflight + IF c = d THEN 1 ELSE 0
    <3> DEFINE s == Tail(conn[d].in)
               n == conn[d].inflight + 1
    <3>1. conn' = [conn EXCEPT ![d].in = s, ![d].inflight = n]
      BY <1>5 DEF process_submit
    <3>2. conn \in [Client -> ConnType]
      BY DEF Shape, ConnShape
    <3> HIDE DEF s
    <3>3. \A c \in Client : conn'[c].inflight = IF c = d THEN n ELSE conn[c].inflight
      <4> HIDE DEF n
      <4> QED  BY <3>1, <3>2 DEF ConnType
    <3> QED  BY <1>3, <3>3
  <2>4. Owners(queue') = Append(Owners(queue), d)
    <3>1. j[1] = d
      OBVIOUS
    <3> HIDE DEF j
    <3> QED  BY <1>3, <2>1, <2>2, <3>1, OwnersOf
  <2> SUFFICES ASSUME NEW c \in Client
               PROVE  conn'[c].inflight - conn[c].inflight = Outstanding(c)' - Outstanding(c)
    BY <1>1, <1>2, CountedBy
  <2>5. Queued(c)' = Queued(c) + IF c = d THEN 1 ELSE 0
    BY <1>3, <2>4, CountAppend DEF Queued
  <2>6. Executing(c)' = Executing(c)
    BY <2>1 DEF Executing, WorkersAt, Owner
  <2> QED  BY <1>3, <2>3, <2>5, <2>6 DEF Outstanding
<1>6. CASE (~ \E w \in Worker : enqueue_settle(w)) /\ (~ \E c \in Client : process_submit(c))
  <2>1. \A c \in Client : conn'[c].inflight = conn[c].inflight
    BY <1>6, FootprintStep DEF Footprint, InflightSteps
  <2>2. ASSUME NEW w \in Worker, worker_take(w) PROVE Counted'
    <3>1. /\ active[w] = NoJob /\ queue # <<>> /\ queue' = Tail(queue)
          /\ active' = [active EXCEPT ![w] = Head(queue)] /\ WorkerGoto(w, "check")
      BY <2>2 DEF worker_take, Pool!Take
    <3>2. Head(queue) \in Job /\ Head(queue) # NoJob
      <4>1. Head(queue) \in Job
        BY <1>3, <3>1
      <4> QED  BY <4>1, ServerAssumption, ZenonT(30) DEF Job
    <3>3. /\ worker'[w].at = "check" /\ active'[w] = Head(queue)
          /\ \A v \in Worker \ {w} : worker'[v] = worker[v] /\ active'[v] = active[v]
      BY <3>1 DEF WorkerGoto, Shape, PoolShape, WorkerType
    <3> SUFFICES ASSUME NEW c \in Client
                 PROVE  conn'[c].inflight - conn[c].inflight = Outstanding(c)' - Outstanding(c)
      BY <1>1, <1>2, CountedBy
    <3>4. ~Busy(w, c, P)
      BY <3>1 DEF Busy
    <3>5. Busy(w, c, P)' <=> Head(queue)[1] = c
      BY <3>2, <3>3 DEF Busy, Owner
    <3>6. Cardinality(Executing(c)') = Cardinality(Executing(c)) + IF Head(queue)[1] = c THEN 1 ELSE 0
      <4> HIDE DEF P
      <4>1. /\ Cardinality(WorkersAt(c, P)) \in Nat
            /\ Cardinality(WorkersAt(c, P)') =
                 Cardinality(WorkersAt(c, P)) + (IF Busy(w, c, P)' THEN 1 ELSE 0)
                                              - (IF Busy(w, c, P) THEN 1 ELSE 0)
        BY <3>3, OneWorker
      <4> QED  BY <3>4, <3>5, <4>1 DEF Executing, P
    <3>7. Queued(c) = Queued(c)' + IF Head(queue)[1] = c THEN 1 ELSE 0
      <4>1. /\ Owners(queue) # <<>> /\ Head(Owners(queue)) = Head(queue)[1]
            /\ Owners(queue') = Tail(Owners(queue))
        BY <1>3, <3>1, OwnersOf
      <4> QED  BY <1>3, <4>1, CountTail DEF Queued
    <3>8. Queued(c)' \in Nat
      BY <1>1, OutstandingTypeNext
    <3> DEFINE x == IF Head(queue)[1] = c THEN 1 ELSE 0
    <3>9. /\ conn'[c].inflight - conn[c].inflight = 0 /\ x \in Int
          /\ Cardinality(Executing(c)') = Cardinality(Executing(c)) + x
          /\ Queued(c) = Queued(c)' + x
      BY <1>3, <2>1, <3>6, <3>7
    <3> HIDE DEF x
    <3> QED  BY <1>3, <3>8, <3>9 DEF Outstanding
  <2>3. ASSUME NEW w \in Worker, worker_step(w), ~worker_take(w), queue' = queue PROVE Counted'
    <3>1. ASSUME NEW c \in Client PROVE Busy(w, c, P)' <=> Busy(w, c, P)
      <4>1. CASE enqueue_check(w) \/ enqueue_stage(w)
        <5>1. /\ worker[w].at \in P /\ active' = active
          BY <4>1 DEF enqueue_check, enqueue_stage, Answering, pool
        <5>2. worker'[w].at \in P
          BY <4>1 DEF enqueue_check, enqueue_stage, Shape, PoolShape
        <5> QED  BY <5>1, <5>2 DEF Busy, Owner
      <4>2. CASE mark_close_after_flush(w) \/ try_mark_notified(w) \/ push_ready(w) \/ poke(w)
        <5>1. PICK p \in {"notify", "push", "poke", "return"} : WorkerGoto(w, p)
          BY <4>2 DEF mark_close_after_flush, try_mark_notified, push_ready, poke
        <5>2. worker[w].at \notin P
          BY <4>2 DEF mark_close_after_flush, try_mark_notified, push_ready, poke, Answering
        <5>3. worker'[w].at \notin P
          BY <5>1, WorkerMoves, ZenonT(30) DEF WorkerGoto, Shape
        <5> QED  BY <5>2, <5>3 DEF Busy
      <4>3. CASE handler_returns(w)
        <5>1. /\ worker[w].at \notin P /\ worker'[w].at \notin P
          BY <4>3 DEF handler_returns, Shape, PoolShape
        <5> QED  BY <5>1 DEF Busy
      <4> QED  BY <1>6, <2>3, <4>1, <4>2, <4>3 DEF worker_step
    <3> SUFFICES ASSUME NEW c \in Client
                 PROVE  conn'[c].inflight - conn[c].inflight = Outstanding(c)' - Outstanding(c)
      BY <1>1, <1>2, CountedBy
    <3>2. Cardinality(Executing(c)') = Cardinality(Executing(c))
      <4>1. \A v \in Worker \ {w} : worker'[v] = worker[v] /\ active'[v] = active[v]
        BY <2>3, OthersRest
      <4>2. Busy(w, c, P)' <=> Busy(w, c, P)
        BY <3>1
      <4> HIDE DEF P
      <4>3. /\ Cardinality(WorkersAt(c, P)) \in Nat
            /\ Cardinality(WorkersAt(c, P)') =
                 Cardinality(WorkersAt(c, P)) + (IF Busy(w, c, P)' THEN 1 ELSE 0)
                                              - (IF Busy(w, c, P) THEN 1 ELSE 0)
        BY <4>1, OneWorker
      <4> QED  BY <4>2, <4>3 DEF Executing, P
    <3>3. Queued(c)' = Queued(c)
      BY <2>3 DEF Queued, Owners
    <3> QED  BY <1>3, <2>1, <3>2, <3>3 DEF Outstanding
  <2>4. CASE queue' = queue /\ ~ \E w \in Worker : worker_step(w)
    <3>1. worker' = worker /\ active' = active
      BY <2>4, WorkersRest
    <3>2. \A c \in Client : Outstanding(c)' = Outstanding(c)
      BY <2>4, <3>1 DEF Outstanding, Queued, Owners, Executing, WorkersAt, Owner
    <3>3. \A c \in Client : Outstanding(c) \in Int /\ conn[c].inflight \in Int
      BY <1>3 DEF Outstanding
    <3>4. \A c \in Client : conn'[c].inflight - conn[c].inflight = Outstanding(c)' - Outstanding(c)
      BY <2>1, <3>2, <3>3
    <3> QED  BY <1>1, <1>2, <3>4, CountedBy
  <2>5. CASE teardown_discard
    <3>1. phase' = "closed" /\ queue' = <<>> /\ worker' = worker /\ active' = active
      BY <2>5 DEF teardown_discard, Pool!Discard
    <3> SUFFICES ASSUME NEW c \in Client PROVE Outstanding(c)' <= Outstanding(c)
      BY <1>1, <1>2, <2>1, <3>1, CountedBy
    <3>2. Executing(c)' = Executing(c)
      BY <3>1 DEF Executing, WorkersAt, Owner
    <3>3. Queued(c)' = 0
      <4>1. Owners(queue') = <<>>
        BY <3>1 DEF Owners
      <4> QED  BY <4>1, CountEmpty DEF Queued
    <3> QED  BY <1>3, <3>2, <3>3 DEF Outstanding
  <2> QED  BY <1>6, <2>2, <2>3, <2>4, <2>5, QueueSteps
<1> QED  BY <1>4, <1>5, <1>6

\* The counter that limits a connection's window and holds the drain is never less
\* than what is queued or executed.
LEMMA CountedInvariant == Spec => []Counted
<1>1. ASSUME Init PROVE Counted
  <2> SUFFICES ASSUME NEW c \in Client PROVE Outstanding(c) = 0 /\ conn[c].inflight = 0
    BY DEF Counted
  <2>1. queue = <<>> /\ \A w \in Worker : active[w] = NoJob
    BY <1>1 DEF Init, Pool!Init
  <2>2. Executing(c) = {} /\ Owners(queue) = <<>>
    BY <2>1 DEF Executing, WorkersAt, Owners
  <2>3. Queued(c) = 0 /\ Cardinality(Executing(c)) = 0
    BY <2>2, CountEmpty, FS_EmptySet DEF Queued
  <2>4. conn[c].inflight = 0
    BY <1>1 DEF Init
  <2> QED  BY <2>3, <2>4 DEF Outstanding
<1>2. Shape /\ Counted /\ [Next]_vars => Counted'
  BY CountedStep
<1> QED  BY <1>1, <1>2, ShapeInvariant, PTL DEF Spec

\* Until the teardown the in-flight counter of a connection is exactly the number of
\* its requests that are queued or being executed.
THEOREM InflightIsExact == Spec => []InflightExact
<1>1. ASSUME Shape, Counted PROVE InflightExact
  <2> SUFFICES ASSUME phase = "open", NEW c \in Client
               PROVE  conn[c].inflight =
                        Cardinality({i \in DOMAIN queue : queue[i][1] = c})
                        + Cardinality(WorkersAt(c, {"check", "stage", "settle"}))
    BY DEF InflightExact
  <2>1. queue \in Seq(Job)
    BY <1>1 DEF Shape, PoolShape
  <2>2. Cardinality({i \in DOMAIN queue : queue[i][1] = c}) = Queued(c)
    BY <2>1, OwnersOf DEF Queued
  <2>3. conn[c].inflight = Outstanding(c)
    BY <1>1 DEF Counted
  <2> QED  BY <2>2, <2>3 DEF Outstanding, Executing
<1> QED  BY <1>1, CountedInvariant, ShapeInvariant, PTL

(***************************************************************************)
(* Notices.                                                                *)
(***************************************************************************)
Visits(c) == IF Visiting THEN Count(loop.todo, c) ELSE 0
Pushing(c) == WorkersAt(c, {"push"})
Bit(c) == IF conn[c].notified THEN 1 ELSE 0

\* The two halves of NoticeSound.
OneNotice == \A c \in Client : Notices(c) = Bit(c)
Woken ==
    ready # <<>> => \/ completion_fd
                    \/ loop.at = "swap"
                    \/ \E w \in Worker : worker[w].at = "poke"

\* What makes up the notices of a connection.
LEMMA NoticesType ==
    ASSUME Shape, NEW c \in Client
    PROVE  /\ Count(ready, c) \in Nat /\ Visits(c) \in Nat /\ Cardinality(Pushing(c)) \in Nat
           /\ Notices(c) = Count(ready, c) + Visits(c) + Cardinality(Pushing(c))
           /\ Bit(c) \in {0, 1}
<1>1. ready \in Seq(Client) /\ loop.todo \in Seq(Client)
  BY DEF Shape, PoolShape, LoopShape, LoopType
<1>2. Pushing(c) \in SUBSET Worker
  BY DEF Pushing, WorkersAt
<1>3. Count(ready, c) \in Nat /\ Count(loop.todo, c) \in Nat /\ Cardinality(Pushing(c)) \in Nat
  BY <1>1, <1>2, CountNat, WorkersFinite, ZenonT(30)
<1> QED  BY <1>3 DEF Notices, Visits, Pushing, Bit

\* drain_completions() goes through its list alone: what else the loop does adds
\* nothing to it and takes nothing from it.
LEMMA VisitsKept ==
    ASSUME Shape, [Next]_vars, ~completions_swap, ~completions_next
    PROVE  \A c \in Client : Visits(c)' = Visits(c)
<1> USE DEF Shape, LoopShape, LoopType, Handling, Between
<1>1. CASE loop' = loop
  BY <1>1 DEF Visits, Visiting
<1>2. CASE Visiting' = Visiting /\ loop'.todo = loop.todo
  BY <1>2 DEF Visits
<1>3. CASE ~Visiting /\ ~Visiting'
  BY <1>3 DEF Visits
<1>4. CASE environment \/ UNCHANGED vars
  BY <1>1, <1>4, ZenonT(30)
  DEF environment, connect, client_send, client_recv, client_leave, request_shutdown, signal,
      deadline_passes, vars
<1>5. ASSUME NEW w \in Worker, worker_step(w) PROVE loop' = loop
  BY <1>5
  DEF worker_step, worker_take, enqueue_check, enqueue_stage, enqueue_settle,
      mark_close_after_flush, try_mark_notified, push_ready, poke, handler_returns
<1>6. CASE dispatch
  <2>1. ~Visiting
    BY <1>6 DEF dispatch, Visiting
  <2>2. PICK e \in loop.batch :
          \/ dispatch_listen(e) \/ dispatch_completion(e) \/ dispatch_shutdown(e)
          \/ dispatch_signal(e) \/ dispatch_conn(e)
    BY <1>6 DEF dispatch
  <2>3. CASE dispatch_listen(e) \/ dispatch_completion(e) \/ dispatch_signal(e)
    <3>1. loop'.at \in {"accept", "dispatch", "swap"} /\ loop'.conn = loop.conn
      BY <2>3, Zenon DEF dispatch_listen, dispatch_completion, dispatch_signal, Take
    <3> QED  BY <1>3, <1>6, <2>1, <3>1 DEF dispatch, Visiting
  <2>4. CASE dispatch_shutdown(e)
    <3>1. loop'.at \in {"each", "dispatch"} /\ loop'.conn = loop.conn
      BY <2>4, ZenonT(30) DEF dispatch_shutdown, Take
    <3> QED  BY <1>3, <1>6, <2>1, <3>1 DEF dispatch, Visiting
  <2>5. CASE dispatch_conn(e)
    <3> DEFINE b == loop.batch \ {e}
               k == connections[e.fd]
               v == e.events
    <3>0. \/ loop' = [loop EXCEPT !.at = "dispatch", !.batch = b]
          \/ \E p \in {"flush", "read"} :
               loop' = [loop EXCEPT !.at = p, !.batch = b, !.conn = k, !.events = v,
                                    !.after = "read", !.back = "dispatch"]
      BY <2>5, Zenon DEF dispatch_conn, Take
    <3> HIDE DEF b, k, v
    <3>1. \/ loop'.at = "dispatch" /\ loop'.conn = loop.conn
          \/ loop'.at \in {"flush", "read"} /\ loop'.back = "dispatch"
      BY <3>0, ZenonT(30)
    <3> QED  BY <1>3, <1>6, <2>1, <3>1 DEF dispatch, Visiting
  <2> QED  BY <2>2, <2>3, <2>4, <2>5
<1>7. ASSUME NEW c \in Client, connection_step(c)
      PROVE  (Visiting' = Visiting /\ loop'.todo = loop.todo) \/ (~Visiting /\ ~Visiting')
  <2>1. loop.conn = c /\ loop.at \in Handling /\ c # None
    BY <1>7, ZenonT(30)
    DEF connection_step, read_some, process_return, process_malformed, process_submit,
        process_reject, process_busy, flush_swap, flush_send, settle, interest_in,
        interest_out, At
  <2>2. \/ loop' = loop \/ Done
        \/ /\ loop'.at \in Handling /\ loop'.conn = loop.conn /\ loop'.todo = loop.todo
           /\ loop'.back = loop.back
    <3>1. CASE \/ read_some(c) \/ process_return(c) \/ process_malformed(c)
               \/ process_submit(c) \/ process_reject(c) \/ process_busy(c)
      BY <3>1, ZenonT(30)
      DEF read_some, process_return, process_malformed, process_submit, process_reject,
          process_busy, Goto, FlushThenSettle
    <3>2. CASE flush_swap(c) \/ flush_send(c)
      BY <3>2, ZenonT(30) DEF flush_swap, flush_send, Goto
    <3>3. CASE settle(c) \/ interest_in(c) \/ interest_out(c)
      BY <3>3, ZenonT(30) DEF settle, interest_in, interest_out
    <3> QED  BY <1>7, <3>1, <3>2, <3>3 DEF connection_step
  <2>3. CASE Done
    <3>1. loop'.at = loop.back /\ loop'.conn = None /\ loop'.todo = loop.todo
      BY <2>3 DEF Done
    <3> QED  BY <2>1, <3>1, Zenon DEF Visiting
  <2> QED  BY <2>1, <2>2, <2>3 DEF Visiting
<1>8. CASE list_end
  <2>1. /\ loop.todo = <<>> /\ loop'.todo = <<>> /\ loop'.at \in {"dispatch", "teardown"}
        /\ loop.conn = None /\ loop'.conn = None
    BY <1>8 DEF list_end
  <2> QED  BY <2>1, CountEmpty DEF Visits, Visiting
<1>9. CASE quiesce_next
  <2>1. /\ loop.at = "each" /\ loop.conn = None /\ loop.back = "each"
        /\ loop'.at = "arm" /\ loop'.back = "each"
    BY <1>9 DEF quiesce_next
  <2> QED  BY <1>3, <2>1 DEF Visiting
<1>10. CASE \/ epoll_wait \/ batch_end \/ accept_return \/ drain_queue \/ drain_inflight
            \/ drain_output \/ drain_deadline \/ teardown_close \/ teardown_join \/ teardown
  <2>1. loop.at \notin {"ready"} \cup Handling
    BY <1>10
    DEF epoll_wait, batch_end, accept_return, drain_queue, drain_inflight, drain_output,
        drain_deadline, teardown_close, teardown_join, teardown
  <2>2. loop'.at # "ready" /\ loop'.conn = loop.conn
    <3>1. CASE \/ epoll_wait \/ batch_end \/ accept_return
               \/ teardown_close \/ teardown_join \/ teardown
      BY <3>1, ZenonT(30)
      DEF epoll_wait, batch_end, accept_return, teardown_close, teardown_join, teardown, Goto
    <3>2. CASE drain_queue \/ drain_inflight \/ drain_output \/ drain_deadline
      BY <3>2, ZenonT(30) DEF drain_queue, drain_inflight, drain_output, drain_deadline, Goto, StopRunning
    <3> QED  BY <1>10, <3>1, <3>2
  <2> QED  BY <1>3, <2>1, <2>2 DEF Visiting
<1>11. CASE accept_reject \/ accept_client \/ teardown_discard
  BY <1>1, <1>11 DEF accept_reject, accept_client, teardown_discard
<1> QED
  BY <1>1, <1>2, <1>3, <1>4, <1>5, <1>6, <1>7, <1>8, <1>9, <1>10, <1>11 DEF Next, loop_step

\* Only the two steps around it change who is about to push.
LEMMA PushingKept ==
    ASSUME Shape, [Next]_vars, ~ \E w \in Worker : try_mark_notified(w) \/ push_ready(w)
    PROVE  \A c \in Client : Cardinality(Pushing(c)') = Cardinality(Pushing(c))
<1> SUFFICES ASSUME NEW c \in Client
             PROVE  Cardinality(Pushing(c)') = Cardinality(Pushing(c))
  OBVIOUS
<1>1. CASE ~ \E w \in Worker : worker_step(w)
  <2>1. worker' = worker /\ active' = active
    BY <1>1, WorkersRest
  <2> QED  BY <2>1 DEF Pushing, WorkersAt, Owner
<1>2. ASSUME NEW w \in Worker, worker_step(w)
      PROVE  Cardinality(Pushing(c)') = Cardinality(Pushing(c))
  <2> DEFINE P == {"push"}
  <2>1. worker[w].at # "push" /\ worker'[w].at # "push"
    <3>1. worker[w].at # "push"
      BY <1>2
      DEF worker_step, worker_take, enqueue_check, enqueue_stage, enqueue_settle,
          mark_close_after_flush, poke, handler_returns, Answering
    <3>2. worker'[w].at # "push"
      BY <1>2
      DEF worker_step, worker_take, enqueue_check, enqueue_stage, enqueue_settle,
          mark_close_after_flush, poke, handler_returns, WorkerGoto, Shape, PoolShape,
          WorkerType
    <3> QED  BY <3>1, <3>2
  <2>2. ~Busy(w, c, P) /\ ~Busy(w, c, P)'
    BY <2>1 DEF Busy
  <2>3. \A v \in Worker \ {w} : worker'[v] = worker[v] /\ active'[v] = active[v]
    BY <1>2, OthersRest, ZenonT(30)
  <2> HIDE DEF P
  <2>4. /\ Cardinality(WorkersAt(c, P)) \in Nat
        /\ Cardinality(WorkersAt(c, P)') =
             Cardinality(WorkersAt(c, P)) + (IF Busy(w, c, P)' THEN 1 ELSE 0)
                                          - (IF Busy(w, c, P) THEN 1 ELSE 0)
    BY <2>3, OneWorker, ZenonT(30)
  <2> QED  BY <2>2, <2>4 DEF Pushing, P
<1> QED  BY <1>1, <1>2

\* A worker that sets the bit goes on to push exactly if it was not set; one that
\* pushes leaves the pushers.
LEMMA PushingSteps ==
    ASSUME Shape, NEW w \in Worker, NEW c \in Client
    PROVE  /\ try_mark_notified(w) =>
                Cardinality(Pushing(c)') = Cardinality(Pushing(c))
                    + IF c = Owner(w) /\ ~conn[c].notified THEN 1 ELSE 0
           /\ push_ready(w) =>
                Cardinality(Pushing(c)') = Cardinality(Pushing(c)) - IF c = Owner(w) THEN 1 ELSE 0
<1> DEFINE P == {"push"}
<1>1. ASSUME \A v \in Worker \ {w} : worker'[v] = worker[v] /\ active'[v] = active[v]
      PROVE  /\ Cardinality(Pushing(c)) \in Nat
             /\ Cardinality(Pushing(c)') =
                  Cardinality(Pushing(c)) + (IF Busy(w, c, P)' THEN 1 ELSE 0)
                                          - (IF Busy(w, c, P) THEN 1 ELSE 0)
  BY <1>1, OneWorker, ZenonT(30) DEF Pushing
<1>2. ASSUME try_mark_notified(w)
      PROVE  Cardinality(Pushing(c)') = Cardinality(Pushing(c))
                    + IF c = Owner(w) /\ ~conn[c].notified THEN 1 ELSE 0
  <2>1. /\ active[w] # NoJob /\ worker[w].at = "notify" /\ active' = active
        /\ worker'[w].at = IF conn[Owner(w)].notified THEN "return" ELSE "push"
        /\ \A v \in Worker \ {w} : worker'[v] = worker[v] /\ active'[v] = active[v]
    BY <1>2 DEF try_mark_notified, Answering, WorkerGoto, pool, Shape, PoolShape, WorkerType
  <2>2. ~Busy(w, c, P)
    BY <2>1 DEF Busy
  <2>3. Busy(w, c, P)' <=> c = Owner(w) /\ ~conn[c].notified
    BY <2>1 DEF Busy, Owner
  <2> DEFINE n == Cardinality(Pushing(c))
             m == Cardinality(Pushing(c)')
  <2>4. n \in Nat /\ m = n + (IF Busy(w, c, P)' THEN 1 ELSE 0) - (IF Busy(w, c, P) THEN 1 ELSE 0)
    BY <1>1, <2>1, ZenonT(30)
  <2> HIDE DEF n, m
  <2>5. m = n + IF c = Owner(w) /\ ~conn[c].notified THEN 1 ELSE 0
    BY <2>2, <2>3, <2>4
  <2> QED  BY <2>5 DEF n, m
<1>3. ASSUME push_ready(w)
      PROVE  Cardinality(Pushing(c)') = Cardinality(Pushing(c)) - IF c = Owner(w) THEN 1 ELSE 0
  <2>1. /\ active[w] # NoJob /\ worker[w].at = "push" /\ worker'[w].at = "poke"
        /\ \A v \in Worker \ {w} : worker'[v] = worker[v] /\ active'[v] = active[v]
    BY <1>3 DEF push_ready, Answering, WorkerGoto, pool, Shape, PoolShape, WorkerType
  <2>2. Busy(w, c, P) <=> c = Owner(w)
    BY <2>1 DEF Busy
  <2>3. ~Busy(w, c, P)'
    BY <2>1 DEF Busy
  <2> DEFINE n == Cardinality(Pushing(c))
             m == Cardinality(Pushing(c)')
  <2>4. n \in Nat /\ m = n + (IF Busy(w, c, P)' THEN 1 ELSE 0) - (IF Busy(w, c, P) THEN 1 ELSE 0)
    BY <1>1, <2>1, ZenonT(30)
  <2> HIDE DEF n, m
  <2>5. m = n - IF c = Owner(w) THEN 1 ELSE 0
    BY <2>2, <2>3, <2>4
  <2> QED  BY <2>5 DEF n, m
<1> QED  BY <1>2, <1>3, ZenonT(30)

\* The notices after a step.
LEMMA NoticesTypeNext ==
    ASSUME Shape', NEW c \in Client
    PROVE  /\ Count(ready', c) \in Nat /\ Visits(c)' \in Nat /\ Cardinality(Pushing(c)') \in Nat
           /\ Notices(c)' = Count(ready', c) + Visits(c)' + Cardinality(Pushing(c)')
<1>1. ready' \in Seq(Client) /\ loop'.todo \in Seq(Client)
  BY DEF Shape, PoolShape, LoopShape, LoopType
<1>2. Pushing(c)' \in SUBSET Worker
  BY DEF Pushing, WorkersAt
<1>3. Count(ready', c) \in Nat /\ Count(loop'.todo, c) \in Nat /\ Cardinality(Pushing(c)') \in Nat
  BY <1>1, <1>2, CountNat, WorkersFinite, ZenonT(30)
<1>4. Notices(c)' = Count(ready', c) + Visits(c)' + Cardinality(Pushing(c)')
  BY DEF Notices, Visits, Pushing, Count
<1>5. Visits(c)' \in Nat
  BY <1>3 DEF Visits, Count
<1> QED  BY <1>3, <1>4, <1>5

\* Every step keeps the bits and the notices together.
LEMMA OneNoticeStep ==
    ASSUME Shape, OneNotice, [Next]_vars
    PROVE  OneNotice'
<1>1. Shape'
  BY ShapeStep
<1> SUFFICES ASSUME NEW c \in Client PROVE Notices(c)' = Bit(c)'
  BY DEF OneNotice
<1> DEFINE a == Count(ready, c)
           v == Visits(c)
           p == Cardinality(Pushing(c))
<1>2. /\ a \in Nat /\ v \in Nat /\ p \in Nat /\ Bit(c) \in {0, 1}
      /\ a + v + p = Bit(c)
  BY NoticesType DEF OneNotice
<1>3. Notices(c)' = Count(ready', c) + Visits(c)' + Cardinality(Pushing(c)')
  BY <1>1, NoticesTypeNext
<1>4. ready \in Seq(Client) /\ loop.todo \in Seq(Client)
  BY DEF Shape, PoolShape, LoopShape, LoopType
<1>5. ASSUME NEW w \in Worker, try_mark_notified(w) PROVE Notices(c)' = Bit(c)'
  <2>1. active[w] # NoJob /\ ready' = ready /\ loop' = loop /\ Owner(w) \in Client
    BY <1>5, OwnerType DEF try_mark_notified, Answering, wakeups
  <2>2. Visits(c)' = v
    BY <2>1 DEF Visits, Visiting
  <2>3. conn'[c].notified = IF c = Owner(w) THEN TRUE ELSE conn[c].notified
    BY <1>5, <2>1 DEF try_mark_notified, Shape, ConnShape, ConnType
  <2>4. Cardinality(Pushing(c)') = p + IF c = Owner(w) /\ ~conn[c].notified THEN 1 ELSE 0
    BY <1>5, PushingSteps
  <2> HIDE DEF a, v, p
  <2>5. conn[c].notified \in BOOLEAN
    BY DEF Shape, ConnShape, ConnType
  <2>6. Bit(c)' = Bit(c) + IF c = Owner(w) /\ ~conn[c].notified THEN 1 ELSE 0
    BY <2>3, <2>5 DEF Bit
  <2>7. Notices(c)' = a + v + Cardinality(Pushing(c)')
    BY <1>3, <2>1, <2>2 DEF a
  <2> DEFINE x == IF c = Owner(w) /\ ~conn[c].notified THEN 1 ELSE 0
             m == Cardinality(Pushing(c)')
  <2>8. x \in Int /\ m = p + x /\ Bit(c)' = Bit(c) + x /\ Notices(c)' = a + v + m
    BY <2>4, <2>6, <2>7
  <2> HIDE DEF x, m
  <2> QED  BY ONLY <1>2, <2>8
<1>6. ASSUME NEW w \in Worker, push_ready(w) PROVE Notices(c)' = Bit(c)'
  <2>1. /\ active[w] # NoJob /\ ready' = Append(ready, Owner(w)) /\ loop' = loop
        /\ Owner(w) \in Client /\ conn' = conn
    BY <1>6, OwnerType, ZenonT(30) DEF push_ready, Answering
  <2>2. Visits(c)' = v /\ Bit(c)' = Bit(c)
    BY <2>1 DEF Visits, Visiting, Bit
  <2>3. Count(ready', c) = a + IF c = Owner(w) THEN 1 ELSE 0
    BY <1>4, <2>1, CountAppend
  <2>4. Cardinality(Pushing(c)') = p - IF c = Owner(w) THEN 1 ELSE 0
    BY <1>6, PushingSteps
  <2> HIDE DEF a, v, p
  <2> QED  BY <1>2, <1>3, <2>2, <2>3, <2>4
<1>7. CASE ~ \E w \in Worker : try_mark_notified(w) \/ push_ready(w)
  <2>1. Cardinality(Pushing(c)') = p
    BY <1>7, PushingKept
  <2>2. CASE completions_swap
    <3>1. /\ loop.at = "swap" /\ loop'.at = "ready" /\ loop'.todo = ready /\ ready' = <<>>
          /\ conn' = conn /\ loop.conn = None
      BY <2>2 DEF completions_swap, Shape, LoopShape, LoopType, Handling, Between
    <3>2. v = 0 /\ Visits(c)' = a
      BY <3>1 DEF Visits, Visiting, Count
    <3>3. Count(ready', c) = 0 /\ Bit(c)' = Bit(c)
      BY <3>1, CountEmpty, ZenonT(30) DEF Bit
    <3> HIDE DEF a, v, p
    <3> QED  BY <1>2, <1>3, <2>1, <3>2, <3>3
  <2>3. CASE completions_next
    <3> DEFINE d == Head(loop.todo)
    <3>1. /\ loop.at = "ready" /\ loop.todo # <<>> /\ loop'.todo = Tail(loop.todo)
          /\ ready' = ready /\ d \in Client
          /\ loop'.at = "ready" \/ (loop'.conn # None /\ loop'.back = "ready")
      BY <2>3, ServerAssumption
      DEF completions_next, wakeups, Shape, LoopShape, LoopType, Handling, Between
    <3>2. conn'[c].notified = IF c = d THEN FALSE ELSE conn[c].notified
      BY <2>3, <3>1 DEF completions_next, clear_notified, Shape, ConnShape, ConnType
    <3>3. v = Count(loop.todo, c) /\ Visits(c)' = Count(Tail(loop.todo), c)
      BY <3>1 DEF Visits, Visiting, Count
    <3>4. Count(loop.todo, c) = Count(Tail(loop.todo), c) + IF d = c THEN 1 ELSE 0
      BY <1>4, <3>1, CountTail
    <3>5. Count(Tail(loop.todo), c) \in Nat
      <4>1. Tail(loop.todo) \in Seq(Client)
        BY <1>4, <3>1
      <4> QED  BY <4>1, CountNat, Zenon
    <3>6. Visits(c)' = v - (IF d = c THEN 1 ELSE 0) /\ Visits(c)' \in Nat
      BY <3>3, <3>4, <3>5
    <3>7. Count(ready', c) = a
      BY <3>1
    <3> HIDE DEF a, v, p, d
    <3> QED  BY <1>2, <1>3, <2>1, <3>2, <3>6, <3>7 DEF Bit
  <2>4. CASE ~completions_swap /\ ~completions_next
    <3>1. Visits(c)' = v
      BY <2>4, VisitsKept
    <3>2. Count(ready', c) = a
      BY <1>7, <2>4, ReadySteps
    <3>3. Bit(c)' = Bit(c)
      BY <1>7, <2>4, FootprintStep, Zenon DEF Footprint, NotifiedSteps, Bit
    <3> HIDE DEF a, v, p
    <3> QED  BY <1>2, <1>3, <2>1, <3>1, <3>2, <3>3
  <2> QED  BY <2>2, <2>3, <2>4
<1> QED  BY <1>5, <1>6, <1>7

\* The loop leaves the place before the swap by swapping, and clears the eventfd only
\* on its way there.
LEMMA WakeupKept ==
    ASSUME Shape, [Next]_vars, ~completions_swap, completion_fd \/ loop.at = "swap"
    PROVE  completion_fd' \/ loop'.at = "swap"
<1> USE DEF Shape, LoopShape, LoopType, Handling, Between
<1>1. CASE loop' = loop /\ completion_fd' = completion_fd
  BY <1>1
<1>2. CASE loop.at # "swap" /\ completion_fd' = completion_fd
  BY <1>2
<1>3. ASSUME NEW c \in Client, connection_step(c) PROVE completion_fd' \/ loop'.at = "swap"
  <2>1. loop.at # "swap" /\ completion_fd' = completion_fd
    BY <1>3, ZenonT(30)
    DEF connection_step, read_some, process_return, process_malformed, process_submit,
        process_reject, process_busy, flush_swap, flush_send, settle, interest_in,
        interest_out, At, wakeups
  <2> QED  BY <1>2, <2>1
<1>4. ASSUME NEW w \in Worker, worker_step(w)
      PROVE  loop' = loop /\ (completion_fd' = completion_fd \/ completion_fd' = TRUE)
  BY <1>4
  DEF worker_step, worker_take, enqueue_check, enqueue_stage, enqueue_settle,
      mark_close_after_flush, try_mark_notified, push_ready, poke, handler_returns, wakeups
<1>5. CASE environment \/ UNCHANGED vars
  BY <1>1, <1>5, ZenonT(30)
  DEF environment, connect, client_send, client_recv, client_leave, request_shutdown, signal,
      deadline_passes, vars, wakeups
<1>6. CASE dispatch
  <2>1. loop.at = "dispatch"
    BY <1>6 DEF dispatch
  <2>2. ASSUME NEW e, dispatch_completion(e) PROVE loop'.at = "swap"
    BY <2>2 DEF dispatch_completion, Take
  <2>3. ASSUME NEW e, dispatch_listen(e) \/ dispatch_shutdown(e) \/ dispatch_signal(e)
                      \/ dispatch_conn(e)
        PROVE  completion_fd' = completion_fd
    BY <2>3 DEF dispatch_listen, dispatch_shutdown, dispatch_signal, dispatch_conn, wakeups
  <2> QED  BY <1>2, <1>6, <2>1, <2>2, <2>3, Zenon DEF dispatch
<1>7. CASE teardown_join
  BY <1>7 DEF teardown_join, Goto
<1>8. CASE accept_reject \/ accept_client \/ teardown_discard
  BY <1>1, <1>8 DEF accept_reject, accept_client, teardown_discard, wakeups
<1>9. CASE \/ epoll_wait \/ batch_end \/ accept_return
           \/ completions_next \/ quiesce_next \/ list_end \/ drain_queue
           \/ drain_inflight \/ drain_output \/ drain_deadline \/ teardown_close
           \/ teardown
  BY <1>2, <1>9
  DEF epoll_wait, batch_end, accept_return,
      completions_next, quiesce_next, list_end, drain_queue, drain_inflight, drain_output,
      drain_deadline, teardown_close, teardown, wakeups
<1> QED
  BY <1>3, <1>4, <1>5, <1>6, <1>7, <1>8, <1>9, Zenon DEF Next, loop_step

\* A notice in the ready vector keeps its wakeup.
LEMMA WokenStep ==
    ASSUME Shape, Woken, [Next]_vars
    PROVE  Woken'
<1>1. ASSUME NEW w \in Worker, push_ready(w) PROVE Woken'
  <2>1. worker'[w].at = "poke"
    BY <1>1 DEF push_ready, WorkerGoto, Shape, PoolShape, WorkerType
  <2> QED  BY <2>1 DEF Woken
<1>2. CASE completions_swap
  BY <1>2 DEF completions_swap, Woken
<1>3. CASE ready' = ready /\ ~completions_swap /\ (completion_fd \/ loop.at = "swap")
  BY <1>3, WakeupKept DEF Woken
<1>4. ASSUME NEW w \in Worker, worker[w].at = "poke" PROVE Woken'
  <2>1. CASE poke(w)
    BY <2>1 DEF poke, Woken
  <2>2. CASE worker'[w] = worker[w]
    BY <1>4, <2>2 DEF Woken
  <2>3. CASE worker_step(w)
    <3>1. active[w] # NoJob /\ worker[w].at = "poke"
      BY <1>4 DEF Shape, PoolShape
    <3>2. poke(w)
      BY <2>3, <3>1
      DEF worker_step, worker_take, enqueue_check, enqueue_stage, enqueue_settle,
          mark_close_after_flush, try_mark_notified, push_ready, handler_returns, Answering
    <3> QED  BY <2>1, <3>2
  <2>4. ASSUME NEW v \in Worker, worker_step(v), v # w PROVE Woken'
    BY <2>2, <2>4, OthersRest
  <2> QED  BY <2>2, <2>3, <2>4, WorkersRest
<1> QED  BY <1>1, <1>2, <1>3, <1>4, ReadySteps, ZenonT(30) DEF Woken

\* No completion is lost between the workers and the loop, and none is announced
\* twice: a set bit stands for exactly one notice on its way, and a notice in the ready
\* vector has a wakeup (AUDIT.md, "no lost-wakeup window").
THEOREM NoticesAreSound == Spec => []NoticeSound
<1>1. ASSUME Init PROVE OneNotice /\ Woken
  <2>1. Woken
    BY <1>1 DEF Init, Woken
  <2> SUFFICES ASSUME NEW c \in Client PROVE Notices(c) = Bit(c)
    BY <2>1 DEF OneNotice
  <2>2. Shape
    BY <1>1, ShapeInit
  <2>3. ready = <<>> /\ ~Visiting /\ ~conn[c].notified /\ Pushing(c) = {}
    BY <1>1 DEF Init, Pool!Init, Visiting, Pushing, WorkersAt
  <2>4. Count(ready, c) = 0 /\ Visits(c) = 0 /\ Cardinality(Pushing(c)) = 0 /\ Bit(c) = 0
    BY <2>3, CountEmpty, FS_EmptySet DEF Visits, Bit
  <2> QED  BY <2>2, <2>4, NoticesType
<1>2. Shape /\ OneNotice /\ Woken /\ [Next]_vars => OneNotice' /\ Woken'
  BY OneNoticeStep, WokenStep
<1>3. OneNotice /\ Woken => NoticeSound
  BY DEF OneNotice, Woken, NoticeSound, Bit
<1> QED  BY <1>1, <1>2, <1>3, ShapeInvariant, PTL DEF Spec
=============================================================================
