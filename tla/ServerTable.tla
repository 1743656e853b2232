---------------------------- MODULE ServerTable ----------------------------
(***************************************************************************)
(* Proofs about the connection table, and type correctness.                *)
(***************************************************************************)
EXTENDS ServerCounters

Accepted == {c \in Client : conn[c].fd # 0}

\* Whoever can close a connection, or pass it on to somebody who can, has one that
\* was accepted.
Held ==
    /\ loop.conn \in Accepted \cup {None}
    /\ loop.todo \in Seq(Accepted)
    /\ ready \in Seq(Accepted)
    /\ Owners(queue) \in Seq(Accepted)
    /\ \A w \in Worker : active[w] # NoJob => Owner(w) \in Accepted

\* A client waits in the backlog once, before it is accepted; what was not accepted
\* is not closed.
Waiting ==
    /\ \A c \in Client : client[c] = "away" =>
         c \notin Accepted /\ \A i \in DOMAIN backlog : backlog[i] # c
    /\ \A i \in DOMAIN backlog : backlog[i] \notin Accepted
    /\ \A i, j \in DOMAIN backlog : backlog[i] = backlog[j] => i = j
    /\ \A c \in Client : c \notin Accepted => ~conn[c].closed

MapExact ==
    /\ \A f \in Fd : connections[f] # None => conn[connections[f]].fd = f
    /\ \A c \in Client : c \in Open <=> c \in Accepted /\ ~conn[c].closed
    /\ active_connections = Cardinality(Open)
    /\ active_connections <= MaxConnections

Placed == Held /\ Waiting /\ MapExact

\* A sequence over a set is one over a larger set.
LEMMA SeqMono ==
    ASSUME NEW A, NEW B, A \subseteq B, NEW s \in Seq(A)
    PROVE  s \in Seq(B)
<1>1. s \in [1..Len(s) -> B] /\ Len(s) \in Nat
  OBVIOUS
<1> DEFINE n == Len(s)
<1> HIDE DEF n
<1>2. n \in Nat => \A g \in [1..n -> B] : g \in Seq(B)
  BY SeqIsFunctions
<1> QED  BY <1>1, <1>2 DEF n

\* A descriptor is given once, to the client at the head of the backlog.
LEMMA FdSteps ==
    ASSUME Shape, [Next]_vars
    PROVE  /\ \A d \in Client : \/ conn'[d].fd = conn[d].fd
                                \/ accept_client /\ d = Head(backlog)
           /\ accept_client => conn'[Head(backlog)].fd = Min(FreeFd)
<1>1. ASSUME accept_client
      PROVE  \A d \in Client : conn'[d].fd = IF d = Head(backlog) THEN Min(FreeFd) ELSE conn[d].fd
  <2> DEFINE c == Head(backlog)
             f == Min(FreeFd)
  <2>1. conn' = [conn EXCEPT ![c].fd = f, ![c].interest = {"IN"}] /\ conn \in [Client -> ConnType]
    BY <1>1 DEF accept_client, Shape, ConnShape
  <2> HIDE DEF c, f
  <2>2. \A d \in Client : conn'[d].fd = IF d = c THEN f ELSE conn[d].fd
    BY <2>1 DEF ConnType
  <2> QED  BY <2>2 DEF c, f
<1>2. ASSUME accept_client PROVE Head(backlog) \in Client
  BY <1>2 DEF accept_client, Shape, PeerShape
<1>3. ASSUME teardown PROVE \A d \in Client : conn'[d].fd = conn[d].fd
  BY <1>3 DEF teardown, Shape, ConnShape, ConnType
<1>4. Footprint
  BY FootprintStep
<1> QED  BY <1>1, <1>2, <1>3, <1>4, Zenon DEF Footprint, TableSteps, SameTable, Closing

\* Nothing that was accepted is forgotten.
LEMMA AcceptedGrows ==
    ASSUME Shape, [Next]_vars
    PROVE  Accepted \subseteq Accepted'
<1>1. ASSUME accept_client PROVE Min(FreeFd) # 0 /\ Head(backlog) \in Client
  <2>1. FreeFd # {} /\ Head(backlog) \in Client
    BY <1>1 DEF accept_client, Shape, PeerShape
  <2>2. Min(FreeFd) \in Fd
    BY <2>1, FreeFdType
  <2> DEFINE f == Min(FreeFd)
  <2> HIDE DEF f
  <2>3. f # 0
    BY <2>2, ServerAssumption DEF f, Fd
  <2> QED  BY <2>1, <2>3 DEF f
<1> QED  BY <1>1, FdSteps DEF Accepted

\* Where the loop takes a connection from, and a list of them.
LEMMA LoopSources ==
    ASSUME Shape, [Next]_vars
    PROVE  /\ \/ loop'.conn \in {loop.conn, None}
              \/ loop.todo # <<>> /\ loop'.conn = Head(loop.todo)
              \/ \E f \in Fd : loop'.conn = connections[f]
           /\ \/ loop'.todo \in {loop.todo, <<>>}
              \/ loop.todo # <<>> /\ loop'.todo = Tail(loop.todo)
              \/ loop'.todo = ready
              \/ loop'.todo = Listing(Open)
<1> USE DEF Shape, LoopShape, LoopType
<1>1. CASE loop' = loop
  BY <1>1
<1>2. ASSUME NEW c \in Client, connection_step(c)
      PROVE  loop'.conn \in {loop.conn, None} /\ loop'.todo = loop.todo
  BY <1>2, ZenonT(30)
  DEF connection_step, read_some, process_return, process_malformed, process_submit,
      process_reject, process_busy, flush_swap, flush_send, settle, interest_in, interest_out,
      Goto, FlushThenSettle, Done
<1>3. ASSUME NEW w \in Worker, worker_step(w) PROVE loop' = loop
  BY <1>3
  DEF worker_step, worker_take, enqueue_check, enqueue_stage, enqueue_settle,
      mark_close_after_flush, try_mark_notified, push_ready, poke, handler_returns
<1>4. CASE environment \/ UNCHANGED vars
  BY <1>1, <1>4
  DEF environment, connect, client_send, client_recv, client_leave, request_shutdown, signal,
      deadline_passes, vars
<1>5. CASE dispatch
  <2>1. PICK e \in loop.batch :
          \/ dispatch_listen(e) \/ dispatch_completion(e) \/ dispatch_shutdown(e)
          \/ dispatch_signal(e) \/ dispatch_conn(e)
    BY <1>5 DEF dispatch
  <2>2. CASE dispatch_listen(e) \/ dispatch_completion(e) \/ dispatch_signal(e)
    BY <2>2, Zenon DEF dispatch_listen, dispatch_completion, dispatch_signal, Take
  <2>3. CASE dispatch_shutdown(e)
    BY <2>3, ZenonT(30) DEF dispatch_shutdown, Take
  <2>4. CASE dispatch_conn(e)
    <3>1. e.fd \in Fd
      BY <2>4 DEF dispatch_conn, EventType
    <3>2. loop'.todo = loop.todo /\ loop'.conn \in {loop.conn, connections[e.fd]}
      BY <2>4, ZenonT(30) DEF dispatch_conn, Take
    <3> QED  BY <3>1, <3>2
  <2> QED  BY <2>1, <2>2, <2>3, <2>4
<1>6. CASE accept_reject \/ accept_client \/ teardown_discard
  BY <1>1, <1>6 DEF accept_reject, accept_client, teardown_discard
<1>7. CASE completions_swap \/ completions_next \/ quiesce_next
  BY <1>7, Zenon DEF completions_swap, completions_next, quiesce_next
<1>8. CASE drain_queue \/ drain_inflight \/ drain_output \/ drain_deadline
  BY <1>8, ZenonT(30) DEF drain_queue, drain_inflight, drain_output, drain_deadline, StopRunning, Goto
<1>9. CASE \/ epoll_wait \/ batch_end \/ accept_return \/ list_end \/ teardown_close
           \/ teardown_join \/ teardown
  <2>1. CASE epoll_wait \/ batch_end \/ accept_return \/ list_end
    BY <2>1, ZenonT(30) DEF epoll_wait, batch_end, accept_return, list_end, Goto
  <2>2. CASE teardown_close \/ teardown_join \/ teardown
    BY <2>2 DEF teardown_close, teardown_join, teardown, Goto
  <2> QED  BY <1>9, <2>1, <2>2
<1> QED
  BY <1>2, <1>3, <1>4, <1>5, <1>6, <1>7, <1>8, <1>9 DEF Next, loop_step

\* What is passed on stays accepted.
LEMMA HeldStep ==
    ASSUME Shape, Held, MapExact, [Next]_vars
    PROVE  Held'
<1>1. Accepted \subseteq Accepted'
  BY AcceptedGrows
<1>2. Open \subseteq Accepted
  BY DEF MapExact, Open
<1>3. loop'.conn \in Accepted' \cup {None}
  <2>1. ASSUME NEW f \in Fd PROVE connections[f] \in Accepted \cup {None}
    BY <1>2 DEF Open, Shape, TableShape
  <2>2. loop.todo # <<>> => Head(loop.todo) \in Accepted
    BY DEF Held
  <2>3. loop'.conn \in Accepted \cup {None}
    BY <2>1, <2>2, LoopSources DEF Held
  <2> QED  BY <1>1, <2>3
<1>4. loop'.todo \in Seq(Accepted')
  <2>1. Listing(Open) \in Seq(Accepted)
    <3>1. Listing(Open) \in Seq(Open)
      BY Enumeration, OpenFinite
    <3> QED  BY <1>2, <3>1, SeqMono
  <2>2. <<>> \in Seq(Accepted) /\ (loop.todo # <<>> => Tail(loop.todo) \in Seq(Accepted))
    BY EmptyIsSeq DEF Held
  <2>3. loop'.todo \in Seq(Accepted)
    BY <2>1, <2>2, LoopSources, Zenon DEF Held
  <2> QED  BY <1>1, <2>3, SeqMono
<1>5. ready' \in Seq(Accepted')
  <2>1. ASSUME NEW w \in Worker, push_ready(w) PROVE ready' \in Seq(Accepted)
    <3>1. Owner(w) \in Accepted /\ ready \in Seq(Accepted) /\ ready' = Append(ready, Owner(w))
      BY <2>1 DEF push_ready, Answering, Held
    <3> DEFINE A == Accepted
               x == Owner(w)
    <3> HIDE DEF A, x
    <3>2. x \in A /\ ready \in Seq(A) /\ ready' = Append(ready, x)
      BY <3>1 DEF A, x
    <3>3. ready' \in Seq(A)
      BY <3>2
    <3> QED  BY <3>3 DEF A
  <2>2. CASE completions_swap
    BY <2>2, EmptyIsSeq DEF completions_swap
  <2>3. ready' \in Seq(Accepted) \/ ready' \in Seq(Accepted')
    BY <2>1, <2>2, ReadySteps DEF Held
  <2> QED  BY <1>1, <2>3, SeqMono
<1>6. Owners(queue') \in Seq(Accepted')
  <2>1. queue \in Seq(Job) /\ Owners(queue) \in Seq(Accepted)
    BY DEF Shape, PoolShape, Held
  <2>2. ASSUME NEW c \in Client, process_submit(c) PROVE Owners(queue') \in Seq(Accepted)
    <3> DEFINE j == <<c, NextFrame(c)>>
    <3>1. queue' = Append(queue, j) /\ c \in Accepted
      BY <2>2 DEF process_submit, Pool!Submit, At, Held
    <3>2. j \in Job /\ j[1] = c
      <4>1. conn[c].in \in Seq(Nat \ {0}) /\ conn[c].in # <<>>
        BY <2>2 DEF process_submit, Parsable, Shape, ConnShape, ConnType
      <4> QED  BY <4>1 DEF NextFrame, Job
    <3> DEFINE A == Accepted
               o == Owners(queue)
    <3> HIDE DEF j, A, o
    <3>3. Owners(queue') = Append(o, c)
      BY <2>1, <3>1, <3>2, OwnersOf DEF o
    <3>4. o \in Seq(A) /\ c \in A
      BY <2>1, <3>1 DEF A, o
    <3>5. Append(o, c) \in Seq(A)
      BY <3>4
    <3> QED  BY <3>3, <3>5 DEF A
  <2>3. ASSUME NEW w \in Worker, worker_take(w) PROVE Owners(queue') \in Seq(Accepted)
    <3>1. queue # <<>> /\ queue' = Tail(queue)
      BY <2>3 DEF worker_take, Pool!Take
    <3>2. Owners(queue') = Tail(Owners(queue)) /\ Owners(queue) # <<>>
      BY <2>1, <3>1, OwnersOf
    <3> DEFINE A == Accepted
               o == Owners(queue)
    <3> HIDE DEF A, o
    <3>3. o \in Seq(A) /\ o # <<>> /\ Owners(queue') = Tail(o)
      BY <2>1, <3>2 DEF A, o
    <3>4. Owners(queue') \in Seq(A)
      BY <3>3
    <3> QED  BY <3>4 DEF A
  <2>4. CASE teardown_discard
    <3>1. Owners(queue') = <<>>
      BY <2>4 DEF teardown_discard, Pool!Discard, Owners
    <3> QED  BY <3>1, EmptyIsSeq
  <2>5. Owners(queue') \in Seq(Accepted) \/ Owners(queue') \in Seq(Accepted')
    BY <2>1, <2>2, <2>3, <2>4, QueueSteps
  <2> QED  BY <1>1, <2>5, SeqMono
<1>7. ASSUME NEW v \in Worker, active'[v] # NoJob PROVE Owner(v)' \in Accepted'
  <2>1. CASE active'[v] = active[v]
    BY <1>1, <1>7, <2>1 DEF Held, Owner
  <2>2. CASE worker_step(v)
    <3>1. CASE worker_take(v)
      <4>1. active'[v] = Head(queue) /\ queue # <<>> /\ queue \in Seq(Job)
        BY <3>1 DEF worker_take, Pool!Take, Shape, PoolShape
      <4>2. Owners(queue) # <<>> /\ Head(Owners(queue)) = Head(queue)[1]
        BY <4>1, OwnersOf
      <4>3. Head(Owners(queue)) \in Accepted
        BY <4>2 DEF Held
      <4> QED  BY <1>1, <4>1, <4>2, <4>3 DEF Owner
    <3>2. CASE handler_returns(v)
      BY <1>7, <3>2 DEF handler_returns, Pool!Finish, Shape, PoolShape
    <3>3. CASE ~worker_take(v) /\ ~handler_returns(v)
      BY <2>1, <2>2, <3>3
      DEF worker_step, enqueue_check, enqueue_stage, enqueue_settle, mark_close_after_flush,
          try_mark_notified, push_ready, poke, pool
    <3> QED  BY <3>1, <3>2, <3>3
  <2>3. ASSUME NEW w \in Worker, worker_step(w), v # w PROVE active'[v] = active[v]
    BY <2>3, OthersRest
  <2> QED  BY <2>1, <2>2, <2>3, WorkersRest
<1> QED  BY <1>3, <1>4, <1>5, <1>6, <1>7 DEF Held

\* How clients come and wait.
LEMMA BacklogSteps ==
    ASSUME Shape, [Next]_vars
    PROVE  \/ /\ backlog' \in {backlog, <<>>}
              /\ \A c \in Client : client'[c] = "away" => client[c] = "away"
           \/ \E c \in Client : connect(c)
           \/ /\ backlog # <<>> /\ backlog' = Tail(backlog) /\ client' = client
<1> USE DEF Shape, PeerShape
<1>1. CASE backlog' \in {backlog, <<>>} /\ client' = client
  BY <1>1
<1>2. ASSUME NEW c \in Client, client_send(c) \/ client_recv(c)
      PROVE  backlog' = backlog /\ client' = client
  BY <1>2 DEF client_send, client_recv
<1>3. ASSUME NEW c \in Client, NEW how \in {"half", "gone"}, client_leave(c, how)
      PROVE  /\ backlog' = backlog
             /\ \A d \in Client : client'[d] = "away" => client[d] = "away"
  BY <1>3 DEF client_leave
<1>4. CASE request_shutdown \/ signal \/ deadline_passes \/ UNCHANGED vars
  BY <1>1, <1>4 DEF request_shutdown, signal, deadline_passes, vars, peers
<1>5. CASE accept_reject \/ accept_client
  BY <1>5, ZenonT(30) DEF accept_reject, accept_client
<1>6. ASSUME NEW w \in Worker, worker_step(w) PROVE backlog' = backlog /\ client' = client
  BY <1>6
  DEF worker_step, worker_take, enqueue_check, enqueue_stage, enqueue_settle,
      mark_close_after_flush, try_mark_notified, push_ready, poke, handler_returns, peers
<1>7. ASSUME NEW c \in Client, connection_step(c) PROVE backlog' = backlog /\ client' = client
  BY <1>7, Zenon
  DEF connection_step, read_some, process_return, process_malformed, process_submit,
      process_reject, process_busy, flush_swap, flush_send, settle, interest_in,
      interest_out, peers
<1>8. CASE dispatch
  <2>1. backlog' \in {backlog, <<>>} /\ client' = client
    BY <1>8
    DEF dispatch, dispatch_listen, dispatch_completion, dispatch_shutdown, dispatch_signal,
        dispatch_conn, peers
  <2> QED  BY <1>1, <2>1
<1>9. CASE \/ epoll_wait \/ batch_end \/ accept_return \/ completions_swap
           \/ completions_next \/ quiesce_next \/ list_end \/ drain_queue
           \/ drain_inflight \/ drain_output \/ drain_deadline \/ teardown_close
           \/ teardown_discard \/ teardown_join \/ teardown
  BY <1>1, <1>9, ZenonT(30)
  DEF epoll_wait, batch_end, accept_return, completions_swap,
      completions_next, quiesce_next, list_end, drain_queue, drain_inflight, drain_output,
      drain_deadline, teardown_close, teardown_discard, teardown_join, teardown, peers
<1> QED
  BY <1>1, <1>2, <1>3, <1>4, <1>5, <1>6, <1>7, <1>8, <1>9, ZenonT(30) DEF Next, loop_step, environment

\* Only what was accepted is closed.
LEMMA ClosedSteps ==
    ASSUME Shape, Held, MapExact, [Next]_vars
    PROVE  \A d \in Client : conn'[d].closed => conn[d].closed \/ d \in Accepted
<1>1. Open \subseteq Accepted
  BY DEF MapExact, Open
<1>2. CASE SameTable
  BY <1>2 DEF SameTable
<1>3. ASSUME NEW c \in Client, Closing(c)
      PROVE  \A d \in Client : conn'[d].closed => conn[d].closed \/ d \in Accepted
  <2>1. c \in Accepted
    BY <1>1, <1>3, ServerAssumption DEF Closing, Held
  <2>2. \A d \in Client : conn'[d].closed = IF d = c THEN TRUE ELSE conn[d].closed
    BY <1>3, Zenon DEF Closing
  <2> QED  BY <2>1, <2>2, Zenon
<1>4. CASE accept_client
  <2> DEFINE c == Head(backlog)
             f == Min(FreeFd)
  <2>1. conn' = [conn EXCEPT ![c].fd = f, ![c].interest = {"IN"}] /\ conn \in [Client -> ConnType]
    BY <1>4 DEF accept_client, Shape, ConnShape
  <2> HIDE DEF c, f
  <2> QED  BY <2>1 DEF ConnType
<1>5. CASE teardown
  BY <1>1, <1>5 DEF teardown
<1> QED  BY <1>2, <1>3, <1>4, <1>5, FootprintStep DEF Footprint, TableSteps

\* The backlog holds clients that are not accepted.
LEMMA WaitingStep ==
    ASSUME Shape, Held, Waiting, MapExact, [Next]_vars
    PROVE  Waiting'
<1>1. Accepted \subseteq Accepted'
  BY AcceptedGrows
<1>2. \A c \in Client : c \notin Accepted' => ~conn'[c].closed
  BY <1>1, ClosedSteps DEF Waiting
<1>3. backlog \in Seq(Client) /\ client \in [Client -> {"away", "up", "half", "gone"}]
  BY DEF Shape, PeerShape
<1>4. CASE accept_client
  <2>1. backlog # <<>> /\ backlog' = Tail(backlog) /\ client' = client
    BY <1>4 DEF accept_client
  <2>2. Accepted' \subseteq Accepted \cup {Head(backlog)}
    BY FdSteps DEF Accepted
  <2>3. \A i \in DOMAIN backlog' : i + 1 \in DOMAIN backlog /\ backlog'[i] = backlog[i + 1]
    BY <1>3, <2>1
  <2>4. 1 \in DOMAIN backlog /\ Head(backlog) = backlog[1]
    BY <1>3, <2>1
  <2>5. \A i \in DOMAIN backlog' : i \in Nat \ {0}
    BY <1>3, <2>1
  <2>6. ASSUME NEW i \in DOMAIN backlog' PROVE backlog'[i] \notin Accepted'
    <3>1. i + 1 # 1
      BY <2>5
    <3> QED  BY <2>2, <2>3, <2>4, <3>1 DEF Waiting
  <2>7. ASSUME NEW i \in DOMAIN backlog', NEW j \in DOMAIN backlog', backlog'[i] = backlog'[j]
        PROVE  i = j
    <3>1. i + 1 = j + 1
      BY <2>3, <2>7 DEF Waiting
    <3> QED  BY <2>5, <3>1
  <2>8. ASSUME NEW c \in Client, client'[c] = "away"
        PROVE  c \notin Accepted' /\ \A i \in DOMAIN backlog' : backlog'[i] # c
    BY <2>1, <2>2, <2>3, <2>4, <2>8 DEF Waiting
  <2> QED  BY <1>2, <2>6, <2>7, <2>8 DEF Waiting
<1>5. CASE ~accept_client
  <2>1. Accepted' = Accepted
    BY <1>5, FdSteps DEF Accepted
  <2>2. CASE /\ backlog' \in {backlog, <<>>}
             /\ \A c \in Client : client'[c] = "away" => client[c] = "away"
    <3>1. CASE backlog' = backlog
      BY <1>2, <2>1, <2>2, <3>1 DEF Waiting
    <3>2. CASE backlog' = <<>>
      <4>1. DOMAIN backlog' = {}
        BY <3>2
      <4> QED  BY <1>2, <2>1, <2>2, <4>1 DEF Waiting
    <3> QED  BY <2>2, <3>1, <3>2
  <2>3. ASSUME NEW c \in Client, connect(c) PROVE Waiting'
    <3>1. /\ client[c] = "away" /\ client' = [client EXCEPT ![c] = "up"]
          /\ backlog' = Append(backlog, c)
      BY <2>3 DEF connect
    <3> DEFINE n == Len(backlog) + 1
    <3>2. /\ DOMAIN backlog' = DOMAIN backlog \cup {n} /\ n \notin DOMAIN backlog
          /\ backlog'[n] = c /\ \A i \in DOMAIN backlog : backlog'[i] = backlog[i]
      BY <1>3, <3>1
    <3> HIDE DEF n
    <3>3. c \notin Accepted /\ \A i \in DOMAIN backlog : backlog[i] # c
      BY <3>1 DEF Waiting
    <3>4. \A d \in Client : client'[d] = "away" => client[d] = "away" /\ d # c
      BY <1>3, <3>1
    <3>5. \A i \in DOMAIN backlog' : backlog'[i] \notin Accepted'
      BY <2>1, <3>2, <3>3 DEF Waiting
    <3>6. \A i, j \in DOMAIN backlog' : backlog'[i] = backlog'[j] => i = j
      BY <3>2, <3>3 DEF Waiting
    <3>7. \A d \in Client : client'[d] = "away" =>
             d \notin Accepted' /\ \A i \in DOMAIN backlog' : backlog'[i] # d
      BY <2>1, <3>2, <3>4 DEF Waiting
    <3> QED  BY <1>2, <3>5, <3>6, <3>7 DEF Waiting
  <2>4. CASE backlog # <<>> /\ backlog' = Tail(backlog) /\ client' = client
    <3>1. /\ \A i \in DOMAIN backlog' : i + 1 \in DOMAIN backlog /\ backlog'[i] = backlog[i + 1]
          /\ \A i \in DOMAIN backlog' : i \in Nat
      BY <1>3, <2>4
    <3>2. ASSUME NEW i \in DOMAIN backlog', NEW j \in DOMAIN backlog', backlog'[i] = backlog'[j]
          PROVE  i = j
      <4>1. i + 1 = j + 1
        BY <3>1, <3>2 DEF Waiting
      <4> QED  BY <3>1, <4>1
    <3> QED  BY <1>2, <2>1, <2>4, <3>1, <3>2 DEF Waiting
  <2> QED  BY <2>2, <2>3, <2>4, BacklogSteps
<1> QED  BY <1>4, <1>5

\* The map and the gauge follow every acceptance and every close.
LEMMA MapExactStep ==
    ASSUME Shape, Held, Waiting, MapExact, [Next]_vars
    PROVE  MapExact'
<1>1. /\ IsFiniteSet(Open) /\ Cardinality(Open) \in Nat /\ Open \subseteq Client
      /\ connections \in [Fd -> Client \cup {None}] /\ None \notin Client
      /\ MaxConnections \in Nat
  BY OpenFinite, ServerAssumption DEF Shape, TableShape
<1>2. ASSUME connections' = connections, active_connections' = active_connections,
             \A d \in Client : conn'[d].fd = conn[d].fd /\ conn'[d].closed = conn[d].closed
      PROVE  MapExact'
  <2>1. Open' = Open /\ Accepted' = Accepted
    BY <1>2 DEF Open, Accepted
  <2>2. \A f \in Fd : connections[f] # None => conn'[connections[f]].fd = f
    BY <1>1, <1>2 DEF MapExact
  <2> QED  BY <1>2, <2>1, <2>2 DEF MapExact
<1>3. ASSUME NEW c \in Client, Closing(c) PROVE MapExact'
  <2>1. CASE conn[c].closed
    <3>1. conn[c].closed = TRUE
      BY <2>1 DEF Shape, ConnShape, ConnType
    <3> QED  BY <1>2, <1>3, <2>1, <3>1, ZenonT(30) DEF Closing
  <2>2. CASE ~conn[c].closed
    <3> DEFINE f == conn[c].fd
    <3>1. c \in Accepted
      <4>1. c = loop.conn \/ c \in Open
        BY <1>3 DEF Closing
      <4>2. loop.conn \in Accepted \cup {None} /\ (c \in Open => c \in Accepted)
        BY DEF Held, MapExact
      <4> QED  BY <1>1, <4>1, <4>2
    <3>2. c \in Open
      BY <2>2, <3>1 DEF MapExact
    <3>3. f \in Fd /\ connections[f] = c
      BY <1>1, <3>2 DEF Open, MapExact
    <3>4. /\ connections' = [connections EXCEPT ![f] = None]
          /\ active_connections' = active_connections - 1
          /\ \A d \in Client : /\ conn'[d].fd = conn[d].fd
                               /\ conn'[d].closed = IF d = c THEN TRUE ELSE conn[d].closed
      BY <1>3, <2>2, ZenonT(30) DEF Closing
    <3> HIDE DEF f
    <3>5. \A g \in Fd : connections'[g] = IF g = f THEN None ELSE connections[g]
      BY <1>1, <3>3, <3>4
    <3>6. \A g \in Fd : connections[g] = c => g = f
      BY <1>1, <3>2, <3>3 DEF MapExact
    <3>7. Open' = Open \ {c}
      BY <1>1, <3>3, <3>5, <3>6 DEF Open
    <3>8. Cardinality(Open') = Cardinality(Open) - 1
      BY <1>1, <3>2, <3>7, FS_RemoveElement, Zenon
    <3>9. Accepted' = Accepted
      BY <3>4, Zenon DEF Accepted
    <3>10. \A g \in Fd : connections'[g] # None => conn'[connections'[g]].fd = g
      <4> SUFFICES ASSUME NEW g \in Fd, connections'[g] # None
                   PROVE  conn'[connections'[g]].fd = g
        OBVIOUS
      <4>1. connections'[g] = connections[g] /\ connections[g] \in Client
        BY <1>1, <3>5
      <4>2. conn[connections[g]].fd = g
        BY <4>1 DEF MapExact
      <4> QED  BY <3>4, <4>1, <4>2, ZenonT(30)
    <3>11. \A d \in Client : d \in Open' <=> d \in Accepted' /\ ~conn'[d].closed
      BY <3>4, <3>7, <3>9, ZenonT(30) DEF MapExact
    <3>12. active_connections' = Cardinality(Open') /\ active_connections' <= MaxConnections
      BY <1>1, <3>4, <3>8 DEF MapExact
    <3> QED  BY <3>10, <3>11, <3>12 DEF MapExact
  <2> QED  BY <2>1, <2>2
<1>4. CASE accept_client
  <2> DEFINE c == Head(backlog)
             f == Min(FreeFd)
  <2>1. /\ backlog # <<>> /\ FreeFd # {} /\ ~AtLimit
        /\ conn' = [conn EXCEPT ![c].fd = f, ![c].interest = {"IN"}]
        /\ connections' = [connections EXCEPT ![f] = c]
        /\ active_connections' = active_connections + 1
    BY <1>4 DEF accept_client
  <2>2. c \in Client /\ c \notin Accepted /\ ~conn[c].closed
    <3>1. c \in Client /\ 1 \in DOMAIN backlog /\ c = backlog[1]
      BY <2>1 DEF Shape, PeerShape
    <3> QED  BY <3>1 DEF Waiting
  <2>3. f \in Fd /\ f \in FreeFd
    BY <2>1, FreeFdType
  <2>4. connections[f] = None
    <3> SUFFICES ASSUME connections[f] # None PROVE FALSE
      OBVIOUS
    <3> DEFINE d == connections[f]
    <3>1. d \in Open /\ d \in Client /\ conn[d].fd = f
      BY <1>1, <2>3 DEF Open, MapExact
    <3>2. conn[d].fd # 0
      BY <3>1 DEF MapExact, Accepted
    <3>3. Live(d)
      BY <3>1, <3>2 DEF Live
    <3> QED  BY <2>3, <3>1, <3>3 DEF FreeFd
  <2> HIDE DEF c, f
  <2>5. \A d \in Client : /\ conn'[d].fd = IF d = c THEN f ELSE conn[d].fd
                          /\ conn'[d].closed = conn[d].closed
    BY <2>1, <2>2 DEF Shape, ConnShape, ConnType
  <2>6. \A g \in Fd : connections'[g] = IF g = f THEN c ELSE connections[g]
    BY <1>1, <2>1, <2>3
  <2>7. Open' = Open \cup {c}
    BY <1>1, <2>2, <2>3, <2>4, <2>6 DEF Open
  <2>8. c \notin Open
    BY <2>2 DEF MapExact
  <2>9. Cardinality(Open') = Cardinality(Open) + 1
    BY <1>1, <2>7, <2>8, FS_AddElement
  <2>10. f # 0
    BY <2>3, ServerAssumption DEF Fd
  <2>11. Accepted' = Accepted \cup {c}
    BY <2>2, <2>5, <2>10 DEF Accepted
  <2>12. \A g \in Fd : connections'[g] # None => conn'[connections'[g]].fd = g
    <3> SUFFICES ASSUME NEW g \in Fd, connections'[g] # None
                 PROVE  conn'[connections'[g]].fd = g
      OBVIOUS
    <3>1. CASE g = f
      BY <2>2, <2>5, <2>6, <3>1
    <3>2. CASE g # f
      <4>1. connections'[g] = connections[g] /\ connections[g] \in Open
        BY <1>1, <2>6, <3>2 DEF Open
      <4> QED  BY <1>1, <2>5, <2>8, <4>1 DEF MapExact
    <3> QED  BY <3>1, <3>2
  <2>13. \A d \in Client : d \in Open' <=> d \in Accepted' /\ ~conn'[d].closed
    BY <2>2, <2>5, <2>7, <2>11 DEF MapExact
  <2>14. active_connections' = Cardinality(Open') /\ active_connections' <= MaxConnections
    BY <1>1, <2>1, <2>9 DEF MapExact, AtLimit
  <2> QED  BY <2>12, <2>13, <2>14 DEF MapExact
<1>5. CASE teardown
  <2>1. /\ connections' = [f \in Fd |-> None]
        /\ active_connections' = active_connections - Cardinality(Open)
        /\ \A d \in Client : conn'[d] = IF d \in Open THEN [conn[d] EXCEPT !.closed = TRUE]
                                        ELSE conn[d]
    BY <1>5 DEF teardown
  <2>2. Open' = {} /\ Cardinality(Open') = 0
    <3>1. \A f \in Fd : connections'[f] = None
      BY <2>1
    <3>2. Open' = {}
      BY <1>1, <3>1 DEF Open
    <3> QED  BY <3>2, FS_EmptySet
  <2>3. active_connections' = 0
    BY <1>1, <2>1 DEF MapExact
  <2>4. \A d \in Client : d \in Accepted' => conn'[d].closed
    <3> SUFFICES ASSUME NEW d \in Client, d \in Accepted' PROVE conn'[d].closed
      OBVIOUS
    <3>1. conn[d] \in ConnType
      BY DEF Shape, ConnShape
    <3>2. CASE d \in Open
      BY <2>1, <3>1, <3>2, Zenon DEF ConnType
    <3>3. CASE d \notin Open
      BY <2>1, <3>3, Zenon DEF MapExact, Accepted
    <3> QED  BY <3>2, <3>3
  <2>5. \A g \in Fd : connections'[g] = None
    BY <2>1
  <2> QED  BY <1>1, <2>2, <2>3, <2>4, <2>5 DEF MapExact
<1>6. Footprint
  BY FootprintStep
<1> QED  BY <1>2, <1>3, <1>4, <1>5, <1>6 DEF Footprint, TableSteps, SameTable

\* The connections are placed in every reachable state.
LEMMA PlacedInvariant == Spec => []Placed
<1>1. ASSUME Init PROVE Placed
  <2>1. Accepted = {} /\ backlog = <<>> /\ \A c \in Client : ~conn[c].closed
    BY <1>1 DEF Init, Accepted
  <2>2. Held
    <3>1. /\ loop.conn = None /\ loop.todo = <<>> /\ ready = <<>> /\ queue = <<>>
          /\ \A w \in Worker : active[w] = NoJob
      BY <1>1 DEF Init, Pool!Init
    <3>2. Owners(queue) = <<>>
      BY <3>1 DEF Owners
    <3> QED  BY <3>1, <3>2, EmptyIsSeq, Zenon DEF Held
  <2>3. Waiting
    <3>1. DOMAIN backlog = {}
      BY <2>1
    <3> QED  BY <2>1, <3>1 DEF Waiting
  <2>4. MapExact
    <3>1. /\ \A f \in Fd : connections[f] = None
          /\ active_connections = 0 /\ MaxConnections \in Nat
      BY <1>1, ServerAssumption DEF Init
    <3>2. Open = {}
      BY <3>1, ServerAssumption DEF Open
    <3>3. Cardinality(Open) = 0
      BY <3>2, FS_EmptySet
    <3> QED  BY <2>1, <3>1, <3>2, <3>3 DEF MapExact
  <2> QED  BY <2>2, <2>3, <2>4 DEF Placed
<1>2. Shape /\ Placed /\ [Next]_vars => Placed'
  BY HeldStep, WaitingStep, MapExactStep DEF Placed
<1> QED  BY <1>1, <1>2, ShapeInvariant, PTL DEF Spec

\* The gauge of active connections is the size of the map and within the limit, and the
\* map holds exactly the accepted connections that are not closed, although
\* close_connection() is reached from events, flushes and completions alike.
THEOREM ConnectionsAreExact == Spec => []ConnectionsExact
<1>1. Placed => ConnectionsExact
  BY DEF Placed, MapExact, Accepted, ConnectionsExact
<1> QED  BY <1>1, PlacedInvariant, PTL

\* The state keeps its types; in particular the size_t counters of a connection and
\* the gauge of the server never go below zero.
THEOREM ServerTypeCorrect == Spec => []TypeOK
<1>1. ASSUME Shape, PendingExact, Counted, Placed PROVE TypeOK
  <2>1. ASSUME NEW c \in Client PROVE conn[c].pending \in Nat /\ conn[c].inflight \in Nat
    <3>1. Queued(c) \in Nat /\ Cardinality(Executing(c)) \in Nat /\ conn[c].inflight \in Int
      BY <1>1, OutstandingType
    <3>2. conn[c].inflight >= Queued(c) + Cardinality(Executing(c))
      BY <1>1 DEF Counted, Outstanding
    <3>3. conn[c].inflight \in Nat
      BY <3>1, <3>2
    <3>4. conn[c].staged \in Seq(Response) /\ conn[c].out \in Seq(Response)
      BY <1>1 DEF Shape, ConnShape, ConnType
    <3>5. Len(conn[c].staged) \in Nat /\ Len(conn[c].out) \in Nat
      BY <3>4
    <3>6. conn[c].pending = Len(conn[c].staged) + Len(conn[c].out)
      BY <1>1, Zenon DEF PendingExact
    <3> DEFINE m == Len(conn[c].staged)
               n == Len(conn[c].out)
    <3>7. m \in Nat /\ n \in Nat /\ conn[c].pending = m + n
      BY <3>5, <3>6
    <3> HIDE DEF m, n
    <3>8. m + n \in Nat
      BY ONLY <3>7
    <3> QED  BY <3>3, <3>7, <3>8
  <2> DEFINE T == [fd : Fd \cup {0}, in : Seq(Nat \ {0}), staged : Seq(Response),
                   out : Seq(Response), pending : Nat, inflight : Nat, closed : BOOLEAN,
                   notified : BOOLEAN, closing : BOOLEAN, interest : SUBSET {"IN", "OUT"}]
  <2>2. \A r \in ConnType : r.pending \in Nat /\ r.inflight \in Nat => r \in T
    BY DEF ConnType
  <2> HIDE DEF T
  <2>3. conn \in [Client -> T]
    BY <1>1, <2>1, <2>2 DEF Shape, ConnShape
  <2>4. active_connections \in Nat
    BY <1>1, OpenFinite DEF Placed, MapExact
  <2>5. loop.conn \in Client \cup {None} /\ loop.todo \in Seq(Client)
    BY <1>1 DEF Shape, LoopShape, LoopType
  <2> QED
    BY <1>1, <2>3, <2>4, <2>5
    DEF TypeOK, T, Shape, PeerShape, TableShape, FlagShape, PoolShape, WorkerType
<1> QED
  BY <1>1, ShapeInvariant, PendingIsExact, CountedInvariant, PlacedInvariant, PTL
=============================================================================
