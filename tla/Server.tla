------------------------------- MODULE Server -------------------------------
(***************************************************************************)
(* The event loop and its connections (src/src/server.cpp,                 *)
(* src/src/connection.cpp), the workers that answer requests, the clients  *)
(* and the kernel's sockets.  The pool is used through JobQueue, which     *)
(* WorkerPool implements.                                                  *)
(*                                                                         *)
(* One action of a thread makes at most one access to state another thread *)
(* can change, or several whose intermediate values nobody can tell apart. *)
(* Frames are the unit of all buffers: the n-th frame a client sends is n, *)
(* and a response is the pair of that number and a status.  Each client    *)
(* connects once, so a client also names its Connection object.            *)
(***************************************************************************)
EXTENDS Integers, Sequences, FiniteSets, FiniteSetsExt, Functions

CONSTANTS
    Client, Worker,
    Scenarios,       \* what the clients that take part may do: see Behaviour
    Stopping,        \* how a shutdown is asked for: "call", "signal"
    MaxFd,           \* descriptors left for connections
    MaxConnections,  \* max_connections
    MaxInflight,     \* max_inflight_per_conn
    MaxPending,      \* max_pending_requests
    MaxOutput,       \* max_conn_output_bytes, in frames
    ReadChunk,       \* kReadChunkBytes, in frames
    Room,            \* what a socket buffers towards a client, in frames
    None, NoJob

\* A client sends its frames in writes of "burst" frames.  A frame is "valid",
\* "bad" (its header can still be read) or "garbage" (it cannot).  The client may
\* leave by a shutdown of writing ("half") or a close ("gone").
Behaviour ==
    [frames : Seq({"valid", "bad", "garbage"}), burst : Nat \ {0},
     leaving : SUBSET {"half", "gone"}]

ASSUME ServerAssumption ==
    /\ IsFiniteSet(Client) /\ IsFiniteSet(Worker) /\ Worker # {}
    /\ \A s \in Scenarios : DOMAIN s \subseteq Client /\ s \in [DOMAIN s -> Behaviour]
    /\ Stopping \subseteq {"call", "signal"}
    /\ \A n \in {MaxFd, MaxConnections, MaxInflight, MaxPending, MaxOutput, ReadChunk, Room} :
         n \in Nat \ {0}
    /\ None \notin Client /\ NoJob \notin Client \X (Nat \ {0})

VARIABLES
    scenario,    \* the member of Scenarios this behaviour plays
    client,      \* a client's side of its socket: "away", "up", "half" (it shut
                 \* down writing) or "gone"
    sent,        \* how many frames it has sent
    rx, tx,      \* the socket: frames to the server, responses to the client
    got,         \* responses the client has read
    backlog,     \* connected clients that are not accepted yet
    conn,        \* the Connection objects
    connections, \* connections_: descriptor -> connection, or None
    active_connections, \* the gauge in stats_
    listening, draining, running,
    late,        \* drain_deadline has passed
    loop,        \* where the event loop is
    worker,      \* where each worker is in handle_job()
    ready,       \* ready_connections_
    completion_fd, shutdown_fd, signal_fd, \* readable?
    queue, active, phase                   \* the pool

Job == Client \X (Nat \ {0})
Pool == INSTANCE JobQueue

peers == <<client, sent, rx, tx, got, backlog>>
table == <<connections, active_connections>>
flags == <<listening, draining, running, late>>
wakeups == <<ready, completion_fd, shutdown_fd, signal_fd>>
pool == <<queue, active, phase>>
vars == <<scenario, peers, conn, table, flags, loop, worker, wakeups, pool>>

Fd == 1..MaxFd

Init ==
    /\ scenario \in Scenarios
    /\ client = [c \in Client |-> "away"]
    /\ sent = [c \in Client |-> 0]
    /\ rx = [c \in Client |-> <<>>] /\ tx = rx /\ got = rx
    /\ backlog = <<>>
    /\ conn = [c \in Client |->
                 [fd |-> 0, in |-> <<>>, staged |-> <<>>, out |-> <<>>,
                  pending |-> 0, inflight |-> 0, closed |-> FALSE,
                  notified |-> FALSE, closing |-> FALSE, interest |-> {}]]
    /\ connections = [f \in Fd |-> None]
    /\ active_connections = 0
    /\ listening = TRUE /\ draining = FALSE /\ running = TRUE /\ late = FALSE
    /\ loop = [at |-> "wait", batch |-> {}, conn |-> None, events |-> {}, todo |-> <<>>,
               after |-> "settle", back |-> "dispatch", paused |-> FALSE]
    /\ worker = [w \in Worker |-> [at |-> "idle", healthy |-> TRUE]]
    /\ ready = <<>>
    /\ completion_fd = FALSE /\ shutdown_fd = FALSE /\ signal_fd = FALSE
    /\ Pool!Init

(***************************************************************************)
(* Connections.                                                            *)
(***************************************************************************)
Open == {c \in Client : \E f \in Fd : connections[f] = c}

\* The order in which a loop over connections_ meets its entries.
Listing(S) == CHOOSE s \in [1..Cardinality(S) -> S] : IsInjective(s)

\* Somebody holds a shared_ptr to the connection, so its descriptor is open.
Live(c) ==
    /\ conn[c].fd # 0
    /\ \/ c \in Open
       \/ loop.conn = c
       \/ c \in Range(ready) \cup Range(loop.todo)
       \/ \E i \in DOMAIN queue : queue[i][1] = c
       \/ \E w \in Worker : active[w] # NoJob /\ active[w][1] = c

FreeFd == {f \in Fd : \A c \in Client : Live(c) => conn[c].fd # f}

read_paused_output(c) == conn[c].pending > MaxOutput
inflight_limit_reached(c) == conn[c].inflight >= MaxInflight
has_pending_output(c) == conn[c].pending > 0

\* Staging under out_mutex_, and whether the backlog passed the hard cap.
Staged(cn, c, response) ==
    [cn EXCEPT ![c].staged = Append(@, response), ![c].pending = @ + 1]
OverLimit(cn, c) == cn[c].pending > 2 * MaxOutput

(***************************************************************************)
(* Clients, the kernel's side of their sockets, and time.                  *)
(***************************************************************************)
\* The other end of the client's socket exists.
Attached(c) == c \in Range(backlog) \/ Live(c)

connect(c) ==
    /\ c \in DOMAIN scenario /\ client[c] = "away" /\ listening
    /\ client' = [client EXCEPT ![c] = "up"]
    /\ backlog' = Append(backlog, c)
    /\ UNCHANGED <<scenario, sent, rx, tx, got, conn, table, flags, loop, worker, wakeups, pool>>

client_send(c) ==
    /\ client[c] = "up" /\ Attached(c)
    /\ LET n == scenario[c].burst
       IN /\ sent[c] + n <= Len(scenario[c].frames)
          /\ sent' = [sent EXCEPT ![c] = @ + n]
          /\ rx' = [rx EXCEPT ![c] = @ \o [i \in 1..n |-> sent[c] + i]]
    /\ UNCHANGED <<scenario, client, tx, got, backlog, conn, table, flags, loop, worker, wakeups, pool>>

client_recv(c) ==
    /\ client[c] \in {"up", "half"} /\ tx[c] # <<>>
    /\ got' = [got EXCEPT ![c] = Append(@, Head(tx[c]))]
    /\ tx' = [tx EXCEPT ![c] = Tail(@)]
    /\ UNCHANGED <<scenario, client, sent, rx, backlog, conn, table, flags, loop, worker, wakeups, pool>>

\* shutdown(SHUT_WR), or close().
client_leave(c, how) ==
    /\ \/ client[c] = "up"
       \/ client[c] = "half" /\ how = "gone"
    /\ how \in scenario[c].leaving
    /\ Attached(c)
    /\ client' = [client EXCEPT ![c] = how]
    /\ UNCHANGED <<scenario, sent, rx, tx, got, backlog, conn, table, flags, loop, worker, wakeups, pool>>

\* request_shutdown() from another thread; a signal reaching the signalfd.
request_shutdown ==
    /\ "call" \in Stopping /\ running
    /\ shutdown_fd' = TRUE
    /\ UNCHANGED <<scenario, peers, conn, table, flags, loop, worker, ready, completion_fd, signal_fd, pool>>

signal ==
    /\ "signal" \in Stopping /\ running
    /\ signal_fd' = TRUE
    /\ UNCHANGED <<scenario, peers, conn, table, flags, loop, worker, ready, completion_fd, shutdown_fd, pool>>

deadline_passes ==
    /\ draining /\ running
    /\ late' = TRUE
    /\ UNCHANGED <<scenario, peers, conn, table, listening, draining, running, loop, worker, wakeups, pool>>

(***************************************************************************)
(* run(): wait, and dispatch the batch in any order.                       *)
(***************************************************************************)
\* What level-triggered epoll reports for a connection.  EPOLLRDHUP is always
\* registered, EPOLLHUP always reported.
Reported(c) ==
    {e \in {"HUP", "RDHUP", "IN", "OUT"} :
       CASE e = "HUP" -> client[c] = "gone"
         [] e = "RDHUP" -> client[c] \in {"half", "gone"}
         [] e = "IN" -> "IN" \in conn[c].interest /\ (rx[c] # <<>> \/ client[c] # "up")
         [] e = "OUT" -> "OUT" \in conn[c].interest /\ (Len(tx[c]) < Room \/ client[c] = "gone")}

\* "of" is the connection an event was reported for; the program sees only fd.
Event(kind, f, c, evs) == [kind |-> kind, fd |-> f, of |-> c, events |-> evs]
ReadyEvents ==
    {Event("conn", conn[c].fd, c, Reported(c)) : c \in {d \in Open : Reported(d) # {}}}
    \cup {Event(k, 0, None, {}) : k \in
            {s \in {"listen", "completion", "shutdown", "signal"} :
               CASE s = "listen" -> listening /\ backlog # <<>>
                 [] s = "completion" -> completion_fd
                 [] s = "shutdown" -> shutdown_fd
                 [] s = "signal" -> signal_fd}}

\* While draining the wait times out, so the batch may be empty.
epoll_wait ==
    /\ loop.at = "wait"
    /\ ReadyEvents # {} \/ draining
    /\ loop' = [loop EXCEPT !.at = "dispatch", !.batch = ReadyEvents]
    /\ UNCHANGED <<peers, conn, table, flags, worker, wakeups, pool>>

\* Taking e from the batch, the loop goes on at "at".
Take(e, at) == [loop EXCEPT !.at = at, !.batch = @ \ {e}]

dispatch_listen(e) ==
    /\ e.kind = "listen"
    /\ loop' = Take(e, IF listening THEN "accept" ELSE "dispatch")
    /\ UNCHANGED <<peers, conn, table, flags, worker, wakeups, pool>>

\* drain_completions() reads the counter before it swaps the vector.
dispatch_completion(e) ==
    /\ e.kind = "completion"
    /\ completion_fd' = FALSE
    /\ loop' = Take(e, "swap")
    /\ UNCHANGED <<peers, conn, table, flags, worker, ready, shutdown_fd, signal_fd, pool>>

\* The first request closes the listener, whose queued clients are reset, and
\* then recomputes the interest of every open connection.
dispatch_shutdown(e) ==
    /\ e.kind = "shutdown"
    /\ shutdown_fd' = FALSE
    /\ draining' = TRUE
    /\ IF draining
         THEN loop' = Take(e, "dispatch") /\ UNCHANGED <<listening, backlog>>
         ELSE /\ loop' = [Take(e, "each") EXCEPT !.todo = Listing(Open), !.back = "each"]
              /\ listening' = FALSE
              /\ backlog' = <<>>
    /\ UNCHANGED <<client, sent, rx, tx, got, conn, table, running, late, worker,
                   ready, completion_fd, signal_fd, pool>>

dispatch_signal(e) ==
    /\ e.kind = "signal"
    /\ signal_fd' = FALSE
    /\ shutdown_fd' = TRUE
    /\ loop' = Take(e, "dispatch")
    /\ UNCHANGED <<peers, conn, table, flags, worker, ready, completion_fd, pool>>

\* Mutant: a connection closed twice is counted twice.
close_connection_again(cn, c) ==
    /\ conn' = [cn EXCEPT ![c].closed = TRUE]
    /\ connections' = [connections EXCEPT ![cn[c].fd] = None]
    /\ active_connections' = active_connections - 1

\* close_connection() in a state where the connections are cn; idempotent.
close_connection(cn, c) ==
    IF cn[c].closed
      THEN conn' = cn /\ UNCHANGED table
      ELSE /\ conn' = [cn EXCEPT ![c].closed = TRUE]
           /\ connections' = [connections EXCEPT ![cn[c].fd] = None]
           /\ active_connections' = active_connections - 1

\* The connection now registered under the descriptor gets the event: an error,
\* or a hangup while draining, closes it; output is flushed before input is read.
dispatch_conn(e) ==
    /\ e.kind = "conn"
    /\ LET c == connections[e.fd]
           drop == "HUP" \in e.events \/ (draining /\ "RDHUP" \in e.events)
       IN \/ c = None /\ loop' = Take(e, "dispatch") /\ UNCHANGED <<conn, table>>
          \/ c # None /\ drop /\ loop' = Take(e, "dispatch") /\ close_connection(conn, c)
          \/ /\ c # None /\ ~drop
             /\ loop' = [Take(e, IF "OUT" \in e.events THEN "flush" ELSE "read") EXCEPT
                           !.conn = c, !.events = e.events, !.after = "read",
                           !.back = "dispatch"]
             /\ UNCHANGED <<conn, table>>
    /\ UNCHANGED <<peers, flags, worker, wakeups, pool>>

dispatch ==
    /\ loop.at = "dispatch"
    /\ \E e \in loop.batch :
         \/ dispatch_listen(e)
         \/ dispatch_completion(e)
         \/ dispatch_shutdown(e)
         \/ dispatch_signal(e)
         \/ dispatch_conn(e)

(***************************************************************************)
(* handle_listen_ready(): one iteration per action.                        *)
(***************************************************************************)
\* Nobody is left, or accept4() fails for want of a descriptor.
accept_return ==
    /\ loop.at = "accept"
    /\ backlog = <<>> \/ FreeFd = {}
    /\ loop' = [loop EXCEPT !.at = "dispatch"]
    /\ UNCHANGED <<peers, conn, table, flags, worker, wakeups, pool>>

AtLimit == Cardinality(Open) >= MaxConnections

\* Accepted and closed at once: the limit is reached, or epoll_ctl() cannot add the
\* descriptor.
accept_reject ==
    /\ loop.at = "accept" /\ backlog # <<>> /\ FreeFd # {}
    /\ backlog' = Tail(backlog)
    /\ UNCHANGED <<client, sent, rx, tx, got, conn, table, flags, loop, worker, wakeups, pool>>

\* The kernel hands out the lowest free descriptor.
accept_client ==
    /\ loop.at = "accept" /\ backlog # <<>> /\ FreeFd # {}
    /\ ~AtLimit
    /\ LET c == Head(backlog)
           f == Min(FreeFd)
       IN /\ conn' = [conn EXCEPT ![c].fd = f, ![c].interest = {"IN"}]
          /\ connections' = [connections EXCEPT ![f] = c]
    /\ active_connections' = active_connections + 1
    /\ backlog' = Tail(backlog)
    /\ UNCHANGED <<client, sent, rx, tx, got, flags, loop, worker, wakeups, pool>>

(***************************************************************************)
(* handle_connection_event() and process_input() for connection c.         *)
(***************************************************************************)
At(place, c) == c # None /\ loop.at = place /\ loop.conn = c
Goto(place) == loop' = [loop EXCEPT !.at = place]
FlushThenSettle == loop' = [loop EXCEPT !.at = "flush", !.after = "settle"]
Done == loop' = [loop EXCEPT !.at = loop.back, !.conn = None, !.events = {},
                             !.after = "settle", !.paused = FALSE]

\* Mutant: an event reported before the shutdown is still read from.
WantedAlways == loop.events \cap {"IN", "RDHUP"} # {}

Wanted == ~draining /\ loop.events \cap {"IN", "RDHUP"} # {}

\* One read per event, and none while draining.
read_some(c) ==
    /\ At("read", c)
    /\ LET n == Min({ReadChunk, Len(rx[c])})
       IN \/ /\ Wanted /\ n > 0
             /\ conn' = [conn EXCEPT ![c].in = @ \o SubSeq(rx[c], 1, n)]
             /\ rx' = [rx EXCEPT ![c] = SubSeq(@, n + 1, Len(@))]
             /\ Goto("process") /\ UNCHANGED table
          \/ /\ Wanted /\ n = 0 /\ client[c] # "up"
             /\ close_connection(conn, c) /\ Done /\ UNCHANGED rx
          \/ /\ ~Wanted \/ (n = 0 /\ client[c] = "up")
             /\ FlushThenSettle /\ UNCHANGED <<conn, rx, table>>
    /\ UNCHANGED <<client, sent, tx, got, backlog, flags, worker, wakeups, pool>>

NextFrame(c) == Head(conn[c].in)
Parsable(c) == conn[c].in # <<>> /\ ~inflight_limit_reached(c)

\* Backpressure, or no complete frame: frames may stay in the input buffer.
process_return(c) ==
    /\ At("process", c) /\ ~Parsable(c)
    /\ FlushThenSettle
    /\ UNCHANGED <<peers, conn, table, flags, worker, wakeups, pool>>

\* A malformed frame is answered if its header can be read.  It is not consumed.
process_malformed(c) ==
    /\ At("process", c) /\ Parsable(c)
    /\ LET kind == scenario[c].frames[NextFrame(c)]
           cn == IF kind = "bad" THEN Staged(conn, c, <<NextFrame(c), "error">>) ELSE conn
           marked == [cn EXCEPT ![c].closing = TRUE]
       IN /\ kind # "valid"
          /\ IF kind = "bad" /\ OverLimit(cn, c)
               THEN close_connection(marked, c)
               ELSE conn' = marked /\ UNCHANGED table
    /\ FlushThenSettle
    /\ UNCHANGED <<peers, flags, worker, wakeups, pool>>

process_submit(c) ==
    /\ At("process", c) /\ Parsable(c)
    /\ scenario[c].frames[NextFrame(c)] = "valid"
    /\ Pool!Submit(<<c, NextFrame(c)>>)
    /\ conn' = [conn EXCEPT ![c].in = Tail(@), ![c].inflight = @ + 1]
    /\ UNCHANGED <<peers, table, flags, loop, worker, wakeups>>

\* The queue is full.
process_reject(c) ==
    /\ At("process", c) /\ Parsable(c)
    /\ scenario[c].frames[NextFrame(c)] = "valid"
    /\ ~Pool!CanSubmit
    /\ Goto("busy")
    /\ UNCHANGED <<peers, conn, table, flags, worker, wakeups, pool>>

\* The loop itself answers SERVER_BUSY.  The frame is still Parsable: workers only
\* lower the in-flight count, and nobody sees that it was one higher meanwhile.
process_busy(c) ==
    /\ At("busy", c) /\ Parsable(c)
    /\ LET cn == Staged([conn EXCEPT ![c].in = Tail(@)], c, <<NextFrame(c), "busy">>)
       IN IF OverLimit(cn, c)
            THEN close_connection(cn, c) /\ Done
            ELSE conn' = cn /\ Goto("process") /\ UNCHANGED table
    /\ UNCHANGED <<peers, flags, worker, wakeups, pool>>

(***************************************************************************)
(* flush_output(), the close-after-flush test and update_interest().       *)
(***************************************************************************)
\* Mutant: the staged frames are copied and not taken.
Copied(c) == [conn EXCEPT ![c].out = conn[c].staged]

Swapped(c) == [conn EXCEPT ![c].out = conn[c].staged, ![c].staged = <<>>]

\* The write buffer is exhausted: take what is staged, or return.
flush_swap(c) ==
    /\ At("flush", c) /\ conn[c].out = <<>>
    /\ IF conn[c].staged = <<>>
         THEN Goto(loop.after) /\ UNCHANGED conn
         ELSE /\ conn' = Swapped(c)
              /\ UNCHANGED loop
    /\ UNCHANGED <<peers, table, flags, worker, wakeups, pool>>

\* Mutant: a partial write is not counted.
PendingAfterLast(c, n) == conn[c].pending - IF n = Len(conn[c].out) THEN n ELSE 0

PendingAfter(c, n) == conn[c].pending - n

\* send() takes what fits, would block, or fails because the peer has gone.
flush_send(c) ==
    /\ At("flush", c) /\ conn[c].out # <<>>
    /\ LET n == Min({Room - Len(tx[c]), Len(conn[c].out)})
       IN \/ /\ client[c] = "gone"
             /\ close_connection(conn, c) /\ Done /\ UNCHANGED tx
          \/ /\ client[c] # "gone" /\ n = 0
             /\ Goto(loop.after) /\ UNCHANGED <<conn, tx, table>>
          \/ /\ client[c] # "gone" /\ n > 0
             /\ tx' = [tx EXCEPT ![c] = @ \o SubSeq(conn[c].out, 1, n)]
             /\ conn' = [conn EXCEPT ![c].out = SubSeq(@, n + 1, Len(@)),
                                     ![c].pending = PendingAfter(c, n)]
             /\ UNCHANGED <<loop, table>>
    /\ UNCHANGED <<client, sent, rx, got, backlog, flags, worker, wakeups, pool>>

\* Close a finished connection; otherwise begin read_paused().
settle(c) ==
    /\ At("settle", c)
    /\ IF conn[c].closing /\ ~has_pending_output(c)
         THEN close_connection(conn, c) /\ Done
         ELSE /\ loop' = [loop EXCEPT !.at = "arm", !.paused = read_paused_output(c)]
              /\ UNCHANGED <<conn, table>>
    /\ UNCHANGED <<peers, flags, worker, wakeups, pool>>

\* The rest of the condition for EPOLLIN.
interest_in(c) ==
    /\ At("arm", c)
    /\ loop' = [loop EXCEPT !.at = "apply",
                            !.paused = @ \/ draining \/ inflight_limit_reached(c)
                                         \/ conn[c].closing]
    /\ UNCHANGED <<peers, conn, table, flags, worker, wakeups, pool>>

\* Mutant: EPOLLOUT only above the watermark.
WantsOutLate(c) == read_paused_output(c)

WantsOut(c) == has_pending_output(c)

\* EPOLLOUT, and epoll_ctl(), which fails for a connection closed meanwhile.
interest_out(c) ==
    /\ At("apply", c)
    /\ conn' = IF conn[c].closed THEN conn
               ELSE [conn EXCEPT ![c].interest =
                       (IF loop.paused THEN {} ELSE {"IN"})
                       \cup (IF WantsOut(c) THEN {"OUT"} ELSE {})]
    /\ Done
    /\ UNCHANGED <<peers, table, flags, worker, wakeups, pool>>

(***************************************************************************)
(* Loops over connections: drain_completions(), and the one that turns off *)
(* reading when a shutdown begins.                                         *)
(***************************************************************************)
completions_swap ==
    /\ loop.at = "swap"
    /\ loop' = [loop EXCEPT !.at = "ready", !.todo = ready]
    /\ ready' = <<>>
    /\ UNCHANGED <<peers, conn, table, flags, worker, completion_fd, shutdown_fd, signal_fd, pool>>

\* Mutant: the bit is not cleared.
keep_notified(c) == conn

clear_notified(c) == [conn EXCEPT ![c].notified = FALSE]

\* The bit is cleared before the flush.
completions_next ==
    /\ loop.at = "ready" /\ loop.todo # <<>>
    /\ LET c == Head(loop.todo)
       IN /\ conn' = clear_notified(c)
          /\ loop' = IF conn[c].closed
                       THEN [loop EXCEPT !.todo = Tail(@)]
                       ELSE [loop EXCEPT !.at = "flush", !.todo = Tail(@), !.conn = c,
                                         !.after = "settle", !.back = "ready"]
    /\ UNCHANGED <<peers, table, flags, worker, wakeups, pool>>

quiesce_next ==
    /\ loop.at = "each" /\ loop.todo # <<>>
    /\ loop' = [loop EXCEPT !.at = "arm", !.todo = Tail(@), !.conn = Head(loop.todo)]
    /\ UNCHANGED <<peers, conn, table, flags, worker, wakeups, pool>>

\* Back to the batch, or on with the teardown.
list_end ==
    /\ loop.at \in {"ready", "each"} /\ loop.todo = <<>>
    /\ loop' = [loop EXCEPT !.at = IF running THEN "dispatch" ELSE "teardown",
                            !.back = "dispatch"]
    /\ UNCHANGED <<peers, conn, table, flags, worker, wakeups, pool>>

batch_end ==
    /\ loop.at = "dispatch" /\ loop.batch = {}
    /\ Goto(IF draining THEN "drain" ELSE "wait")
    /\ UNCHANGED <<peers, conn, table, flags, worker, wakeups, pool>>

(***************************************************************************)
(* drain_complete(), the deadline, and the teardown.                       *)
(***************************************************************************)
drain_queue ==
    /\ loop.at = "drain"
    /\ loop' = IF queue # <<>> THEN [loop EXCEPT !.at = "deadline"]
               ELSE [loop EXCEPT !.at = "inflight", !.todo = Listing(Open)]
    /\ UNCHANGED <<peers, conn, table, flags, worker, wakeups, pool>>

StopRunning ==
    /\ running' = FALSE
    /\ loop' = [loop EXCEPT !.at = "exit", !.todo = <<>>]
    /\ UNCHANGED <<listening, draining, late>>

\* Mutant: only output keeps the drain going.
drain_skip_inflight ==
    /\ loop.at = "inflight"
    /\ IF loop.todo = <<>> THEN StopRunning ELSE Goto("output") /\ UNCHANGED flags
    /\ UNCHANGED <<peers, conn, table, worker, wakeups, pool>>

\* For each connection the in-flight count is read before the output count.
drain_inflight ==
    /\ loop.at = "inflight"
    /\ IF loop.todo = <<>> THEN StopRunning
       ELSE /\ Goto(IF conn[Head(loop.todo)].inflight > 0 THEN "deadline" ELSE "output")
            /\ UNCHANGED flags
    /\ UNCHANGED <<peers, conn, table, worker, wakeups, pool>>

drain_output ==
    /\ loop.at = "output"
    /\ loop' = IF has_pending_output(Head(loop.todo)) THEN [loop EXCEPT !.at = "deadline"]
               ELSE [loop EXCEPT !.at = "inflight", !.todo = Tail(@)]
    /\ UNCHANGED <<peers, conn, table, flags, worker, wakeups, pool>>

\* Mutant: the deadline is not looked at.
drain_patiently ==
    /\ loop.at = "deadline"
    /\ loop' = [loop EXCEPT !.at = "wait", !.todo = <<>>]
    /\ UNCHANGED <<peers, conn, table, flags, worker, wakeups, pool>>

drain_deadline ==
    /\ loop.at = "deadline"
    /\ IF late THEN StopRunning
       ELSE loop' = [loop EXCEPT !.at = "wait", !.todo = <<>>] /\ UNCHANGED flags
    /\ UNCHANGED <<peers, conn, table, worker, wakeups, pool>>

\* pool_->drain_and_stop(): close the queue, discard it if the timeout passes
\* first, join the workers; then the last drain_completions().
teardown_close ==
    /\ loop.at = "exit" /\ Pool!Close /\ Goto("join")
    /\ UNCHANGED <<peers, conn, table, flags, worker, wakeups>>

teardown_discard ==
    /\ loop.at = "join" /\ queue # <<>> /\ Pool!Discard
    /\ UNCHANGED <<peers, conn, table, flags, loop, worker, wakeups>>

teardown_join ==
    /\ loop.at = "join" /\ Pool!Stop /\ Goto("swap")
    /\ completion_fd' = FALSE
    /\ UNCHANGED <<peers, conn, table, flags, worker, ready, shutdown_fd, signal_fd>>

teardown ==
    /\ loop.at = "teardown"
    /\ conn' = [c \in Client |-> IF c \in Open THEN [conn[c] EXCEPT !.closed = TRUE] ELSE conn[c]]
    /\ connections' = [f \in Fd |-> None]
    /\ active_connections' = active_connections - Cardinality(Open)
    /\ Goto("stopped")
    /\ UNCHANGED <<peers, flags, worker, wakeups, pool>>

(***************************************************************************)
(* Workers: handle_job(), whose cache operation is not visible here, and   *)
(* complete_job().                                                         *)
(***************************************************************************)
Answering(w, place) == active[w] # NoJob /\ worker[w].at = place
Owner(w) == active[w][1]
WorkerGoto(w, place) == worker' = [worker EXCEPT ![w].at = place]

\* A worker has its next job.  What handle_job() does with it before it has a
\* response to hand over, no other thread sees here (Service).
worker_take(w) ==
    /\ worker[w].at = "idle"
    /\ Pool!Take(w)
    /\ WorkerGoto(w, "check")
    /\ UNCHANGED <<peers, conn, table, flags, loop, wakeups>>

\* Mutant: a response to a closed connection leaves its request in flight.
enqueue_check_forgets(w) ==
    /\ Answering(w, "check")
    /\ worker' = [worker EXCEPT ![w] = [at |-> IF conn[Owner(w)].closed THEN "mark" ELSE "stage",
                                       healthy |-> TRUE]]
    /\ UNCHANGED <<peers, conn, table, flags, loop, wakeups, pool>>

\* enqueue_response() in three steps: the closed test, staging, the counter.
enqueue_check(w) ==
    /\ Answering(w, "check")
    /\ worker' = [worker EXCEPT ![w] =
                    IF conn[Owner(w)].closed THEN [at |-> "settle", healthy |-> FALSE]
                    ELSE [at |-> "stage", healthy |-> TRUE]]
    /\ UNCHANGED <<peers, conn, table, flags, loop, wakeups, pool>>

enqueue_stage(w) ==
    /\ Answering(w, "stage")
    /\ conn' = Staged(conn, Owner(w), <<active[w][2], "ok">>)
    /\ worker' = [worker EXCEPT ![w] =
                    [at |-> "settle", healthy |-> ~OverLimit(conn', Owner(w))]]
    /\ UNCHANGED <<peers, table, flags, loop, wakeups, pool>>

enqueue_settle(w) ==
    /\ Answering(w, "settle")
    /\ conn' = [conn EXCEPT ![Owner(w)].inflight = @ - 1]
    /\ WorkerGoto(w, IF worker[w].healthy THEN "notify" ELSE "mark")
    /\ UNCHANGED <<peers, table, flags, loop, wakeups, pool>>

\* Mutant: a worker that marks the connection notifies nobody.
mark_silently(w) ==
    /\ Answering(w, "mark")
    /\ conn' = [conn EXCEPT ![Owner(w)].closing = TRUE]
    /\ WorkerGoto(w, "return")
    /\ UNCHANGED <<peers, table, flags, loop, wakeups, pool>>

\* Written without a lock while the loop may read it: it sees the old value or
\* the new one.
mark_close_after_flush(w) ==
    /\ Answering(w, "mark")
    /\ conn' = [conn EXCEPT ![Owner(w)].closing = TRUE]
    /\ WorkerGoto(w, "notify")
    /\ UNCHANGED <<peers, table, flags, loop, wakeups, pool>>

\* Mutant: every completion queues a notice.
mark_always(w) ==
    /\ Answering(w, "notify")
    /\ conn' = [conn EXCEPT ![Owner(w)].notified = TRUE]
    /\ WorkerGoto(w, "push")
    /\ UNCHANGED <<peers, table, flags, loop, wakeups, pool>>

try_mark_notified(w) ==
    /\ Answering(w, "notify")
    /\ conn' = [conn EXCEPT ![Owner(w)].notified = TRUE]
    /\ WorkerGoto(w, IF conn[Owner(w)].notified THEN "return" ELSE "push")
    /\ UNCHANGED <<peers, table, flags, loop, wakeups, pool>>

push_ready(w) ==
    /\ Answering(w, "push")
    /\ ready' = Append(ready, Owner(w))
    /\ WorkerGoto(w, "poke")
    /\ UNCHANGED <<peers, conn, table, flags, loop, completion_fd, shutdown_fd, signal_fd, pool>>

\* Mutant: no wakeup for a connection that is closed.
poke_if_open(w) ==
    /\ Answering(w, "poke")
    /\ completion_fd' = (completion_fd \/ ~conn[Owner(w)].closed)
    /\ WorkerGoto(w, "return")
    /\ UNCHANGED <<peers, conn, table, flags, loop, ready, shutdown_fd, signal_fd, pool>>

poke(w) ==
    /\ Answering(w, "poke")
    /\ completion_fd' = TRUE
    /\ WorkerGoto(w, "return")
    /\ UNCHANGED <<peers, conn, table, flags, loop, ready, shutdown_fd, signal_fd, pool>>

handler_returns(w) ==
    /\ worker[w].at = "return"
    /\ Pool!Finish(w)
    /\ worker' = [worker EXCEPT ![w] = [at |-> "idle", healthy |-> TRUE]]
    /\ UNCHANGED <<peers, conn, table, flags, loop, wakeups>>

worker_step(w) ==
    /\ \/ worker_take(w)
       \/ enqueue_check(w) \/ enqueue_stage(w) \/ enqueue_settle(w)
       \/ mark_close_after_flush(w)
       \/ try_mark_notified(w) \/ push_ready(w) \/ poke(w)
       \/ handler_returns(w)
    /\ UNCHANGED scenario

connection_step(c) ==
    \/ read_some(c)
    \/ process_return(c) \/ process_malformed(c) \/ process_submit(c)
    \/ process_reject(c) \/ process_busy(c)
    \/ flush_swap(c) \/ flush_send(c)
    \/ settle(c) \/ interest_in(c) \/ interest_out(c)

loop_step ==
    /\ \/ epoll_wait \/ dispatch \/ batch_end
       \/ accept_return \/ accept_reject \/ accept_client
       \/ \E c \in Client : connection_step(c)
       \/ completions_swap \/ completions_next \/ quiesce_next \/ list_end
       \/ drain_queue \/ drain_inflight \/ drain_output \/ drain_deadline
       \/ teardown_close \/ teardown_discard \/ teardown_join \/ teardown
    /\ UNCHANGED scenario

environment ==
    \/ \E c \in Client : connect(c) \/ client_send(c) \/ client_recv(c)
    \/ \E c \in Client, how \in {"half", "gone"} : client_leave(c, how)
    \/ request_shutdown \/ signal \/ deadline_passes

Next == loop_step \/ (\E w \in Worker : worker_step(w)) \/ environment

Spec == Init /\ [][Next]_vars

\* Threads are scheduled and time passes.  Clients need do nothing.
ThreadFairness ==
    /\ WF_vars(loop_step)
    /\ \A w \in Worker : WF_vars(worker_step(w))
    /\ WF_vars(deadline_passes)
FairSpec == Spec /\ ThreadFairness

\* In addition clients read what is sent to them.
ReadingSpec == FairSpec /\ \A c \in Client : WF_vars(client_recv(c))

(***************************************************************************)
(* Properties.                                                             *)
(***************************************************************************)
Response == (Nat \ {0}) \X {"ok", "busy", "error"}

\* The shape of the state; in particular no size_t counter goes below zero.
TypeOK ==
    /\ client \in [Client -> {"away", "up", "half", "gone"}]
    /\ sent \in [Client -> Nat]
    /\ rx \in [Client -> Seq(Nat \ {0})]
    /\ tx \in [Client -> Seq(Response)] /\ got \in [Client -> Seq(Response)]
    /\ backlog \in Seq(Client)
    /\ conn \in [Client ->
                   [fd : Fd \cup {0}, in : Seq(Nat \ {0}), staged : Seq(Response),
                    out : Seq(Response), pending : Nat, inflight : Nat, closed : BOOLEAN,
                    notified : BOOLEAN, closing : BOOLEAN, interest : SUBSET {"IN", "OUT"}]]
    /\ connections \in [Fd -> Client \cup {None}]
    /\ active_connections \in Nat
    /\ listening \in BOOLEAN /\ draining \in BOOLEAN /\ running \in BOOLEAN /\ late \in BOOLEAN
    /\ completion_fd \in BOOLEAN /\ shutdown_fd \in BOOLEAN /\ signal_fd \in BOOLEAN
    /\ loop.conn \in Client \cup {None} /\ loop.todo \in Seq(Client)
    /\ worker \in [Worker -> [at : {"idle", "check", "stage", "settle", "mark", "notify",
                                    "push", "poke", "return"}, healthy : BOOLEAN]]
    /\ ready \in Seq(Client)
    /\ queue \in Seq(Job)
    /\ phase \in {"open", "closed", "stopped"}

Count(s, x) == Cardinality({i \in DOMAIN s : s[i] = x})
WorkersAt(c, places) ==
    {w \in Worker : active[w] # NoJob /\ Owner(w) = c /\ worker[w].at \in places}

\* Until the teardown, which may discard jobs, the in-flight counter is exactly the
\* requests of the connection that are queued or being executed, whichever of the
\* loop and the workers closes, answers or refuses them.
InflightExact ==
    phase = "open" =>
        \A c \in Client :
            conn[c].inflight = Cardinality({i \in DOMAIN queue : queue[i][1] = c})
                               + Cardinality(WorkersAt(c, {"check", "stage", "settle"}))

\* The pending counter that decides backpressure, EPOLLOUT and the end of the
\* drain is the length of the two output buffers.
PendingExact ==
    \A c \in Client : conn[c].pending = Len(conn[c].staged) + Len(conn[c].out)

\* How many requests the server has taken from the stream of c.
Consumed(c) == sent[c] - Len(rx[c]) - Len(conn[c].in)
Delivered(c, n) ==
    Count(tx[c] \o got[c], <<n, "ok">>) + Count(tx[c] \o got[c], <<n, "busy">>)
Copies(c, n) ==
    Count(queue, <<c, n>>)
    + Cardinality({w \in WorkersAt(c, {"check", "stage"}) : active[w][2] = n})
    + Count(conn[c].staged \o conn[c].out, <<n, "ok">>)
    + Count(conn[c].staged \o conn[c].out, <<n, "busy">>)
    + Delivered(c, n)

\* A request is never duplicated on its way through queue, worker, staging
\* buffer, write buffer and socket, and is lost only with its connection or in
\* the teardown.
RequestConserved ==
    \A c \in Client : \A n \in 1..sent[c] :
        scenario[c].frames[n] = "valid" =>
            /\ Copies(c, n) <= 1
            /\ n > Consumed(c) => Copies(c, n) = 0
            /\ n <= Consumed(c) /\ ~conn[c].closed /\ phase = "open" => Copies(c, n) = 1

\* The connections drain_completions() has yet to visit.
Visiting == loop.at = "ready" \/ (loop.conn # None /\ loop.back = "ready")
Notices(c) ==
    Count(ready, c) + (IF Visiting THEN Count(loop.todo, c) ELSE 0)
    + Cardinality(WorkersAt(c, {"push"}))

\* A set notification bit stands for exactly one notice on its way to the loop,
\* and a notice in the ready vector has a wakeup: AUDIT.md, "no lost-wakeup
\* window", and DESIGN.md, "one notification per connection".
NoticeSound ==
    /\ \A c \in Client : Notices(c) = IF conn[c].notified THEN 1 ELSE 0
    /\ ready # <<>> => \/ completion_fd
                       \/ loop.at = "swap"
                       \/ \E w \in Worker : worker[w].at = "poke"

\* The loop will look at c again although nothing happens on its socket.
Coming(c, places) == conn[c].notified \/ WorkersAt(c, places) # {}
Untouched(c) == loop.conn # c /\ ~(loop.at = "each" \/ loop.back = "each")

\* What epoll was last told suffices, although it was computed from counters the
\* workers were changing: output waits only for EPOLLOUT or a notice; reading is
\* off only while there is a reason for it or a notice; and a connection to be
\* closed after its output is not forgotten.
InterestSound ==
    \A c \in Open : Untouched(c) =>
        /\ has_pending_output(c) =>
              "OUT" \in conn[c].interest \/ Coming(c, {"settle", "mark", "notify"})
        /\ "IN" \notin conn[c].interest =>
              \/ draining \/ conn[c].closing
              \/ read_paused_output(c) \/ inflight_limit_reached(c)
              \/ Coming(c, {"mark", "notify"})
        /\ conn[c].closing /\ ~has_pending_output(c) => Coming(c, {"notify"})

\* The gauge of active connections is the size of the map and stays within the
\* limit, and the map holds exactly the accepted connections that are not closed.
ConnectionsExact ==
    /\ active_connections = Cardinality(Open)
    /\ active_connections <= MaxConnections
    /\ \A f \in Fd : connections[f] # None => conn[connections[f]].fd = f
    /\ \A c \in Client : c \in Open <=> conn[c].fd # 0 /\ ~conn[c].closed

\* If the loop ends before the deadline, every request taken from a connection
\* that is still open has its response in the socket: drain_complete() misses
\* none on its way from the queue through a worker to the buffers.
CleanExit ==
    ~running /\ ~late =>
        \A c \in Open : \A n \in 1..Consumed(c) :
            scenario[c].frames[n] = "valid" => Delivered(c, n) = 1

\* "shutdown drains only requests that were already submitted": once draining,
\* nothing is read from a client and nothing is submitted.
DrainsOnly ==
    [][draining => /\ Len(queue') <= Len(queue)
                   /\ \A c \in Client : conn'[c].in = conn[c].in]_vars

\* The numbers a frame can have.
FrameNumbers ==
    1..Max(UNION {{Len(s[c].frames) : c \in DOMAIN s} : s \in Scenarios})

\* A submitted request is answered through the socket of a client that keeps
\* emptying it, unless the connection is closed: no completion is lost between
\* the workers and the loop (complete_job(), drain_completions()).
SubmittedIsAnswered ==
    \A c \in Client : []<>(tx[c] = <<>>) =>
        \A n \in FrameNumbers :
            Count(queue, <<c, n>>) > 0 ~> (Delivered(c, n) > 0 \/ conn[c].closed)

\* A closed connection is destroyed, so its client learns of it and its
\* descriptor can be used again: no job, notice or worker keeps it for ever.
ClosedIsReleased == \A c \in Client : conn[c].closed ~> ~Live(c)

\* A shutdown request stops the server, whatever clients do.
ShutdownCompletes == (shutdown_fd \/ signal_fd) ~> loop.at = "stopped"

(***************************************************************************)
(* What the documentation says and the code does not do.                   *)
(***************************************************************************)
\* server.cpp: "backpressure: stop pulling requests until responses drain":
\* a complete request in the input buffer is taken from it in the end.
BufferedIsPulled ==
    \A c \in Client : \A n \in FrameNumbers :
        Count(conn[c].in, n) > 0 ~> (Count(conn[c].in, n) = 0 \/ conn[c].closed)

\* AUDIT.md: "EOF/fatal errors remove the descriptor from epoll and mark the
\* connection closed": a connection is closed for a reason of its own, because
\* its client left, its stream or its backlog is beyond repair, or the server
\* stops; never because of an event that was meant for another.
ClosedForAReason ==
    \A c \in Client : conn[c].closed =>
        client[c] # "up" \/ conn[c].closing \/ OverLimit(conn, c) \/ ~running
=============================================================================
