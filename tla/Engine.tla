------------------------------- MODULE Engine -------------------------------
(***************************************************************************)
(* The pipelining client of the benchmark (src/benchmark/async_client.cpp) *)
(* and the benchmark around it: one thread that keeps several requests     *)
(* outstanding on each of several non-blocking sockets, against a server   *)
(* that answers in any order, answers wrongly, hangs up or falls silent.   *)
(* A frame is two pieces, which the sockets may separate.                  *)
(***************************************************************************)
EXTENDS Integers, Sequences, FiniteSets, SequencesExt

CONSTANTS
    Configs,     \* the configurations to consider, one chosen per behaviour
    Room,        \* bound: pieces a socket takes before send() would block
    MaxFaults    \* bound: busy and wrong answers the server gives

ASSUME ConfigsArePositive ==
    /\ \A f \in Configs : f.connections # {} /\ {f.pipeline_depth, f.requests} \subseteq Nat \ {0}
    /\ Room \in Nat \ {0} /\ MaxFaults \in Nat

VARIABLES
    config,     \* EngineConfig: the connections, the depth and how many requests
    conn,       \* Engine::Conn of each connection
    issued,     \* requests handed to the socket layer; ids are 1, 2, ...
    stats,      \* EngineStats, and the completions the benchmark counts as failed
    completed,  \* the ids on_complete was called for
    engine,     \* where run() is: at, the batch of events, the connection in hand
    result,     \* what run() returned, and the exit code of the benchmark
    outgoing,   \* pieces in each socket on their way to the server
    incoming,   \* pieces on their way to the engine
    got,        \* pieces the server has read and not answered
    cut,        \* the responses of which it has sent only the first piece
    hung,       \* connections the server has closed
    faults      \* how many busy or wrong answers it has given

netvars == <<outgoing, incoming, got, cut, hung, faults>>
enginevars == <<config, conn, issued, stats, completed, engine, result>>
vars == <<enginevars, netvars>>

Conn == config.connections
Depth == config.pipeline_depth
Requests == config.requests
Id == 1..Requests
Kind == {"ok", "busy", "bad"}    \* "bad": malformed, or with another opcode

NewConn == [live |-> FALSE, output |-> <<>>, output_pos |-> 0, input |-> <<>>,
            pending |-> {}, want_write |-> FALSE]

Init ==
    /\ config \in Configs
    /\ conn = [c \in Conn |-> NewConn]
    /\ issued = 0
    /\ stats = [received |-> 0, io_failures |-> 0, protocol_failures |-> 0, failed |-> 0]
    /\ completed = {}
    /\ engine = [at |-> "connect"]
    /\ result = [error |-> "none", exit |-> -1]
    /\ outgoing = [c \in Conn |-> <<>>]
    /\ incoming = [c \in Conn |-> <<>>]
    /\ got = [c \in Conn |-> {}]
    /\ cut = [c \in Conn |-> <<>>]
    /\ hung = {}
    /\ faults = 0

Pieces(id) == <<[id |-> id, last |-> FALSE], [id |-> id, last |-> TRUE]>>
Unsent(c) == conn[c].output_pos < Len(conn[c].output)
Live == {c \in Conn : conn[c].live}

Returns(error) ==
    /\ engine' = [at |-> "returned"]
    /\ result' = [result EXCEPT !.error = error]

-----------------------------------------------------------------------------
(* The server and the sockets. *)

server_reads(c) ==
    /\ outgoing[c] # <<>>
    /\ outgoing' = [outgoing EXCEPT ![c] = <<>>]
    /\ got' = [got EXCEPT ![c] = @ \union ToSet(outgoing[c])]
    /\ UNCHANGED <<incoming, cut, hung, faults>>

Sends(c, pieces) == incoming' = [incoming EXCEPT ![c] = @ \o pieces]
Response(id, kind) == [id |-> id, kind |-> kind]

\* The server has a whole request and sends the first piece of the response, and
\* then the other.  Its workers finish in any order.
server_answers(c) ==
    /\ cut[c] = <<>>
    /\ \E id \in Id, kind \in {"ok", "busy"} :
         /\ [id |-> id, last |-> TRUE] \in got[c]
         /\ got' = [got EXCEPT ![c] = {p \in @ : p.id # id}]
         /\ cut' = [cut EXCEPT ![c] = <<Response(id, kind)>>]
         /\ Sends(c, <<Response(id, kind)>>)
         /\ faults' = IF kind = "busy" THEN faults + 1 ELSE faults
    /\ faults' <= MaxFaults
    /\ UNCHANGED <<outgoing, hung>>

server_completes(c) ==
    /\ cut[c] # <<>>
    /\ Sends(c, cut[c])
    /\ cut' = [cut EXCEPT ![c] = <<>>]
    /\ UNCHANGED <<outgoing, got, hung, faults>>

\* A response nobody asked for, with an id of any age or a wrong header.
server_errs(c) ==
    /\ faults < MaxFaults
    /\ cut[c] = <<>>
    /\ \E id \in 1..issued, kind \in {"ok", "bad"} :
         Sends(c, <<Response(id, kind), Response(id, kind)>>)
    /\ faults' = faults + 1
    /\ UNCHANGED <<outgoing, got, cut, hung>>

server_hangs_up(c) ==
    /\ hung' = hung \union {c}
    /\ outgoing' = [outgoing EXCEPT ![c] = <<>>]
    /\ got' = [got EXCEPT ![c] = {}]
    /\ cut' = [cut EXCEPT ![c] = <<>>]
    /\ UNCHANGED <<incoming, faults>>

\* Nothing it does matters once run() has returned.
server ==
    /\ engine.at \notin {"returned", "exited"}
    /\ \E c \in Live \ hung :
         \/ server_reads(c) \/ server_answers(c) \/ server_completes(c)
         \/ server_errs(c) \/ server_hangs_up(c)
    /\ UNCHANGED enginevars

-----------------------------------------------------------------------------
(* The engine. *)

\* connect_all(): all connections, or an error before any request.  run() begins by
\* writing to each of them.
connect_all ==
    /\ engine.at = "connect"
    /\ conn' = [c \in Conn |-> [NewConn EXCEPT !.live = TRUE]]
    /\ engine' = [at |-> "batch", todo |-> [c \in Conn |-> {"OUT"}]]
    /\ UNCHANGED <<issued, stats, completed, result, netvars>>

connect_fails ==
    /\ engine.at = "connect"
    /\ Returns("connect")
    /\ UNCHANGED <<conn, issued, stats, completed, netvars>>

\* fill_pipeline(): how many requests it adds to connection c with these pending.
Missing(c) == Min({Depth - Cardinality(conn[c].pending), Requests - issued})

\* Mutant: one request at a time, however many are missing.
fill_one(c) ==
    LET ids == {id \in Id : id = issued + 1 /\ Missing(c) > 0}
    IN  /\ issued' = issued + Cardinality(ids)
        /\ conn' = [conn EXCEPT ![c].pending = @ \union ids,
                                ![c].output = @ \o (IF ids = {} THEN <<>> ELSE Pieces(issued + 1))]

fill_pipeline(c) ==
    /\ issued' = issued + Missing(c)
    /\ conn' = [conn EXCEPT
         ![c].pending = @ \union (issued + 1)..(issued + Missing(c)),
         ![c].output = @ \o FlattenSeq([i \in 1..Missing(c) |-> Pieces(issued + i)])]

\* close(2) discards what is in the socket, and the server will not be heard again.
Closed(c) ==
    /\ outgoing' = [outgoing EXCEPT ![c] = <<>>]
    /\ incoming' = [incoming EXCEPT ![c] = <<>>]
    /\ got' = [got EXCEPT ![c] = {}]
    /\ cut' = [cut EXCEPT ![c] = <<>>]
    /\ UNCHANGED <<hung, faults>>

drop(c) ==
    /\ conn' = [conn EXCEPT ![c].live = FALSE]
    /\ stats' = [stats EXCEPT !.io_failures = @ + 1]
    /\ Closed(c)

\* The connection in hand is done with, for better or worse.
Resume == engine' = [at |-> "batch", todo |-> engine.todo]

fail(c) ==
    /\ drop(c)
    /\ Resume
    /\ UNCHANGED <<issued, completed, result>>

Handle(c, at) == engine' = [at |-> at, c |-> c, out |-> {"IN", "OUT"} \subseteq engine.todo[c],
                            todo |-> Restrict(engine.todo, DOMAIN engine.todo \ {c})]

\* The next event of the batch.  A hang-up goes before what there is to read.  A
\* connection occurs once in a batch, so that none is found dropped.
dispatch(c) ==
    /\ engine.at = "batch"
    /\ c \in DOMAIN engine.todo
    /\ \/ /\ "RDHUP" \in engine.todo[c]
          /\ drop(c)
          /\ engine' = [engine EXCEPT !.todo = Restrict(@, DOMAIN @ \ {c})]
       \/ /\ "RDHUP" \notin engine.todo[c]
          /\ Handle(c, IF "IN" \in engine.todo[c] THEN "read" ELSE "fill")
          /\ UNCHANGED <<conn, stats, netvars>>
    /\ UNCHANGED <<issued, completed, result>>

\* on_readable(), after recv() has taken all there is.  The input is parsed up to
\* the first frame that is refused; an end of the stream discards it unparsed.
Input(c) == conn[c].input \o incoming[c]
Frames(c) == [i \in 1..(Len(Input(c)) \div 2) |-> Input(c)[2 * i]]

\* Mutant: a response is matched by its id alone, however often it comes.
RefusedTwiceOk(c, i) ==
    \/ Frames(c)[i].kind = "bad"
    \/ Frames(c)[i].id \notin conn[c].pending

Refused(c, i) ==
    \/ Frames(c)[i].kind = "bad"
    \/ Frames(c)[i].id \notin conn[c].pending
    \/ \E j \in 1..(i - 1) : Frames(c)[j].id = Frames(c)[i].id

Accepted(c) ==
    {i \in DOMAIN Frames(c) : \A j \in 1..i : ~Refused(c, j)}

\* on_complete() and the bookkeeping for the frames accepted.
Completes(c) ==
    LET ids  == {Frames(c)[i].id : i \in Accepted(c)}
        busy == {i \in Accepted(c) : Frames(c)[i].kind = "busy"}
        refused == IF Accepted(c) = DOMAIN Frames(c) THEN 0 ELSE 1
    IN  /\ completed' = completed \union ids
        /\ stats' = [stats EXCEPT
             !.received = @ + Cardinality(Accepted(c)),
             !.failed = @ + Cardinality(busy),
             !.protocol_failures = @ + refused,
             !.io_failures = @ + refused]
        /\ conn' = [conn EXCEPT
             ![c].pending = @ \ ids,
             ![c].live = (refused = 0),
             ![c].input = SubSeq(Input(c), 2 * Cardinality(Accepted(c)) + 1, Len(Input(c)))]

on_readable(c) ==
    /\ engine.at = "read" /\ engine.c = c
    /\ c \notin hung
    /\ Completes(c)
    /\ \/ /\ Accepted(c) = DOMAIN Frames(c)
          /\ incoming' = [incoming EXCEPT ![c] = <<>>]
          /\ engine' = [engine EXCEPT !.at = "fill"]
          /\ UNCHANGED <<outgoing, got, cut, hung, faults>>
       \/ /\ Accepted(c) # DOMAIN Frames(c)
          /\ Closed(c)
          /\ Resume
    /\ UNCHANGED <<issued, result>>

on_readable_eof(c) ==
    /\ engine.at = "read" /\ engine.c = c
    /\ c \in hung
    /\ fail(c)

\* on_writable(): fill the pipeline, then send until all is out or the socket full.
on_writable(c) ==
    /\ engine.at = "fill" /\ engine.c = c
    /\ fill_pipeline(c)
    /\ engine' = [engine EXCEPT !.at = "send"]
    /\ UNCHANGED <<stats, completed, result, netvars>>

Sendable(c) == Min({Len(conn[c].output) - conn[c].output_pos, Room - Len(outgoing[c])})

send(c) ==
    /\ engine.at = "send" /\ engine.c = c
    /\ c \notin hung /\ Sendable(c) > 0
    /\ LET from == conn[c].output_pos
       IN outgoing' = [outgoing EXCEPT ![c] =
                         @ \o SubSeq(conn[c].output, from + 1, from + Sendable(c))]
    /\ conn' = [conn EXCEPT ![c].output_pos = @ + Sendable(c)]
    /\ UNCHANGED <<issued, stats, completed, engine, result, incoming, got, cut, hung, faults>>

send_fails(c) ==
    /\ engine.at = "send" /\ engine.c = c
    /\ c \in hung /\ Unsent(c)
    /\ fail(c)

\* After on_readable() has written, an EPOLLOUT of the same event writes again.
Written == IF engine.out THEN engine' = [engine EXCEPT !.at = "fill", !.out = FALSE] ELSE Resume

\* Mutant: interest in writing, once registered, stays.
update_interest_sticky(c) ==
    conn' = [conn EXCEPT ![c].want_write = @ \/ Unsent(c),
                         ![c].output = IF Unsent(c) THEN @ ELSE <<>>,
                         ![c].output_pos = IF Unsent(c) THEN @ ELSE 0]

update_interest(c) ==
    conn' = [conn EXCEPT ![c].want_write = Unsent(c),
                         ![c].output = IF Unsent(c) THEN @ ELSE <<>>,
                         ![c].output_pos = IF Unsent(c) THEN @ ELSE 0]

send_done(c) ==
    /\ engine.at = "send" /\ engine.c = c
    /\ ~Unsent(c) \/ (c \notin hung /\ Sendable(c) = 0)
    /\ update_interest(c)
    /\ Written
    /\ UNCHANGED <<issued, stats, completed, result, netvars>>

batch_end ==
    /\ engine.at = "batch"
    /\ DOMAIN engine.todo = {}
    /\ engine' = [at |-> "loop"]
    /\ UNCHANGED <<conn, issued, stats, completed, result, netvars>>

\* Mutant: the answers are counted and the connections not looked at.
counts_done == issued = Requests

all_done ==
    /\ issued = Requests
    /\ stats.received >= issued
    /\ \A c \in Conn : conn[c].pending = {} /\ ~Unsent(c)

Flags(c) ==
    {f \in {"IN", "OUT", "RDHUP"} :
       \/ f = "IN" /\ (incoming[c] # <<>> \/ c \in hung)
       \/ f = "OUT" /\ conn[c].want_write /\ (Len(outgoing[c]) < Room \/ c \in hung)
       \/ f = "RDHUP" /\ c \in hung}

Ready == {c \in Live : Flags(c) # {}}

epoll_wait ==
    /\ engine.at = "loop" /\ ~all_done /\ Live # {}
    /\ Ready # {}
    /\ engine' = [at |-> "batch", todo |-> [c \in Ready |-> Flags(c)]]
    /\ UNCHANGED <<conn, issued, stats, completed, result, netvars>>

\* Mutant: epoll_wait() without its timeout.
run_returns_patient ==
    /\ engine.at = "loop"
    /\ \/ all_done /\ Returns("")
       \/ ~all_done /\ Live = {} /\ Returns("all benchmark connections failed")
    /\ UNCHANGED <<conn, issued, stats, completed, netvars>>

run_returns ==
    /\ engine.at = "loop"
    /\ \/ all_done /\ Returns("")
       \/ ~all_done /\ Live = {} /\ Returns("all benchmark connections failed")
       \/ ~all_done /\ Live # {} /\ Ready = {} /\ Returns("timed out")
    /\ UNCHANGED <<conn, issued, stats, completed, netvars>>

\* main() of the benchmark.
benchmark_exit ==
    /\ engine.at = "returned"
    /\ engine' = [at |-> "exited"]
    /\ result' = [result EXCEPT !.exit = IF result.error = "" /\ stats.failed = 0 THEN 0 ELSE 1]
    /\ UNCHANGED <<conn, issued, stats, completed, netvars>>

run ==
    /\ \/ connect_all \/ connect_fails
       \/ \E c \in Conn :
            \/ dispatch(c) \/ on_readable(c) \/ on_readable_eof(c) \/ on_writable(c)
            \/ send(c) \/ send_fails(c) \/ send_done(c)
       \/ batch_end \/ epoll_wait \/ run_returns \/ benchmark_exit
    /\ UNCHANGED config

Next == server \/ run

\* The engine's thread runs, and its wait ends for want of events.  Nothing is
\* asked of the server.
Spec == Init /\ [][Next]_vars /\ WF_vars(run)

-----------------------------------------------------------------------------
(* Properties. *)

\* Every request issued is in one place: answered once, or pending on the one
\* connection it was issued on, dropped or not; a duplicated, foreign or malformed
\* response answers none (the pending maps of on_readable() and fill_pipeline()).
RequestsConserved ==
    /\ stats.received = Cardinality(completed)
    /\ 1..issued = completed \union UNION {conn[c].pending : c \in Conn}
    /\ \A c \in Conn : conn[c].pending \intersect completed = {}
    /\ \A c, d \in Conn : c # d => conn[c].pending \intersect conn[d].pending = {}

\* When the thread waits, every live connection has its whole pipeline outstanding
\* or there is nothing left to issue, and never more (DESIGN.md bounds the
\* benchmark's outstanding work by connections times depth).
PipelineFull ==
    /\ \A c \in Conn : Cardinality(conn[c].pending) <= Depth
    /\ engine.at = "loop" => \A c \in Live :
         Cardinality(conn[c].pending) = Depth \/ issued = Requests

\* When the thread waits, it asks to be told of a writable socket exactly where a
\* partly sent request remains (AUDIT.md on EPOLLOUT), so that it neither spins nor
\* sits on what it has to send.
WriteInterestExact ==
    engine.at = "loop" => \A c \in Live : conn[c].want_write <=> Unsent(c)

\* An exit code of zero means that every request was issued and answered, each on
\* the connection that sent it, and none turned away by a busy server.
ExitZeroIsEarned ==
    result.exit = 0 => completed = Id /\ stats.failed = 0 /\ \A c \in Conn : ~Unsent(c)

\* Whatever the server does, run() returns and the benchmark exits: requests lost
\* with a dropped connection end in an error, not in a wait for ever.
RunReturns == <>(engine.at = "exited")
=============================================================================
