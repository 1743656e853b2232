------------------------------ MODULE Service ------------------------------
(***************************************************************************)
(* What a request does to the whole daemon: the event loop counts it and   *)
(* submits it or turns it away (process_input() of src/src/server.cpp), a  *)
(* worker runs handle_job() on the cache and the statistics                *)
(* (src/include/cache/stats.h), and STATS reports both.  The cache is the  *)
(* map LruCache implements and the pool the queue WorkerPool implements.   *)
(* How bytes travel to and fro is left to Server: here a request is        *)
(* answered when its response is handed to an open connection.             *)
(***************************************************************************)
EXTENDS Integers, Sequences, FiniteSets, TLC

CONSTANTS
    Client, Worker, Key, Value, NoJob,
    Oversize,      \* the values put() rejects
    Scenarios,     \* what each client asks for and how, one chosen per behaviour
    MaxConnections, \* max_connections
    MaxPending,    \* bound: jobs in the pool's queue
    MaxEntries     \* bound: entries in the cache

VARIABLES
    scenario,   \* the behaviour of each client; it does not change
    online,     \* "new", "open", "refused" after a malformed frame, "closed", or
                \* never let in: "rejected" at the limit, "dropped" by epoll
    asked,      \* how many requests of each client the event loop has read
    before,     \* for each of them, those answered when it was sent
    answer,     \* for each request responded to, what its client makes of it
    lost,       \* those whose response met a closed connection
    loop,       \* what the event loop is in the middle of, and for which request
    stats,      \* ServerStats: the counters
    worker,     \* handle_job() in each worker: where it is, its response, its loads
    recency, evictions, ret,    \* the cache
    queue, active, phase        \* the pool

cachevars == <<recency, evictions, ret>>
poolvars == <<queue, active, phase>>
clientvars == <<online, asked, before, answer, lost>>
vars == <<scenario, clientvars, loop, stats, worker, cachevars, poolvars>>

\* Keys and values of one byte each.
kEntryOverheadBytes == 128
payload(e) == 2
entry_cost(e) == payload(e) + kEntryOverheadBytes
PutStatus(e) == IF e.value \in Oversize THEN "kValueTooLarge" ELSE "kStored"

Cache == INSTANCE ExactLru WITH
    Cost <- entry_cost, Payload <- payload, Status <- PutStatus,
    MaxBytes <- MaxEntries * (kEntryOverheadBytes + 2)
Pool == INSTANCE JobQueue WITH Job <- Client \X Nat
Wire == INSTANCE Serializer WITH kMaxKeyBytes <- 1, kMaxValueBytes <- 1

kStatsFields == <<
    "cache_hits", "cache_misses", "puts", "deletes", "evictions", "current_entries",
    "current_cache_bytes", "current_payload_bytes", "active_connections",
    "total_connections", "requests_processed", "protocol_errors", "rejected_requests",
    "uptime_ms">>

\* The atomic counters of ServerStats.  Time does not pass here: uptime_ms is 0.
Counter == {"cache_hits", "cache_misses", "puts", "deletes", "active_connections",
            "total_connections", "requests_processed", "protocol_errors",
            "rejected_requests"}

\* The malformed frames: three whose header names a request, with the status their
\* error is answered with, and one that names none.
ErrorStatus == [INVALID |-> "kInvalidRequest", OVERSIZE |-> "kValueTooLarge",
                UNVERSIONED |-> "kUnsupportedVersion"]
Malformed == DOMAIN ErrorStatus \union {"UNIDENTIFIED"}

\* A client has one connection, numbers its requests and keeps at most "depth" of
\* them unanswered: 1 for the blocking client, more for one that pipelines.
Operation == {"GET", "PUT", "DELETE", "PING", "STATS", "CLEAR"} \union Malformed
Behaviour == [requests : Seq([op : Operation, key : Key, value : Value]),
              depth : Nat \ {0},
              known : Nat,         \* how many STATS fields it was built with
              leaves : BOOLEAN]    \* it may stop reading, or be gone, at any time

ASSUME ScenariosAreBehaviours ==
    \A s \in Scenarios : DOMAIN s \subseteq Client /\ s \in [DOMAIN s -> Behaviour]

Of(r) == scenario[r[1]].requests[r[2]]
Asked == DOMAIN before
Finished == DOMAIN answer
Answered == Finished \ lost
Unanswered(c) == {r \in Asked \ Finished : r[1] = c}
Connected == {c \in DOMAIN online : online[c] \in {"open", "refused"}}

Idle == [at |-> "idle"]

Init ==
    /\ scenario \in Scenarios
    /\ online = [c \in DOMAIN scenario |-> "new"]
    /\ asked = [c \in DOMAIN scenario |-> 0]
    /\ before = <<>> /\ answer = <<>> /\ lost = {}
    /\ loop = Idle
    /\ stats = [k \in Counter |-> 0]
    /\ worker = [w \in Worker |-> Idle]
    /\ Cache!Init
    /\ Pool!Init

Record(k) == stats' = [stats EXCEPT ![k] = @ + 1]

\* enqueue_response(): a closed connection takes no response.
Answer(r, response) ==
    /\ answer' = answer @@ (r :> response)
    /\ lost' = IF r[1] \in Connected THEN lost ELSE lost \union {r}

-----------------------------------------------------------------------------
(* The event loop. *)

AtLimit == Cardinality(Connected) >= MaxConnections

\* accept4() succeeded: connection_opened() adds to two counters, one by one.
connection_opened(c) ==
    /\ loop = Idle
    /\ online[c] = "new"
    /\ ~AtLimit
    /\ online' = [online EXCEPT ![c] = "open"]
    /\ Record("active_connections")
    /\ loop' = [at |-> "opened"]
    /\ UNCHANGED <<asked, before, answer, lost, worker, cachevars, poolvars>>

connection_counted ==
    /\ loop.at = "opened"
    /\ Record("total_connections")
    /\ loop' = Idle
    /\ UNCHANGED <<clientvars, worker, cachevars, poolvars>>

\* Accepted and closed at once: over the limit, which is counted with the rejected
\* requests, or because epoll_ctl() fails, which is not counted.
connection_rejected(c) ==
    /\ loop = Idle
    /\ online[c] = "new"
    /\ \/ AtLimit /\ Record("rejected_requests") /\ online' = [online EXCEPT ![c] = "rejected"]
       \/ ~AtLimit /\ UNCHANGED stats /\ online' = [online EXCEPT ![c] = "dropped"]
    /\ UNCHANGED <<asked, before, answer, lost, loop, worker, cachevars, poolvars>>

\* close_connection(): the client was refused and its output is flushed, has left
\* early or is done.
Close(c) ==
    /\ online' = [online EXCEPT ![c] = "closed"]
    /\ stats' = [stats EXCEPT !["active_connections"] = @ - 1]

connection_closed(c) ==
    /\ loop = Idle
    /\ \/ online[c] = "refused"
       \/ online[c] = "open" /\ scenario[c].leaves
       \/ /\ online[c] = "open" /\ asked[c] = Len(scenario[c].requests)
          /\ Unanswered(c) = {}
    /\ Close(c)
    /\ UNCHANGED <<asked, before, answer, lost, loop, worker, cachevars, poolvars>>

\* The client sends its next request and process_input() takes it from the buffer.
next_request(c) ==
    /\ loop = Idle
    /\ online[c] = "open"
    /\ asked[c] < Len(scenario[c].requests)
    /\ Cardinality(Unanswered(c)) < scenario[c].depth
    /\ asked' = [asked EXCEPT ![c] = @ + 1]
    /\ before' = before @@ (<<c, asked'[c]>> :> Answered)

process_request(c) ==
    /\ next_request(c)
    /\ scenario[c].requests[asked'[c]].op \notin Malformed
    /\ Record("requests_processed")
    /\ loop' = [at |-> "submit", request |-> <<c, asked'[c]>>]
    /\ UNCHANGED <<online, answer, lost, worker, cachevars, poolvars>>

process_malformed(c) ==
    /\ next_request(c)
    /\ scenario[c].requests[asked'[c]].op \in Malformed
    /\ Record("protocol_errors")
    /\ loop' = [at |-> "refuse", request |-> <<c, asked'[c]>>]
    /\ UNCHANGED <<online, answer, lost, worker, cachevars, poolvars>>

\* The loop itself responds to r.  If its client does not read, that may pass the
\* output ceiling, and the connection is closed with all it holds.
Immediate(r, status, then) ==
    /\ answer' = answer @@ (r :> [status |-> status])
    /\ \/ /\ online' = [online EXCEPT ![r[1]] = then]
          /\ UNCHANGED <<stats, lost>>
       \/ /\ scenario[r[1]].leaves
          /\ Close(r[1])
          /\ lost' = lost \union {r}

\* A malformed frame is answered if its header could be read; nothing after it is.
process_refuse ==
    /\ loop.at = "refuse"
    /\ LET r == loop.request
       IN  \/ Of(r).op # "UNIDENTIFIED" /\ Immediate(r, ErrorStatus[Of(r).op], "refused")
           \/ /\ Of(r).op = "UNIDENTIFIED"
              /\ online' = [online EXCEPT ![r[1]] = "refused"]
              /\ UNCHANGED <<answer, lost, stats>>
    /\ loop' = Idle
    /\ UNCHANGED <<asked, before, worker, cachevars, poolvars>>

process_submit ==
    /\ loop.at = "submit"
    /\ Pool!Submit(loop.request)
    /\ loop' = Idle
    /\ UNCHANGED <<clientvars, stats, worker, cachevars>>

\* The queue is full: the request is counted as rejected, then answered.
process_saturated ==
    /\ loop.at = "submit"
    /\ ~Pool!CanSubmit
    /\ loop' = [loop EXCEPT !.at = "reject"]
    /\ UNCHANGED <<clientvars, stats, worker, cachevars, poolvars>>

\* Mutant: the rejection is not counted.
process_reject_uncounted ==
    /\ loop.at = "reject"
    /\ loop' = [loop EXCEPT !.at = "busy"]
    /\ UNCHANGED <<clientvars, stats, worker, cachevars, poolvars>>

process_reject ==
    /\ loop.at = "reject"
    /\ Record("rejected_requests")
    /\ loop' = [loop EXCEPT !.at = "busy"]
    /\ UNCHANGED <<clientvars, worker, cachevars, poolvars>>

process_busy ==
    /\ loop.at = "busy"
    /\ Immediate(loop.request, "kServerBusy", "open")
    /\ loop' = Idle
    /\ UNCHANGED <<asked, before, worker, cachevars, poolvars>>

-----------------------------------------------------------------------------
(* A worker: handle_job(). *)

worker_take(w) ==
    /\ Pool!Take(w)
    /\ worker' = [worker EXCEPT ![w] = [at |-> "job"]]
    /\ UNCHANGED <<clientvars, loop, stats, cachevars>>

\* The job's call on the cache has returned: its status, and the counter to add to.
Results(w, status, counter) ==
    worker' = [worker EXCEPT ![w] =
        [at |-> "record", counter |-> counter, reply |-> [status |-> status]]]

Replies(w, reply) == worker' = [worker EXCEPT ![w] = [at |-> "reply", reply |-> reply]]

Job(w, op) == worker[w].at = "job" /\ Of(active[w]).op = op

job_get(w) ==
    /\ Job(w, "GET")
    /\ Cache!Get(Of(active[w]).key)
    /\ \/ /\ ret'.hit
          /\ worker' = [worker EXCEPT ![w] =
               [at |-> "record", counter |-> "cache_hits",
                reply |-> [status |-> "kOk", value |-> ret'.value]]]
       \/ ~ret'.hit /\ Results(w, "kNotFound", "cache_misses")

PutEntry(w) == [key |-> Of(active[w]).key, value |-> Of(active[w]).value]

\* Mutant: the entry of the key is dropped before the value is looked at.
job_put_drops(w) ==
    /\ Job(w, "PUT")
    /\ \/ PutStatus(PutEntry(w)) = "kStored" /\ Cache!Put(PutEntry(w)) /\ Results(w, "kOk", "puts")
       \/ /\ PutStatus(PutEntry(w)) # "kStored"
          /\ Cache!Erase(PutEntry(w).key)
          /\ Replies(w, [status |-> "kValueTooLarge"])

job_put(w) ==
    /\ Job(w, "PUT")
    /\ Cache!Put(PutEntry(w))
    /\ \/ ret'.status = "kStored" /\ Results(w, "kOk", "puts")
       \/ ret'.status # "kStored" /\ Replies(w, [status |-> "kValueTooLarge"])

job_delete(w) ==
    /\ Job(w, "DELETE")
    /\ Cache!Erase(Of(active[w]).key)
    /\ \/ ret'.erased /\ Results(w, "kOk", "deletes")
       \/ ~ret'.erased /\ Replies(w, [status |-> "kNotFound"])

job_clear(w) ==
    /\ Job(w, "CLEAR")
    /\ Cache!Clear
    /\ Replies(w, [status |-> "kOk"])

job_ping(w) ==
    /\ Job(w, "PING")
    /\ Replies(w, [status |-> "kOk"])
    /\ UNCHANGED cachevars

job_stats(w) ==
    /\ Job(w, "STATS")
    /\ worker' = [worker EXCEPT ![w] = [at |-> "load", seen |-> <<>>]]
    /\ UNCHANGED cachevars

\* Mutant: the number of entries is read with the counters, under a lock of its own.
stats_load_sizes(w) ==
    /\ worker[w].at = "load"
    /\ \E k \in Counter \ DOMAIN worker[w].seen :
         worker' = [worker EXCEPT ![w].seen =
                      @ @@ (k :> stats[k]) @@ [current_entries |-> Len(recency)]]
    /\ UNCHANGED cachevars

\* ServerStats::snapshot(): relaxed loads, which may take effect in any order.
stats_load(w) ==
    /\ worker[w].at = "load"
    /\ \E k \in Counter \ DOMAIN worker[w].seen :
         worker' = [worker EXCEPT ![w].seen = @ @@ (k :> stats[k])]
    /\ UNCHANGED cachevars

FieldValues(snapshot) == [i \in DOMAIN kStatsFields |-> snapshot[kStatsFields[i]]]

\* stats_snapshot(): the cache's own numbers come after, from one critical section.
stats_snapshot(w) ==
    /\ worker[w].at = "load"
    /\ Counter \subseteq DOMAIN worker[w].seen
    /\ Cache!Snapshot
    /\ LET snapshot == worker[w].seen @@
             [uptime_ms |-> 0, evictions |-> ret'.evictions,
              current_entries |-> ret'.entries, current_cache_bytes |-> ret'.bytes,
              current_payload_bytes |-> ret'.payload_bytes]
       IN Replies(w, [status |-> "kOk",
                        payload |-> Wire!serialize_stats(FieldValues(snapshot))])

handle_job(w) ==
    /\ \/ job_get(w) \/ job_put(w) \/ job_delete(w) \/ job_clear(w) \/ job_ping(w)
       \/ job_stats(w) \/ stats_load(w) \/ stats_snapshot(w)
    /\ UNCHANGED <<clientvars, loop, stats, poolvars>>

record(w) ==
    /\ worker[w].at = "record"
    /\ Record(worker[w].counter)
    /\ Replies(w, worker[w].reply)
    /\ UNCHANGED <<clientvars, loop, cachevars, poolvars>>

\* What the client that asked makes of a response.
Received(r, reply) ==
    IF Of(r).op = "STATS"
      THEN [status |-> reply.status,
            stats |-> Wire!deserialize_stats(reply.payload, scenario[r[1]].known)]
      ELSE reply

\* complete_job() hands the response over, if the connection is still there, and the
\* worker is free again.
complete_job(w) ==
    /\ worker[w].at = "reply"
    /\ Answer(active[w], Received(active[w], worker[w].reply))
    /\ Pool!Finish(w)
    /\ worker' = [worker EXCEPT ![w] = Idle]
    /\ UNCHANGED <<online, asked, before, loop, stats, cachevars>>

\* Every client is gone.
finished ==
    /\ \A c \in DOMAIN online : online[c] \in {"closed", "rejected", "dropped"}
    /\ UNCHANGED vars

Step ==
    \/ \E c \in DOMAIN scenario :
         \/ connection_opened(c) \/ connection_rejected(c) \/ connection_closed(c)
         \/ process_request(c) \/ process_malformed(c)
    \/ connection_counted \/ process_refuse
    \/ process_submit \/ process_saturated \/ process_reject \/ process_busy
    \/ \E w \in Worker : worker_take(w) \/ handle_job(w) \/ record(w) \/ complete_job(w)

Next == (Step /\ UNCHANGED scenario) \/ finished

Spec == Init /\ [][Next]_vars

-----------------------------------------------------------------------------
(* Properties. *)

\* The counters that a response with this status to request r stands for.
Counts(r, status) ==
    LET op == Of(r).op
    IN  {k \in Counter :
           \/ k = "cache_hits" /\ op = "GET" /\ status = "kOk"
           \/ k = "cache_misses" /\ op = "GET" /\ status = "kNotFound"
           \/ k = "puts" /\ op = "PUT" /\ status = "kOk"
           \/ k = "deletes" /\ op = "DELETE" /\ status = "kOk"
           \/ k = "protocol_errors" /\ op \in Malformed
           \/ k = "rejected_requests" /\ status = "kServerBusy"
           \/ k = "requests_processed" /\ op \notin Malformed}

CountedIn(k, requests) ==
    Cardinality({r \in requests \cap Finished : k \in Counts(r, answer[r].status)})

\* The operations of kind k that workers have in hand at one of the given places.
InHand(k, places) ==
    Cardinality({w \in Worker : /\ worker[w].at \in places
                                /\ k \in Counts(active[w], worker[w].reply.status)})

Operations == {"cache_hits", "cache_misses", "puts", "deletes"}
Events == {"requests_processed", "protocol_errors", "rejected_requests", "total_connections"}

\* How often the loop has met with an event it counts.  Malformed frames count
\* whether or not they can be answered, and clients turned away with the requests
\* turned away.
Met(k) ==
    CASE k = "requests_processed" -> Cardinality({r \in Asked : Of(r).op \notin Malformed})
      [] k = "protocol_errors" -> Cardinality({r \in Asked : Of(r).op \in Malformed})
      [] k = "rejected_requests" ->
           CountedIn(k, Finished) + Cardinality({c \in DOMAIN online : online[c] = "rejected"})
             + (IF loop.at = "busy" THEN 1 ELSE 0)
      [] k = "total_connections" ->
           Cardinality({c \in DOMAIN online : online[c] \in {"open", "refused", "closed"}})
             - (IF loop.at = "opened" THEN 1 ELSE 0)

\* The counters of ServerStats and what became of clients and requests tell the same
\* story at every moment, nothing twice and nothing left out: handle_job() has
\* counted the operations that were responded to, even to a client that is gone,
\* and those whose worker is about to respond; the loop has counted each request,
\* malformed frame, rejection and connection; the gauge is the connections there are.
CountersExact ==
    /\ \A k \in Operations : stats[k] = CountedIn(k, Finished) + InHand(k, {"reply"})
    /\ \A k \in Events : stats[k] = Met(k)
    /\ stats["active_connections"] = Cardinality(Connected)

\* The STATS response to r, by field name.
Reported(r) ==
    LET values == answer[r].stats.values
    IN  [k \in {kStatsFields[i] : i \in DOMAIN values \cap DOMAIN kStatsFields} |->
           values[CHOOSE i \in DOMAIN kStatsFields : kStatsFields[i] = k]]

StatsAnswers == {r \in Answered : Of(r).op = "STATS" /\ answer[r].status = "kOk"}

\* A STATS response counts every operation answered before it was asked for, and
\* none that was not carried out, though snapshot() loads the counters one by one
\* without ordering, while workers and the loop count and answer in separate steps,
\* and a build may know more or fewer fields than the daemon (tests/server_test.cpp
\* expects six calls to be counted after six answers).  Its numbers on the cache
\* describe one state of it: the bytes are those of the entries, and every entry or
\* eviction goes back to a put of its own.
StatsHold ==
    \A r \in StatsAnswers :
        LET s == Reported(r)
            most(k) == IF k \in Events THEN Met(k)
                       ELSE CountedIn(k, Finished) + InHand(k, {"record", "reply"})
        IN  /\ answer[r].stats.ok
            /\ \A k \in DOMAIN s \cap (Operations \union Events) :
                 s[k] \in CountedIn(k, before[r])..most(k)
            /\ "active_connections" \in DOMAIN s => s.active_connections \in 1..MaxConnections
            /\ "total_connections" \in DOMAIN s => s.total_connections > 0
            /\ s.current_payload_bytes = s.current_entries * 2
            /\ s.current_cache_bytes = s.current_entries * (kEntryOverheadBytes + 2)
            /\ s.current_entries + s.evictions <= most("puts")
            /\ \A i \in DOMAIN answer[r].stats.values \ DOMAIN kStatsFields :
                 answer[r].stats.values[i] = 0

Accepted(q) == q \in Finished => answer[q].status \in {"kOk", "kNotFound"}
Precedes(p, q) == p \in before[q]
Asking(ops, k) == {q \in Asked : Of(q).op \in ops /\ Of(q).key = k /\ Accepted(q)}
Wiping == {q \in Asked : Of(q).op = "CLEAR" /\ Accepted(q)}

\* q may have taken effect after p and before g.
MayFallBetween(p, q, g) == ~Precedes(q, p) /\ ~Precedes(g, q)

\* A GET answers with a value that no PUT, DELETE or CLEAR had replaced for certain
\* when it was asked, and misses a key whose PUT was answered before only if the
\* key may have been removed since, or as many other keys used since as the cache
\* holds: whoever awaits each answer sees a sequential LRU cache, however the
\* workers reorder the jobs of other clients and of pipelines.
GetsAreCurrent ==
    \A g \in Answered : Of(g).op = "GET" /\ Accepted(g) =>
        LET k == Of(g).key
            changing == Asking({"PUT", "DELETE"}, k) \union Wiping
        IN  \/ /\ answer[g].status = "kOk"
               /\ \E p \in Asking({"PUT"}, k) :
                    /\ Of(p).value = answer[g].value
                    /\ ~Precedes(g, p)
                    /\ \A q \in changing : ~(Precedes(p, q) /\ Precedes(q, g))
            \/ /\ answer[g].status = "kNotFound"
               /\ \A p \in Asking({"PUT"}, k) \cap before[g] :
                    \/ \E q \in Asking({"DELETE"}, k) \union Wiping : MayFallBetween(p, q, g)
                    \/ Cardinality({o \in Key \ {k} : \E q \in Asking({"GET", "PUT"}, o) :
                                       MayFallBetween(p, q, g)}) >= MaxEntries
=============================================================================
