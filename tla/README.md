# Verification of local-cache-service

TLA+ models of the cache daemon and its clients in `src/`, model-checked with TLC,
with proofs checked by TLAPS.

## The system

The daemon serves an in-memory LRU cache over a Unix stream socket. One
event-loop thread owns every socket; a fixed set of workers executes requests.

| part | source | state | operations | module |
|---|---|---|---|---|
| LRU cache | `src/src/lru_cache.cpp` | recency list, index, byte counters, eviction count | get, put, erase, contains, clear, snapshot | `LruCache` |
| worker pool | `src/src/thread_pool.cpp` | bounded deque, flags, threads | try_submit, worker_loop, drain_and_stop | `WorkerPool` |
| event loop | `src/src/server.cpp` | connection map, ready vector, eventfds, draining flag | accept, dispatch, process_input, drain_completions, update_interest, close, shutdown | `Server` |
| connection | `src/src/connection.cpp` | input, staging and write buffers, in-flight and pending counters, notification bit | read_some, next_request, enqueue_response, flush_output | `Server`, `Framing` |
| jobs and statistics | `src/src/server.cpp` (193-215, 398-546), `src/include/cache/stats.h` | cache, atomic counters | handle_job, record, snapshot | `Service` |
| startup | `src/src/server.cpp` (42-184, 298-311) | socket path, listener | remove_stale_socket, start, stop_listening | `Startup` |
| configuration | `src/src/config.cpp`, `src/src/main.cpp` | limits | parse_size, validate, parse_server_args, main | `Config`, `Main` |
| protocol | `src/src/serializer.cpp`, `src/src/protocol.cpp` | none | encoding, incremental decoding | `Serializer`, `Framing` |
| blocking client | `src/client/cache_client.cpp` | socket, request id, input buffer | connect, disconnect, execute | `CacheClient` |
| command-line client | `src/client/client_main.cpp` | exit code | main | `Tool` |
| benchmark engine | `src/benchmark/async_client.cpp` | pipelines, statistics | connect_all, run, fill, read, write, drop | `Engine` |

A request travels: socket, input buffer, job queue, worker, cache, staging
buffer, ready vector and eventfd, write buffer, socket.

What is hard here: a notification sent after an unlock; completions coalesced
into one bit while the loop clears it; interest computed from counters that
workers change; late workers holding a closed connection; readiness events that
are stale when dispatched; a drain deadline racing the last completions;
eviction inside a replacement; statistics loaded one by one while workers count;
frames cut at any byte; timeouts inside a frame; pipelines dropped half answered.
`PROJECT.json` lists these hazards at their lines.

## The modules

- `LruCache` has one action per public method. `put` is split at the iterations
  of its eviction loop, so the invariants are checked in the middle of it too.
  Nodes have addresses, so a dangling index entry or a leaked node is visible.
  `ExactLru` is the atomic LRU map it promises; `LruRefinement` gives the mapping.
- `WorkerPool` makes each critical section an action and each notification after
  an unlock a step of its own. Waits may wake spuriously. `JobQueue` is what the
  pool promises the event loop.
- `Server` composes the event loop, its connections and the workers with clients
  and the kernel's sockets, and uses the pool through `JobQueue`. A step makes at
  most one access to state another thread can change, so `enqueue_response`,
  `read_paused` and `drain_complete` are several steps. Buffers hold whole frames;
  the limits in bytes become limits in frames. A batch of events is dispatched in
  any order and carries only descriptors, as in the code; the kernel reuses the
  lowest free descriptor once the last reference to a connection is gone. What a
  job does to the cache is invisible here.
- `Service` is the other half: `handle_job` on the cache (`ExactLru`) and the
  counters, with the queue (`JobQueue`) and the loop's own counting. To count and to
  answer are separate steps, in workers and in the loop, and so is each load of a
  statistics snapshot; the loads of relaxed atomics come in any order. A STATS
  payload is read by clients that know fewer, as many or more fields. Clients may be
  turned away at `max_connections` (counted with the rejected requests) or because
  `epoll_ctl` fails (not counted). Malformed frames come with each status they are
  answered with, and with a header that names no request and is not answered. A
  client may leave or stop reading; responses that find its connection closed are
  lost, but what was done for them is counted.
- `Startup` has one action per system call on the socket path. A socket file is an
  inode: a daemon keeps listening on its own although the path moved on.
- `Config` is the command line as pure operators over a `size_t` that wraps;
  `Main` puts it in front of `Startup`.
- `Serializer` is the wire format byte by byte, as pure operators; `Framing` cuts
  frames out of a fragmented stream, for the server's connection and the client.
- `CacheClient` is the client with a server that may be slow, stop reading, or hang
  up. A frame is two units, so it can be cut short in both directions. Its server
  sends well-formed responses that repeat the opcode of the request, as the daemon
  does. Two paths of `receive_response` are therefore not taken: another opcode
  (`cache_client.cpp:102`), which fails like another id, and a malformed frame
  (`cache_client.cpp:109`), which fails and disconnects like the end of the stream
  (what counts as malformed is in `Framing`). `Tool` is the command-line program
  around one call, and also a library user with many.
- `Engine` is the pipelining client with a server that answers in any order,
  wrongly or twice, hangs up or falls silent; its last step is the benchmark's exit
  code.

Memory model. Atomics are modelled as sequentially consistent, except the loads
of a statistics snapshot. Those that carry a hand-over (`notify_pending_`,
`closed_`) use acquire and release, the buffers and the ready vector are behind
mutexes, and the relaxed counters are modified by read-modify-write operations; a
relaxed read that returns an older value than that is not explored.
`close_after_flush_` is a plain `bool` that workers write and the loop reads. Its
write is a step of its own, so each read of the loop may come before or after it;
nothing more exotic is explored for that race.

Not taken in `Server`: failures of `epoll_wait` and of `epoll_ctl` on an open
connection (the one that would add a new connection may fail), batches larger than the number of ready descriptors (`kMaxEvents` is
256), and partial frames on the wire (these are in `Framing`).

## The runs

| run | instance | shows |
|---|---|---|
| `lru` | 4 keys, 4 value sizes, 3 entries, 530 bytes, at most 4 evictions | list, index and counters agree, limits hold inside `put` too, `ExactLru` is implemented. The sizes make both limits bind, one entry displace two, one value oversize and one never fit. |
| `pool` | 3 workers, 2 slots, 4 jobs, timeouts 0 and 1 | no lost wakeup, order and exactly-once, the stop reaches everybody and returns, `JobQueue` is implemented |
| `server_traffic` | queue of 1, 2 in flight, output limit 1, 1 worker; either 4 requests and a malformed frame in one burst, read 4 at a time, or 2 clients that compete for 1 connection, send both kinds of malformed frame and leave | busy replies, parked requests, the ceiling and departures lose or double no response; pending and in-flight counters and the gauge stay exact; a connection that has output to send, or is marked to be closed, is registered for it or will be looked at. Some connections survive the burst and some pass the ceiling, in the loop, in a worker and on the malformed frame. |
| `server_shutdown` | 2 requests, 2 workers, a signal at any moment | notification bit and registered interest agree with the buffers at every interleaving; nothing new is read once draining; an exit before the deadline has delivered everything submitted |
| `server_liveness` | 2 requests, 1 worker, a client that may leave, a shutdown at any moment | submitted requests are answered, closed connections released, shutdowns complete |
| `service` | 3 clients for 2 connections, 2 workers, queue of 1, cache of 2 entries, 8 scripts with pipelines, oversize values, malformed frames and early departures | counters and what became of clients and requests tell one story at every step; STATS reports values that held between its request and its answer; a client that awaits its answers sees a sequential cache |
| `main` | every text of up to 3 characters for every option, pairs of options, arrangements of up to 4 words, an 8-bit `size_t`; 2 daemons, at most 4 sockets, failures and crashes between any two calls | the daemon runs with exactly what was typed, within limits that no wrapped sum let through, or exits with 2; the endpoint of a running daemon is not taken unless a start or stop overlapped with another; only crashes leave files behind |
| `framing` | 5 streams of 2 or 3 frames, intact or with one header byte (not of the id) replaced by a boundary value, pieces of 1, 9, 24 and 40 bytes, compaction at 26 | what the server makes of requests and the client of responses agrees with the language of legal frames, however the stream is cut: what is accepted, what is waited for, what is refused, and which request a refusal is answered to |
| `client` | 5 requests, room for half a frame in the socket, every command | a call never takes another's response and always returns; only a send that timed out leaves anything of one call to the next; the exit code tells the server's verdict |
| `engine` | 2 connections of depth 1 with 3 requests, 1 of depth 2 with 3, 2 of depth 2 with 2; room for 3 halves of a frame, 1 wrong answer | each request is answered once or accounted for, pipelines stay full, write interest follows the unsent rest, the run ends and exit code 0 is earned |

Two runs end in a violation on purpose. Each checks a sentence of the
documentation that the code does not keep:

| run | the code |
|---|---|
| `server_parked_input` | a request buffered at the in-flight limit is not looked at again until more bytes arrive |
| `server_stale_event` | a hang-up of a closed connection closes the one that got its descriptor in the same batch |

More disagreements are visible in the models and have no run of their own:

- after a send timeout inside a frame (`cache_client.cpp:81`) a later call meets the
  earlier one's response, although `cache_client.h:38` says one request is
  outstanding at a time; the properties of `client` say "unless cut" for that reason;
- a STATS request turned away as busy exits with 1, although `client_main.cpp:28`
  gives 4 to server errors;
- `max_conn_output_bytes` has no upper limit, so doubling it (`connection.cpp:104`)
  may wrap, although `config.h:12` says every field is range-checked. Nor does
  `validate()` make room for the header of a response: it compares the value alone
  with the output limit, so with both at 1 every response passes the ceiling;
- `drain_and_stop(0)` executes queued jobs, which `thread_pool.h:50` says are
  discarded;
- over the output ceiling a connection marked by a worker stays open while its
  client does not read, although `DESIGN.md:78` says it is closed;
- unparsed input passes the bound of `DESIGN.md:88`, because each reopening of the
  in-flight window lets another chunk in;
- overlapping starts or stops unlink the socket of a running daemon, which
  `server.cpp:40` says must not happen; `EndpointNotStolen` has the absence of
  overlap as a premise for that reason.

Bounds. They are the constants above plus `EvictionBound`, `MaxJobs`,
`MaxRequests`, `MaxSockets` and `MaxFaults`, which cap histories, and `Followed`,
which names the command lines whose daemons are followed beyond `main`. Limits are
small enough to be reached and, where the code can, passed: the job queue, the
in-flight window, the output limit and its double, the connection table and the
sockets' room. In `Config` all numbers are scaled down with `size_t`, so that every
boundary is within three digits. Two workers suffice for two completions to race
each other and the loop; `pool` has three, so that one wakes, one runs and one
sleeps. The two-worker races are in `server_shutdown`, as invariants;
`server_liveness` has one worker because the state space with two is too large for
the liveness check. List nodes in `lru` and workers in `server_shutdown` and
`service` are symmetric; no run with liveness uses symmetry.

Fairness. Threads that can run are scheduled, handlers return, deadlines and
timeouts pass (`ThreadFairness` in `Server`, `Fairness` in `WorkerPool`,
`WF_vars(call_step)` in `CacheClient` and `Tool`, where `timeout_ms_` is taken to be
positive, `WF_vars(run)` in `Engine`, whose stall timer is part of `run`). Clients
and servers at the other end are free to do nothing. `SubmittedIsAnswered` has a
premise on the client, that it empties its socket again and again, and
`server_parked_input` assumes that clients read, so that its counterexample is not
theirs.

Deadlock is not an error in the `Server` runs (a server with silent clients
waits, and a stopped one does nothing), in `framing` (a stream ends), nor in
`client` and `engine` (a program exits). Elsewhere it is checked.

## The proofs

`LruCacheProofs` proves for all keys, sizes and limits: type correctness
(`TypeCorrect`), agreement of list, nodes and index (`ListAndIndexAgree`), exact
byte counters (`AccountingIsExact`) and the limits (`LimitsHold`). None of these is
inductive alone. The invariant `LruInv` joins them with running totals of the
list's costs, since the effect of unlinking in the middle on a sum must be carried
through the tail, with finiteness of the indexed keys, and with what is known of a
pending insertion: its key is absent and it passed the size tests.
`LruRefinementProofs` proves from it that `LruCache` implements `ExactLru`
(`CacheIsExactLru`): a put has its whole effect when it takes the mutex, with the
survivors of the evictions to come computed by the mapping, and its evictions and
insertion change nothing of that.

`WorkerPoolProofs` proves for any number of workers: `PoolTypeCorrect`,
`NoLostWakeup`, `StopReachesEveryWorker`, `ExactlyOnceInOrder` and
`QuietOnceJoined`. The invariant adds how the flags follow the owner's position
and who holds each job. `PoolRefines` shows from it that every step of the pool is
a step of `JobQueue` or none, so what is found about `Server` and `Service` over
`JobQueue` holds over the pool.

Three modules prove, for any number of clients, workers and descriptors, any limits
and any traffic, what the runs check of `Server`'s counters, notices and map:
`PendingIsExact`, `InflightIsExact`, `NoticesAreSound` and
`DrainsOnlyWhatWasSubmitted` in `ServerCounters`, `ConnectionsAreExact` and
`ServerTypeCorrect` in `ServerTable`. The argument goes in three layers.

- `ServerShape` first says what a step may do to the connections (`Footprint`): it
  keeps the balance of each output counter, moves an in-flight counter only by a
  submission or a settlement, a notification bit only where workers set it and
  `drain_completions()` clears it, and the map only by an acceptance, a close or the
  teardown. One lemma per group of handlers; most of them change one record and of
  it only buffers and flags (`Mild`).
- It then shows that the state keeps its shape (`Shape`): types with counters as
  integers, a job in the hands of exactly the workers that are not idle, a current
  connection exactly while the loop handles one, input parsed only before the drain.
- On top of these each theorem has its own invariant. `Counted` has a second half,
  that after the teardown has begun the in-flight counter is still at least what is
  queued or executed, because the teardown discards jobs; with it the counters are
  natural numbers, which is why `ServerTypeCorrect` comes last. `OneNotice` adds up the
  notices in the ready vector, in the list the loop goes through and in the hands of
  workers. `Placed` follows every way a connection is passed on (`Held`) and the backlog
  (`Waiting`), without which nothing keeps a close from meeting a connection that was
  never in the map, or an acceptance from meeting one that is.

`StartupProofs` proves for any number of daemons, with failures and crashes
anywhere: `StartupTypeCorrect`, `OnlyCrashesLitter`, `PathLeadsToTheDaemon` and
`OtherFilesAreKept`. The invariant ties each daemon's position in start and stop to
what it has bound and to what the path leads to.

`CacheClientProofs` proves for any socket size, number of calls and server:
`ClientTypeCorrect`, `NothingLeftBehind` and `CallsGetTheirOwn`. The invariant
follows the one frame of the call in progress from the output buffer through the
socket to the server, and its response back. `ToolIsAClient` shows that every step
of the command-line client is one of the library's or none, and
`ExitCodeTellsVerdict` that its exit code tells the verdict of the server.

The proofs rest on the assumptions about constants only: `LruAssumption`,
`PoolAssumption`, `ServerAssumption`, `StartupAssumption` and `ClientAssumption`.
Model-checked and not proved: `RequestConserved`, `InterestSound` and `CleanExit` of
`Server`, everything about `Service`, `Framing`, `Config` and `Engine`, and liveness,
which is out of the prover's reach.

## Not modelled

- Logging (`logging.h`): a formatted write whose failure is ignored.
- `unique_fd.h`: a move-only wrapper. That a descriptor stays open while its
  connection is referenced is in `Server`'s `Live`.
- Option parsing, prepopulation, random workloads and latency percentiles of the
  benchmark, and the stress driver, which compares payloads of two engine runs:
  tests of the daemon rather than parts of it.
- The banner, usage texts, `human_bytes` and the output of the tools.
- `uptime_ms`: time does not pass in `Service`.
