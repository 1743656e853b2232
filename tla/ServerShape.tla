---------------------------- MODULE ServerShape ----------------------------
(***************************************************************************)
(* The shape of the state of the event loop, its connections and the       *)
(* workers, and what a step may do to the connections, for any number of   *)
(* clients, workers and descriptors, any limits and any traffic.           *)
(***************************************************************************)
EXTENDS Server, TLAPS, FiniteSetTheorems, WellFoundedInduction

(***************************************************************************)
(* Sequences.                                                              *)
(***************************************************************************)
\* The empty sequence is one, and no other sequence has length zero.
LEMMA EmptyIsSeq ==
    ASSUME NEW S
    PROVE  << >> \in Seq(S) /\ \A s \in Seq(S) : Len(s) = 0 <=> s = << >>
OBVIOUS

\* A sequence is a function on an initial segment of the positive integers.
LEMMA SeqIsFunctions ==
    ASSUME NEW S
    PROVE  Seq(S) = UNION {[1..n -> S] : n \in Nat}
OBVIOUS

(***************************************************************************)
(* Minima, the enumeration of a set, and counting.                         *)
(***************************************************************************)
\* The lowest free descriptor is one of the free ones.
LEMMA MinOfDescriptors ==
    ASSUME NEW T \in SUBSET Nat, T # {}
    PROVE  Min(T) \in T
<1> DEFINE R == OpToRel(<, Nat)
<1>1. \A x, y \in Nat : x < y => <<x, y>> \in R
  BY DEF OpToRel
<1>2. IsWellFoundedOn(R, Nat)
  BY NatLessThanWellFounded, Zenon
<1> HIDE DEF R
<1>3. PICK m \in T : \A n \in T : ~(<<n, m>> \in R)
  BY <1>2, WFMin, Zenon
<1>4. ASSUME NEW n \in T PROVE m =< n
  <2>1. m \in Nat /\ n \in Nat
    OBVIOUS
  <2>2. ~(n < m)
    BY <1>1, <1>3, <2>1, Zenon
  <2> QED  BY <2>1, <2>2
<1> QED  BY <1>4, Zenon DEF Min

\* The smaller of two numbers.
LEMMA MinOfTwo ==
    ASSUME NEW a \in Int, NEW b \in Int
    PROVE  Min({a, b}) = IF a <= b THEN a ELSE b
<1> DEFINE m == IF a <= b THEN a ELSE b
<1>1. m \in {a, b} /\ \A y \in {a, b} : m =< y
  OBVIOUS
<1>2. \A x \in {a, b} : (\A y \in {a, b} : x =< y) => x = m
  OBVIOUS
<1> HIDE DEF m
<1>3. Min({a, b}) = m
  BY <1>1, <1>2 DEF Min
<1> QED  BY <1>3 DEF m

\* The loops over all connections visit connections.
LEMMA Enumeration ==
    ASSUME NEW T \in SUBSET Client
    PROVE  Listing(T) \in Seq(T) /\ Listing(T) \in Seq(Client)
<1>1. IsFiniteSet(T)
  BY ServerAssumption, FS_Subset
<1>2. Cardinality(T) \in Nat /\ ExistsBijection(1..Cardinality(T), T)
  BY <1>1, FS_CardinalityType
<1> DEFINE n == Cardinality(T)
<1>3. \E f \in [1..n -> T] : IsInjective(f)
  BY <1>2 DEF ExistsBijection, Bijection, Injection, IsInjective
<1>4. Listing(T) \in [1..n -> T]
  BY <1>3 DEF Listing
<1> HIDE DEF n
<1>5. n \in Nat
  BY <1>2 DEF n
<1>6. \A g \in [1..n -> T] : g \in Seq(T) /\ g \in Seq(Client)
  BY <1>5, SeqIsFunctions
<1> QED  BY <1>4, <1>6

\* Nothing occurs in an empty sequence.
LEMMA CountEmpty ==
    ASSUME NEW x
    PROVE  Count(<<>>, x) = 0
<1>1. {i \in DOMAIN <<>> : <<>>[i] = x} = {}
  OBVIOUS
<1> QED  BY <1>1, FS_EmptySet DEF Count

\* Occurrences are finite in number.
LEMMA CountNat ==
    ASSUME NEW S, NEW s \in Seq(S), NEW x
    PROVE  Count(s, x) \in Nat /\ IsFiniteSet({i \in DOMAIN s : s[i] = x})
<1>1. DOMAIN s = 1..Len(s) /\ Len(s) \in Nat
  OBVIOUS
<1>2. IsFiniteSet(DOMAIN s)
  BY <1>1, FS_Interval
<1>3. {i \in DOMAIN s : s[i] = x} \in SUBSET DOMAIN s
  OBVIOUS
<1>4. IsFiniteSet({i \in DOMAIN s : s[i] = x})
  BY <1>2, <1>3, FS_Subset
<1> QED  BY <1>4, FS_CardinalityType DEF Count

\* An element that joins at the end.
LEMMA CountAppend ==
    ASSUME NEW S, NEW s \in Seq(S), NEW y \in S, NEW x
    PROVE  Count(Append(s, y), x) = Count(s, x) + IF y = x THEN 1 ELSE 0
<1> DEFINE A == {i \in DOMAIN s : s[i] = x}
           B == {i \in DOMAIN Append(s, y) : Append(s, y)[i] = x}
           n == Len(s) + 1
<1>1. IsFiniteSet(A) /\ Count(s, x) \in Nat
  BY CountNat
<1>2. n \notin A
  OBVIOUS
<1>3. B = IF y = x THEN A \cup {n} ELSE A
  OBVIOUS
<1> HIDE DEF A, B, n
<1>4. Cardinality(A \cup {n}) = Cardinality(A) + 1
  BY <1>1, <1>2, FS_AddElement, Zenon
<1>5. Count(s, x) = Cardinality(A) /\ Count(Append(s, y), x) = Cardinality(B)
  BY DEF Count, A, B
<1> QED  BY <1>1, <1>3, <1>4, <1>5

\* The first element leaves.
LEMMA CountTail ==
    ASSUME NEW S, NEW s \in Seq(S), s # <<>>, NEW x
    PROVE  Count(s, x) = Count(Tail(s), x) + IF Head(s) = x THEN 1 ELSE 0
<1> DEFINE A == {i \in DOMAIN Tail(s) : Tail(s)[i] = x}
           B == {i \in 2..Len(s) : s[i] = x}
           C == {i \in DOMAIN s : s[i] = x}
           f == [i \in A |-> i + 1]
<1>1. Tail(s) \in Seq(S) /\ Len(s) \in Nat \ {0} /\ DOMAIN s = 1..Len(s)
      /\ DOMAIN Tail(s) = 1..(Len(s) - 1) /\ \A i \in 1..(Len(s) - 1) : Tail(s)[i] = s[i + 1]
  OBVIOUS
<1>2. IsFiniteSet(A) /\ Count(Tail(s), x) \in Nat
  BY <1>1, CountNat, Zenon
<1>3. f \in Bijection(A, B)
  <2>1. f \in [A -> B]
    BY <1>1
  <2>2. \A a, b \in A : f[a] = f[b] => a = b
    BY <1>1
  <2>3. \A b \in B : b - 1 \in A /\ f[b - 1] = b
    BY <1>1
  <2> QED  BY <2>1, <2>2, <2>3, Zenon DEF Bijection, Injection, Surjection, IsInjective
<1>4. IsFiniteSet(B) /\ Cardinality(B) = Cardinality(A)
  <2> HIDE DEF A, B, f
  <2>1. ExistsBijection(A, B)
    BY <1>3 DEF ExistsBijection
  <2> QED  BY <1>2, <2>1, FS_Bijection
<1>5. C = (IF Head(s) = x THEN B \cup {1} ELSE B) /\ 1 \notin B
  BY <1>1
<1> HIDE DEF A, B, C
<1>6. Cardinality(B \cup {1}) = Cardinality(B) + 1
  BY <1>4, <1>5, FS_AddElement, Zenon
<1>7. Count(s, x) = Cardinality(C) /\ Count(Tail(s), x) = Cardinality(A)
  BY DEF Count, A, C
<1> QED  BY <1>2, <1>4, <1>5, <1>6, <1>7

(***************************************************************************)
(* The shape of the state.  Counters are integers here; that they stay     *)
(* natural numbers follows from what they count.                           *)
(***************************************************************************)
EventName == {"HUP", "RDHUP", "IN", "OUT"}
EventType ==
    [kind : {"conn"}, fd : Fd, of : Client, events : SUBSET EventName]
    \cup [kind : {"listen", "completion", "shutdown", "signal"}, fd : {0}, of : {None},
          events : {{}}]

ConnType ==
    [fd : Fd \cup {0}, in : Seq(Nat \ {0}), staged : Seq(Response), out : Seq(Response),
     pending : Int, inflight : Int, closed : BOOLEAN, notified : BOOLEAN,
     closing : BOOLEAN, interest : SUBSET {"IN", "OUT"}]

\* The places in which the loop is busy with a connection, and the others.
Handling == {"read", "process", "busy", "flush", "settle", "arm", "apply"}
Between == {"wait", "dispatch", "accept", "swap", "ready", "each", "drain", "inflight",
            "output", "deadline", "exit", "join", "teardown", "stopped"}
LoopType ==
    [at : Handling \cup Between, batch : SUBSET EventType, conn : Client \cup {None},
     events : SUBSET EventName, todo : Seq(Client), after : {"read", "settle"},
     back : {"dispatch", "ready", "each"}, paused : BOOLEAN]

\* Input is parsed only before the drain; the loop over all connections returns
\* to itself; drain_complete() looks at the output of a connection.
LoopShape ==
    /\ loop \in LoopType
    /\ loop.conn # None <=> loop.at \in Handling
    /\ loop.at \in {"process", "busy"} => ~draining
    /\ loop.at = "each" => loop.back = "each"
    /\ loop.at = "output" => loop.todo # <<>>

PeerShape ==
    /\ scenario \in Scenarios
    /\ client \in [Client -> {"away", "up", "half", "gone"}]
    /\ \A c \in Client : client[c] # "away" => c \in DOMAIN scenario
    /\ sent \in [Client -> Nat]
    /\ rx \in [Client -> Seq(Nat \ {0})]
    /\ tx \in [Client -> Seq(Response)] /\ got \in [Client -> Seq(Response)]
    /\ backlog \in Seq(Client)

TableShape ==
    /\ connections \in [Fd -> Client \cup {None}]
    /\ \A f \in Fd : connections[f] # None => conn[connections[f]].fd # 0
    /\ active_connections \in Int

FlagShape ==
    /\ listening \in BOOLEAN /\ draining \in BOOLEAN /\ running \in BOOLEAN /\ late \in BOOLEAN
    /\ completion_fd \in BOOLEAN /\ shutdown_fd \in BOOLEAN /\ signal_fd \in BOOLEAN

WorkerType ==
    [at : {"idle", "check", "stage", "settle", "mark", "notify", "push", "poke", "return"},
     healthy : BOOLEAN]

\* A worker has a job exactly while it is in handle_job().
PoolShape ==
    /\ worker \in [Worker -> WorkerType]
    /\ active \in [Worker -> Job \cup {NoJob}]
    /\ \A w \in Worker : worker[w].at = "idle" <=> active[w] = NoJob
    /\ ready \in Seq(Client)
    /\ queue \in Seq(Job)
    /\ phase \in {"open", "closed", "stopped"}

ConnShape == conn \in [Client -> ConnType]

Shape == ConnShape /\ LoopShape /\ PeerShape /\ TableShape /\ FlagShape /\ PoolShape

\* A server that has started has the shape.
LEMMA ShapeInit == Init => Shape
<1> SUFFICES ASSUME Init PROVE Shape
  OBVIOUS
<1> USE DEF Init
<1>1. ConnShape
  BY EmptyIsSeq DEF ConnShape, ConnType
<1>2. LoopShape
  BY EmptyIsSeq DEF LoopShape, LoopType, Handling, Between
<1>3. PeerShape
  <2>1. <<>> \in Seq(Nat \ {0}) /\ <<>> \in Seq(Response) /\ <<>> \in Seq(Client)
    BY EmptyIsSeq
  <2> QED  BY <2>1 DEF PeerShape
<1>4. TableShape
  BY DEF TableShape
<1>5. FlagShape
  BY Zenon DEF FlagShape
<1>6. PoolShape
  BY EmptyIsSeq DEF PoolShape, WorkerType, Pool!Init
<1> QED  BY <1>1, <1>2, <1>3, <1>4, <1>5, <1>6 DEF Shape

\* What epoll_wait() reports.
LEMMA ReadyEventsType ==
    ASSUME Shape
    PROVE  ReadyEvents \in SUBSET EventType
<1>1. ASSUME NEW c \in Open
      PROVE  Event("conn", conn[c].fd, c, Reported(c)) \in EventType
  <2>1. c \in Client /\ conn[c].fd # 0
    BY ServerAssumption DEF Open, Shape, TableShape
  <2>2. conn[c].fd \in Fd
    BY <2>1 DEF Shape, ConnShape, ConnType
  <2>3. Reported(c) \in SUBSET EventName
    BY Zenon DEF Reported, EventName
  <2> QED  BY <2>1, <2>2, <2>3 DEF Event, EventType
<1>2. \A k \in {"listen", "completion", "shutdown", "signal"} :
        Event(k, 0, None, {}) \in EventType
  BY DEF Event, EventType
<1> QED  BY <1>1, <1>2, Zenon DEF ReadyEvents

(***************************************************************************)
(* What a step does to the connections.  Most change one of them, and of   *)
(* its fields only some.                                                   *)
(***************************************************************************)
Balance(r) == r.pending - Len(r.staged) - Len(r.out)
Mild(r, q) ==
    /\ Balance(q) = Balance(r)
    /\ q.inflight = r.inflight /\ q.notified = r.notified
    /\ draining => q.in = r.in
    /\ q.fd = r.fd /\ q.closed = r.closed

InflightBy(c, n) ==
    \A d \in Client : conn'[d].inflight = conn[d].inflight + IF d = c THEN n ELSE 0
NotifiedOf(c, b) ==
    \A d \in Client : conn'[d].notified = IF d = c THEN b ELSE conn[d].notified
SameTable ==
    /\ \A d \in Client : conn'[d].fd = conn[d].fd /\ conn'[d].closed = conn[d].closed
    /\ connections' = connections /\ active_connections' = active_connections
Closing(c) ==
    /\ c = loop.conn \/ c \in Open
    /\ \A d \in Client : /\ conn'[d].fd = conn[d].fd
                         /\ conn'[d].closed = IF d = c THEN TRUE ELSE conn[d].closed
    /\ IF conn[c].closed
         THEN connections' = connections /\ active_connections' = active_connections
         ELSE /\ connections' = [connections EXCEPT ![conn[c].fd] = None]
              /\ active_connections' = active_connections - 1

KeepsBalance == \A d \in Client : Balance(conn'[d]) = Balance(conn[d])
InflightSteps ==
    \/ \A d \in Client : conn'[d].inflight = conn[d].inflight
    \/ \E w \in Worker : enqueue_settle(w) /\ InflightBy(Owner(w), -1)
    \/ \E c \in Client : process_submit(c) /\ InflightBy(c, 1)
NotifiedSteps ==
    \/ \A d \in Client : conn'[d].notified = conn[d].notified
    \/ \E w \in Worker : try_mark_notified(w) /\ NotifiedOf(Owner(w), TRUE)
    \/ completions_next /\ NotifiedOf(Head(loop.todo), FALSE)
KeepsInput == draining => \A d \in Client : conn'[d].in = conn[d].in
TableSteps ==
    \/ SameTable
    \/ \E c \in Client : Closing(c)
    \/ accept_client
    \/ teardown

Footprint ==
    ConnShape' /\ KeepsBalance /\ InflightSteps /\ NotifiedSteps /\ KeepsInput /\ TableSteps

\* A step that leaves the connections alone.
LEMMA Untouching ==
    ASSUME Shape, conn' = conn, connections' = connections,
           active_connections' = active_connections
    PROVE  Footprint
<1>1. ConnShape'
  BY DEF Shape, ConnShape
<1>2. KeepsBalance /\ KeepsInput
  BY DEF KeepsBalance, KeepsInput
<1>3. InflightSteps /\ NotifiedSteps /\ TableSteps
  BY DEF InflightSteps, NotifiedSteps, TableSteps, SameTable
<1> QED  BY <1>1, <1>2, <1>3 DEF Footprint

\* Replacing the record of one connection.
LEMMA Put ==
    ASSUME NEW cn \in [Client -> ConnType], NEW c \in Client, NEW r \in ConnType
    PROVE  /\ [cn EXCEPT ![c] = r] \in [Client -> ConnType]
           /\ [cn EXCEPT ![c] = r][c] = r
           /\ \A d \in Client \ {c} : [cn EXCEPT ![c] = r][d] = cn[d]
  OBVIOUS

\* A step that replaces one connection record.
LEMMA OneChanged ==
    ASSUME Shape, NEW c \in Client, NEW q \in ConnType, Balance(q) = Balance(conn[c]),
           draining => q.in = conn[c].in, conn' = [conn EXCEPT ![c] = q]
    PROVE  /\ ConnShape' /\ KeepsBalance /\ KeepsInput
           /\ \A d \in Client : (d # c /\ conn'[d] = conn[d]) \/ (d = c /\ conn'[d] = q)
<1>1. conn \in [Client -> ConnType]
  BY DEF Shape, ConnShape
<1>2. /\ conn' \in [Client -> ConnType] /\ conn'[c] = q
      /\ \A d \in Client \ {c} : conn'[d] = conn[d]
  BY <1>1, Put
<1>3. \A d \in Client : (d # c /\ conn'[d] = conn[d]) \/ (d = c /\ conn'[d] = q)
  BY <1>2
<1>4. ConnShape'
  BY <1>2 DEF ConnShape
<1>5. KeepsBalance /\ KeepsInput
  BY <1>3 DEF KeepsBalance, KeepsInput
<1> QED  BY <1>3, <1>4, <1>5

\* A step that replaces one connection record by one that differs mildly.
LEMMA MildStep ==
    ASSUME Shape, NEW c \in Client, NEW r \in ConnType, Mild(conn[c], r),
           conn' = [conn EXCEPT ![c] = r], connections' = connections,
           active_connections' = active_connections
    PROVE  Footprint
<1>1. /\ ConnShape' /\ KeepsBalance /\ KeepsInput
      /\ \A d \in Client : (d # c /\ conn'[d] = conn[d]) \/ (d = c /\ conn'[d] = r)
  BY OneChanged, Zenon DEF Mild
<1>2. InflightSteps /\ NotifiedSteps
  BY <1>1, Zenon DEF InflightSteps, NotifiedSteps, Mild
<1>3. TableSteps
  BY <1>1 DEF TableSteps, SameTable, Mild
<1> QED  BY <1>1, <1>2, <1>3 DEF Footprint

\* close_connection(), after a change that keeps all but the buffers.
LEMMA CloseStep ==
    ASSUME Shape, NEW c \in Client, c = loop.conn \/ c \in Open,
           NEW r \in ConnType, Mild(conn[c], r),
           close_connection([conn EXCEPT ![c] = r], c)
    PROVE  Footprint
<1> DEFINE cn == [conn EXCEPT ![c] = r]
           q == IF r.closed THEN r ELSE [r EXCEPT !.closed = TRUE]
<1>1. conn \in [Client -> ConnType]
  BY DEF Shape, ConnShape
<1>2. cn \in [Client -> ConnType] /\ cn[c] = r /\ \A d \in Client \ {c} : cn[d] = conn[d]
  BY <1>1, Put
<1>3. /\ q \in ConnType /\ q.closed = TRUE /\ Balance(q) = Balance(r)
      /\ q.inflight = r.inflight /\ q.notified = r.notified /\ q.in = r.in /\ q.fd = r.fd
  <2> DEFINE p == [r EXCEPT !.closed = TRUE]
  <2>1. /\ p \in ConnType /\ p.closed = TRUE /\ Balance(p) = Balance(r)
        /\ p.inflight = r.inflight /\ p.notified = r.notified /\ p.in = r.in /\ p.fd = r.fd
    BY Zenon DEF ConnType, Balance
  <2>2. r.closed \in BOOLEAN
    BY DEF ConnType
  <2>3. r.closed => r.closed = TRUE
    BY <2>2, Zenon
  <2> HIDE DEF p
  <2>4. q = IF r.closed THEN r ELSE p
    BY DEF p
  <2> HIDE DEF q
  <2> QED  BY <2>1, <2>3, <2>4
<1>4. r.closed = conn[c].closed /\ r.fd = conn[c].fd
  BY DEF Mild
<1>5. q = IF r.closed THEN r ELSE [r EXCEPT !.closed = TRUE]
  OBVIOUS
<1> HIDE DEF q
<1>6. conn' = [conn EXCEPT ![c] = q]
  <2>1. CASE cn[c].closed
    BY <1>2, <1>5, <2>1 DEF close_connection
  <2>2. CASE ~cn[c].closed
    <3>1. conn' = [cn EXCEPT ![c].closed = TRUE]
      BY <2>2 DEF close_connection
    <3>2. conn' = [cn EXCEPT ![c] = [cn[c] EXCEPT !.closed = TRUE]]
      BY <1>2, <3>1
    <3>3. conn' = [cn EXCEPT ![c] = q]
      BY <1>2, <1>5, <2>2, <3>2, Zenon
    <3> QED  BY <1>1, <3>3, Zenon
  <2> QED  BY <2>1, <2>2
<1>7. IF conn[c].closed
        THEN connections' = connections /\ active_connections' = active_connections
        ELSE /\ connections' = [connections EXCEPT ![conn[c].fd] = None]
             /\ active_connections' = active_connections - 1
  BY <1>2, <1>4 DEF close_connection, table
<1> HIDE DEF cn
<1>8. /\ ConnShape' /\ KeepsBalance /\ KeepsInput
      /\ \A d \in Client : (d # c /\ conn'[d] = conn[d]) \/ (d = c /\ conn'[d] = q)
  <2>1. Balance(q) = Balance(conn[c]) /\ (draining => q.in = conn[c].in)
    BY <1>3 DEF Mild
  <2>2. q \in ConnType
    BY <1>3
  <2> QED  BY <1>6, <2>1, <2>2, OneChanged, Zenon
<1>9. InflightSteps /\ NotifiedSteps
  BY <1>3, <1>8, Zenon DEF InflightSteps, NotifiedSteps, Mild
<1>10. TableSteps
  <2>1. \A d \in Client : /\ conn'[d].fd = conn[d].fd
                          /\ conn'[d].closed = IF d = c THEN TRUE ELSE conn[d].closed
    BY <1>3, <1>4, <1>8, Zenon
  <2> QED  BY <1>7, <2>1, Zenon DEF TableSteps, Closing
<1> QED  BY <1>8, <1>9, <1>10 DEF Footprint

\* close_connection() alone.
LEMMA CloseAlone ==
    ASSUME Shape, NEW c \in Client, c = loop.conn \/ c \in Open, close_connection(conn, c)
    PROVE  Footprint
<1>1. conn \in [Client -> ConnType]
  BY DEF Shape, ConnShape
<1>2. conn[c] \in ConnType /\ conn = [conn EXCEPT ![c] = conn[c]] /\ Mild(conn[c], conn[c])
  BY <1>1 DEF Mild
<1> QED  BY <1>2, CloseStep

\* The updates of records that occur.
LEMMA Updates ==
    ASSUME NEW r \in ConnType
    PROVE  /\ \A x \in Response :
                LET q == [r EXCEPT !.staged = Append(r.staged, x), !.pending = r.pending + 1]
                IN  q \in ConnType /\ Mild(r, q)
           /\ LET q == [r EXCEPT !.closing = TRUE] IN q \in ConnType /\ Mild(r, q)
           /\ \A i \in SUBSET {"IN", "OUT"} :
                LET q == [r EXCEPT !.interest = i] IN q \in ConnType /\ Mild(r, q)
           /\ ~draining => \A s \in Seq(Nat \ {0}) :
                LET q == [r EXCEPT !.in = s] IN q \in ConnType /\ Mild(r, q)
<1>1. ASSUME NEW x \in Response
      PROVE  LET q == [r EXCEPT !.staged = Append(r.staged, x), !.pending = r.pending + 1]
             IN  q \in ConnType /\ Mild(r, q)
  <2> DEFINE s == Append(r.staged, x)
             n == r.pending + 1
             q == [r EXCEPT !.staged = s, !.pending = n]
  <2>1. /\ r.staged \in Seq(Response) /\ r.out \in Seq(Response) /\ r.pending \in Int
        /\ s \in Seq(Response) /\ n \in Int /\ n = r.pending + 1
        /\ Len(s) = Len(r.staged) + 1 /\ Len(r.staged) \in Nat /\ Len(r.out) \in Nat
    BY DEF ConnType
  <2> HIDE DEF s, n
  <2>2. /\ q \in ConnType /\ q.inflight = r.inflight /\ q.notified = r.notified
        /\ q.in = r.in /\ q.fd = r.fd /\ q.closed = r.closed
        /\ q.staged = s /\ q.pending = n /\ q.out = r.out
    BY <2>1, Zenon DEF ConnType
  <2> HIDE DEF q
  <2>3. Balance(q) = Balance(r)
    <3> DEFINE k == Len(r.staged)
               o == Len(r.out)
    <3>1. /\ r.pending \in Int /\ k \in Nat /\ o \in Nat
          /\ Balance(q) = (r.pending + 1) - (k + 1) - o /\ Balance(r) = r.pending - k - o
      BY <2>1, <2>2, Zenon DEF Balance
    <3> HIDE DEF k, o
    <3> QED  BY ONLY <3>1
  <2>4. Mild(r, q)
    BY <2>2, <2>3 DEF Mild
  <2> QED  BY <2>2, <2>4 DEF q, s, n
<1>2. LET q == [r EXCEPT !.closing = TRUE] IN q \in ConnType /\ Mild(r, q)
  BY Zenon DEF ConnType, Mild, Balance
<1>3. \A i \in SUBSET {"IN", "OUT"} :
        LET q == [r EXCEPT !.interest = i] IN q \in ConnType /\ Mild(r, q)
  BY DEF ConnType, Mild, Balance
<1>4. ~draining => \A s \in Seq(Nat \ {0}) :
        LET q == [r EXCEPT !.in = s] IN q \in ConnType /\ Mild(r, q)
  BY Zenon DEF ConnType, Mild, Balance
<1> QED  BY <1>1, <1>2, <1>3, <1>4, Zenon

\* The updates that concern a counter or the notification bit.
LEMMA Updates2 ==
    ASSUME NEW r \in ConnType
    PROVE  /\ LET q == [r EXCEPT !.inflight = r.inflight - 1]
              IN  /\ q \in ConnType /\ Balance(q) = Balance(r)
                  /\ q.inflight = r.inflight - 1 /\ q.notified = r.notified
                  /\ q.in = r.in /\ q.fd = r.fd /\ q.closed = r.closed
           /\ \A b \in BOOLEAN :
                LET q == [r EXCEPT !.notified = b]
                IN  /\ q \in ConnType /\ Balance(q) = Balance(r)
                    /\ q.inflight = r.inflight /\ q.notified = b
                    /\ q.in = r.in /\ q.fd = r.fd /\ q.closed = r.closed
<1>1. \A n \in Int :
        LET q == [r EXCEPT !.inflight = n]
        IN  /\ q \in ConnType /\ Balance(q) = Balance(r)
            /\ q.inflight = n /\ q.notified = r.notified
            /\ q.in = r.in /\ q.fd = r.fd /\ q.closed = r.closed
  BY Zenon DEF ConnType, Balance
<1>2. r.inflight - 1 \in Int
  BY DEF ConnType
<1>3. \A b \in BOOLEAN :
        LET q == [r EXCEPT !.notified = b]
        IN  /\ q \in ConnType /\ Balance(q) = Balance(r)
            /\ q.inflight = r.inflight /\ q.notified = b
            /\ q.in = r.in /\ q.fd = r.fd /\ q.closed = r.closed
  BY Zenon DEF ConnType, Balance
<1> QED  BY <1>1, <1>2, <1>3

\* Mild changes compose.
LEMMA MildTwice ==
    ASSUME NEW p, NEW q, NEW r, Mild(p, q), Mild(q, r)
    PROVE  Mild(p, r)
  BY DEF Mild

\* Staging a response.
LEMMA StagedIs ==
    ASSUME NEW cn \in [Client -> ConnType], NEW c \in Client, NEW x \in Response
    PROVE  \E q \in ConnType : Mild(cn[c], q) /\ Staged(cn, c, x) = [cn EXCEPT ![c] = q]
<1> DEFINE r == cn[c]
           q == [r EXCEPT !.staged = Append(r.staged, x), !.pending = r.pending + 1]
<1>1. r \in ConnType
  OBVIOUS
<1>2. q \in ConnType /\ Mild(r, q)
  BY <1>1, Updates, Zenon
<1>3. Staged(cn, c, x) = [cn EXCEPT ![c] = q]
  BY Zenon DEF Staged
<1> HIDE DEF q
<1> QED  BY <1>2, <1>3, Zenon

\* The owner of a job in hand.
LEMMA OwnerType ==
    ASSUME Shape, NEW w \in Worker, active[w] # NoJob
    PROVE  Owner(w) \in Client /\ active[w][2] \in Nat \ {0} /\ active[w] \in Job
  BY DEF Shape, PoolShape, Job, Owner

\* What a worker does to the connections.
LEMMA FootprintWorker ==
    ASSUME Shape, NEW w \in Worker, worker_step(w)
    PROVE  Footprint
<1> DEFINE c == Owner(w)
<1>1. conn \in [Client -> ConnType]
  BY DEF Shape, ConnShape
<1>2. connections' = connections /\ active_connections' = active_connections
  BY DEF worker_step, worker_take, enqueue_check, enqueue_stage, enqueue_settle,
         mark_close_after_flush, try_mark_notified, push_ready, poke, handler_returns, table
<1>3. CASE conn' = conn
  BY <1>2, <1>3, Untouching
<1>4. CASE enqueue_stage(w)
  <2>1. active[w] # NoJob /\ conn' = Staged(conn, c, <<active[w][2], "ok">>)
    BY <1>4 DEF enqueue_stage, Answering
  <2>2. c \in Client /\ <<active[w][2], "ok">> \in Response
    BY <2>1, OwnerType DEF Response
  <2> HIDE DEF c
  <2>3. PICK q \in ConnType : Mild(conn[c], q) /\ conn' = [conn EXCEPT ![c] = q]
    BY <1>1, <2>1, <2>2, StagedIs
  <2> QED  BY <1>2, <2>2, <2>3, MildStep, Zenon
<1>5. CASE mark_close_after_flush(w)
  <2> DEFINE q == [conn[c] EXCEPT !.closing = TRUE]
  <2>1. c \in Client /\ conn[c] \in ConnType
    BY <1>1, <1>5, OwnerType DEF mark_close_after_flush, Answering
  <2>2. q \in ConnType /\ Mild(conn[c], q)
    BY <2>1, Updates, Zenon
  <2>3. conn' = [conn EXCEPT ![c] = q]
    BY <1>5 DEF mark_close_after_flush
  <2> HIDE DEF c, q
  <2> QED  BY <1>2, <2>1, <2>2, <2>3, MildStep, Zenon
<1>6. CASE enqueue_settle(w)
  <2> DEFINE q == [conn[c] EXCEPT !.inflight = conn[c].inflight - 1]
  <2>1. c \in Client /\ conn[c] \in ConnType /\ \A d \in Client : conn[d].inflight \in Int
    BY <1>1, <1>6, OwnerType DEF enqueue_settle, Answering, ConnType
  <2>2. /\ q \in ConnType /\ Balance(q) = Balance(conn[c])
        /\ q.inflight = conn[c].inflight - 1 /\ q.notified = conn[c].notified
        /\ q.in = conn[c].in /\ q.fd = conn[c].fd /\ q.closed = conn[c].closed
    BY <2>1, Updates2
  <2>3. conn' = [conn EXCEPT ![c] = q]
    BY <1>6 DEF enqueue_settle
  <2> HIDE DEF c, q
  <2>4. /\ ConnShape' /\ KeepsBalance /\ KeepsInput
        /\ \A d \in Client : (d # c /\ conn'[d] = conn[d]) \/ (d = c /\ conn'[d] = q)
    BY <2>1, <2>2, <2>3, OneChanged, Zenon
  <2>5. NotifiedSteps
    BY <2>2, <2>4, ZenonT(30) DEF NotifiedSteps
  <2>6. TableSteps
    BY <1>2, <2>2, <2>4 DEF TableSteps, SameTable
  <2>7. InflightBy(c, -1)
    BY <2>1, <2>2, <2>4 DEF InflightBy
  <2>8. InflightSteps
    BY <1>6, <2>7 DEF InflightSteps, c
  <2> QED  BY <2>4, <2>5, <2>6, <2>8 DEF Footprint
<1>7. CASE try_mark_notified(w)
  <2> DEFINE q == [conn[c] EXCEPT !.notified = TRUE]
  <2>1. c \in Client /\ conn[c] \in ConnType
    BY <1>1, <1>7, OwnerType DEF try_mark_notified, Answering
  <2>2. /\ q \in ConnType /\ Balance(q) = Balance(conn[c])
        /\ q.inflight = conn[c].inflight /\ q.notified = TRUE
        /\ q.in = conn[c].in /\ q.fd = conn[c].fd /\ q.closed = conn[c].closed
    BY <2>1, Updates2, Zenon
  <2>3. conn' = [conn EXCEPT ![c] = q]
    BY <1>7 DEF try_mark_notified
  <2> HIDE DEF c, q
  <2>4. /\ ConnShape' /\ KeepsBalance /\ KeepsInput
        /\ \A d \in Client : (d # c /\ conn'[d] = conn[d]) \/ (d = c /\ conn'[d] = q)
    BY <2>1, <2>2, <2>3, OneChanged, Zenon
  <2>5. InflightSteps
    BY <2>2, <2>4 DEF InflightSteps
  <2>6. TableSteps
    BY <1>2, <2>2, <2>4 DEF TableSteps, SameTable
  <2>7. NotifiedOf(c, TRUE)
    BY <2>2, <2>4, Zenon DEF NotifiedOf
  <2>8. NotifiedSteps
    BY <1>7, <2>7, ZenonT(30) DEF NotifiedSteps, c
  <2> QED  BY <2>4, <2>5, <2>6, <2>8 DEF Footprint
<1> QED
  BY <1>3, <1>4, <1>5, <1>6, <1>7
  DEF worker_step, worker_take, enqueue_check, push_ready, poke, handler_returns

\* The first n elements and the rest.
LEMMA Split ==
    ASSUME NEW S, NEW s \in Seq(S), NEW n \in 0..Len(s)
    PROVE  /\ SubSeq(s, 1, n) \in Seq(S) /\ Len(SubSeq(s, 1, n)) = n
           /\ SubSeq(s, n + 1, Len(s)) \in Seq(S) /\ Len(SubSeq(s, n + 1, Len(s))) = Len(s) - n
  OBVIOUS

\* The steps of the loop for one connection: reading and parsing.
LEMMA FootprintInput ==
    ASSUME Shape, NEW c \in Client,
           read_some(c) \/ process_return(c) \/ process_malformed(c) \/ process_submit(c)
           \/ process_reject(c) \/ process_busy(c)
    PROVE  Footprint
<1>1. /\ conn \in [Client -> ConnType] /\ conn[c] \in ConnType
      /\ conn[c].in \in Seq(Nat \ {0}) /\ rx[c] \in Seq(Nat \ {0})
  BY DEF Shape, ConnShape, ConnType, PeerShape
<1>2. loop.conn = c
  BY ZenonT(30) DEF read_some, process_return, process_malformed, process_submit,
         process_reject, process_busy, At
<1>3. loop.at # "read" => ~draining
  BY ZenonT(30) DEF read_some, process_return, process_malformed, process_submit,
         process_reject, process_busy, At,
         Shape, LoopShape
<1>4. CASE read_some(c)
  <2> DEFINE n == Min({ReadChunk, Len(rx[c])})
  <2>1. CASE conn' = conn /\ UNCHANGED table
    BY <2>1, Untouching DEF table
  <2>2. CASE close_connection(conn, c)
    BY <1>2, <2>2, CloseAlone
  <2>3. CASE Wanted /\ n > 0 /\ conn' = [conn EXCEPT ![c].in = @ \o SubSeq(rx[c], 1, n)]
             /\ UNCHANGED table
    <3>1. Len(rx[c]) \in Nat /\ ReadChunk \in Nat
      BY <1>1, ServerAssumption
    <3>2. n \in 0..Len(rx[c])
      BY <3>1, MinOfTwo
    <3> HIDE DEF n
    <3> DEFINE s == conn[c].in \o SubSeq(rx[c], 1, n)
               q == [conn[c] EXCEPT !.in = s]
    <3>3. s \in Seq(Nat \ {0})
      BY <1>1, <3>2, Split
    <3>4. conn' = [conn EXCEPT ![c] = q]
      BY <2>3
    <3> HIDE DEF s
    <3>5. q \in ConnType /\ Mild(conn[c], q)
      BY <1>1, <2>3, <3>3, Updates, ZenonT(30) DEF Wanted
    <3> HIDE DEF q
    <3> QED  BY <2>3, <3>4, <3>5, MildStep, Zenon DEF table
  <2> QED  BY <1>4, <2>1, <2>2, <2>3, Zenon DEF read_some
<1>5. CASE process_return(c) \/ process_reject(c)
  BY <1>5, Untouching DEF process_return, process_reject, table
<1>6. CASE process_malformed(c)
  <2> DEFINE kind == scenario[c].frames[NextFrame(c)]
             x == <<NextFrame(c), "error">>
             cn == IF kind = "bad" THEN Staged(conn, c, x) ELSE conn
             marked == [cn EXCEPT ![c].closing = TRUE]
  <2>1. x \in Response
    <3>1. conn[c].in # <<>>
      BY <1>6 DEF process_malformed, Parsable
    <3> QED  BY <1>1, <3>1 DEF NextFrame, Response
  <2> HIDE DEF x
  <2>2. \E r \in ConnType : Mild(conn[c], r) /\ cn = [conn EXCEPT ![c] = r]
    <3>1. conn = [conn EXCEPT ![c] = conn[c]] /\ Mild(conn[c], conn[c])
      BY <1>1 DEF Mild
    <3>2. \E q \in ConnType : Mild(conn[c], q) /\ Staged(conn, c, x) = [conn EXCEPT ![c] = q]
      BY <1>1, <2>1, StagedIs
    <3> QED  BY <1>1, <3>1, <3>2, Zenon
  <2>3. close_connection(marked, c) \/ (conn' = marked /\ UNCHANGED table)
    BY <1>6 DEF process_malformed, x
  <2> HIDE DEF kind, cn
  <2>4. PICK r \in ConnType : Mild(conn[c], r) /\ cn = [conn EXCEPT ![c] = r]
    BY <2>2, Zenon
  <2> DEFINE q == [r EXCEPT !.closing = TRUE]
  <2>5. q \in ConnType /\ Mild(r, q)
    BY Updates, Zenon
  <2>6. marked = [conn EXCEPT ![c] = q]
    <3>1. cn[c] = r
      BY <1>1, <2>4
    <3>2. marked = [cn EXCEPT ![c] = q]
      BY <3>1
    <3> HIDE DEF q, marked
    <3> QED  BY <1>1, <2>4, <3>2, Zenon
  <2> HIDE DEF q, marked
  <2>7. Mild(conn[c], q)
    BY <2>4, <2>5, MildTwice
  <2>8. CASE close_connection(marked, c)
    BY <1>2, <2>5, <2>6, <2>7, <2>8, CloseStep, Zenon
  <2>9. CASE conn' = marked /\ UNCHANGED table
    BY <2>5, <2>6, <2>7, <2>9, MildStep, ZenonT(30) DEF table
  <2> QED  BY <2>3, <2>8, <2>9
<1>7. CASE process_submit(c)
  <2> DEFINE s == Tail(conn[c].in)
             n == conn[c].inflight + 1
             q == [conn[c] EXCEPT !.in = s, !.inflight = n]
  <2>1. conn' = [conn EXCEPT ![c] = q]
    BY <1>7, Zenon DEF process_submit
  <2>2. /\ s \in Seq(Nat \ {0}) /\ n \in Int /\ n = conn[c].inflight + 1
        /\ \A d \in Client : conn[d].inflight \in Int
    BY <1>1, <1>7 DEF process_submit, Parsable, ConnType
  <2>3. ~draining
    BY <1>3, <1>7 DEF process_submit, At
  <2> HIDE DEF s, n
  <2>4. /\ q \in ConnType /\ Balance(q) = Balance(conn[c])
        /\ q.inflight = n /\ q.notified = conn[c].notified
        /\ q.fd = conn[c].fd /\ q.closed = conn[c].closed
    <3> DEFINE r == conn[c]
    <3>1. q = [r EXCEPT !.in = s, !.inflight = n] /\ r \in ConnType
      BY <1>1
    <3> HIDE DEF q, r
    <3>2. /\ q \in ConnType /\ Balance(q) = Balance(r)
          /\ q.inflight = n /\ q.notified = r.notified
          /\ q.fd = r.fd /\ q.closed = r.closed
      BY <2>2, <3>1, Zenon DEF ConnType, Balance
    <3> QED  BY <3>2 DEF r
  <2> HIDE DEF q
  <2>5. /\ ConnShape' /\ KeepsBalance /\ KeepsInput
        /\ \A d \in Client : (d # c /\ conn'[d] = conn[d]) \/ (d = c /\ conn'[d] = q)
    BY <2>1, <2>3, <2>4, OneChanged, Zenon
  <2>6. NotifiedSteps
    BY <2>4, <2>5, ZenonT(30) DEF NotifiedSteps
  <2>7. TableSteps
    <3>1. connections' = connections /\ active_connections' = active_connections
      BY <1>7 DEF process_submit, table
    <3>2. SameTable
      BY <2>4, <2>5, <3>1 DEF SameTable
    <3> QED  BY <3>2 DEF TableSteps
  <2>8. InflightBy(c, 1)
    BY <2>2, <2>4, <2>5 DEF InflightBy
  <2>9. InflightSteps
    BY <1>7, <2>8 DEF InflightSteps
  <2> QED  BY <2>5, <2>6, <2>7, <2>9 DEF Footprint
<1>8. CASE process_busy(c)
  <2> DEFINE s == Tail(conn[c].in)
             x == <<NextFrame(c), "busy">>
             p == [conn[c] EXCEPT !.in = s]
             cm == [conn EXCEPT ![c] = p]
             cn == Staged(cm, c, x)
  <2>1. x \in Response /\ s \in Seq(Nat \ {0})
    BY <1>1, <1>8 DEF process_busy, Parsable, NextFrame, Response
  <2>2. ~draining
    BY <1>3, <1>8 DEF process_busy, At
  <2>3. close_connection(cn, c) \/ (conn' = cn /\ UNCHANGED table)
    BY <1>8 DEF process_busy
  <2> HIDE DEF s, x
  <2>4. p \in ConnType /\ Mild(conn[c], p)
    BY <1>1, <2>1, <2>2, Updates, ZenonT(30)
  <2> HIDE DEF p
  <2>5. cm \in [Client -> ConnType] /\ cm[c] = p
    BY <1>1, <2>4, Put
  <2>6. PICK q \in ConnType : Mild(cm[c], q) /\ cn = [cm EXCEPT ![c] = q]
    <3> HIDE DEF cm
    <3> QED  BY <2>1, <2>5, StagedIs
  <2>7. cn = [conn EXCEPT ![c] = q] /\ Mild(p, q)
    BY <1>1, <2>5, <2>6, Zenon
  <2> HIDE DEF cn, cm
  <2>8. Mild(conn[c], q)
    BY <2>4, <2>7, MildTwice
  <2>9. CASE close_connection(cn, c)
    BY <1>2, <2>7, <2>8, <2>9, CloseStep, Zenon
  <2>10. CASE conn' = cn /\ UNCHANGED table
    BY <2>7, <2>8, <2>10, MildStep, ZenonT(30) DEF table
  <2> QED  BY <2>3, <2>9, <2>10
<1> QED  BY <1>4, <1>5, <1>6, <1>7, <1>8

\* Flushing, and what follows it.
LEMMA FootprintOutput ==
    ASSUME Shape, NEW c \in Client,
           flush_swap(c) \/ flush_send(c) \/ settle(c) \/ interest_in(c) \/ interest_out(c)
    PROVE  Footprint
<1> DEFINE r == conn[c]
<1>1. /\ conn \in [Client -> ConnType] /\ r \in ConnType /\ tx[c] \in Seq(Response)
      /\ r.out \in Seq(Response) /\ r.staged \in Seq(Response) /\ r.pending \in Int
  BY DEF Shape, ConnShape, ConnType, PeerShape
<1>2. loop.conn = c
  BY DEF flush_swap, flush_send, settle, interest_in, interest_out, At
<1>3. CASE conn' = conn /\ UNCHANGED table
  BY <1>3, Untouching DEF table
<1>4. CASE close_connection(conn, c)
  BY <1>2, <1>4, CloseAlone
<1>5. CASE r.out = <<>> /\ conn' = Swapped(c) /\ UNCHANGED table
  <2> DEFINE q == [r EXCEPT !.out = r.staged, !.staged = <<>>]
  <2>1. conn' = [conn EXCEPT ![c] = q]
    BY <1>5, Zenon DEF Swapped
  <2>2. <<>> \in Seq(Response) /\ Len(<<>>) = 0 /\ Len(r.staged) \in Nat
    BY <1>1, EmptyIsSeq
  <2>3. q = [r EXCEPT !.out = r.staged, !.staged = <<>>] /\ conn[c] = r /\ r.out = <<>>
    BY <1>5
  <2> HIDE DEF q, r
  <2>4. /\ q \in ConnType /\ q.out = r.staged /\ q.staged = <<>> /\ q.pending = r.pending
        /\ q.inflight = r.inflight /\ q.notified = r.notified
        /\ q.in = r.in /\ q.fd = r.fd /\ q.closed = r.closed
    BY <1>1, <2>2, <2>3, Zenon DEF ConnType
  <2>5. Balance(q) = Balance(r)
    BY <1>1, <2>2, <2>3, <2>4 DEF Balance
  <2>6. Mild(conn[c], q)
    BY <2>3, <2>4, <2>5 DEF Mild
  <2> QED  BY <1>5, <2>1, <2>4, <2>6, MildStep, Zenon DEF table
<1>6. CASE /\ flush_send(c) /\ UNCHANGED table
           /\ LET n == Min({Room - Len(tx[c]), Len(r.out)})
              IN  /\ n > 0
                  /\ conn' = [conn EXCEPT ![c].out = SubSeq(@, n + 1, Len(@)),
                                          ![c].pending = PendingAfter(c, n)]
  <2> DEFINE n == Min({Room - Len(tx[c]), Len(r.out)})
             s == SubSeq(r.out, n + 1, Len(r.out))
             p == r.pending - n
             q == [r EXCEPT !.out = s, !.pending = p]
  <2>1. Room \in Nat /\ Len(tx[c]) \in Nat /\ Len(r.out) \in Nat /\ Len(r.staged) \in Nat
    <3>1. Room \in Nat
      BY ServerAssumption
    <3> QED  BY <1>1, <3>1
  <2>2. n \in 0..Len(r.out)
    <3> DEFINE k == Room - Len(tx[c])
               m == Len(r.out)
    <3>1. n > 0 /\ n = Min({k, m})
      BY <1>6
    <3>2. k \in Int /\ m \in Nat
      BY <2>1
    <3> HIDE DEF k, m, n
    <3>3. n = IF k <= m THEN k ELSE m
      BY <3>1, <3>2, MinOfTwo
    <3>4. n \in 0..m
      BY <3>1, <3>2, <3>3
    <3> QED  BY <3>4 DEF m
  <2>3. conn' = [conn EXCEPT ![c] = q]
    BY <1>6, Zenon DEF PendingAfter
  <2> HIDE DEF n
  <2>4. s \in Seq(Response) /\ Len(s) = Len(r.out) - n /\ n \in Nat
    BY <1>1, <2>1, <2>2, Split
  <2>5. p \in Int /\ p = r.pending - n
    BY <1>1, <2>4
  <2> HIDE DEF s, p
  <2>6. q = [r EXCEPT !.out = s, !.pending = p] /\ conn[c] = r
    OBVIOUS
  <2> HIDE DEF q, r
  <2>7. /\ q \in ConnType /\ q.out = s /\ q.staged = r.staged /\ q.pending = p
        /\ q.inflight = r.inflight /\ q.notified = r.notified
        /\ q.in = r.in /\ q.fd = r.fd /\ q.closed = r.closed
    BY <1>1, <2>4, <2>5, <2>6, Zenon DEF ConnType
  <2>8. Balance(q) = Balance(r)
    <3>1. /\ Len(q.out) = Len(r.out) - n /\ Len(q.staged) = Len(r.staged)
          /\ q.pending = r.pending - n
      BY <2>4, <2>5, <2>7
    <3>2. r.pending \in Int /\ n \in Nat /\ Len(r.out) \in Nat /\ Len(r.staged) \in Nat
      BY <1>1, <2>1, <2>4
    <3> QED  BY ONLY <3>1, <3>2 DEF Balance
  <2>9. Mild(conn[c], q)
    BY <2>6, <2>7, <2>8 DEF Mild
  <2> QED  BY <1>6, <2>3, <2>7, <2>9, MildStep, Zenon DEF table
<1>7. CASE interest_out(c) /\ ~conn[c].closed
  <2> DEFINE i == (IF loop.paused THEN {} ELSE {"IN"})
                  \cup (IF WantsOut(c) THEN {"OUT"} ELSE {})
             q == [r EXCEPT !.interest = i]
  <2>1. i \in SUBSET {"IN", "OUT"}
    OBVIOUS
  <2>2. conn' = [conn EXCEPT ![c] = q]
    BY <1>7 DEF interest_out
  <2> HIDE DEF i
  <2>3. q \in ConnType /\ Mild(conn[c], q)
    BY <1>1, <2>1, Updates, Zenon
  <2> HIDE DEF q
  <2> QED  BY <1>7, <2>2, <2>3, MildStep, ZenonT(30) DEF interest_out, table
<1>8. CASE flush_swap(c)
  BY <1>3, <1>5, <1>8 DEF flush_swap, table
<1>9. CASE flush_send(c)
  BY <1>3, <1>4, <1>6, <1>9, ZenonT(30) DEF flush_send, table
<1>10. CASE settle(c) \/ interest_in(c)
  BY <1>3, <1>4, <1>10 DEF settle, interest_in, table
<1>11. CASE interest_out(c)
  BY <1>3, <1>7, <1>11 DEF interest_out, table
<1> QED  BY <1>8, <1>9, <1>10, <1>11

\* The lowest free descriptor is a descriptor.
LEMMA FreeFdType ==
    ASSUME FreeFd # {}
    PROVE  Min(FreeFd) \in FreeFd /\ Min(FreeFd) \in Fd
<1>1. FreeFd \in SUBSET Nat /\ FreeFd \in SUBSET Fd
  BY ServerAssumption DEF FreeFd, Fd
<1> HIDE DEF FreeFd
<1> QED  BY <1>1, MinOfDescriptors, Zenon

\* What accept_connections() does to the connections.
LEMMA FootprintAccept ==
    ASSUME Shape, accept_client
    PROVE  Footprint
<1> DEFINE c == Head(backlog)
           f == Min(FreeFd)
           r == conn[c]
           q == [r EXCEPT !.fd = f, !.interest = {"IN"}]
<1>1. conn \in [Client -> ConnType] /\ c \in Client
  BY DEF Shape, ConnShape, PeerShape, accept_client
<1>2. f \in Fd
  BY FreeFdType DEF accept_client
<1>3. conn' = [conn EXCEPT ![c] = q]
  BY Zenon DEF accept_client
<1> HIDE DEF c, f
<1>4. r \in ConnType /\ r = conn[c] /\ q = [r EXCEPT !.fd = f, !.interest = {"IN"}]
  BY <1>1
<1> HIDE DEF q, r
<1>5. /\ q \in ConnType /\ Balance(q) = Balance(r) /\ q.inflight = r.inflight
      /\ q.notified = r.notified /\ q.in = r.in
  BY <1>2, <1>4, Zenon DEF ConnType, Balance
<1>6. /\ ConnShape' /\ KeepsBalance /\ KeepsInput
      /\ \A d \in Client : (d # c /\ conn'[d] = conn[d]) \/ (d = c /\ conn'[d] = q)
  BY <1>1, <1>3, <1>4, <1>5, OneChanged, Zenon
<1>7. InflightSteps /\ NotifiedSteps
  BY <1>4, <1>5, <1>6, Zenon DEF InflightSteps, NotifiedSteps
<1> QED  BY <1>6, <1>7 DEF Footprint, TableSteps

\* What a turn of drain_completions() does to the connections.
LEMMA FootprintCompletion ==
    ASSUME Shape, completions_next
    PROVE  Footprint
<1> DEFINE c == Head(loop.todo)
           q == [conn[c] EXCEPT !.notified = FALSE]
<1>1. conn \in [Client -> ConnType] /\ c \in Client
  BY DEF Shape, ConnShape, LoopShape, LoopType, completions_next
<1>2. conn' = [conn EXCEPT ![c] = q]
  BY DEF completions_next, clear_notified
<1>3. connections' = connections /\ active_connections' = active_connections
  BY DEF completions_next, table
<1> HIDE DEF c
<1>4. conn[c] \in ConnType
  BY <1>1
<1>5. /\ q \in ConnType /\ Balance(q) = Balance(conn[c])
      /\ q.inflight = conn[c].inflight /\ q.notified = FALSE
      /\ q.in = conn[c].in /\ q.fd = conn[c].fd /\ q.closed = conn[c].closed
  BY <1>4, Updates2, Zenon
<1> HIDE DEF q
<1>6. /\ ConnShape' /\ KeepsBalance /\ KeepsInput
      /\ \A d \in Client : (d # c /\ conn'[d] = conn[d]) \/ (d = c /\ conn'[d] = q)
  BY <1>1, <1>2, <1>5, OneChanged, ZenonT(30)
<1>7. InflightSteps
  BY <1>5, <1>6 DEF InflightSteps
<1>8. NotifiedOf(c, FALSE)
  BY <1>5, <1>6, Zenon DEF NotifiedOf
<1>9. NotifiedSteps
  BY <1>8, ZenonT(30) DEF NotifiedSteps, c
<1>10. TableSteps
  BY <1>3, <1>5, <1>6 DEF TableSteps, SameTable
<1> QED  BY <1>6, <1>7, <1>9, <1>10 DEF Footprint

\* What the end of run() does to the connections.
LEMMA FootprintTeardown ==
    ASSUME Shape, teardown
    PROVE  Footprint
<1>1. conn \in [Client -> ConnType]
  BY DEF Shape, ConnShape
<1>2. \A r \in ConnType : LET q == [r EXCEPT !.closed = TRUE]
                          IN  /\ q \in ConnType /\ Balance(q) = Balance(r) /\ q.in = r.in
                              /\ q.inflight = r.inflight /\ q.notified = r.notified
  BY Zenon DEF ConnType, Balance
<1>3. ASSUME NEW d \in Client
      PROVE  /\ conn'[d] \in ConnType /\ Balance(conn'[d]) = Balance(conn[d])
             /\ conn'[d].in = conn[d].in
             /\ conn'[d].inflight = conn[d].inflight /\ conn'[d].notified = conn[d].notified
  <2>1. conn'[d] = IF d \in Open THEN [conn[d] EXCEPT !.closed = TRUE] ELSE conn[d]
    BY DEF teardown
  <2>2. conn[d] \in ConnType
    BY <1>1
  <2> QED  BY <1>2, <2>1, <2>2
<1>4. ConnShape'
  <2>1. conn' = [d \in Client |-> conn'[d]]
    BY DEF teardown
  <2> QED  BY <1>3, <2>1 DEF ConnShape
<1> QED
  BY <1>3, <1>4, Zenon
  DEF Footprint, KeepsBalance, InflightSteps, NotifiedSteps, KeepsInput, TableSteps

\* Every step has the footprint.
LEMMA FootprintStep ==
    ASSUME Shape, [Next]_vars
    PROVE  Footprint
<1>1. CASE conn' = conn /\ UNCHANGED table
  BY <1>1, Untouching DEF table
<1>2. ASSUME NEW w \in Worker, worker_step(w) PROVE Footprint
  BY <1>2, FootprintWorker
<1>3. ASSUME NEW c \in Client, connection_step(c) PROVE Footprint
  BY <1>3, FootprintInput, FootprintOutput DEF connection_step
<1>4. CASE accept_client \/ completions_next \/ teardown
  BY <1>4, FootprintAccept, FootprintCompletion, FootprintTeardown
<1>5. CASE dispatch
  <2>1. PICK e \in loop.batch :
          \/ dispatch_listen(e) \/ dispatch_completion(e) \/ dispatch_shutdown(e)
          \/ dispatch_signal(e) \/ dispatch_conn(e)
    BY <1>5 DEF dispatch
  <2>2. CASE ~dispatch_conn(e)
    BY <1>1, <2>1, <2>2
    DEF dispatch_listen, dispatch_completion, dispatch_shutdown, dispatch_signal
  <2>3. CASE dispatch_conn(e)
    <3> DEFINE c == connections[e.fd]
    <3>1. e.fd \in Fd
      BY <2>3 DEF dispatch_conn, Shape, LoopShape, LoopType, EventType
    <3>2. c \in Client \cup {None}
      BY <3>1 DEF Shape, TableShape
    <3>3. CASE c # None /\ close_connection(conn, c)
      <4>1. c \in Client /\ c \in Open
        BY <3>1, <3>2, <3>3 DEF Open
      <4> HIDE DEF c
      <4> QED  BY <3>3, <4>1, CloseAlone
    <3> QED  BY <1>1, <2>3, <3>3 DEF dispatch_conn
  <2> QED  BY <2>2, <2>3
<1>6. CASE environment \/ UNCHANGED vars
  BY <1>1, <1>6, ZenonT(30)
  DEF environment, connect, client_send, client_recv, client_leave, request_shutdown, signal,
      deadline_passes, vars
<1>7. CASE epoll_wait \/ batch_end \/ accept_return \/ accept_reject \/ completions_swap
           \/ quiesce_next \/ list_end \/ drain_queue \/ drain_inflight \/ drain_output
           \/ drain_deadline \/ teardown_close \/ teardown_discard \/ teardown_join
  BY <1>1, <1>7
  DEF epoll_wait, batch_end, accept_return, accept_reject, completions_swap, quiesce_next,
      list_end, drain_queue, drain_inflight, drain_output, drain_deadline, teardown_close,
      teardown_discard, teardown_join
<1> QED
  BY <1>2, <1>3, <1>4, <1>5, <1>6, <1>7 DEF Next, loop_step

(***************************************************************************)
(* The shape is an invariant.                                              *)
(***************************************************************************)
\* The map is finite.
LEMMA OpenFinite == IsFiniteSet(Open) /\ Cardinality(Open) \in Nat /\ Open \in SUBSET Client
<1>1. Open \in SUBSET Client
  BY DEF Open
<1>2. IsFiniteSet(Open)
  BY <1>1, ServerAssumption, FS_Subset
<1> QED  BY <1>1, <1>2, FS_CardinalityType

\* The shape of the map is preserved.
LEMMA TableShapeStep ==
    ASSUME Shape, Footprint
    PROVE  TableShape'
<1> USE DEF Shape, TableShape
<1>1. CASE SameTable
  BY <1>1 DEF SameTable
<1>2. ASSUME NEW c \in Client, Closing(c) PROVE TableShape'
  <2> DEFINE f == conn[c].fd
  <2>1. /\ connections' = connections \/ connections' = [connections EXCEPT ![f] = None]
        /\ active_connections' = active_connections \/ active_connections' = active_connections - 1
        /\ \A d \in Client : conn'[d].fd = conn[d].fd
    BY ONLY <1>2, ZenonT(30) DEF Closing
  <2> HIDE DEF f
  <2>2. /\ connections' \in [Fd -> Client \cup {None}]
        /\ \A g \in Fd : connections'[g] = connections[g] \/ connections'[g] = None
    BY <2>1
  <2>3. active_connections' \in Int
    BY <2>1
  <2> QED  BY <2>1, <2>2, <2>3
<1>3. CASE accept_client
  <2> DEFINE c == Head(backlog)
             f == Min(FreeFd)
  <2>1. c \in Client /\ f \in Fd /\ f # 0
    <3>1. backlog \in Seq(Client) /\ backlog # <<>> /\ FreeFd # {}
      BY <1>3 DEF accept_client, PeerShape
    <3>2. c \in Client
      BY <3>1
    <3>3. f \in Fd
      BY <3>1, FreeFdType
    <3> HIDE DEF c, f
    <3> QED  BY <3>2, <3>3, ServerAssumption DEF Fd
  <2>2. \A d \in Client : conn'[d].fd = IF d = c THEN f ELSE conn[d].fd
    BY <1>3, <2>1 DEF accept_client, ConnShape, ConnType
  <2>3. connections' = [connections EXCEPT ![f] = c] /\ active_connections' = active_connections + 1
    BY <1>3 DEF accept_client
  <2> HIDE DEF c, f
  <2> QED  BY <2>1, <2>2, <2>3
<1>4. CASE teardown
  <2>1. /\ connections' = [f \in Fd |-> None]
        /\ active_connections' = active_connections - Cardinality(Open)
    BY <1>4 DEF teardown
  <2> QED  BY <2>1, OpenFinite
<1> QED  BY <1>1, <1>2, <1>3, <1>4 DEF Footprint, TableSteps

\* The shape of the clients and the sockets is preserved.
LEMMA PeerShapeStep ==
    ASSUME Shape, [Next]_vars
    PROVE  PeerShape'
<1> USE DEF Shape, PeerShape
<1>1. CASE UNCHANGED <<scenario, peers>>
  BY <1>1 DEF peers
<1>2. ASSUME NEW c \in Client, connect(c) PROVE PeerShape'
  BY <1>2 DEF connect
<1>3. ASSUME NEW c \in Client, client_send(c) PROVE PeerShape'
  <2> DEFINE n == scenario[c].burst
             g == [i \in 1..n |-> sent[c] + i]
  <2>1. n \in Nat /\ sent[c] \in Nat
    BY <1>3, ServerAssumption DEF client_send, Behaviour
  <2>2. g \in [1..n -> Nat \ {0}]
    BY <2>1
  <2>3. sent' \in [Client -> Nat]
    BY <1>3, <2>1 DEF client_send
  <2>4. rx' = [rx EXCEPT ![c] = rx[c] \o g]
    BY <1>3 DEF client_send
  <2> HIDE DEF n, g
  <2>5. \A h \in [1..n -> Nat \ {0}] : h \in Seq(Nat \ {0})
    BY <2>1, SeqIsFunctions
  <2>6. g \in Seq(Nat \ {0})
    BY <2>2, <2>5
  <2>7. rx' \in [Client -> Seq(Nat \ {0})]
    BY <2>4, <2>6
  <2> QED  BY <1>3, <2>3, <2>7 DEF client_send
<1>4. ASSUME NEW c \in Client, client_recv(c) PROVE PeerShape'
  BY <1>4 DEF client_recv
<1>5. ASSUME NEW c \in Client, NEW how \in {"half", "gone"}, client_leave(c, how)
      PROVE  PeerShape'
  BY <1>5 DEF client_leave
<1>6. ASSUME NEW c \in Client, read_some(c), scenario' = scenario PROVE PeerShape'
  <2> DEFINE n == Min({ReadChunk, Len(rx[c])})
  <2>1. Len(rx[c]) \in Nat /\ ReadChunk \in Nat /\ rx[c] \in Seq(Nat \ {0})
    BY ServerAssumption
  <2>2. n \in 0..Len(rx[c])
    <3> DEFINE k == Len(rx[c])
    <3>1. k \in Nat
      BY <2>1
    <3> HIDE DEF k
    <3>2. Min({ReadChunk, k}) = IF ReadChunk <= k THEN ReadChunk ELSE k
      BY ONLY <2>1, <3>1, MinOfTwo
    <3> QED  BY ONLY <2>1, <3>1, <3>2 DEF k
  <2>3. rx' = rx \/ rx' = [rx EXCEPT ![c] = SubSeq(@, n + 1, Len(@))]
    BY <1>6, Zenon DEF read_some
  <2> HIDE DEF n
  <2>4. SubSeq(rx[c], n + 1, Len(rx[c])) \in Seq(Nat \ {0})
    BY <2>1, <2>2, Split
  <2>5. rx' \in [Client -> Seq(Nat \ {0})]
    BY <2>3, <2>4, Zenon
  <2> QED  BY <1>6, <2>5 DEF read_some
<1>7. ASSUME NEW c \in Client, flush_send(c), scenario' = scenario PROVE PeerShape'
  <2> DEFINE k == Room - Len(tx[c])
             m == Len(conn[c].out)
             n == Min({k, m})
  <2>0. conn[c].out \in Seq(Response) /\ tx[c] \in Seq(Response)
    BY DEF ConnShape, ConnType
  <2>1. k \in Int /\ m \in Nat
    <3>1. Room \in Nat
      BY ServerAssumption
    <3> QED  BY <2>0, <3>1
  <2>2. tx' = tx \/ (n > 0 /\ tx' = [tx EXCEPT ![c] = @ \o SubSeq(conn[c].out, 1, n)])
    BY <1>7, Zenon DEF flush_send
  <2>3. n > 0 => n \in 0..m
    <3> HIDE DEF k, m
    <3>1. n = IF k <= m THEN k ELSE m
      BY ONLY <2>1, MinOfTwo
    <3> HIDE DEF n
    <3> QED  BY <2>1, <3>1
  <2>4. n > 0 => n \in 0..Len(conn[c].out)
    BY <2>3
  <2> HIDE DEF k, m, n
  <2>5. n > 0 => SubSeq(conn[c].out, 1, n) \in Seq(Response)
    BY <2>0, <2>4, Split
  <2>6. tx' \in [Client -> Seq(Response)]
    <3> DEFINE s == SubSeq(conn[c].out, 1, n)
    <3>1. CASE tx' = tx
      BY <3>1
    <3>2. CASE n > 0 /\ tx' = [tx EXCEPT ![c] = @ \o s]
      <4> HIDE DEF s
      <4> QED  BY <2>0, <2>5, <3>2 DEF s
    <3> QED  BY <2>2, <3>1, <3>2, Zenon
  <2> QED  BY <1>7, <2>6 DEF flush_send
<1>8. CASE (accept_reject \/ accept_client) /\ scenario' = scenario
  <2>1. /\ backlog # <<>> /\ backlog' = Tail(backlog)
        /\ UNCHANGED <<scenario, client, sent, rx, tx, got>>
    BY <1>8, Zenon DEF accept_reject, accept_client
  <2>2. backlog' \in Seq(Client)
    BY <2>1
  <2> QED  BY <2>1, <2>2
<1>9. ASSUME NEW e, dispatch_shutdown(e), scenario' = scenario PROVE PeerShape'
  <2>1. backlog' \in Seq(Client)
    BY <1>9, EmptyIsSeq, ZenonT(30) DEF dispatch_shutdown
  <2> QED  BY <1>9, <2>1 DEF dispatch_shutdown
<1>10. ASSUME NEW w \in Worker, worker_step(w) PROVE PeerShape'
  BY <1>1, <1>10
  DEF worker_step, worker_take, enqueue_check, enqueue_stage, enqueue_settle,
      mark_close_after_flush, try_mark_notified, push_ready, poke, handler_returns
<1>11. ASSUME NEW c \in Client, connection_step(c), scenario' = scenario PROVE PeerShape'
  BY <1>1, <1>6, <1>7, <1>11, ZenonT(30)
  DEF connection_step, process_return, process_malformed, process_submit, process_reject,
      process_busy, flush_swap, settle, interest_in, interest_out
<1>12. CASE dispatch /\ scenario' = scenario
  BY <1>1, <1>9, <1>12
  DEF dispatch, dispatch_listen, dispatch_completion, dispatch_signal, dispatch_conn
<1>13. CASE /\ scenario' = scenario
            /\ \/ epoll_wait \/ batch_end \/ accept_return \/ completions_swap
               \/ completions_next \/ quiesce_next \/ list_end \/ drain_queue \/ drain_inflight
               \/ drain_output \/ drain_deadline \/ teardown_close \/ teardown_discard
               \/ teardown_join \/ teardown
  BY <1>1, <1>13
  DEF epoll_wait, batch_end, accept_return, completions_swap, completions_next, quiesce_next,
      list_end, drain_queue, drain_inflight, drain_output, drain_deadline, teardown_close,
      teardown_discard, teardown_join, teardown
<1>14. CASE request_shutdown \/ signal \/ deadline_passes \/ UNCHANGED vars
  BY <1>1, <1>14 DEF request_shutdown, signal, deadline_passes, vars
<1> QED
  BY <1>2, <1>3, <1>4, <1>5, <1>8, <1>10, <1>11, <1>12, <1>13, <1>14, ZenonT(30)
  DEF Next, loop_step, environment

\* Flags are set and cleared.
LEMMA FlagShapeStep ==
    ASSUME Shape, [Next]_vars
    PROVE  FlagShape'
<1> DEFINE Kept == UNCHANGED <<flags, completion_fd, shutdown_fd, signal_fd>>
<1>1. CASE Kept
  BY <1>1 DEF Shape, FlagShape, flags
<1>2. CASE request_shutdown \/ signal \/ deadline_passes
  BY <1>2, Zenon DEF Shape, FlagShape, flags, wakeups, request_shutdown, signal, deadline_passes
<1>3. CASE environment /\ ~(request_shutdown \/ signal \/ deadline_passes)
  BY <1>1, <1>3, Zenon DEF environment, connect, client_send, client_recv, client_leave, wakeups
<1>4. ASSUME NEW w \in Worker, worker_step(w) PROVE FlagShape'
  <2>1. CASE poke(w)
    BY <2>1 DEF Shape, FlagShape, flags, poke
  <2>2. CASE ~poke(w)
    BY <1>1, <1>4, <2>2
    DEF worker_step, worker_take, enqueue_check, enqueue_stage, enqueue_settle,
        mark_close_after_flush, try_mark_notified, push_ready, handler_returns, wakeups
  <2> QED  BY <2>1, <2>2
<1>5. ASSUME NEW c \in Client, connection_step(c) PROVE FlagShape'
  BY <1>1, <1>5, Zenon
  DEF connection_step, read_some, process_return, process_malformed, process_submit,
      process_reject, process_busy, flush_swap, flush_send, settle, interest_in,
      interest_out, wakeups
<1>6. ASSUME NEW e, dispatch_listen(e) \/ dispatch_conn(e) PROVE FlagShape'
  BY <1>1, <1>6 DEF dispatch_listen, dispatch_conn, wakeups
<1>7. ASSUME NEW e, dispatch_completion(e) \/ dispatch_signal(e) PROVE FlagShape'
  BY <1>7, Zenon DEF Shape, FlagShape, flags, dispatch_completion, dispatch_signal
<1>8. ASSUME NEW e, dispatch_shutdown(e) PROVE FlagShape'
  BY <1>8, Zenon DEF Shape, FlagShape, dispatch_shutdown
<1>9. CASE drain_inflight \/ drain_deadline
  BY <1>9, Zenon DEF Shape, FlagShape, flags, wakeups, drain_inflight, drain_deadline, StopRunning
<1>10. CASE teardown_join
  BY <1>10, ZenonT(30) DEF Shape, FlagShape, flags, teardown_join
<1>11. CASE \/ epoll_wait \/ batch_end \/ accept_return \/ accept_reject \/ accept_client
            \/ completions_swap \/ completions_next \/ quiesce_next \/ list_end \/ drain_queue
            \/ drain_output \/ teardown_close \/ teardown_discard \/ teardown
            \/ UNCHANGED vars
  BY <1>1, <1>11
  DEF epoll_wait, batch_end, accept_return, accept_reject, accept_client, completions_swap,
      completions_next, quiesce_next, list_end, drain_queue, drain_output, teardown_close,
      teardown_discard, teardown, vars, wakeups
<1> QED
  BY <1>2, <1>3, <1>4, <1>5, <1>6, <1>7, <1>8, <1>9, <1>10, <1>11, ZenonT(30)
  DEF Next, loop_step, dispatch

\* A place and a health are all there is to a worker.
LEMMA WorkerBecomes ==
    ASSUME PoolShape, NEW w \in Worker, NEW q \in WorkerType,
           worker' = [worker EXCEPT ![w] = q]
    PROVE  /\ worker' \in [Worker -> WorkerType] /\ worker'[w] = q
           /\ \A v \in Worker \ {w} : worker'[v] = worker[v]
  BY DEF PoolShape

\* A worker goes on to its next place.
LEMMA WorkerMoves ==
    ASSUME PoolShape, NEW w \in Worker,
           NEW p \in {"check", "mark", "notify", "push", "poke", "return"},
           worker' = [worker EXCEPT ![w].at = p]
    PROVE  /\ worker' \in [Worker -> WorkerType] /\ worker'[w].at = p
           /\ \A v \in Worker \ {w} : worker'[v] = worker[v]
<1> DEFINE q == [worker[w] EXCEPT !.at = p]
<1>1. worker \in [Worker -> WorkerType] /\ worker[w] \in WorkerType
  BY DEF PoolShape
<1>2. worker' = [worker EXCEPT ![w] = q]
  BY <1>1
<1>3. q \in WorkerType /\ q.at = p
  BY <1>1 DEF WorkerType
<1> HIDE DEF q
<1> QED  BY <1>2, <1>3, WorkerBecomes, ZenonT(30)

\* The shape of the workers and of what they share with the loop is preserved.
LEMMA PoolShapeStep ==
    ASSUME Shape, [Next]_vars
    PROVE  PoolShape'
<1> USE DEF Shape
<1>1. CASE UNCHANGED <<worker, ready, pool>>
  BY <1>1 DEF PoolShape, pool
<1>2. CASE environment \/ UNCHANGED vars
  BY <1>1, <1>2, ZenonT(30)
  DEF environment, connect, client_send, client_recv, client_leave, request_shutdown, signal,
      deadline_passes, vars, wakeups
<1>3. ASSUME NEW w \in Worker, worker_step(w) PROVE PoolShape'
  <2>1. CASE worker_take(w)
    <3>1. /\ queue # <<>> /\ queue \in Seq(Job) /\ active \in [Worker -> Job \cup {NoJob}]
          /\ active' = [active EXCEPT ![w] = Head(queue)] /\ queue' = Tail(queue)
          /\ worker' = [worker EXCEPT ![w].at = "check"] /\ ready' = ready /\ phase' = phase
      BY <2>1 DEF worker_take, Pool!Take, WorkerGoto, wakeups, PoolShape
    <3>2. Head(queue) \in Job /\ queue' \in Seq(Job) /\ Head(queue) # NoJob
      BY <3>1, ServerAssumption DEF Job
    <3>3. /\ worker' \in [Worker -> WorkerType] /\ worker'[w].at = "check"
          /\ \A v \in Worker \ {w} : worker'[v] = worker[v]
      <4>1. PoolShape
        OBVIOUS
      <4> QED  BY ONLY <3>1, <4>1, WorkerMoves, w \in Worker, Zenon
    <3>4. active' \in [Worker -> Job \cup {NoJob}]
      BY <3>1, <3>2
    <3>5. \A v \in Worker : worker'[v].at = "idle" <=> active'[v] = NoJob
      BY <3>1, <3>2, <3>3 DEF PoolShape
    <3> QED  BY <3>1, <3>2, <3>3, <3>4, <3>5 DEF PoolShape
  <2>2. ASSUME NEW p \in {"check", "mark", "notify", "push", "poke", "return"},
               worker' = [worker EXCEPT ![w].at = p], active[w] # NoJob,
               ready' \in Seq(Client), UNCHANGED pool
        PROVE  PoolShape'
    <3>1. /\ worker' \in [Worker -> WorkerType] /\ worker'[w].at = p
          /\ \A v \in Worker \ {w} : worker'[v] = worker[v]
      BY <2>2, WorkerMoves, Zenon
    <3> QED  BY <2>2, <3>1 DEF PoolShape, pool
  <2>3. ASSUME NEW q \in WorkerType, worker' = [worker EXCEPT ![w] = q],
               q.at # "idle", active[w] # NoJob, ready' = ready, UNCHANGED pool
        PROVE  PoolShape'
    <3>1. /\ worker' \in [Worker -> WorkerType] /\ worker'[w] = q
          /\ \A v \in Worker \ {w} : worker'[v] = worker[v]
      BY <2>3, WorkerBecomes, Zenon
    <3>2. \A v \in Worker : worker'[v].at = "idle" <=> active'[v] = NoJob
      BY <2>3, <3>1 DEF PoolShape, pool
    <3> QED  BY <2>3, <3>1, <3>2 DEF PoolShape, pool
  <2>4. CASE enqueue_check(w)
    <3> DEFINE q == IF conn[Owner(w)].closed THEN [at |-> "settle", healthy |-> FALSE]
                    ELSE [at |-> "stage", healthy |-> TRUE]
    <3>1. q \in WorkerType /\ q.at # "idle"
      BY DEF WorkerType
    <3>2. worker' = [worker EXCEPT ![w] = q] /\ active[w] # NoJob /\ ready' = ready /\ UNCHANGED pool
      BY <2>4 DEF enqueue_check, Answering, wakeups
    <3> HIDE DEF q
    <3> QED  BY <2>3, <3>1, <3>2, Zenon
  <2>5. CASE enqueue_stage(w)
    <3> DEFINE h == ~OverLimit(conn', Owner(w))
               q == [at |-> "settle", healthy |-> h]
    <3>1. q \in WorkerType /\ q.at # "idle"
      <4>1. h \in BOOLEAN
        BY Zenon
      <4> HIDE DEF h
      <4> QED  BY <4>1 DEF WorkerType
    <3>2. worker' = [worker EXCEPT ![w] = q] /\ active[w] # NoJob /\ ready' = ready /\ UNCHANGED pool
      BY <2>5 DEF enqueue_stage, Answering, wakeups
    <3> HIDE DEF q
    <3> QED  BY <2>3, <3>1, <3>2, ZenonT(30)
  <2>6. CASE enqueue_settle(w)
    <3>1. PICK p \in {"notify", "mark"} : worker' = [worker EXCEPT ![w].at = p]
      BY <2>6, Zenon DEF enqueue_settle, WorkerGoto
    <3> QED  BY <2>2, <2>6, <3>1, Zenon DEF enqueue_settle, Answering, wakeups, PoolShape
  <2>7. CASE mark_close_after_flush(w)
    BY <2>2, <2>7 DEF mark_close_after_flush, WorkerGoto, Answering, wakeups, PoolShape
  <2>8. CASE try_mark_notified(w)
    <3>1. PICK p \in {"return", "push"} : worker' = [worker EXCEPT ![w].at = p]
      BY <2>8, Zenon DEF try_mark_notified, WorkerGoto
    <3> QED  BY <2>2, <2>8, <3>1, Zenon DEF try_mark_notified, Answering, wakeups, PoolShape
  <2>9. CASE push_ready(w)
    <3>1. active[w] # NoJob /\ ready' = Append(ready, Owner(w)) /\ UNCHANGED pool
          /\ worker' = [worker EXCEPT ![w].at = "poke"]
      BY <2>9 DEF push_ready, Answering, WorkerGoto
    <3>2. ready' \in Seq(Client)
      BY <3>1, OwnerType DEF PoolShape
    <3> QED  BY <2>2, <3>1, <3>2
  <2>10. CASE poke(w)
    BY <2>2, <2>10 DEF poke, WorkerGoto, Answering, PoolShape
  <2>11. CASE handler_returns(w)
    <3> DEFINE q == [at |-> "idle", healthy |-> TRUE]
    <3>1. q \in WorkerType /\ q.at = "idle"
      BY DEF WorkerType
    <3>2. /\ worker' = [worker EXCEPT ![w] = q] /\ ready' = ready
          /\ active' = [active EXCEPT ![w] = NoJob] /\ UNCHANGED <<queue, phase>>
      BY <2>11 DEF handler_returns, Pool!Finish, wakeups
    <3> HIDE DEF q
    <3>3. /\ worker' \in [Worker -> WorkerType] /\ worker'[w] = q
          /\ \A v \in Worker \ {w} : worker'[v] = worker[v]
      BY <3>1, <3>2, WorkerBecomes, Zenon
    <3> QED  BY <3>1, <3>2, <3>3 DEF PoolShape
  <2> QED
    BY <1>3, <2>1, <2>4, <2>5, <2>6, <2>7, <2>8, <2>9, <2>10, <2>11 DEF worker_step
<1>4. ASSUME NEW c \in Client, process_submit(c) PROVE PoolShape'
  <2> DEFINE j == <<c, NextFrame(c)>>
  <2>1. conn[c].in \in Seq(Nat \ {0}) /\ conn[c].in # <<>>
    BY <1>4 DEF process_submit, Parsable, ConnShape, ConnType
  <2>2. j \in Job
    BY <2>1 DEF NextFrame, Job
  <2>3. queue' = Append(queue, j) /\ UNCHANGED <<worker, ready, active, phase>>
    BY <1>4 DEF process_submit, Pool!Submit, wakeups
  <2> HIDE DEF j
  <2> QED  BY <2>2, <2>3 DEF PoolShape
<1>5. ASSUME NEW c \in Client, connection_step(c) PROVE PoolShape'
  BY <1>1, <1>4, <1>5, ZenonT(30)
  DEF connection_step, read_some, process_return, process_malformed,
      process_reject, process_busy, flush_swap, flush_send, settle, interest_in,
      interest_out, wakeups
<1>6. CASE dispatch
  BY <1>1, <1>6
  DEF dispatch, dispatch_listen, dispatch_completion, dispatch_shutdown, dispatch_signal,
      dispatch_conn, wakeups
<1>7. CASE completions_swap \/ teardown_close \/ teardown_discard \/ teardown_join
  <2>1. CASE completions_swap
    BY <2>1, EmptyIsSeq DEF PoolShape, completions_swap, pool
  <2>2. CASE teardown_close
    BY <2>2 DEF PoolShape, teardown_close, Pool!Close, wakeups
  <2>3. CASE teardown_discard
    BY <2>3, EmptyIsSeq DEF PoolShape, teardown_discard, Pool!Discard, wakeups
  <2>4. CASE teardown_join
    BY <2>4 DEF PoolShape, teardown_join, Pool!Stop
  <2> QED  BY <1>7, <2>1, <2>2, <2>3, <2>4
<1>8. CASE \/ epoll_wait \/ batch_end \/ accept_return \/ accept_reject \/ accept_client
           \/ completions_next \/ quiesce_next \/ list_end \/ drain_queue
           \/ drain_inflight \/ drain_output \/ drain_deadline \/ teardown
  BY <1>1, <1>8
  DEF epoll_wait, batch_end, accept_return, accept_reject, accept_client,
      completions_next, quiesce_next, list_end, drain_queue, drain_inflight, drain_output,
      drain_deadline, teardown, wakeups
<1> QED
  BY <1>2, <1>3, <1>5, <1>6, <1>7, <1>8 DEF Next, loop_step

\* The shape of the loop is preserved by the steps that concern no connection.
LEMMA LoopShapeBetween ==
    ASSUME Shape, draining' \in BOOLEAN,
           \/ epoll_wait \/ batch_end \/ accept_return \/ completions_swap \/ completions_next
           \/ quiesce_next \/ list_end \/ drain_queue \/ drain_inflight \/ drain_output
           \/ drain_deadline \/ teardown_close \/ teardown_join \/ teardown
    PROVE  LoopShape'
<1> USE DEF Shape, LoopShape, LoopType, Handling, Between
<1>1. CASE epoll_wait
  BY <1>1, ReadyEventsType, Zenon DEF epoll_wait
<1>2. CASE batch_end
  BY <1>2 DEF batch_end, Goto
<1>3. CASE accept_return
  BY <1>3 DEF accept_return
<1>4. CASE completions_swap
  BY <1>4, Zenon DEF completions_swap, PoolShape
<1>5. CASE completions_next
  <2>1. Head(loop.todo) \in Client /\ Tail(loop.todo) \in Seq(Client) /\ Head(loop.todo) # None
    BY <1>5, ServerAssumption DEF completions_next
  <2> QED  BY <1>5, <2>1, Zenon DEF completions_next
<1>6. CASE quiesce_next
  <2>1. Head(loop.todo) \in Client /\ Tail(loop.todo) \in Seq(Client) /\ Head(loop.todo) # None
    BY <1>6, ServerAssumption DEF quiesce_next
  <2> QED  BY <1>6, <2>1, Zenon DEF quiesce_next
<1>7. CASE list_end
  BY <1>7, Zenon DEF list_end
<1>8. CASE drain_queue
  <2>1. Listing(Open) \in Seq(Client)
    BY Enumeration, OpenFinite
  <2> QED  BY <1>8, <2>1, Zenon DEF drain_queue
<1>9. ASSUME NEW p \in {"exit", "wait"}, loop.at \in Between,
             loop' = [loop EXCEPT !.at = p, !.todo = <<>>]
      PROVE  LoopShape'
  BY <1>9, EmptyIsSeq, ZenonT(30)
<1>10. CASE drain_inflight
  <2>1. CASE StopRunning
    BY <1>9, <1>10, <2>1 DEF drain_inflight, StopRunning
  <2>2. ASSUME NEW p \in {"deadline", "output"}, loop.todo # <<>>, Goto(p) PROVE LoopShape'
    BY <1>10, <2>2 DEF drain_inflight, Goto
  <2> QED  BY <1>10, <2>1, <2>2, Zenon DEF drain_inflight
<1>11. CASE drain_output
  <2>1. Tail(loop.todo) \in Seq(Client) /\ loop.at = "output"
    BY <1>11 DEF drain_output
  <2> QED  BY <1>11, <2>1, ZenonT(30) DEF drain_output
<1>12. CASE drain_deadline
  BY <1>9, <1>12 DEF drain_deadline, StopRunning
<1>13. CASE teardown_close \/ teardown_join \/ teardown
  BY <1>13 DEF teardown_close, teardown_join, teardown, Goto
<1> QED
  BY <1>1, <1>2, <1>3, <1>4, <1>5, <1>6, <1>7, <1>8, <1>10, <1>11, <1>12, <1>13, ZenonT(30)

\* The shape of the loop is preserved by the dispatch of an event.
LEMMA LoopShapeDispatch ==
    ASSUME Shape, dispatch
    PROVE  LoopShape'
<1> USE DEF Shape, LoopShape, LoopType, Handling, Between
<1>1. PICK e \in loop.batch :
        \/ dispatch_listen(e) \/ dispatch_completion(e) \/ dispatch_shutdown(e)
        \/ dispatch_signal(e) \/ dispatch_conn(e)
  BY DEF dispatch
<1>2. loop.at = "dispatch" /\ loop.conn = None
  BY DEF dispatch
<1>3. loop.batch \ {e} \in SUBSET EventType
  <2>1. loop.batch \in SUBSET EventType
    OBVIOUS
  <2> QED  BY ONLY <2>1
<1>4. CASE dispatch_listen(e) \/ dispatch_completion(e) \/ dispatch_signal(e)
  <2> DEFINE b == loop.batch \ {e}
  <2>1. PICK p \in {"accept", "swap", "dispatch"} :
          loop' = [loop EXCEPT !.at = p, !.batch = b]
    BY <1>4, Zenon DEF dispatch_listen, dispatch_completion, dispatch_signal, Take
  <2>2. b \in SUBSET EventType
    BY <1>3
  <2> HIDE DEF b
  <2> QED  BY <1>2, <2>1, <2>2, Zenon
<1>5. CASE dispatch_shutdown(e)
  <2>1. Listing(Open) \in Seq(Client)
    BY Enumeration, OpenFinite
  <2> DEFINE b == loop.batch \ {e}
             t == Listing(Open)
  <2>2. \/ loop' = [loop EXCEPT !.at = "dispatch", !.batch = b]
        \/ loop' = [loop EXCEPT !.at = "each", !.batch = b, !.todo = t, !.back = "each"]
    BY <1>5 DEF dispatch_shutdown, Take
  <2>3. b \in SUBSET EventType /\ t \in Seq(Client)
    BY <1>3, <2>1
  <2> HIDE DEF b, t
  <2>4. CASE loop' = [loop EXCEPT !.at = "dispatch", !.batch = b]
    BY <1>2, <2>3, <2>4, Zenon
  <2>5. CASE loop' = [loop EXCEPT !.at = "each", !.batch = b, !.todo = t, !.back = "each"]
    BY <1>2, <2>3, <2>5, ZenonT(30)
  <2> QED  BY <2>2, <2>4, <2>5
<1>6. CASE dispatch_conn(e)
  <2> DEFINE c == connections[e.fd]
             b == loop.batch \ {e}
             v == e.events
  <2>1. c \in Client \cup {None} /\ v \in SUBSET EventName
    BY <1>6 DEF dispatch_conn, EventType, TableShape
  <2>2. b \in SUBSET EventType
    BY <1>3
  <2>3. \/ loop' = [loop EXCEPT !.at = "dispatch", !.batch = b]
        \/ /\ c # None
           /\ \E p \in {"flush", "read"} :
                loop' = [loop EXCEPT !.at = p, !.batch = b, !.conn = c, !.events = v,
                                     !.after = "read", !.back = "dispatch"]
    BY <1>6, Zenon DEF dispatch_conn, Take
  <2> HIDE DEF b, c, v
  <2>4. CASE loop' = [loop EXCEPT !.at = "dispatch", !.batch = b]
    BY <1>2, <2>2, <2>4, Zenon
  <2>5. ASSUME NEW p \in {"flush", "read"}, c # None,
               loop' = [loop EXCEPT !.at = p, !.batch = b, !.conn = c, !.events = v,
                                    !.after = "read", !.back = "dispatch"]
        PROVE  LoopShape'
    BY <1>2, <2>1, <2>2, <2>5, ZenonT(30)
  <2> QED  BY <2>3, <2>4, <2>5
<1> QED  BY <1>1, <1>4, <1>5, <1>6, Zenon

\* The shape of the loop is preserved while it handles a connection.
LEMMA LoopShapeConnection ==
    ASSUME Shape, NEW c \in Client, connection_step(c)
    PROVE  LoopShape'
<1> USE DEF Shape, LoopShape, LoopType, Handling, Between
<1>1. loop.conn = c /\ loop.at \in Handling /\ c # None /\ draining' = draining
  BY ZenonT(30) DEF connection_step, read_some, process_return, process_malformed, process_submit,
         process_reject, process_busy, flush_swap, flush_send, settle, interest_in,
         interest_out, At, flags
<1>2. CASE loop' = loop
  BY <1>1, <1>2, Zenon
<1>3. CASE Done
  BY <1>1, <1>3, Zenon DEF Done
<1>4. CASE FlushThenSettle
  BY <1>1, <1>4, Zenon DEF FlushThenSettle
<1>5. CASE Goto(loop.after)
  BY <1>1, <1>5 DEF Goto
<1>6. CASE (Goto("process") \/ Goto("busy")) /\ ~draining
  BY <1>1, <1>6 DEF Goto
<1>7. CASE settle(c) \/ interest_in(c)
  <2>1. Done \/ \E p \in {"arm", "apply"}, b \in BOOLEAN :
                  loop' = [loop EXCEPT !.at = p, !.paused = b]
    <3> DEFINE a == read_paused_output(c)
               b == loop.paused \/ draining \/ inflight_limit_reached(c) \/ conn[c].closing
    <3>1. a \in BOOLEAN
      BY DEF read_paused_output
    <3>2. b \in BOOLEAN
      OBVIOUS
    <3>3. \/ Done \/ loop' = [loop EXCEPT !.at = "arm", !.paused = a]
          \/ loop' = [loop EXCEPT !.at = "apply", !.paused = b]
      BY <1>7 DEF settle, interest_in
    <3> HIDE DEF a, b
    <3> QED  BY <3>1, <3>2, <3>3, ZenonT(30)
  <2>2. ASSUME NEW p \in {"arm", "apply"}, NEW b \in BOOLEAN,
               loop' = [loop EXCEPT !.at = p, !.paused = b]
        PROVE  LoopShape'
    BY <1>1, <2>2, ZenonT(30)
  <2> QED  BY <1>3, <2>1, <2>2, ZenonT(30)
<1>8. CASE read_some(c)
  BY <1>3, <1>4, <1>6, <1>8 DEF read_some, Wanted
<1>9. CASE process_return(c) \/ process_malformed(c) \/ process_submit(c)
  BY <1>2, <1>3, <1>4, <1>9 DEF process_return, process_malformed, process_submit
<1>10. CASE process_reject(c) \/ process_busy(c)
  <2>1. ~draining
    BY <1>10 DEF process_reject, process_busy, At
  <2> QED  BY <1>3, <1>6, <1>10, <2>1 DEF process_reject, process_busy
<1>11. CASE flush_swap(c) \/ flush_send(c) \/ interest_out(c)
  BY <1>2, <1>3, <1>5, <1>11 DEF flush_swap, flush_send, interest_out
<1> QED  BY <1>7, <1>8, <1>9, <1>10, <1>11, Zenon DEF connection_step

\* The shape of the loop is preserved.
LEMMA LoopShapeStep ==
    ASSUME Shape, [Next]_vars
    PROVE  LoopShape'
<1>1. CASE loop' = loop /\ draining' = draining
  BY <1>1 DEF Shape, LoopShape
<1>2. draining' \in BOOLEAN
  BY FlagShapeStep DEF FlagShape
<1>3. CASE environment \/ UNCHANGED vars
  BY <1>1, <1>3, ZenonT(30)
  DEF environment, connect, client_send, client_recv, client_leave, request_shutdown, signal,
      deadline_passes, vars, flags
<1>4. ASSUME NEW w \in Worker, worker_step(w) PROVE LoopShape'
  BY <1>1, <1>4
  DEF worker_step, worker_take, enqueue_check, enqueue_stage, enqueue_settle,
      mark_close_after_flush, try_mark_notified, push_ready, poke, handler_returns, flags
<1>5. CASE accept_reject \/ accept_client \/ teardown_discard
  BY <1>1, <1>5 DEF accept_reject, accept_client, teardown_discard, flags
<1> QED
  BY <1>2, <1>3, <1>4, <1>5, LoopShapeBetween, LoopShapeDispatch, LoopShapeConnection
  DEF Next, loop_step

\* The shape is preserved by every step.
LEMMA ShapeStep ==
    ASSUME Shape, [Next]_vars
    PROVE  Shape'
<1>1. Footprint
  BY FootprintStep
<1> QED
  BY <1>1, TableShapeStep, PeerShapeStep, FlagShapeStep, PoolShapeStep, LoopShapeStep
  DEF Footprint, Shape

\* The shape is an invariant.
LEMMA ShapeInvariant == Spec => []Shape
  BY ShapeInit, ShapeStep, PTL DEF Spec

(***************************************************************************)
(* Who changes the queue, the workers and the ready vector.                *)
(***************************************************************************)
\* Jobs join the queue only while input is parsed.
LEMMA QueueSteps ==
    ASSUME Shape, [Next]_vars
    PROVE  \/ queue' = queue
           \/ \E c \in Client : process_submit(c)
           \/ \E w \in Worker : worker_take(w)
           \/ teardown_discard
<1>1. ASSUME NEW c \in Client, connection_step(c)
      PROVE  queue' = queue \/ process_submit(c)
  BY <1>1, ZenonT(30)
  DEF connection_step, read_some, process_return, process_malformed,
      process_reject, process_busy, flush_swap, flush_send, settle, interest_in,
      interest_out, pool
<1>2. ASSUME NEW w \in Worker, worker_step(w)
      PROVE  queue' = queue \/ worker_take(w)
  BY <1>2
  DEF worker_step, enqueue_check, enqueue_stage, enqueue_settle, mark_close_after_flush,
      try_mark_notified, push_ready, poke, handler_returns, Pool!Finish, pool
<1>3. CASE environment \/ UNCHANGED vars
  BY <1>3, Zenon
  DEF environment, connect, client_send, client_recv, client_leave, request_shutdown, signal,
      deadline_passes, vars, pool
<1>4. CASE dispatch
  BY <1>4
  DEF dispatch, dispatch_listen, dispatch_completion, dispatch_shutdown, dispatch_signal,
      dispatch_conn, pool
<1>5. CASE \/ epoll_wait \/ batch_end \/ accept_return \/ accept_reject \/ accept_client
           \/ completions_swap \/ completions_next \/ quiesce_next \/ list_end \/ drain_queue
           \/ drain_inflight \/ drain_output \/ drain_deadline \/ teardown_close
           \/ teardown_join \/ teardown
  BY <1>5
  DEF epoll_wait, batch_end, accept_return, accept_reject, accept_client, completions_swap,
      completions_next, quiesce_next, list_end, drain_queue, drain_inflight, drain_output,
      drain_deadline, teardown_close, teardown_join, teardown, Pool!Close, Pool!Stop, pool
<1> QED  BY <1>1, <1>2, <1>3, <1>4, <1>5 DEF Next, loop_step

\* The connections of the jobs in a queue.
Owners(q) == [i \in DOMAIN q |-> q[i][1]]
\* The owners of a queue are found as the jobs are.
LEMMA OwnersOf ==
    ASSUME NEW q \in Seq(Job)
    PROVE  /\ Owners(q) \in Seq(Client)
           /\ \A c : Cardinality({i \in DOMAIN q : q[i][1] = c}) = Count(Owners(q), c)
           /\ \A j \in Job : Owners(Append(q, j)) = Append(Owners(q), j[1])
           /\ q # <<>> => /\ Owners(q) # <<>> /\ Head(Owners(q)) = Head(q)[1]
                          /\ Owners(Tail(q)) = Tail(Owners(q))
<1>1. /\ DOMAIN q = 1..Len(q) /\ Len(q) \in Nat /\ \A i \in 1..Len(q) : q[i] \in Job
  OBVIOUS
<1>2. \A i \in 1..Len(q) : q[i][1] \in Client
  BY <1>1 DEF Job
<1>3. Owners(q) \in [1..Len(q) -> Client]
  BY <1>1, <1>2 DEF Owners
<1>4. Owners(q) \in Seq(Client) /\ Len(Owners(q)) = Len(q)
  <2> DEFINE n == Len(q)
  <2>1. n \in Nat
    BY <1>1
  <2> HIDE DEF n
  <2>2. \A g \in [1..n -> Client] : g \in Seq(Client) /\ Len(g) = n
    BY <2>1, SeqIsFunctions
  <2> QED  BY <1>3, <2>2 DEF n
<1>5. \A i \in 1..Len(q) : Owners(q)[i] = q[i][1]
  BY <1>1 DEF Owners
<1>6. ASSUME NEW c PROVE Cardinality({i \in DOMAIN q : q[i][1] = c}) = Count(Owners(q), c)
  <2>1. {i \in DOMAIN q : q[i][1] = c} = {i \in DOMAIN Owners(q) : Owners(q)[i] = c}
    BY <1>1, <1>3, <1>5
  <2> QED  BY <2>1 DEF Count
<1>7. ASSUME NEW j \in Job PROVE Owners(Append(q, j)) = Append(Owners(q), j[1])
  BY <1>1, <1>4, <1>5 DEF Owners
<1>8. ASSUME q # <<>>
      PROVE  /\ Owners(q) # <<>> /\ Head(Owners(q)) = Head(q)[1]
             /\ Owners(Tail(q)) = Tail(Owners(q))
  BY <1>1, <1>4, <1>5, <1>8 DEF Owners
<1> QED  BY <1>4, <1>6, <1>7, <1>8

\* A set of workers is finite.
LEMMA WorkersFinite ==
    ASSUME NEW T \in SUBSET Worker
    PROVE  IsFiniteSet(T) /\ Cardinality(T) \in Nat
  BY ServerAssumption, FS_Subset, FS_CardinalityType

\* A worker is at one of the places with a job of the connection.
Busy(w, c, P) == active[w] # NoJob /\ Owner(w) = c /\ worker[w].at \in P

\* When one worker moves, it alone may join or leave a set of workers.
LEMMA OneWorker ==
    ASSUME NEW w \in Worker, NEW c, NEW P,
           \A v \in Worker \ {w} : worker'[v] = worker[v] /\ active'[v] = active[v]
    PROVE  /\ Cardinality(WorkersAt(c, P)) \in Nat /\ Cardinality(WorkersAt(c, P)') \in Nat
           /\ Cardinality(WorkersAt(c, P)') =
                Cardinality(WorkersAt(c, P)) + (IF Busy(w, c, P)' THEN 1 ELSE 0)
                                             - (IF Busy(w, c, P) THEN 1 ELSE 0)
<1> DEFINE A == WorkersAt(c, P)
           B == WorkersAt(c, P)'
           R == A \ {w}
<1>1. A \in SUBSET Worker /\ B \in SUBSET Worker /\ R \in SUBSET Worker
  BY DEF WorkersAt
<1>2. w \in A <=> Busy(w, c, P)
  BY DEF WorkersAt, Busy
<1>3. w \in B <=> Busy(w, c, P)'
  BY DEF WorkersAt, Busy
<1>4. B \ {w} = R
  BY DEF WorkersAt, Owner
<1> HIDE DEF A, B, R
<1>5. IsFiniteSet(R) /\ Cardinality(R) \in Nat /\ Cardinality(A) \in Nat /\ Cardinality(B) \in Nat
  BY <1>1, WorkersFinite
<1>6. w \notin R /\ Cardinality(R \cup {w}) = Cardinality(R) + 1
  BY <1>5, FS_AddElement, Zenon DEF R
<1>7. /\ A = IF w \in A THEN R \cup {w} ELSE R
      /\ B = IF w \in B THEN R \cup {w} ELSE R
  BY <1>4 DEF R
<1>8. /\ Cardinality(A) = Cardinality(R) + IF w \in A THEN 1 ELSE 0
      /\ Cardinality(B) = Cardinality(R) + IF w \in B THEN 1 ELSE 0
  BY <1>5, <1>6, <1>7
<1> DEFINE x == IF Busy(w, c, P) THEN 1 ELSE 0
           y == IF Busy(w, c, P)' THEN 1 ELSE 0
<1>9. /\ x \in Int /\ y \in Int
      /\ Cardinality(A) = Cardinality(R) + x /\ Cardinality(B) = Cardinality(R) + y
  BY <1>2, <1>3, <1>8
<1> HIDE DEF x, y
<1>10. Cardinality(B) = Cardinality(A) + y - x
  BY ONLY <1>5, <1>9
<1> QED  BY <1>5, <1>10, ZenonT(30) DEF A, B, x, y

\* A step of a worker concerns no other worker.
LEMMA OthersRest ==
    ASSUME Shape, NEW w \in Worker, worker_step(w)
    PROVE  \A v \in Worker \ {w} : worker'[v] = worker[v] /\ active'[v] = active[v]
<1>1. \A v \in Worker \ {w} : worker'[v] = worker[v]
  BY DEF worker_step, worker_take, enqueue_check, enqueue_stage, enqueue_settle,
         mark_close_after_flush, try_mark_notified, push_ready, poke, handler_returns,
         WorkerGoto, Shape, PoolShape
<1>2. \A v \in Worker \ {w} : active'[v] = active[v]
  BY DEF worker_step, worker_take, enqueue_check, enqueue_stage, enqueue_settle,
         mark_close_after_flush, try_mark_notified, push_ready, poke, handler_returns,
         Pool!Take, Pool!Finish, pool, Shape, PoolShape
<1> QED  BY <1>1, <1>2

\* Only steps of workers concern workers.
LEMMA WorkersRest ==
    ASSUME Shape, [Next]_vars, ~ \E w \in Worker : worker_step(w)
    PROVE  worker' = worker /\ active' = active
<1>1. ASSUME NEW c \in Client, connection_step(c)
      PROVE  worker' = worker /\ active' = active
  BY <1>1, ZenonT(30)
  DEF connection_step, read_some, process_return, process_malformed, process_submit,
      process_reject, process_busy, flush_swap, flush_send, settle, interest_in,
      interest_out, Pool!Submit, pool
<1>2. CASE environment \/ UNCHANGED vars
  BY <1>2, ZenonT(30)
  DEF environment, connect, client_send, client_recv, client_leave, request_shutdown, signal,
      deadline_passes, vars, pool
<1>3. CASE dispatch
  BY <1>3
  DEF dispatch, dispatch_listen, dispatch_completion, dispatch_shutdown, dispatch_signal,
      dispatch_conn, pool
<1>4. CASE \/ epoll_wait \/ batch_end \/ accept_return \/ accept_reject \/ accept_client
           \/ completions_swap \/ completions_next \/ quiesce_next \/ list_end \/ drain_queue
           \/ drain_inflight \/ drain_output \/ drain_deadline \/ teardown_close
           \/ teardown_discard \/ teardown_join \/ teardown
  BY <1>4
  DEF epoll_wait, batch_end, accept_return, accept_reject, accept_client, completions_swap,
      completions_next, quiesce_next, list_end, drain_queue, drain_inflight, drain_output,
      drain_deadline, teardown_close, teardown_discard, teardown_join, teardown,
      Pool!Close, Pool!Discard, Pool!Stop, pool
<1> QED  BY <1>1, <1>2, <1>3, <1>4 DEF Next, loop_step

\* Workers fill the ready vector and drain_completions() takes it.
LEMMA ReadySteps ==
    ASSUME Shape, [Next]_vars
    PROVE  ready' = ready \/ completions_swap \/ \E w \in Worker : push_ready(w)
<1>1. ASSUME NEW c \in Client, connection_step(c)
      PROVE  ready' = ready
  BY <1>1, ZenonT(30)
  DEF connection_step, read_some, process_return, process_malformed, process_submit,
      process_reject, process_busy, flush_swap, flush_send, settle, interest_in,
      interest_out, wakeups
<1>2. ASSUME NEW w \in Worker, worker_step(w)
      PROVE  ready' = ready \/ push_ready(w)
  BY <1>2
  DEF worker_step, worker_take, enqueue_check, enqueue_stage, enqueue_settle,
      mark_close_after_flush, try_mark_notified, poke, handler_returns, wakeups
<1>3. CASE environment \/ UNCHANGED vars
  BY <1>3, Zenon
  DEF environment, connect, client_send, client_recv, client_leave, request_shutdown, signal,
      deadline_passes, vars, wakeups
<1>4. CASE dispatch
  BY <1>4
  DEF dispatch, dispatch_listen, dispatch_completion, dispatch_shutdown, dispatch_signal,
      dispatch_conn, wakeups
<1>5. CASE \/ epoll_wait \/ batch_end \/ accept_return \/ accept_reject \/ accept_client
           \/ completions_next \/ quiesce_next \/ list_end \/ drain_queue
           \/ drain_inflight \/ drain_output \/ drain_deadline \/ teardown_close
           \/ teardown_discard \/ teardown_join \/ teardown
  BY <1>5
  DEF epoll_wait, batch_end, accept_return, accept_reject, accept_client,
      completions_next, quiesce_next, list_end, drain_queue, drain_inflight, drain_output,
      drain_deadline, teardown_close, teardown_discard, teardown_join, teardown, wakeups
<1> QED  BY <1>1, <1>2, <1>3, <1>4, <1>5 DEF Next, loop_step
=============================================================================
