--------------------------- MODULE StartupProofs ---------------------------
(***************************************************************************)
(* Proofs about starting, stopping and crashing daemons on one socket      *)
(* path, for any number of daemons.                                        *)
(***************************************************************************)
EXTENDS Startup, TLAPS

(***************************************************************************)
(* The inductive invariant.                                                *)
(***************************************************************************)
Place == {"off", "stat", "probe", "unlink", "bind", "listen", "setup", "running",
          "close", "remove"}

Shape ==
    /\ created \in Nat
    /\ at \in [Daemon -> Place]
    /\ path \in (0..created) \cup {Absent}
    /\ owns \in [Daemon -> (1..created) \cup {Absent}]
    /\ bound \in [Daemon -> (1..created) \cup {Absent}]
    /\ listening \subseteq 1..created
    /\ crashed \subseteq 1..created
    /\ overlapped \in BOOLEAN

\* How far a daemon is tells what it owns; no two own the same inode.
Held ==
    /\ \A d \in Daemon : bound[d] \in {Absent, owns[d]}
    /\ \A d \in Daemon : at[d] \in {"off", "stat", "probe", "unlink", "bind"} => owns[d] = Absent
    /\ \A d \in Daemon : at[d] \in {"listen", "setup", "running"} =>
                            bound[d] = owns[d] /\ owns[d] # Absent
    /\ \A d \in Daemon : at[d] \in {"setup", "running"} => bound[d] \in listening
    /\ \A d \in Daemon : at[d] = "remove" => bound[d] = Absent
    /\ \A d, e \in Daemon : owns[d] = owns[e] /\ owns[d] # Absent => d = e

\* A file that is not a socket stops every start at stat().
Blocked ==
    path = 0 => /\ created = 0
                /\ \A d \in Daemon : at[d] \in {"off", "stat", "close", "remove"}

\* Without overlap one daemon at a time is between states, the path leads to
\* every daemon that serves, and whoever is about to remove the path owns it.
Quiet == {"off", "running"}
Solo ==
    ~overlapped =>
        /\ \A d, e \in Daemon : at[d] \notin Quiet /\ at[e] \notin Quiet => d = e
        /\ \A d \in Daemon : at[d] = "running" => path = bound[d]
        /\ \A d \in Daemon : at[d] \in {"listen", "setup", "close", "remove"}
                               /\ owns[d] # Absent => path = owns[d]
        /\ \A d \in Daemon : at[d] = "unlink" => path \notin listening

StartupInv == Shape /\ Held /\ Blocked /\ NoLitter /\ Solo

\* The invariant implies the type invariant and both state properties.
LEMMA StartupInvImplies == StartupInv => TypeOK /\ NoLitter /\ EndpointNotStolen
<1> SUFFICES ASSUME StartupInv PROVE TypeOK /\ NoLitter /\ EndpointNotStolen
  OBVIOUS
<1>1. TypeOK
  BY DEF StartupInv, Shape, Held, Place, TypeOK
<1>2. EndpointNotStolen
  BY DEF StartupInv, Solo, EndpointNotStolen
<1> QED  BY <1>1, <1>2 DEF StartupInv

\* The invariant holds before any daemon starts.
LEMMA StartupInitInv == Init => StartupInv
<1> SUFFICES ASSUME Init PROVE StartupInv
  OBVIOUS
<1>1. Shape
  <2>1. created \in Nat /\ path \in (0..created) \cup {Absent}
    BY DEF Init
  <2> QED  BY <2>1 DEF Init, Shape, Place
<1>2. Held
  BY DEF Init, Held
<1>3. Blocked /\ NoLitter
  BY DEF Init, Blocked, NoLitter
<1>4. Solo
  BY DEF Init, Solo, Quiet
<1> QED  BY <1>1, <1>2, <1>3, <1>4 DEF StartupInv

(***************************************************************************)
(* Every step keeps the invariant.                                         *)
(***************************************************************************)
\* Steps that only move one daemon on, without a change to what it holds.
LEMMA MoveSteps ==
    ASSUME StartupInv, NEW d \in Daemon,
           start(d) \/ stat(d) \/ probe(d) \/ setup(d) \/ start_fails(d) \/ shutdown(d)
    PROVE  StartupInv'
<1> USE DEF Goto
<1>0. Shape /\ Held /\ Blocked /\ NoLitter /\ Solo
  BY DEF StartupInv
<1>1. Shape'
  <2>1. at' \in [Daemon -> Place]
    BY <1>0 DEF Shape, Place, start, stat, probe, setup, start_fails, shutdown
  <2>2. overlapped' \in BOOLEAN
    BY <1>0, Zenon DEF Shape, Overlaps, start, stat, probe, setup, start_fails, shutdown
  <2>3. UNCHANGED <<path, bound, owns, listening, created, crashed>>
    BY DEF start, stat, probe, setup, start_fails, shutdown
  <2> QED  BY <1>0, <2>1, <2>2, <2>3 DEF Shape
<1>2. Held'
  BY <1>0 DEF Shape, Held, start, stat, probe, setup, start_fails, shutdown
<1>3. Blocked'
  BY <1>0, StartupAssumption DEF Shape, Blocked, start, stat, probe, setup, start_fails, shutdown
<1>4. NoLitter'
  BY <1>0 DEF NoLitter, start, stat, probe, setup, start_fails, shutdown
<1>5. Solo'
  <2>1. CASE start(d) \/ shutdown(d)
    <3> SUFFICES ASSUME ~overlapped' PROVE Solo'
      BY DEF Solo
    <3>1. ~overlapped /\ \A e \in Daemon : at[e] \in Quiet
      BY <2>1 DEF Overlaps, Quiet, start, shutdown
    <3>2. CASE start(d)
      BY <1>0, <3>1, <3>2 DEF Shape, Held, Solo, Quiet, start
    <3>3. CASE shutdown(d)
      BY <1>0, <3>1, <3>3 DEF Shape, Held, Solo, Quiet, shutdown
    <3> QED  BY <2>1, <3>2, <3>3
  <2>2. CASE stat(d)
    BY <1>0, <2>2 DEF Shape, Held, Solo, Quiet, stat
  <2>3. CASE probe(d)
    BY <1>0, <2>3 DEF Shape, Held, Solo, Quiet, Accepts, probe
  <2>4. CASE setup(d)
    BY <1>0, <2>4 DEF Shape, Held, Solo, Quiet, setup
  <2>5. CASE start_fails(d)
    BY <1>0, <2>5 DEF Shape, Held, Solo, Quiet, start_fails
  <2> QED  BY <2>1, <2>2, <2>3, <2>4, <2>5
<1> QED  BY <1>1, <1>2, <1>3, <1>4, <1>5 DEF StartupInv

\* The unlink of a stale socket, and the bind.
LEMMA BindSteps ==
    ASSUME StartupInv, NEW d \in Daemon, unlink(d) \/ bind(d)
    PROVE  StartupInv'
<1> USE DEF Goto
<1>0. Shape /\ Held /\ Blocked /\ NoLitter /\ Solo
  BY DEF StartupInv
<1>1. CASE unlink(d)
  <2>1. Shape'
    BY <1>0, <1>1 DEF Shape, Place, unlink
  <2>2. Held'
    BY <1>0, <1>1 DEF Shape, Held, unlink
  <2>3. Blocked' /\ NoLitter'
    BY <1>1, StartupAssumption DEF Blocked, NoLitter, unlink
  <2>4. Solo'
    BY <1>0, <1>1 DEF Shape, Held, Solo, Quiet, unlink
  <2> QED  BY <2>1, <2>2, <2>3, <2>4 DEF StartupInv
<1>2. CASE at[d] = "bind" /\ path # Absent /\ Goto(d, "close")
             /\ UNCHANGED <<path, bound, owns, created, listening, crashed, overlapped>>
  <2>1. Shape'
    BY <1>0, <1>2 DEF Shape, Place
  <2>2. Held'
    BY <1>0, <1>2 DEF Shape, Held
  <2>3. Blocked' /\ NoLitter'
    BY <1>0, <1>2 DEF Shape, Blocked, NoLitter
  <2>4. Solo'
    BY <1>0, <1>2 DEF Shape, Held, Solo, Quiet
  <2> QED  BY <2>1, <2>2, <2>3, <2>4 DEF StartupInv
<1>3. CASE at[d] = "bind" /\ Bound(d) /\ UNCHANGED <<listening, crashed, overlapped>>
  <2> DEFINE n == created + 1
  <2>0. /\ n \in Nat /\ n # 0 /\ n \notin 0..created /\ n # Absent /\ created' = n
        /\ path = Absent /\ path' = n
        /\ bound' = [bound EXCEPT ![d] = n] /\ owns' = [owns EXCEPT ![d] = n]
        /\ at' = [at EXCEPT ![d] = "listen"] /\ at[d] = "bind"
        /\ 1..created \subseteq 1..n /\ 0..created \subseteq 0..n /\ n \in 1..n
    BY <1>0, <1>3, StartupAssumption DEF Shape, Bound
  <2> HIDE DEF n
  <2>1. Shape'
    BY <1>0, <1>3, <2>0 DEF Shape, Place
  <2>2. Held'
    <3>1. \A e \in Daemon : owns[e] # n
      BY <1>0, <2>0 DEF Shape
    <3> QED  BY <1>0, <1>3, <2>0, <3>1 DEF Shape, Held
  <2>3. Blocked'
    BY <2>0 DEF Blocked
  <2>4. NoLitter'
    BY <1>0, <2>0 DEF Shape, NoLitter
  <2>5. Solo'
    BY <1>0, <1>3, <2>0 DEF Shape, Held, Solo, Quiet
  <2> QED  BY <2>1, <2>2, <2>3, <2>4, <2>5 DEF StartupInv
<1> QED  BY <1>1, <1>2, <1>3 DEF bind

\* Listening, and the two steps of stop_listening().
LEMMA ListenSteps ==
    ASSUME StartupInv, NEW d \in Daemon, listen(d) \/ close_listener(d) \/ remove_path(d)
    PROVE  StartupInv'
<1> USE DEF Goto
<1>0. Shape /\ Held /\ Blocked /\ NoLitter /\ Solo
  BY DEF StartupInv
<1>1. CASE listen(d)
  <2>1. Shape'
    BY <1>0, <1>1 DEF Shape, Place, Held, listen
  <2>2. Held'
    BY <1>0, <1>1 DEF Shape, Held, listen
  <2>3. Blocked' /\ NoLitter'
    BY <1>0, <1>1 DEF Shape, Blocked, NoLitter, listen
  <2>4. Solo'
    BY <1>0, <1>1 DEF Shape, Held, Solo, Quiet, listen
  <2> QED  BY <2>1, <2>2, <2>3, <2>4 DEF StartupInv
<1>2. CASE close_listener(d)
  <2>1. Shape'
    BY <1>0, <1>2 DEF Shape, Place, close_listener
  <2>2. Held'
    BY <1>0, <1>2 DEF Shape, Held, close_listener
  <2>3. Blocked' /\ NoLitter'
    BY <1>0, <1>2 DEF Shape, Blocked, NoLitter, close_listener
  <2>4. Solo'
    BY <1>0, <1>2 DEF Shape, Held, Solo, Quiet, close_listener
  <2> QED  BY <2>1, <2>2, <2>3, <2>4 DEF StartupInv
<1>3. CASE remove_path(d)
  <2>1. Shape'
    BY <1>0, <1>3 DEF Shape, Place, remove_path
  <2>2. Held'
    BY <1>0, <1>3 DEF Shape, Held, remove_path
  <2>3. Blocked'
    BY <1>0, <1>3, StartupAssumption DEF Shape, Blocked, remove_path
  <2>4. NoLitter'
    BY <1>0, <1>3 DEF Shape, NoLitter, remove_path
  <2>5. Solo'
    BY <1>0, <1>3 DEF Shape, Held, Solo, Quiet, remove_path
  <2> QED  BY <2>1, <2>2, <2>3, <2>4, <2>5 DEF StartupInv
<1> QED  BY <1>1, <1>2, <1>3

\* The kernel closes the descriptors of a daemon that dies.
LEMMA CrashSteps ==
    ASSUME StartupInv, NEW d \in Daemon, crash(d)
    PROVE  StartupInv'
<1> USE DEF Goto
<1>0. Shape /\ Held /\ Blocked /\ NoLitter /\ Solo
  BY DEF StartupInv
<1>1. Shape'
  BY <1>0 DEF Shape, Place, crash
<1>2. Held'
  BY <1>0 DEF Shape, Held, crash
<1>3. Blocked'
  BY <1>0 DEF Shape, Blocked, crash
<1>4. NoLitter'
  BY <1>0 DEF Shape, NoLitter, crash
<1>5. Solo'
  BY <1>0 DEF Shape, Held, Solo, Quiet, crash
<1> QED  BY <1>1, <1>2, <1>3, <1>4, <1>5 DEF StartupInv

\* Every step of a daemon, and its crash, preserves the invariant.
LEMMA StartupNextInv == StartupInv /\ [Next]_vars => StartupInv'
<1> SUFFICES ASSUME StartupInv, [Next]_vars PROVE StartupInv'
  OBVIOUS
<1>1. ASSUME NEW d \in Daemon, start(d) \/ step(d) \/ shutdown(d) \/ crash(d)
      PROVE  StartupInv'
  BY <1>1, MoveSteps, BindSteps, ListenSteps, CrashSteps DEF step
<1>2. CASE UNCHANGED vars
  BY <1>2 DEF vars, StartupInv, Shape, Held, Blocked, NoLitter, Solo
<1> QED  BY <1>1, <1>2 DEF Next

(***************************************************************************)
(* Theorems.                                                               *)
(***************************************************************************)
\* Only inodes that bind() made are bound, owned or listened on, and an open
\* listener is one this daemon bound.
THEOREM StartupTypeCorrect == Spec => []TypeOK
<1> QED  BY StartupInvImplies, StartupInitInv, StartupNextInv, PTL DEF Spec

\* Whatever fails and whoever overlaps, only a crash leaves a socket file that
\* nobody will remove (start(), stop_listening()).
THEOREM OnlyCrashesLitter == Spec => []NoLitter
<1> QED  BY StartupInvImplies, StartupInitInv, StartupNextInv, PTL DEF Spec

\* With starts and stops one at a time, no start takes the path from a daemon
\* that serves (remove_stale_socket(), stop_listening()).
THEOREM PathLeadsToTheDaemon == Spec => []EndpointNotStolen
<1> QED  BY StartupInvImplies, StartupInitInv, StartupNextInv, PTL DEF Spec

\* A file that is not a socket is never unlinked: remove_stale_socket() stops at
\* it, and stop_listening() unlinks only after a bind.
THEOREM OtherFilesAreKept == Spec => FilesAreKept
<1>1. ASSUME StartupInv, [Next]_vars PROVE path = 0 => path' = 0
  <2> SUFFICES ASSUME path = 0 PROVE path' = 0
    OBVIOUS
  <2>0. /\ \A d \in Daemon : at[d] \in {"off", "stat", "close", "remove"}
        /\ \A d \in Daemon : owns[d] = Absent
    BY <1>1 DEF StartupInv, Shape, Blocked
  <2>1. CASE UNCHANGED vars
    BY <2>1 DEF vars
  <2>2. ASSUME NEW d \in Daemon, start(d) \/ step(d) \/ shutdown(d) \/ crash(d)
        PROVE  path' = path
    BY <2>0, <2>2 DEF start, step, stat, probe, unlink, bind, listen, setup, start_fails,
                      close_listener, remove_path, shutdown, crash
  <2> QED  BY <1>1, <2>1, <2>2 DEF Next
<1> QED  BY <1>1, StartupInitInv, StartupNextInv, PTL DEF Spec, FilesAreKept
=============================================================================
