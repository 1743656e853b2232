------------------------------ MODULE Startup ------------------------------
(***************************************************************************)
(* Server::start(), stop_listening() and the destructor                    *)
(* (src/src/server.cpp) for daemons that use one socket path.  A socket    *)
(* file is an inode of its own: the path names one inode or none, and a    *)
(* daemon listens on the inode it bound even if the path moves on.  Each   *)
(* system call that touches the path is one action.                        *)
(***************************************************************************)
EXTENDS Integers, FiniteSets

CONSTANTS
    Daemon,
    MaxSockets,   \* bound on the inodes created, for model checking
    Absent        \* nothing at the path, no inode

ASSUME StartupAssumption ==
    /\ IsFiniteSet(Daemon)
    /\ MaxSockets \in Nat
    /\ Absent \notin Nat

VARIABLES
    at,          \* where each daemon is
    path,        \* the inode at the path; 0 is a file that is not a socket
    bound,       \* the inode behind listen_fd_, or Absent
    owns,        \* the inode it bound, Absent when bound_socket_path_ is empty
    listening,   \* inodes somebody accepts connections on
    created,     \* sockets created so far
    crashed,     \* history: inodes whose owner crashed
    overlapped   \* history: a daemon started or stopped while another did

vars == <<at, path, bound, owns, listening, created, crashed, overlapped>>

Init ==
    /\ at = [d \in Daemon |-> "off"]
    /\ path \in {Absent, 0}
    /\ bound = [d \in Daemon |-> Absent]
    /\ owns = [d \in Daemon |-> Absent]
    /\ listening = {}
    /\ created = 0
    /\ crashed = {}
    /\ overlapped = FALSE

Goto(d, place) == at' = [at EXCEPT ![d] = place]

\* Whether a start or stop that begins now overlaps with another.
Overlaps == \E d \in Daemon : at[d] \notin {"off", "running"}

start(d) ==
    /\ at[d] = "off"
    /\ Goto(d, "stat")
    /\ overlapped' = (overlapped \/ Overlaps)
    /\ UNCHANGED <<path, bound, owns, listening, created, crashed>>

\* remove_stale_socket(): nothing there, not a socket, or something to probe.
stat(d) ==
    /\ at[d] = "stat"
    /\ Goto(d, IF path = Absent THEN "bind" ELSE IF path = 0 THEN "close" ELSE "probe")
    /\ UNCHANGED <<path, bound, owns, listening, created, crashed, overlapped>>

\* Mutant: any socket is taken for a stale one.
AcceptsNobody == FALSE

\* connect() succeeds only on a socket that is listened on.
Accepts == path \in listening

probe(d) ==
    /\ at[d] = "probe"
    /\ Goto(d, IF Accepts THEN "close" ELSE "unlink")
    /\ UNCHANGED <<path, bound, owns, listening, created, crashed, overlapped>>

unlink(d) ==
    /\ at[d] = "unlink"
    /\ path' = Absent
    /\ Goto(d, "bind")
    /\ UNCHANGED <<bound, owns, listening, created, crashed, overlapped>>

Bound(d) ==
    /\ path = Absent /\ created < MaxSockets
    /\ created' = created + 1
    /\ path' = created + 1
    /\ bound' = [bound EXCEPT ![d] = created + 1]
    /\ owns' = [owns EXCEPT ![d] = created + 1]
    /\ Goto(d, "listen")

\* bind() creates the socket file, or fails because the path is taken.
bind(d) ==
    /\ at[d] = "bind"
    /\ \/ Bound(d)
       \/ path # Absent /\ Goto(d, "close") /\ UNCHANGED <<path, bound, owns, created>>
    /\ UNCHANGED <<listening, crashed, overlapped>>

listen(d) ==
    /\ at[d] = "listen"
    /\ listening' = listening \cup {bound[d]}
    /\ Goto(d, "setup")
    /\ UNCHANGED <<path, bound, owns, created, crashed, overlapped>>

\* epoll, the eventfds and the pool: the daemon serves from here on.
setup(d) ==
    /\ at[d] = "setup"
    /\ Goto(d, "running")
    /\ UNCHANGED <<path, bound, owns, listening, created, crashed, overlapped>>

\* Any call of start() may fail; the destructor of the failed server follows.
start_fails(d) ==
    /\ at[d] \in {"stat", "probe", "unlink", "bind", "listen", "setup"}
    /\ Goto(d, "close")
    /\ UNCHANGED <<path, bound, owns, listening, created, crashed, overlapped>>

shutdown(d) ==
    /\ at[d] = "running"
    /\ Goto(d, "close")
    /\ overlapped' = (overlapped \/ Overlaps)
    /\ UNCHANGED <<path, bound, owns, listening, created, crashed>>

\* stop_listening(), from run() or the destructor: the descriptor is closed,
\* then whatever is at the path is unlinked if this daemon ever bound it.
close_listener(d) ==
    /\ at[d] = "close"
    /\ listening' = listening \ {bound[d]}
    /\ bound' = [bound EXCEPT ![d] = Absent]
    /\ Goto(d, "remove")
    /\ UNCHANGED <<path, owns, created, crashed, overlapped>>

\* Mutant: the file is left behind.
leave_path(d) ==
    /\ at[d] = "remove"
    /\ owns' = [owns EXCEPT ![d] = Absent]
    /\ Goto(d, "off")
    /\ UNCHANGED <<path, bound, listening, created, crashed, overlapped>>

remove_path(d) ==
    /\ at[d] = "remove"
    /\ path' = IF owns[d] # Absent THEN Absent ELSE path
    /\ owns' = [owns EXCEPT ![d] = Absent]
    /\ Goto(d, "off")
    /\ UNCHANGED <<bound, listening, created, crashed, overlapped>>

\* The process dies; the kernel closes its descriptors and the file stays.
crash(d) ==
    /\ at[d] # "off"
    /\ listening' = listening \ {bound[d]}
    /\ bound' = [bound EXCEPT ![d] = Absent]
    /\ owns' = [owns EXCEPT ![d] = Absent]
    /\ crashed' = crashed \cup ({owns[d]} \ {Absent})
    /\ Goto(d, "off")
    /\ UNCHANGED <<path, created, overlapped>>

step(d) ==
    \/ stat(d) \/ probe(d) \/ unlink(d) \/ bind(d) \/ listen(d) \/ setup(d)
    \/ start_fails(d)
    \/ close_listener(d) \/ remove_path(d)

Next == \E d \in Daemon : start(d) \/ step(d) \/ shutdown(d) \/ crash(d)

Spec == Init /\ [][Next]_vars

(***************************************************************************)
(* Properties.                                                             *)
(***************************************************************************)
\* The shape of the state: only inodes that bind() made are listened on, bound
\* or owned, and an open listener is one this daemon bound (start()).
TypeOK ==
    /\ at \in [Daemon -> {"off", "stat", "probe", "unlink", "bind", "listen", "setup",
                          "running", "close", "remove"}]
    /\ path \in (0..created) \cup {Absent}
    /\ listening \cup crashed \subseteq 1..created
    /\ \A d \in Daemon : /\ owns[d] \in (1..created) \cup {Absent}
                          /\ bound[d] \in {Absent, owns[d]}

\* server.cpp: "a socket belonging to a *running* daemon must not be [replaced]:
\* unlinking it would silently steal the endpoint."  The path leads to every
\* daemon that serves, through crashes and failed starts, as long as an operator
\* waits for one start or stop to end before the next.  Without that it does not:
\* the probe and the unlink are two calls, and stop_listening() unlinks the path
\* whoever bound it last.
EndpointNotStolen ==
    ~overlapped => \A d \in Daemon : at[d] = "running" => path = bound[d]

\* DESIGN.md: "non-socket paths are never unlinked".
FilesAreKept == [][path = 0 => path' = 0]_vars

\* Whatever fails on the way, only a crash leaves a socket file behind: any
\* other has a daemon that serves it, is about to, or is about to remove it.
NoLitter ==
    path \notin {Absent, 0} /\ path \notin crashed => \E d \in Daemon : owns[d] = path
=============================================================================
