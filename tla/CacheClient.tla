---------------------------- MODULE CacheClient ----------------------------
(***************************************************************************)
(* The blocking client (src/client/cache_client.cpp).  Its environment, a  *)
(* kernel socket and a server that may be slow or hang up, is external.    *)
(*                                                                         *)
(* A frame, either way, is two units, a head that carries the request id   *)
(* and a body, so that it can be cut short.  The server takes two          *)
(* consecutive units that start with a head for a frame with that head's   *)
(* id, whatever the second was meant to be: this is what a length-prefixed *)
(* stream does.  A body where a head should be is a malformed header,      *)
(* at which the server hangs up; if those bytes happen to look like a      *)
(* header, it answers them first (id 0 stands for one no call used).       *)
(***************************************************************************)
EXTENDS Integers, Sequences

CONSTANTS
    Room,             \* units the kernel holds on the way to the server
    MaxRequests,      \* bound on the requests, for model checking
    Status            \* what the server may answer

ASSUME ClientAssumption ==
    Room \in Nat \ {0} /\ MaxRequests \in Nat /\ "kOk" \in Status

VARIABLES
    at,          \* "idle", in send_all() or in receive_response()
    connected,   \* fd_ is valid
    next_id,     \* next_request_id_
    out,         \* the part of out_buf_ not sent yet
    in_buf,      \* in_buf_
    result,      \* what the last execute() returned
    up,          \* units in the socket, to the server
    served,      \* units in the server's input buffer
    down,        \* units in the socket, to the client
    hung,        \* the server has closed its end
    cut          \* history: a send timed out inside a frame on this socket

client == <<at, connected, next_id, out, in_buf, result>>
socket == <<up, served, down, hung>>
vars == <<client, socket, cut>>

Frame(id) == <<[id |-> id, part |-> "head"], [id |-> id, part |-> "body"]>>
Response(id, status) == <<[id |-> id, status |-> status], [id |-> id, status |-> status]>>

Failed(e) == [ok |-> FALSE, error |-> e]
Succeeded(response) == [ok |-> TRUE, id |-> response.id, status |-> response.status]

Init ==
    /\ at = "idle" /\ connected = FALSE /\ next_id = 1
    /\ out = <<>> /\ in_buf = <<>> /\ result = Failed("none")
    /\ up = <<>> /\ served = <<>> /\ down = <<>> /\ hung = FALSE
    /\ cut = FALSE

\* The call in progress returns r.
Returns(r) == at' = "idle" /\ out' = <<>> /\ result' = r

\* The id of the call in progress.
Expected == next_id - 1

\* Nothing of the old socket is left.
CloseSocket ==
    up' = <<>> /\ served' = <<>> /\ down' = <<>> /\ hung' = FALSE /\ cut' = FALSE

\* connect() succeeds: a new socket replaces the old one, if any.  A failure
\* returns before it touches any member.
connect ==
    /\ at = "idle"
    /\ connected' = TRUE /\ in_buf' = <<>>
    /\ CloseSocket
    /\ UNCHANGED <<at, next_id, out, result>>

\* Mutant: nothing is closed.
DropNothing == UNCHANGED <<connected, in_buf, socket, cut>>

\* What disconnect() does, called by the owner or inside a call.
Drop == connected' = FALSE /\ in_buf' = <<>> /\ CloseSocket

disconnect ==
    /\ at = "idle" /\ connected
    /\ Drop
    /\ UNCHANGED <<at, next_id, out, result>>

\* execute() refuses: not connected, or a key or value over the maximum.
execute_refuses(oversize) ==
    /\ at = "idle"
    /\ ~connected \/ oversize
    /\ Returns(Failed("refused"))
    /\ UNCHANGED <<connected, next_id, in_buf, socket, cut>>

execute ==
    /\ at = "idle" /\ connected
    /\ next_id <= MaxRequests
    /\ next_id' = next_id + 1
    /\ out' = Frame(next_id)
    /\ at' = "sending"
    /\ UNCHANGED <<connected, in_buf, result, socket, cut>>

\* send() takes a part of the frame; after the last one the call waits.
send ==
    /\ at = "sending" /\ ~hung /\ Len(up) < Room
    /\ up' = Append(up, Head(out))
    /\ out' = Tail(out)
    /\ at' = IF Len(out) = 1 THEN "receiving" ELSE "sending"
    /\ UNCHANGED <<connected, next_id, in_buf, result, served, down, hung, cut>>

\* Mutant: a timed-out send is tried again.
send_retries ==
    /\ at = "sending" /\ ~hung /\ Len(up) = Room
    /\ UNCHANGED vars

\* SO_SNDTIMEO expires with the socket full.  The socket stays open.
send_timeout ==
    /\ at = "sending" /\ ~hung /\ Len(up) = Room
    /\ Returns(Failed("send timed out"))
    /\ cut' = TRUE
    /\ UNCHANGED <<connected, next_id, in_buf, socket>>

\* The peer is gone (EPIPE).  The socket stays open here too.
send_error ==
    /\ at = "sending" /\ hung
    /\ Returns(Failed("send"))
    /\ UNCHANGED <<connected, next_id, in_buf, socket, cut>>

\* Mutant: any response will do.
AnyId(id) == TRUE

Correlates(id) == id = Expected

\* receive_response() parses before it reads.  A mismatch keeps the connection.  The
\* server's frames are well formed and repeat the opcode of the request with its id,
\* so a mismatch is one of ids.
receive_parse ==
    /\ at = "receiving" /\ Len(in_buf) >= 2
    /\ in_buf' = SubSeq(in_buf, 3, Len(in_buf))
    /\ Returns(IF Correlates(Head(in_buf).id) THEN Succeeded(Head(in_buf)) ELSE Failed("mismatch"))
    /\ UNCHANGED <<connected, next_id, socket, cut>>

\* One recv() takes some of what has arrived.
receive_read ==
    /\ at = "receiving" /\ Len(in_buf) < 2
    /\ \E n \in 1..Len(down) :
          /\ in_buf' = in_buf \o SubSeq(down, 1, n)
          /\ down' = SubSeq(down, n + 1, Len(down))
    /\ UNCHANGED <<at, connected, next_id, out, result, up, served, hung, cut>>

\* SO_RCVTIMEO expires or the stream ends, perhaps inside a frame.
receive_fails ==
    /\ at = "receiving" /\ Len(in_buf) < 2 /\ down = <<>>
    /\ Drop
    /\ Returns(Failed("lost"))
    /\ UNCHANGED next_id

\* External: the server reads a unit, answers a frame (the kernel may deliver
\* the response in two pieces), or hangs up.
server_reads ==
    /\ up # <<>>
    /\ served' = Append(served, Head(up))
    /\ up' = Tail(up)
    /\ UNCHANGED <<client, down, hung, cut>>

server_answers ==
    /\ Len(served) >= 2 /\ Head(served).part = "head"
    /\ \E status \in Status : down' = down \o Response(Head(served).id, status)
    /\ served' = SubSeq(served, 3, Len(served))
    /\ UNCHANGED <<client, up, hung, cut>>

server_rejects ==
    /\ served # <<>> /\ Head(served).part = "body"
    /\ down' \in {down, down \o Response(0, "kInvalidRequest")}
    /\ hung' = TRUE /\ up' = <<>> /\ served' = <<>>
    /\ UNCHANGED <<client, cut>>

\* It may go in the middle of a response.
server_hangs_up ==
    /\ connected /\ ~hung
    /\ hung' = TRUE /\ up' = <<>> /\ served' = <<>>
    /\ down' \in {SubSeq(down, 1, n) : n \in 0..Len(down)}
    /\ UNCHANGED <<client, cut>>

call_step ==
    \/ send \/ send_timeout \/ send_error
    \/ receive_parse \/ receive_read \/ receive_fails

calls ==
    \/ connect \/ disconnect \/ execute
    \/ \E oversize \in BOOLEAN : execute_refuses(oversize)

server_else == server_reads \/ server_rejects \/ server_hangs_up

Next == calls \/ call_step \/ server_answers \/ server_else

\* The caller's thread runs and timeout_ms_ is positive, so timeouts expire.
\* Nothing is asked of the server.
Spec == Init /\ [][Next]_vars /\ WF_vars(call_step)

(***************************************************************************)
(* Properties.                                                             *)
(***************************************************************************)
\* The shape of the state: a call holds unsent bytes only while it sends, and
\* only from its own frame; a client without a socket has nothing buffered
\* (disconnect()).
TypeOK ==
    /\ at \in {"idle", "sending", "receiving"}
    /\ next_id \in 1..(MaxRequests + 1)
    /\ (at = "sending") = (out # <<>>)
    /\ \A i \in DOMAIN out : out[i].id = Expected
    /\ ~connected => at = "idle" /\ in_buf = <<>>
    /\ Len(up) <= Room
    /\ cut \in BOOLEAN /\ (cut => connected)

\* A call that succeeds has the response to its own request, however many
\* calls before it timed out, failed or were cut short; and while no send was cut
\* short on its socket a call never meets another call's response (execute(),
\* receive_response()).
OwnResponse ==
    [][at' = "idle" /\ at # "idle" =>
         /\ result'.ok => result'.id = Expected
         /\ ~cut => result' # Failed("mismatch")]_vars

\* Only a send that timed out inside a frame spoils a socket.  On any other,
\* through timeouts of receives, hang-ups and reconnects, nothing of an earlier
\* call is under way between calls: not in in_buf_, not in the socket, not at the
\* server (send_all(), receive_response(), disconnect()).
CleanUnlessCut ==
    at = "idle" /\ connected /\ ~hung /\ ~cut => in_buf \o down \o served \o up = <<>>

\* "Bounds blocking send/recv so a wedged server cannot hang a client forever":
\* every call returns, whatever the server does or omits.
CallsReturn == at # "idle" ~> at = "idle"
=============================================================================
