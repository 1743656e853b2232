------------------------------ MODULE Framing ------------------------------
(***************************************************************************)
(* How frames are cut out of a byte stream that arrives in pieces: by      *)
(* Connection::read_some(), next_request() and compact_input()             *)
(* (src/src/connection.cpp) for requests, by receive_response()            *)
(* (src/client/cache_client.cpp) for responses.  A peer sends some frames, *)
(* of which one header byte may be wrong.                                  *)
(***************************************************************************)
EXTENDS Serializer

CONSTANTS
    Request, Response,        \* the messages of the reference language
    Streams,                  \* what peers send: [kind, messages, damage]
    Chunks,                   \* sizes of the pieces that arrive
    Limits,                   \* [key, value]: the receiver's limits
    kCompactThresholdBytes,   \* consumed bytes that trigger a compaction
    Nobody                    \* no malformed frame was answered

VARIABLES
    stream,   \* what the peer sends, and to whom
    wire,     \* bytes that have not arrived yet
    in_buf,   \* in_buf_
    in_pos,   \* in_pos_; the client has none and erases at once
    parsed,   \* messages cut out so far
    verdict,  \* of the last parse
    replied   \* the id in the answer to a malformed request

vars == <<stream, wire, in_buf, in_pos, parsed, verdict, replied>>

Encode(kind, m) == IF kind = "request" THEN serialize_request(m) ELSE serialize_response(m)
EncodeAll(kind, ms) == FlattenSeq([i \in DOMAIN ms |-> Encode(kind, ms[i])])

\* The bytes sent: every message encoded, the damaged byte replaced.
BytesOf(s) ==
    LET bytes == EncodeAll(s.kind, s.messages)
    IN  [i \in DOMAIN bytes |-> IF i = s.damage.at THEN s.damage.byte ELSE bytes[i]]

Init ==
    /\ stream \in Streams
    /\ wire = BytesOf(stream)
    /\ in_buf = <<>> /\ in_pos = 0 /\ parsed = <<>>
    /\ verdict = NeedMore /\ replied = Nobody

Unread == SubSeq(in_buf, in_pos + 1, Len(in_buf))

\* recv() appends a piece.  The client reads only when it needs more; the
\* server also while the in-flight limit keeps it from parsing.
read_some(n) ==
    /\ verdict.status # "malformed"
    /\ stream.kind = "response" => verdict = NeedMore
    /\ wire # <<>> /\ n <= Len(wire)
    /\ in_buf' = in_buf \o SubSeq(wire, 1, n)
    /\ wire' = SubSeq(wire, n + 1, Len(wire))
    /\ verdict' = [status |-> "arrived"]
    /\ UNCHANGED <<stream, in_pos, parsed, replied>>

\* Mutant: what was consumed is erased, the position is not reset.
compact_keeps_pos(pos) ==
    /\ in_buf' = SubSeq(in_buf, pos + 1, Len(in_buf))
    /\ in_pos' = pos

\* compact_input() with the position at pos.
compact_input(pos) ==
    /\ in_buf' = SubSeq(in_buf, pos + 1, Len(in_buf))
    /\ in_pos' = 0

CompactNow(pos) == pos >= kCompactThresholdBytes

\* Mutant: the id is read from where the key length is.
peek_wrong_field(in) == IF Len(in) < kHeaderSize THEN Nobody ELSE ReadAt(in, 16, 4)

\* peek_request_header(): whom to answer about a malformed frame.
peek_request_header(in) ==
    IF Len(in) < kHeaderSize \/ ReadAt(in, 0, 4) # kMagic
         \/ ~is_valid_opcode(ReadAt(in, 5, 1))
      THEN Nobody
      ELSE ReadAt(in, 8, 8)

\* next_request(), and process_input()'s answer to a malformed frame.
next_request ==
    /\ stream.kind = "request"
    /\ verdict.status \in {"arrived", "complete"}
    /\ LET r == deserialize_request(Unread, Limits)
       IN  /\ verdict' = r
           /\ CASE r.status = "complete" ->
                     /\ parsed' = Append(parsed, r.message)
                     /\ IF CompactNow(in_pos + r.consumed)
                          THEN compact_input(in_pos + r.consumed)
                          ELSE in_pos' = in_pos + r.consumed /\ UNCHANGED in_buf
                     /\ UNCHANGED replied
                [] r.status = "need more" ->
                     compact_input(in_pos) /\ UNCHANGED <<parsed, replied>>
                [] r.status = "malformed" ->
                     /\ replied' = peek_request_header(Unread)
                     /\ UNCHANGED <<in_buf, in_pos, parsed>>
    /\ UNCHANGED <<stream, wire>>

\* One turn of receive_response(); a malformed frame empties the buffer.
receive_response ==
    /\ stream.kind = "response"
    /\ verdict.status \in {"arrived", "complete"}
    /\ LET r == deserialize_response(in_buf, Limits)
       IN  /\ verdict' = r
           /\ parsed' = IF r.status = "complete" THEN Append(parsed, r.message) ELSE parsed
           /\ in_buf' = CASE r.status = "complete" ->
                               SubSeq(in_buf, r.consumed + 1, Len(in_buf))
                          [] r.status = "need more" -> in_buf
                          [] r.status = "malformed" -> <<>>
    /\ UNCHANGED <<stream, wire, in_pos, replied>>

Next == (\E n \in Chunks : read_some(n)) \/ next_request \/ receive_response

Spec == Init /\ [][Next]_vars

(***************************************************************************)
(* Properties.  The reference is the language of legal frames: the         *)
(* encodings of the messages of Request and Response.                      *)
(***************************************************************************)
LegalRequests == {serialize_request(m) : m \in Request}
LegalResponses == {serialize_response(m) : m \in Response}
Legal == IF stream.kind = "request" THEN LegalRequests ELSE LegalResponses

\* However the stream is cut into pieces, what was parsed, encoded again,
\* what is still buffered and what is still to come are the bytes sent: none
\* lost, doubled or read as something else by deserialize_request(),
\* deserialize_response() and compact_input().  Only the client drops bytes, with
\* a malformed frame.
StreamConserved ==
    IF verdict.status = "malformed" /\ stream.kind = "response"
      THEN IsPrefix(EncodeAll(stream.kind, parsed), BytesOf(stream))
      ELSE EncodeAll(stream.kind, parsed) \o Unread \o wire = BytesOf(stream)

\* A receiver waits exactly when a legal frame may still come: nothing
\* complete is left in the buffer, and from a whole header on what is there
\* begins a legal frame (kNeedMoreData).
WaitsWithReason ==
    verdict = NeedMore =>
        /\ \A f \in Legal : ~IsPrefix(f, Unread)
        /\ Len(Unread) >= kHeaderSize => \E f \in Legal : IsPrefix(Unread, f)

\* What has arrived after the parsed messages, whether or not it is still buffered.
Unparsed ==
    SubSeq(BytesOf(stream), Len(EncodeAll(stream.kind, parsed)) + 1,
           Len(BytesOf(stream)) - Len(wire))

\* A frame, request or response, is refused only if no legal frame starts like it
\* (kMalformed of deserialize_request() and deserialize_response()), and then only
\* once its header is there.
RefusesWithReason ==
    verdict.status = "malformed" =>
        LET frame == Unparsed
        IN  /\ Len(frame) >= kHeaderSize
            /\ \A f \in Legal : ~IsPrefix(SubSeq(f, 1, kHeaderSize), frame)

\* The answer to a malformed request names that request, the one after those
\* parsed (peek_request_header()).
ReplyCorrelates ==
    replied # Nobody /\ IsPrefix(parsed, stream.messages)
        /\ Len(parsed) < Len(stream.messages) =>
            replied = stream.messages[Len(parsed) + 1].id
=============================================================================
