----------------------------- MODULE MCFraming -----------------------------
(***************************************************************************)
(* Framing with limits of one key byte and two value bytes, every legal    *)
(* message over four payload bytes and three ids, and streams of two or    *)
(* three frames, intact or with one header byte replaced.                  *)
(***************************************************************************)
EXTENDS Framing

\* 7 and 9 are payload bytes; with a wrong length, the first two bytes of the
\* next frame's magic become payload.  The ids need one, two and four bytes.
Payload(n) == UNION {[1..k -> {7, 9, 76, 67}] : k \in 0..n}
Ids == {1, 258, 50331649}

MCRequest ==
    {r \in [opcode : 1..6, id : Ids, key : Payload(1), value : Payload(2)] :
        /\ (r.opcode \in 1..3) = (r.key # <<>>)
        /\ r.opcode # 2 => r.value = <<>>}

MCResponse == [opcode : 1..6, status : 0..6, id : Ids, value : Payload(2)]

Intact == [at |-> 0, byte |-> 0]

\* A header byte, but the id's, of the frame that starts after "before" bytes,
\* replaced by a value at a boundary.
DamageAfter(before) ==
    [at : {before + i : i \in (1..8) \cup (17..24)}, byte : {0, 1, 2, 3, 7, 8}]

Req(op, id, k, v) == [opcode |-> op, id |-> id, key |-> k, value |-> v]
Resp(op, st, id, v) == [opcode |-> op, status |-> st, id |-> id, value |-> v]

RequestLists ==
    {<<Req(2, 258, <<7>>, <<9, 7>>), Req(1, 1, <<9>>, <<>>)>>,
     <<Req(4, 50331649, <<>>, <<>>), Req(2, 1, <<9>>, <<7>>)>>,
     <<Req(6, 1, <<>>, <<>>), Req(3, 258, <<7>>, <<>>), Req(5, 258, <<>>, <<>>)>>}

ResponseLists ==
    {<<Resp(1, 0, 258, <<9, 7>>), Resp(4, 4, 1, <<>>)>>,
     <<Resp(2, 6, 50331649, <<>>), Resp(5, 0, 1, <<7>>)>>}

\* The second frame is damaged where the first is a bare header.
MCStreams ==
    LET all == [kind : {"request"}, messages : RequestLists,
                damage : {Intact} \cup DamageAfter(0) \cup DamageAfter(kHeaderSize)]
           \cup [kind : {"response"}, messages : ResponseLists,
                 damage : {Intact} \cup DamageAfter(0) \cup DamageAfter(kHeaderSize)]
    IN  {s \in all : s.damage.at > kHeaderSize =>
                        Len(Encode(s.kind, s.messages[1])) = kHeaderSize}

MCLimits == [key |-> 1, value |-> 7]
MCChunks == {1, 9, 24, 40}
=============================================================================
