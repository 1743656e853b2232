------------------------- MODULE CacheClientProofs -------------------------
(***************************************************************************)
(* Proofs about the blocking client and the command-line tool, for any     *)
(* room in the socket, any number of requests and any server.              *)
(***************************************************************************)
EXTENDS Tool, TLAPS, SequenceTheorems

(***************************************************************************)
(* How two queues in a row change: a unit moves from the second to the     *)
(* first, or joins the second.                                             *)
(***************************************************************************)
LEMMA MoveOne ==
    ASSUME NEW S, NEW s \in Seq(S), NEW q \in Seq(S), q # <<>>
    PROVE  Append(s, Head(q)) \o Tail(q) = s \o q
  BY SMTT(30)

\* A unit that joins the second of two queues joins their concatenation.
LEMMA JoinOne ==
    ASSUME NEW S, NEW s \in Seq(S), NEW q \in Seq(S), NEW x \in S
    PROVE  s \o Append(q, x) = Append(s \o q, x)
  OBVIOUS

\* Two queues are empty exactly when their concatenation is.
LEMMA EmptyPair ==
    ASSUME NEW S, NEW s \in Seq(S), NEW q \in Seq(S)
    PROVE  (s \o q = <<>>) <=> (s = <<>> /\ q = <<>>)
  OBVIOUS

(***************************************************************************)
(* The inductive invariant.                                                *)
(***************************************************************************)
Unit == [id : Nat, part : {"head", "body"}]
Answer == [id : Nat, status : Status \cup {"kInvalidRequest"}]

Shape ==
    /\ at \in {"idle", "sending", "receiving"}
    /\ connected \in BOOLEAN /\ hung \in BOOLEAN /\ cut \in BOOLEAN
    /\ next_id \in 1..(MaxRequests + 1)
    /\ out \in Seq(Unit) /\ up \in Seq(Unit) /\ served \in Seq(Unit)
    /\ in_buf \in Seq(Answer) /\ down \in Seq(Answer)
    /\ Len(up) <= Room
    /\ at = "sending" => out = Frame(Expected) \/ out = <<Frame(Expected)[2]>>
    /\ at # "sending" => out = <<>>
    /\ at # "idle" => connected /\ Expected \in Nat

\* Nothing is left of a socket that was closed.
Closed ==
    ~connected => ~cut /\ ~hung /\ up = <<>> /\ served = <<>> /\ down = <<>> /\ in_buf = <<>>

\* What is on its way to the server and on its way back.
Forth == served \o up
Back == in_buf \o down

Sound ==
    connected /\ ~cut =>
        /\ hung => Forth = <<>>
        /\ at = "idle" => Forth = <<>> /\ Back = <<>>
        /\ at = "sending" => /\ Back = <<>>
                             /\ ~hung => Forth \o out = Frame(Expected)
        /\ at = "receiving" =>
              \/ ~hung /\ Forth = Frame(Expected) /\ Back = <<>>
              \/ /\ Forth = <<>>
                 /\ Len(Back) <= 2 /\ \A i \in DOMAIN Back : Back[i].id = Expected

ClientInv == Shape /\ Closed /\ Sound

\* Several units move from the second queue to the first.
LEMMA MoveSome ==
    ASSUME NEW s \in Seq(Answer), NEW q \in Seq(Answer), NEW n \in 1..Len(q)
    PROVE  /\ s \o SubSeq(q, 1, n) \in Seq(Answer) /\ SubSeq(q, n + 1, Len(q)) \in Seq(Answer)
           /\ (s \o SubSeq(q, 1, n)) \o SubSeq(q, n + 1, Len(q)) = s \o q
<1> DEFINE a == SubSeq(q, 1, n)
           b == SubSeq(q, n + 1, Len(q))
<1>1. a \in Seq(Answer) /\ b \in Seq(Answer)
  OBVIOUS
<1>2. a \o b = q
  <2>1. /\ 1 \in 1..Len(q) + 1 /\ n \in (1 - 1)..Len(q) /\ Len(q) \in n..Len(q)
    OBVIOUS
  <2>2. SubSeq(q, 1, n) \o SubSeq(q, n + 1, Len(q)) = SubSeq(q, 1, Len(q))
    BY <2>1, ConcatAdjacentSubSeq
  <2> QED  BY <2>2, SubSeqFull
<1> HIDE DEF a, b
<1>3. s \o a \in Seq(Answer)
  BY <1>1
<1>4. (s \o a) \o b = s \o (a \o b)
  BY <1>1
<1> QED  BY <1>1, <1>2, <1>3, <1>4 DEF a, b

\* A request frame is two units of the same id, the header first.
LEMMA FrameFacts ==
    ASSUME NEW id \in Nat
    PROVE  /\ Frame(id) \in Seq(Unit) /\ Len(Frame(id)) = 2
           /\ Frame(id)[1] \in Unit /\ Frame(id)[1].part = "head" /\ Frame(id)[1].id = id
           /\ Frame(id)[2] \in Unit /\ Frame(id)[2].id = id
           /\ Frame(id) = <<Frame(id)[1], Frame(id)[2]>>
  BY DEF Frame, Unit

\* A response is two units of the same id.
LEMMA ResponseFacts ==
    ASSUME NEW id \in Nat, NEW status \in Status \cup {"kInvalidRequest"}
    PROVE  /\ Response(id, status) \in Seq(Answer) /\ Len(Response(id, status)) = 2
           /\ \A i \in DOMAIN Response(id, status) : Response(id, status)[i].id = id
  BY DEF Response, Answer

\* A call that is sending has something to send.
LEMMA OutPending ==
    ASSUME Shape, at = "sending"
    PROVE  out \in Seq(Unit) /\ out # <<>>
<1>1. Frame(Expected) # <<>>
  BY DEF Frame
<1>2. <<Frame(Expected)[2]>> # <<>>
  OBVIOUS
<1> QED  BY <1>1, <1>2 DEF Shape

\* The invariant holds of a client that has done nothing.
LEMMA ClientInitInv == Init => ClientInv
<1> SUFFICES ASSUME Init PROVE ClientInv
  OBVIOUS
<1>1. Shape
  <2>1. next_id \in 1..(MaxRequests + 1) /\ Len(up) <= Room
    BY ClientAssumption DEF Init
  <2>2. /\ out \in Seq(Unit) /\ up \in Seq(Unit) /\ served \in Seq(Unit)
        /\ in_buf \in Seq(Answer) /\ down \in Seq(Answer)
    BY EmptySeq DEF Init
  <2> QED  BY <2>1, <2>2 DEF Init, Shape
<1> QED  BY <1>1 DEF Init, ClientInv, Closed, Sound

\* The invariant gives the type and the clean state between calls.
LEMMA ClientInvImplies == ClientInv => TypeOK /\ CleanUnlessCut
<1> SUFFICES ASSUME ClientInv PROVE TypeOK /\ CleanUnlessCut
  OBVIOUS
<1>1. TypeOK
  <2>1. \A i \in DOMAIN out : out[i].id = Expected
    <3>1. CASE out = <<>>
      BY <3>1
    <3>2. CASE out = Frame(Expected)
      BY <3>2 DEF Frame
    <3>3. CASE out = <<Frame(Expected)[2]>>
      BY <3>3 DEF Frame
    <3> QED  BY <3>1, <3>2, <3>3 DEF ClientInv, Shape
  <2>2. (at = "sending") = (out # <<>>)
    BY OutPending DEF ClientInv, Shape
  <2> QED  BY <2>1, <2>2 DEF ClientInv, Shape, Closed, TypeOK
<1>2. CleanUnlessCut
  <2> SUFFICES ASSUME at = "idle", connected, ~cut
               PROVE  in_buf \o down \o served \o up = <<>>
    BY DEF CleanUnlessCut
  <2>1. Forth = <<>> /\ Back = <<>>
    BY DEF ClientInv, Sound
  <2>2. served = <<>> /\ up = <<>> /\ in_buf = <<>> /\ down = <<>>
    BY <2>1, EmptyPair DEF ClientInv, Shape, Forth, Back
  <2> QED  BY <2>2
<1> QED  BY <1>1, <1>2

(***************************************************************************)
(* The caller's steps.                                                     *)
(***************************************************************************)
\* Opening, closing and starting a call.
LEMMA CallSteps ==
    ASSUME ClientInv, calls
    PROVE  ClientInv'
<1>0. Shape /\ Closed /\ Sound
  BY DEF ClientInv
<1>1. CASE connect \/ disconnect
  <2>0. /\ at = "idle" /\ up' = <<>> /\ served' = <<>> /\ down' = <<>> /\ in_buf' = <<>>
        /\ hung' = FALSE /\ cut' = FALSE /\ connected' \in BOOLEAN
        /\ UNCHANGED <<at, next_id, out>>
    BY <1>1 DEF connect, disconnect, Drop, CloseSocket
  <2>1. Shape'
    <3>1. /\ up' \in Seq(Unit) /\ served' \in Seq(Unit) /\ Len(up') <= Room
          /\ down' \in Seq(Answer) /\ in_buf' \in Seq(Answer)
      BY <2>0, EmptySeq, ClientAssumption
    <3> QED  BY <1>0, <2>0, <3>1 DEF Shape
  <2>2. Closed'
    BY <1>1 DEF Closed, connect, disconnect, Drop, CloseSocket
  <2>3. Sound'
    BY <1>0, <1>1 DEF Shape, Sound, Forth, Back, connect, disconnect, Drop, CloseSocket
  <2> QED  BY <2>1, <2>2, <2>3 DEF ClientInv
<1>2. ASSUME NEW oversize \in BOOLEAN, execute_refuses(oversize) PROVE ClientInv'
  <2>1. Shape'
    BY <1>0, <1>2, EmptySeq DEF Shape, execute_refuses, Returns, socket
  <2>2. Closed'
    BY <1>0, <1>2 DEF Closed, execute_refuses, socket
  <2>3. Sound'
    BY <1>0, <1>2 DEF Sound, Forth, Back, execute_refuses, Returns, socket
  <2> QED  BY <2>1, <2>2, <2>3 DEF ClientInv
<1>3. CASE execute
  <2>0. /\ next_id \in Nat /\ next_id + 1 \in 1..(MaxRequests + 1)
        /\ next_id' = next_id + 1 /\ Expected' = next_id
        /\ at = "idle" /\ connected /\ at' = "sending" /\ out' = Frame(next_id)
        /\ UNCHANGED <<connected, in_buf, up, served, down, hung, cut>>
    BY <1>0, <1>3, ClientAssumption DEF Shape, Expected, execute, socket
  <2>1. Shape'
    BY <1>0, <2>0, FrameFacts DEF Shape
  <2>2. Closed'
    BY <1>0, <2>0 DEF Closed
  <2>3. Sound'
    <3>1. <<>> \o Frame(next_id) = Frame(next_id)
      BY <2>0, FrameFacts
    <3> QED  BY <1>0, <2>0, <3>1 DEF Sound, Forth, Back
  <2> QED  BY <2>1, <2>2, <2>3 DEF ClientInv
<1> QED  BY <1>1, <1>2, <1>3 DEF calls

\* send() and the ways it fails.
LEMMA SendSteps ==
    ASSUME ClientInv, send \/ send_timeout \/ send_error
    PROVE  ClientInv'
<1>0. Shape /\ Closed /\ Sound
  BY DEF ClientInv
<1>1. CASE send
  <2> DEFINE x == Head(out)
  <2>0. /\ at = "sending" /\ ~hung /\ Len(up) < Room /\ connected
        /\ up' = Append(up, x) /\ out' = Tail(out)
        /\ at' = IF Len(out) = 1 THEN "receiving" ELSE "sending"
        /\ UNCHANGED <<connected, next_id, in_buf, served, down, hung, cut>>
        /\ Expected' = Expected /\ Expected \in Nat
    BY <1>0, <1>1 DEF Shape, send, Expected
  <2>1. /\ x \in Unit
        /\ \/ at' = "sending" /\ out' = <<Frame(Expected)[2]>>
           \/ at' = "receiving" /\ out' = <<>>
    <3>1. CASE out = Frame(Expected)
      BY <2>0, <3>1 DEF Frame, Unit
    <3>2. CASE out = <<Frame(Expected)[2]>>
      BY <2>0, <3>2 DEF Frame, Unit
    <3> QED  BY <1>0, <2>0, <3>1, <3>2 DEF Shape
  <2> HIDE DEF x
  <2>2. Shape'
    <3>1. up' \in Seq(Unit) /\ Len(up') <= Room
      BY <1>0, <2>0, <2>1, ClientAssumption DEF Shape
    <3>2. out' \in Seq(Unit)
      BY <1>0, <2>0, OutPending
    <3> QED  BY <1>0, <2>0, <2>1, <3>1, <3>2 DEF Shape
  <2>3. Closed'
    BY <2>0 DEF Closed
  <2>4. Sound'
    <3> SUFFICES ASSUME ~cut PROVE Sound'
      BY <2>0 DEF Sound
    <3>1. Back' = <<>> /\ Forth \o out = Frame(Expected)
      BY <1>0, <2>0 DEF Sound, Back
    <3>2. Forth' = Append(Forth, x) /\ Forth \in Seq(Unit)
      <4>1. served \in Seq(Unit) /\ up \in Seq(Unit) /\ served \o up \in Seq(Unit)
        BY <1>0 DEF Shape
      <4>2. served \o Append(up, x) = Append(served \o up, x)
        BY <2>1, <4>1, JoinOne
      <4> QED  BY <2>0, <4>1, <4>2 DEF Forth
    <3>3. Forth' \o out' = Frame(Expected)
      <4>1. out \in Seq(Unit) /\ out # <<>> /\ x = Head(out) /\ out' = Tail(out)
        BY <1>0, <2>0, <2>1, FrameFacts DEF Shape, x
      <4> QED  BY <3>1, <3>2, <4>1, MoveOne
    <3>4. CASE at' = "sending"
      BY <2>0, <3>1, <3>3, <3>4 DEF Sound
    <3>5. CASE at' = "receiving"
      <4>1. out' = <<>>
        BY <2>1, <3>5
      <4>2. Forth' \in Seq(Unit)
        BY <2>1, <3>2
      <4>3. Forth' = Frame(Expected)
        BY <3>3, <4>1, <4>2
      <4> QED  BY <2>0, <3>1, <3>5, <4>3 DEF Sound
    <3> QED  BY <2>0, <3>4, <3>5
  <2> QED  BY <2>2, <2>3, <2>4 DEF ClientInv
<1>2. CASE send_timeout \/ send_error
  <2>0. /\ at = "sending" /\ at' = "idle" /\ out' = <<>> /\ cut' \in BOOLEAN
        /\ UNCHANGED <<connected, next_id, in_buf, up, served, down, hung>>
    BY <1>0, <1>2 DEF Shape, send_timeout, send_error, Returns, socket
  <2>1. Shape'
    BY <1>0, <2>0, EmptySeq DEF Shape
  <2>2. Closed'
    BY <1>0, <2>0 DEF Shape, Closed
  <2>3. Sound'
    <3>1. CASE send_timeout
      BY <3>1 DEF Sound, send_timeout
    <3>2. CASE send_error
      BY <1>0, <3>2 DEF Sound, Forth, Back, send_error, Returns, socket
    <3> QED  BY <1>2, <3>1, <3>2
  <2> QED  BY <2>1, <2>2, <2>3 DEF ClientInv
<1> QED  BY <1>1, <1>2

\* receive_response().
LEMMA ReceiveSteps ==
    ASSUME ClientInv, receive_parse \/ receive_read \/ receive_fails
    PROVE  ClientInv'
<1>0. Shape /\ Closed /\ Sound
  BY DEF ClientInv
<1>1. CASE receive_parse
  <2>0. /\ at = "receiving" /\ Len(in_buf) >= 2 /\ at' = "idle" /\ out' = <<>>
        /\ in_buf' = SubSeq(in_buf, 3, Len(in_buf)) /\ connected
        /\ UNCHANGED <<connected, next_id, up, served, down, hung, cut>>
        /\ in_buf \in Seq(Answer) /\ down \in Seq(Answer)
    BY <1>0, <1>1 DEF Shape, receive_parse, Returns, socket
  <2>1. in_buf' \in Seq(Answer)
    BY <2>0
  <2>2. Shape'
    BY <1>0, <2>0, <2>1 DEF Shape, Expected
  <2>3. Closed'
    BY <2>0 DEF Closed
  <2>4. Sound'
    <3> SUFFICES ASSUME ~cut PROVE Forth' = <<>> /\ Back' = <<>>
      BY <2>0 DEF Sound
    <3>1. Back # <<>>
      <4>1. in_buf # <<>>
        BY <2>0
      <4> QED  BY <2>0, <4>1, EmptyPair DEF Back
    <3>2. Forth = <<>> /\ Len(Back) <= 2
      BY <1>0, <2>0, <3>1 DEF Sound
    <3>3. /\ Len(Back) = Len(in_buf) + Len(down) /\ Len(Back) \in Nat
          /\ Len(in_buf) \in Nat /\ Len(down) \in Nat
      BY <2>0, ConcatProperties DEF Back
    <3>4. Len(in_buf) = 2 /\ Len(down) = 0
      <4>1. Len(in_buf) >= 2 /\ Len(Back) <= 2
        BY <2>0, <3>2
      <4> QED  BY ONLY <3>3, <4>1
    <3>5. in_buf' = <<>> /\ down = <<>>
      BY <2>0, <3>4, EmptySeq
    <3> QED  BY <2>0, <3>2, <3>5 DEF Forth, Back
  <2> QED  BY <2>2, <2>3, <2>4 DEF ClientInv
<1>2. CASE receive_read
  <2>0. PICK n \in 1..Len(down) :
            /\ in_buf' = in_buf \o SubSeq(down, 1, n)
            /\ down' = SubSeq(down, n + 1, Len(down))
    BY <1>2 DEF receive_read
  <2>1. /\ in_buf \in Seq(Answer) /\ down \in Seq(Answer) /\ connected
        /\ UNCHANGED <<at, connected, next_id, out, up, served, hung, cut>>
    BY <1>0, <1>2 DEF Shape, receive_read
  <2>2. in_buf' \in Seq(Answer) /\ down' \in Seq(Answer) /\ Back' = Back
    <3>1. /\ in_buf \o SubSeq(down, 1, n) \in Seq(Answer)
          /\ SubSeq(down, n + 1, Len(down)) \in Seq(Answer)
          /\ (in_buf \o SubSeq(down, 1, n)) \o SubSeq(down, n + 1, Len(down)) = in_buf \o down
      BY <2>1, MoveSome, Zenon
    <3> QED  BY <2>0, <3>1 DEF Back
  <2>3. Shape'
    BY <1>0, <2>1, <2>2 DEF Shape, Expected
  <2>4. Closed'
    BY <2>1 DEF Closed
  <2>5. Sound'
    BY <1>0, <2>1, <2>2 DEF Sound, Forth, Expected
  <2> QED  BY <2>3, <2>4, <2>5 DEF ClientInv
<1>3. CASE receive_fails
  <2>0. /\ at' = "idle" /\ out' = <<>> /\ next_id' = next_id /\ connected' = FALSE
        /\ up' = <<>> /\ served' = <<>> /\ down' = <<>> /\ in_buf' = <<>>
        /\ hung' = FALSE /\ cut' = FALSE
    BY <1>3 DEF receive_fails, Returns, Drop, CloseSocket
  <2>1. Shape'
    <3>1. /\ up' \in Seq(Unit) /\ served' \in Seq(Unit) /\ Len(up') <= Room
          /\ down' \in Seq(Answer) /\ in_buf' \in Seq(Answer) /\ out' \in Seq(Unit)
      BY <2>0, EmptySeq, ClientAssumption
    <3> QED  BY <1>0, <2>0, <3>1 DEF Shape
  <2>2. Closed' /\ Sound'
    BY <1>3 DEF Closed, Sound, receive_fails, Drop, CloseSocket
  <2> QED  BY <2>1, <2>2 DEF ClientInv
<1> QED  BY <1>1, <1>2, <1>3

(***************************************************************************)
(* The server's steps.                                                     *)
(***************************************************************************)
LEMMA ServerSteps ==
    ASSUME ClientInv, server_answers \/ server_else
    PROVE  ClientInv'
<1>0. Shape /\ Closed /\ Sound
  BY DEF ClientInv
<1>1. CASE server_reads
  <2>0. /\ up # <<>> /\ served' = Append(served, Head(up)) /\ up' = Tail(up)
        /\ up \in Seq(Unit) /\ served \in Seq(Unit)
        /\ UNCHANGED <<at, connected, next_id, out, in_buf, down, hung, cut>>
    BY <1>0, <1>1 DEF Shape, server_reads, client
  <2>1. served' \in Seq(Unit) /\ up' \in Seq(Unit) /\ Len(up') <= Room
    BY <1>0, <2>0, ClientAssumption DEF Shape
  <2>2. Forth' = Forth
    BY <2>0, MoveOne DEF Forth
  <2>3. Shape'
    BY <1>0, <2>0, <2>1 DEF Shape, Expected
  <2>4. Closed'
    BY <1>0, <2>0 DEF Closed
  <2>5. Sound'
    BY <1>0, <2>0, <2>2 DEF Sound, Back, Expected
  <2> QED  BY <2>3, <2>4, <2>5 DEF ClientInv
<1>2. CASE server_answers
  <2>0. PICK status \in Status : down' = down \o Response(Head(served).id, status)
    BY <1>2 DEF server_answers
  <2>1. /\ Len(served) >= 2 /\ served' = SubSeq(served, 3, Len(served))
        /\ served \in Seq(Unit) /\ up \in Seq(Unit)
        /\ in_buf \in Seq(Answer) /\ down \in Seq(Answer)
        /\ UNCHANGED <<at, connected, next_id, out, in_buf, up, hung, cut>>
    BY <1>0, <1>2 DEF Shape, server_answers, client
  <2> DEFINE id == Head(served).id
             r == Response(id, status)
  <2>2. id \in Nat
    <3>1. Head(served) \in Unit
      BY <2>1
    <3> QED  BY <3>1 DEF Unit
  <2>3. r \in Seq(Answer) /\ Len(r) = 2 /\ \A i \in DOMAIN r : r[i].id = id
    BY <2>2, ResponseFacts
  <2>4. served' \in Seq(Unit) /\ down' \in Seq(Answer)
    BY <2>0, <2>1, <2>3
  <2>5. Shape'
    BY <1>0, <2>1, <2>4 DEF Shape, Expected
  <2>6. Closed'
    BY <1>0, <2>1 DEF Closed
  <2>7. Sound'
    <3> SUFFICES ASSUME connected, ~cut PROVE Sound'
      BY <2>1 DEF Sound
    <3>0. Forth \in Seq(Unit) /\ Forth # <<>> /\ Len(Forth) >= 2
      BY <2>1 DEF Forth
    <3>1. at # "sending"
      <4> SUFFICES ASSUME at = "sending" PROVE FALSE
        OBVIOUS
      <4>1. Forth \o out = Frame(Expected) /\ Expected \in Nat /\ out \in Seq(Unit)
        BY <1>0, <3>0 DEF Shape, Sound
      <4>2. out # <<>>
        BY <1>0, OutPending
      <4>3. Len(Forth \o out) = Len(Forth) + Len(out) /\ Len(out) \in Nat \ {0}
        BY <3>0, <4>1, <4>2, ConcatProperties, EmptySeq
      <4>4. Len(Frame(Expected)) = 2
        BY <4>1, FrameFacts
      <4> QED  BY <3>0, <4>1, <4>3, <4>4
    <3>2. at = "receiving" /\ ~hung /\ Forth = Frame(Expected) /\ Back = <<>> /\ Expected \in Nat
      BY <1>0, <3>0, <3>1 DEF Shape, Sound
    <3>3. Len(served) + Len(up) = 2 /\ Len(served) \in Nat /\ Len(up) \in Nat
      <4>1. Len(Frame(Expected)) = 2
        BY <3>2, FrameFacts
      <4>2. Len(Forth) = Len(served) + Len(up)
        BY <2>1, ConcatProperties DEF Forth
      <4>3. Len(Forth) = 2
        BY <3>2, <4>1, Zenon
      <4>4. Len(served) \in Nat /\ Len(up) \in Nat
        BY <2>1
      <4> QED  BY ONLY <4>2, <4>3, <4>4
    <3>4. Len(served) = 2 /\ up = <<>>
      <4>0. Len(served) >= 2
        BY <2>1
      <4>1. Len(served) = 2 /\ Len(up) = 0
        BY ONLY <3>3, <4>0
      <4> QED  BY <2>1, <4>1, EmptySeq
    <3>5. Head(served) = Frame(Expected)[1]
      BY <2>1, <3>2, <3>4 DEF Forth
    <3>6. id = Expected
      BY <3>2, <3>5, FrameFacts
    <3>7. Forth' = <<>>
      BY <2>1, <3>4 DEF Forth
    <3>8. in_buf = <<>> /\ down = <<>>
      BY <2>1, <3>2, EmptyPair DEF Back
    <3>9. Back' = r
      <4> HIDE DEF r
      <4>1. Back' = <<>> \o (<<>> \o r)
        BY <2>0, <2>1, <3>8 DEF Back, r
      <4> QED  BY <2>3, <4>1
    <3>10. Len(Back') <= 2 /\ \A i \in DOMAIN Back' : Back'[i].id = Expected
      <4> HIDE DEF r, id
      <4>1. \A i \in DOMAIN Back' : Back'[i].id = Expected
        BY <2>3, <3>6, <3>9, Zenon
      <4>2. Len(Back') = 2
        BY <2>3, <3>9, Zenon
      <4> QED  BY <4>1, <4>2
    <3>11. Expected' = Expected
      BY <2>1 DEF Expected
    <3> QED  BY <2>1, <3>2, <3>7, <3>10, <3>11 DEF Sound
  <2> QED  BY <2>5, <2>6, <2>7 DEF ClientInv
<1>3. CASE server_rejects
  <2>0. /\ served # <<>> /\ Head(served).part = "body"
        /\ hung' = TRUE /\ up' = <<>> /\ served' = <<>>
        /\ down' = down \/ down' = down \o Response(0, "kInvalidRequest")
        /\ UNCHANGED <<at, connected, next_id, out, in_buf, cut>>
        /\ served \in Seq(Unit) /\ up \in Seq(Unit) /\ down \in Seq(Answer)
    BY <1>0, <1>3 DEF Shape, server_rejects, client
  <2>1. down' \in Seq(Answer)
    <3>1. Response(0, "kInvalidRequest") \in Seq(Answer)
      BY ResponseFacts
    <3>2. down \o Response(0, "kInvalidRequest") \in Seq(Answer)
      BY <2>0, <3>1, ConcatProperties
    <3> QED  BY <2>0, <3>2
  <2>2. Shape'
    BY <1>0, <2>0, <2>1, ClientAssumption DEF Shape, Expected
  <2>3. connected
    BY <1>0, <2>0 DEF Closed, Shape
  <2>4. Closed'
    BY <2>0, <2>3 DEF Closed
  <2>5. Sound'
    <3> SUFFICES ASSUME connected, ~cut PROVE FALSE
      BY <2>0 DEF Sound
    <3>1. Forth # <<>> /\ Head(Forth) = Head(served)
      BY <2>0 DEF Forth
    <3>2. ~hung /\ at # "idle" /\ Expected \in Nat
      BY <1>0, <3>1 DEF Shape, Sound
    <3>3. \/ at = "sending" /\ Forth \o out = Frame(Expected)
          \/ at = "receiving" /\ Forth = Frame(Expected)
      BY <1>0, <3>1, <3>2 DEF Shape, Sound
    <3>4. Head(Forth) = Frame(Expected)[1]
      <4>1. Forth \in Seq(Unit) /\ out \in Seq(Unit)
        BY <1>0 DEF Shape, Forth
      <4> QED  BY <3>1, <3>3, <4>1
    <3> QED  BY <2>0, <3>1, <3>2, <3>4, FrameFacts
  <2> QED  BY <2>2, <2>4, <2>5 DEF ClientInv
<1>4. CASE server_hangs_up
  <2>0. PICK n \in 0..Len(down) : down' = SubSeq(down, 1, n)
    BY <1>4 DEF server_hangs_up
  <2>1. /\ connected /\ ~hung /\ hung' = TRUE /\ up' = <<>> /\ served' = <<>>
        /\ UNCHANGED <<at, connected, next_id, out, in_buf, cut>>
        /\ in_buf \in Seq(Answer) /\ down \in Seq(Answer)
    BY <1>0, <1>4 DEF Shape, server_hangs_up, client
  <2>2. down' \in Seq(Answer) /\ Len(down') <= Len(down)
        /\ \A i \in DOMAIN down' : i \in DOMAIN down /\ down'[i] = down[i]
    BY <2>0, <2>1
  <2>3. Shape'
    BY <1>0, <2>1, <2>2, ClientAssumption DEF Shape, Expected
  <2>4. Closed'
    BY <2>1 DEF Closed
  <2>5. Forth' = <<>>
    BY <2>1 DEF Forth
  <2>6. /\ Len(Back') <= Len(Back)
        /\ \A i \in DOMAIN Back' : i \in DOMAIN Back /\ Back'[i] = Back[i]
    BY <2>1, <2>2 DEF Back
  <2>7. Back = <<>> => Back' = <<>>
    BY <2>1, <2>2, <2>6 DEF Back
  <2>8. Sound'
    <3>1. Len(Back) \in Nat /\ Len(Back') \in Nat
      BY <2>1, <2>2 DEF Back
    <3>2. Back = <<>> => Len(Back') = 0 /\ DOMAIN Back' = {}
      BY <2>7
    <3>3. Expected' = Expected
      BY <2>1 DEF Expected
    <3> HIDE DEF Back, Forth, Expected
    <3> QED  BY <1>0, <2>1, <2>5, <2>6, <2>7, <3>1, <3>2, <3>3 DEF Sound
  <2> QED  BY <2>3, <2>4, <2>8 DEF ClientInv
<1> QED  BY <1>1, <1>2, <1>3, <1>4 DEF server_else

\* Every step preserves the invariant.
LEMMA ClientNextInv == ClientInv /\ [Next]_vars => ClientInv'
<1> SUFFICES ASSUME ClientInv, [Next]_vars PROVE ClientInv'
  OBVIOUS
<1>1. CASE Next
  BY <1>1, CallSteps, SendSteps, ReceiveSteps, ServerSteps DEF Next, call_step
<1>2. CASE UNCHANGED vars
  BY <1>2 DEF vars, client, socket, ClientInv, Shape, Closed, Sound, Forth, Back, Expected
<1> QED  BY <1>1, <1>2

(***************************************************************************)
(* Theorems.                                                               *)
(***************************************************************************)
\* A call holds unsent bytes only while it sends, and only of its own frame; a
\* client without a socket has nothing buffered.
THEOREM ClientTypeCorrect == Spec => []TypeOK
<1> QED  BY ClientInvImplies, ClientInitInv, ClientNextInv, PTL DEF Spec

\* Unless a send timed out inside a frame, no byte of an earlier call is under
\* way between calls.
THEOREM NothingLeftBehind == Spec => []CleanUnlessCut
<1> QED  BY ClientInvImplies, ClientInitInv, ClientNextInv, PTL DEF Spec

\* A call that succeeds has its own response, and on a socket where no send was
\* cut short a call never meets another's.
THEOREM CallsGetTheirOwn == Spec => OwnResponse
<1>1. ASSUME ClientInv, [Next]_vars, at' = "idle", at # "idle"
      PROVE  /\ result'.ok => result'.id = Expected
             /\ ~cut => result' # Failed("mismatch")
  <2>1. CASE send_timeout \/ send_error \/ receive_fails
    <3>1. /\ Failed("send timed out") # Failed("mismatch")
          /\ Failed("send") # Failed("mismatch") /\ Failed("lost") # Failed("mismatch")
      <4>1. \A e : Failed(e).error = e
        BY DEF Failed
      <4>2. ASSUME NEW e, NEW f, Failed(e) = Failed(f) PROVE e = f
        <5>1. Failed(e).error = e /\ Failed(f).error = f
          BY <4>1, Zenon
        <5> QED  BY ONLY <4>2, <5>1, Zenon
      <4> QED  BY <4>2
    <3>2. \A e : Failed(e).ok = FALSE
      BY DEF Failed
    <3>3. \E e \in {"send timed out", "send", "lost"} : result' = Failed(e)
      BY <2>1 DEF send_timeout, send_error, receive_fails, Returns
    <3> QED  BY <3>1, <3>2, <3>3
  <2>2. CASE receive_parse
    <3> DEFINE h == Head(in_buf)
    <3>0. /\ result' = IF h.id = Expected THEN Succeeded(h) ELSE Failed("mismatch")
          /\ Len(in_buf) >= 2 /\ at = "receiving" /\ connected
          /\ in_buf \in Seq(Answer) /\ down \in Seq(Answer)
      BY <1>1, <2>2 DEF ClientInv, Shape, receive_parse, Returns, Correlates
    <3>1. ~cut => h.id = Expected
      <4> SUFFICES ASSUME ~cut PROVE h.id = Expected
        OBVIOUS
      <4>1. Back # <<>> /\ Back[1] = h /\ 1 \in DOMAIN Back
        BY <3>0 DEF Back
      <4>2. \A i \in DOMAIN Back : Back[i].id = Expected
        BY <1>1, <3>0, <4>1 DEF ClientInv, Sound
      <4> QED  BY <4>1, <4>2
    <3> QED  BY <3>0, <3>1 DEF Succeeded, Failed
  <2>3. CASE calls \/ send \/ receive_read \/ server_answers \/ server_else \/ UNCHANGED vars
    BY <1>1, <2>3 DEF calls, connect, disconnect, execute, execute_refuses, send, receive_read,
                      server_answers, server_else, server_reads, server_rejects,
                      server_hangs_up, vars, client
  <2> QED  BY <1>1, <2>1, <2>2, <2>3 DEF Next, call_step
<1> QED  BY <1>1, ClientInitInv, ClientNextInv, PTL DEF Spec, OwnResponse

(***************************************************************************)
(* The command-line tool.                                                  *)
(***************************************************************************)
\* main() makes one call on one socket: until the call it has sent nothing, what
\* comes back during the call has the status the server gave, and once the call
\* has succeeded nothing is left that the server could answer.
OneCall ==
    /\ main \in {"usage", "connect", "call", "report", "exited"}
    /\ main # "report" => at = "idle"
    /\ main # "exited" => exit = -1
    /\ main \in {"usage", "connect"} => ~connected /\ next_id = 1
    /\ main = "call" => ~cut /\ next_id = 1
    /\ at # "idle" => ~cut
    /\ at = "receiving" => \A i \in DOMAIN Back : Back[i].status = verdict
    /\ main = "report" /\ at = "idle" /\ result.ok =>
          connected /\ ~cut /\ result.status = verdict /\ verdict # "none"
    /\ command \in Command /\ exit \in {0, 3, 4} => connected /\ ~cut

ToolInv == ClientInv /\ (command # "library" => OneCall) /\ ExitTellsVerdict

\* What the tool does to the client is what any caller may do.
LEMMA ToolStepsAreCalls == ToolNext => Next \/ UNCHANGED vars
  BY DEF ToolNext, main_step, main_usage, main_connect, main_call, main_report, Next, calls,
         server_else

\* Starting out, nothing has been sent.
LEMMA ToolInitInv == ToolInit => ToolInv
<1> SUFFICES ASSUME ToolInit PROVE ToolInv
  OBVIOUS
<1>1. ClientInv
  BY ClientInitInv DEF ToolInit
<1>2. OneCall
  BY DEF ToolInit, Init, OneCall
<1> QED  BY <1>1, <1>2 DEF ToolInit, ToolInv, ExitTellsVerdict

\* main() up to the call and after it.
LEMMA MainSteps ==
    ASSUME ToolInv, command # "library", main_step, UNCHANGED <<command, keyed, verdict>>
    PROVE  OneCall' /\ ExitTellsVerdict'
<1>0. OneCall /\ ClientInv /\ ExitTellsVerdict
  BY DEF ToolInv
<1>1. CASE main_usage
  <2>1. /\ main = "usage" /\ UNCHANGED <<at, connected, next_id, cut, result>> /\ at = "idle"
        /\ ~connected /\ next_id = 1
        /\ \/ command \notin Command /\ main' = "exited"
           \/ main' = "connect" /\ exit' = exit /\ exit = -1
    BY <1>0, <1>1 DEF main_usage, Exits, Proceeds, vars, client, OneCall, Command
  <2> QED  BY <1>0, <2>1 DEF OneCall, ExitTellsVerdict
<1>2. CASE main_connect
  <2>1. /\ main = "connect" /\ at = "idle" /\ at' = "idle" /\ next_id' = next_id
        /\ next_id = 1 /\ exit = -1
        /\ \/ main' = "call" /\ exit' = exit /\ cut' = FALSE
           \/ main' = "exited" /\ exit' = 1
    BY <1>0, <1>2 DEF main_connect, connect, CloseSocket, Exits, Proceeds, vars, client, OneCall
  <2> QED  BY <1>0, <2>1 DEF OneCall, ExitTellsVerdict
<1>3. CASE main_call
  <2>0. main = "call" /\ at = "idle" /\ ~cut /\ next_id = 1 /\ exit = -1
    BY <1>0, <1>3 DEF main_call, OneCall
  <2>1. CASE Exits(2) /\ UNCHANGED vars
    BY <1>0, <2>0, <2>1 DEF Exits, vars, client, OneCall, ExitTellsVerdict
  <2>2. CASE execute /\ Proceeds("report")
    BY <1>0, <2>0, <2>2 DEF execute, Proceeds, OneCall, ExitTellsVerdict
  <2>3. CASE execute_refuses(TRUE) /\ Proceeds("report")
    <3>1. ~result'.ok
      BY <2>3 DEF execute_refuses, Returns, Failed
    <3> QED  BY <1>0, <2>0, <2>3, <3>1
             DEF execute_refuses, Returns, Proceeds, OneCall, ExitTellsVerdict
  <2> QED  BY <1>3, <2>1, <2>2, <2>3 DEF main_call
<1>4. CASE main_report
  <2>0. /\ main = "report" /\ at = "idle" /\ main' = "exited"
        /\ UNCHANGED <<at, connected, next_id, cut, result>>
        /\ exit' = IF ~result.ok \/ (command = "stats" /\ result.status # "kOk") THEN 1
                   ELSE report_status(result.status)
    BY <1>4 DEF main_report, Exits, vars, client
  <2>1. CASE exit' = 1
    BY <1>0, <2>0, <2>1 DEF OneCall, ExitTellsVerdict
  <2>2. CASE exit' # 1
    <3>1. /\ result.ok /\ exit' = report_status(result.status)
          /\ connected /\ ~cut /\ result.status = verdict /\ verdict # "none"
      BY <1>0, <2>0, <2>2 DEF OneCall
    <3>2. \/ exit' = 0 /\ verdict = "kOk"
          \/ exit' = 3 /\ verdict = "kNotFound"
          \/ exit' = 4 /\ verdict \notin {"none", "kOk", "kNotFound"}
      BY <3>1 DEF report_status
    <3>3. exit' # 2 /\ exit' # -1
      BY <3>2
    <3>4. ExitTellsVerdict'
      BY <3>2 DEF ExitTellsVerdict
    <3>5. OneCall'
      BY <1>0, <2>0, <3>1 DEF OneCall
    <3> QED  BY <3>4, <3>5
  <2> QED  BY <2>1, <2>2
<1> QED  BY <1>1, <1>2, <1>3, <1>4 DEF main_step

\* The call in progress: what it parses has the status the server gave.
LEMMA CallInProgress ==
    ASSUME ToolInv, command # "library", call_step, UNCHANGED toolvars
    PROVE  OneCall' /\ ExitTellsVerdict'
<1>0. OneCall /\ ClientInv /\ ExitTellsVerdict /\ Shape
  BY DEF ToolInv, ClientInv
<1>1. main = "report" /\ at # "idle" /\ ~cut /\ exit = -1 /\ connected
  BY <1>0 DEF OneCall, Shape, call_step, send, send_timeout, send_error, receive_parse,
              receive_read, receive_fails
<1>2. ExitTellsVerdict'
  BY <1>1 DEF ExitTellsVerdict, toolvars
<1>3. CASE send
  <2>1. at' = "receiving" => Back' = <<>>
    BY <1>0, <1>1, <1>3 DEF send, ClientInv, Sound, Back
  <2> QED  BY <1>0, <1>1, <1>2, <1>3, <2>1 DEF send, OneCall, toolvars
<1>4. CASE send_timeout \/ send_error \/ receive_fails
  <2>1. at' = "idle" /\ \E e \in {"send timed out", "send", "lost"} : result' = Failed(e)
    BY <1>4 DEF send_timeout, send_error, receive_fails, Returns
  <2>2. ~result'.ok
    <3>1. \A e : Failed(e).ok = FALSE
      BY DEF Failed
    <3> QED  BY <2>1, <3>1
  <2>3. main' = "report" /\ exit' = -1 /\ at' = "idle"
    BY <1>1, <2>1 DEF toolvars
  <2>4. OneCall'
    BY <2>2, <2>3 DEF OneCall
  <2> QED  BY <1>2, <2>4
<1>5. CASE receive_parse
  <2> DEFINE h == Head(in_buf)
  <2>1. /\ at = "receiving" /\ at' = "idle" /\ Len(in_buf) >= 2
        /\ result' = IF h.id = Expected THEN Succeeded(h) ELSE Failed("mismatch")
        /\ UNCHANGED <<connected, cut>> /\ in_buf \in Seq(Answer) /\ down \in Seq(Answer)
    BY <1>0, <1>5 DEF receive_parse, Returns, Correlates, Shape
  <2>2. Back[1] = h /\ 1 \in DOMAIN Back /\ h \in Answer
    BY <2>1 DEF Back
  <2>3. h.status = verdict /\ h.status # "none"
    BY <1>0, <2>1, <2>2, ToolAssumption DEF OneCall, Answer
  <2>4. result'.ok => result'.status = verdict
    BY <2>1, <2>3 DEF Succeeded, Failed
  <2> HIDE DEF h
  <2> QED  BY <1>0, <1>1, <1>2, <2>1, <2>3, <2>4 DEF OneCall, toolvars
<1>6. CASE receive_read
  <2>0. PICK n \in 1..Len(down) :
            /\ in_buf' = in_buf \o SubSeq(down, 1, n)
            /\ down' = SubSeq(down, n + 1, Len(down))
    BY <1>6 DEF receive_read
  <2>1. Back' = Back
    <3>1. in_buf \in Seq(Answer) /\ down \in Seq(Answer)
      BY <1>0 DEF Shape
    <3>2. (in_buf \o SubSeq(down, 1, n)) \o SubSeq(down, n + 1, Len(down)) = in_buf \o down
      BY <3>1, MoveSome, Zenon
    <3> QED  BY <2>0, <3>2 DEF Back
  <2> QED  BY <1>0, <1>1, <1>2, <1>6, <2>1 DEF receive_read, OneCall, toolvars
<1> QED  BY <1>3, <1>4, <1>5, <1>6 DEF call_step

\* The server: it can answer only the call in progress.
LEMMA AnswerSteps ==
    ASSUME ToolInv, command # "library", server_answers,
           verdict' = down'[Len(down')].status, UNCHANGED <<command, keyed, main, exit>>
    PROVE  OneCall' /\ ExitTellsVerdict'
<1>0. OneCall /\ ClientInv /\ ExitTellsVerdict /\ Shape /\ Sound /\ Closed
  BY DEF ToolInv, ClientInv
<1>1. PICK status \in Status : down' = down \o Response(Head(served).id, status)
  BY DEF server_answers
<1>2. /\ Len(served) >= 2 /\ served \in Seq(Unit) /\ up \in Seq(Unit)
      /\ in_buf \in Seq(Answer) /\ down \in Seq(Answer)
      /\ UNCHANGED <<at, connected, next_id, in_buf, cut, result>>
  BY <1>0 DEF Shape, server_answers, client
<1>3. Forth # <<>> /\ connected /\ served # <<>>
  BY <1>0, <1>2 DEF Forth, Closed
<1>4. CASE cut
  <2>1. at = "idle" /\ main \notin {"usage", "connect", "call"}
    BY <1>0, <1>3, <1>4 DEF OneCall
  <2>2. command \in Command => exit \notin {0, 3, 4}
    BY <1>0, <1>4 DEF OneCall
  <2> QED  BY <1>0, <1>2, <1>4, <2>1, <2>2 DEF OneCall, ExitTellsVerdict
<1>5. CASE ~cut
  <2>1. at # "idle" /\ main = "report" /\ exit = -1
    BY <1>0, <1>3, <1>5 DEF Sound, OneCall
  <2>2. ExitTellsVerdict'
    BY <2>1 DEF ExitTellsVerdict
  <2>3. CASE at = "sending"
    BY <1>0, <1>2, <1>5, <2>1, <2>2, <2>3 DEF OneCall
  <2>4. CASE at = "receiving"
    <3>1. Back = <<>>
      BY <1>0, <1>3, <1>5, <2>4 DEF Sound
    <3>2. in_buf = <<>> /\ down = <<>>
      BY <1>2, <3>1, EmptyPair DEF Back
    <3> DEFINE r == Response(Head(served).id, status)
    <3>3. /\ r \in Seq(Answer) /\ Len(r) = 2 /\ r[2].status = status
          /\ \A i \in DOMAIN r : r[i].status = status
      <4>1. Head(served) \in Unit
        BY <1>2
      <4>2. Head(served).id \in Nat
        BY <4>1 DEF Unit
      <4> QED  BY <4>2, ResponseFacts DEF Response
    <3> HIDE DEF r
    <3>4. down' = r /\ Back' = r
      <4>1. down' = <<>> \o r /\ in_buf' = <<>>
        BY <1>1, <1>2, <3>2 DEF r
      <4>2. <<>> \o r = r
        BY <3>3
      <4> QED  BY <4>1, <4>2 DEF Back
    <3>5. verdict' = status
      BY <3>3, <3>4
    <3> QED  BY <1>0, <1>2, <1>5, <2>1, <2>2, <2>4, <3>3, <3>4, <3>5 DEF OneCall
  <2> QED  BY <1>0, <2>1, <2>3, <2>4 DEF Shape
<1> QED  BY <1>4, <1>5

\* What else the server does loses responses and changes none.
LEMMA LossSteps ==
    ASSUME ToolInv, command # "library", server_else, UNCHANGED toolvars
    PROVE  OneCall' /\ ExitTellsVerdict'
<1>0. OneCall /\ ClientInv /\ ExitTellsVerdict /\ Shape /\ Sound /\ Closed
  BY DEF ToolInv, ClientInv
<1>1. UNCHANGED <<at, connected, next_id, in_buf, cut, result>>
  BY DEF server_else, server_reads, server_rejects, server_hangs_up, client
<1>2. ExitTellsVerdict'
  BY <1>0, <1>1 DEF ExitTellsVerdict, toolvars
<1>3. at = "receiving" => \A i \in DOMAIN Back' : i \in DOMAIN Back /\ Back'[i] = Back[i]
  <2> SUFFICES ASSUME at = "receiving"
               PROVE  \A i \in DOMAIN Back' : i \in DOMAIN Back /\ Back'[i] = Back[i]
    OBVIOUS
  <2>0. in_buf \in Seq(Answer) /\ down \in Seq(Answer)
    BY <1>0 DEF Shape
  <2>1. CASE server_reads
    BY <1>1, <2>1 DEF server_reads, Back
  <2>2. CASE server_rejects
    <3>0. ~cut /\ connected /\ Expected \in Nat
      BY <1>0 DEF OneCall, Shape
    <3>1. served # <<>> /\ Head(served).part = "body" /\ served \in Seq(Unit) /\ up \in Seq(Unit)
      BY <1>0, <2>2 DEF server_rejects, Shape
    <3>2. Forth # <<>> /\ Head(Forth) = Head(served)
      BY <3>1 DEF Forth
    <3>3. Forth = Frame(Expected)
      BY <1>0, <3>0, <3>2 DEF Sound
    <3>4. Head(Forth) = Frame(Expected)[1]
      BY <3>0, <3>3, FrameFacts
    <3> QED  BY <3>0, <3>1, <3>2, <3>4, FrameFacts
  <2>3. CASE server_hangs_up
    <3>1. PICK n \in 0..Len(down) : down' = SubSeq(down, 1, n)
      BY <2>3 DEF server_hangs_up
    <3>2. down' \in Seq(Answer) /\ Len(down') <= Len(down)
          /\ \A i \in DOMAIN down' : i \in DOMAIN down /\ down'[i] = down[i]
      BY <2>0, <3>1
    <3> QED  BY <1>1, <2>0, <3>2 DEF Back
  <2> QED  BY <2>1, <2>2, <2>3 DEF server_else
<1> QED  BY <1>0, <1>1, <1>2, <1>3 DEF OneCall, toolvars

\* Every step of the tool, of its call and of the server preserves the invariant.
LEMMA ToolNextInv == ToolInv /\ [ToolNext]_<<vars, toolvars>> => ToolInv'
<1> SUFFICES ASSUME ToolInv, [ToolNext]_<<vars, toolvars>> PROVE ToolInv'
  OBVIOUS
<1>1. ClientInv'
  BY ToolStepsAreCalls, ClientNextInv DEF ToolInv
<1>2. CASE ToolNext /\ command = "library"
  BY <1>1, <1>2 DEF ToolNext, ToolInv, ExitTellsVerdict, Command
<1>3. CASE ToolNext /\ command # "library"
  <2>1. command' = command /\ keyed' = keyed
    BY <1>3 DEF ToolNext
  <2>2. OneCall' /\ ExitTellsVerdict'
    BY <1>3, <2>1, MainSteps, CallInProgress, AnswerSteps, LossSteps DEF ToolNext, toolvars
  <2> QED  BY <1>1, <2>2 DEF ToolInv
<1>4. CASE UNCHANGED <<vars, toolvars>>
  BY <1>1, <1>4 DEF vars, client, socket, toolvars, ToolInv, OneCall, ExitTellsVerdict, Back
<1> QED  BY <1>2, <1>3, <1>4

\* A run of the tool is a run of the client, so that the theorems above hold of it.
THEOREM ToolIsAClient == ToolSpec => Spec
<1>1. ToolInit => Init
  BY DEF ToolInit
<1>2. [ToolNext]_<<vars, toolvars>> => [Next]_vars
  BY ToolStepsAreCalls
<1> QED  BY <1>1, <1>2, PTL DEF ToolSpec, Spec

\* The exit code tells what the server did with this very request.
THEOREM ExitCodeTellsVerdict == ToolSpec => []ExitTellsVerdict
<1>1. ToolInv => ExitTellsVerdict
  BY DEF ToolInv
<1> QED  BY <1>1, ToolInitInv, ToolNextInv, PTL DEF ToolSpec
=============================================================================
