------------------------------ MODULE MCServer ------------------------------
(***************************************************************************)
(* The traffic of the instances of Server that TLC explores.               *)
(***************************************************************************)
EXTENDS Server, TLC

CONSTANTS c1, c2

Valid(n) == [i \in 1..n |-> "valid"]
Plays(frames, burst, leaving) == [frames |-> frames, burst |-> burst, leaving |-> leaving]

\* Four requests and a malformed frame in one write, from a client that stays.
Overload == c1 :> Plays(Append(Valid(4), "bad"), 5, {})

\* Two clients that come and go, with malformed frames whose header can and
\* cannot be read.
Mixed ==
    (c1 :> Plays(<<"valid", "garbage">>, 1, {"half", "gone"}))
    @@ (c2 :> Plays(<<"bad">>, 1, {"half", "gone"}))

\* Two requests from a client that stays, and in one write from a client that may
\* go at any time.
Pair == c1 :> Plays(Valid(2), 1, {})
PairGone == c1 :> Plays(Valid(2), 2, {"gone"})

\* A client with one request, and one that only connects.
Successor ==
    (c1 :> Plays(Valid(1), 1, {"half", "gone"})) @@ (c2 :> Plays(<<>>, 1, {"half", "gone"}))

MCTraffic == {Overload, Mixed}
MCPair == {Pair}
MCPairGone == {PairGone}
MCSuccessor == {Successor}

\* No action tells one worker from another.
Workers == Permutations(Worker)
=============================================================================
