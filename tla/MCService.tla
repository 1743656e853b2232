----------------------------- MODULE MCService -----------------------------
(***************************************************************************)
(* Instances of Service: clients that await every answer beside ones that  *)
(* pipeline, send malformed frames, are turned away or leave early.        *)
(***************************************************************************)
EXTENDS Service

CONSTANTS c1, c2, c3, a, b, c, v1, v2, big, w1, w2

Asks(op, k, v) == [op |-> op, key |-> k, value |-> v]
PUT(k, v) == Asks("PUT", k, v)
GET(k) == Asks("GET", k, v1)
DELETE(k) == Asks("DELETE", k, v1)
STATS == Asks("STATS", a, v1)
CLEAR == Asks("CLEAR", a, v1)
PING == Asks("PING", a, v1)
Bad(kind) == Asks(kind, a, v1)

Plays(requests, depth, known) ==
    [requests |-> requests, depth |-> depth, known |-> known, leaves |-> FALSE]
Leaves(requests, depth, known) == [Plays(requests, depth, known) EXCEPT !.leaves = TRUE]

\* Statistics asked for while another client's operations are counted, by a reader
\* of the same age, an older and a newer one, the last with a client too many.
Watched == {
    (c1 :> Plays(<<PUT(a, v1), STATS>>, 1, 14)) @@ (c2 :> Plays(<<GET(a)>>, 1, 14)),
    (c1 :> Plays(<<STATS>>, 1, 11)) @@ (c2 :> Plays(<<PUT(a, v1), DELETE(a)>>, 1, 14)),
    (c1 :> Plays(<<STATS, Bad("INVALID")>>, 1, 16)) @@
        (c2 :> Plays(<<PING>>, 1, 14)) @@ (c3 :> Plays(<<>>, 1, 14))}

\* Statistics asked for while clients are refused with requests in hand, are not
\* answered, or are gone when they are.
Troubled == {
    (c1 :> Plays(<<STATS>>, 1, 14)) @@
        (c2 :> Leaves(<<PUT(a, v1), Bad("UNIDENTIFIED")>>, 2, 14)),
    (c1 :> Plays(<<STATS>>, 1, 14)) @@
        (c2 :> Plays(<<GET(a), Bad("OVERSIZE")>>, 2, 14))}

\* A cache of two entries whose contents both clients change, one of which may leave.
Contended == {
    (c1 :> Plays(<<PUT(a, v1), PUT(a, big), GET(a)>>, 1, 14)) @@
        (c2 :> Plays(<<PUT(b, v1), PUT(c, v2)>>, 2, 14)),
    (c1 :> Plays(<<PUT(a, v1), GET(a), GET(a)>>, 1, 14)) @@
        (c2 :> Leaves(<<PUT(a, v2), DELETE(a)>>, 2, 14)),
    (c1 :> Plays(<<PUT(a, v1), CLEAR, GET(a)>>, 1, 14)) @@
        (c2 :> Leaves(<<GET(a), PUT(a, v2), Bad("UNVERSIONED")>>, 1, 14))}

MCSymmetry == Permutations({w1, w2})
MCScenarios == Watched \union Troubled \union Contended
=============================================================================
