----------------------------- MODULE MCLruCache -----------------------------
(***************************************************************************)
(* A small cache in real byte sizes: four small entries would fit in the   *)
(* bytes but not in the count; a big one displaces two small ones, the     *)
(* first by count and the second by bytes; one value is over the value     *)
(* limit and one is within it but can never fit.                           *)
(***************************************************************************)
EXTENDS LruRefinement, TLC

CONSTANTS k1, k2, k3, k4, small, big, unfit, oversize

MCKeySize == [k \in Key |-> 1]
MCValueSize ==
    (small :> 2) @@ (big :> 140) @@ (unfit :> 410) @@ (oversize :> 421)

\* Node addresses are interchangeable: no operation compares them in order and
\* no result contains one.
NodeSymmetry == Permutations(Node)
=============================================================================
