--------------------------- MODULE LruRefinement ---------------------------
(***************************************************************************)
(* LruCache implements ExactLru.  A put takes effect in the abstract       *)
(* specification when it takes the mutex: from then until it releases it,  *)
(* the abstract state is already the one the put will leave behind.        *)
(***************************************************************************)
EXTENDS LruCache, FiniteSetsExt

Contents == [i \in DOMAIN entries |-> heap[entries[i]]]

\* The most recent entries the pending put will leave in place.
Survivors ==
    LET fits == {n \in 0..Len(entries) :
                   /\ n + 1 <= MaxEntries
                   /\ PrefixSums(Costs)[n] + entry_cost(putting) <= MaxBytes}
    IN Max(fits)

recencyBar ==
    IF Unlocked THEN Contents ELSE <<putting>> \o SubSeq(Contents, 1, Survivors)

evictionsBar ==
    IF Unlocked THEN evictions ELSE evictions + (Len(entries) - Survivors)

retBar == IF Unlocked THEN ret ELSE [op |-> "put", status |-> "kStored"]

Abstract == INSTANCE ExactLru WITH
    Cost <- entry_cost, Payload <- payload, Status <- PutStatus,
    recency <- recencyBar, evictions <- evictionsBar, ret <- retBar

\* Whatever the interleaving of callers, what each call returns, the recency
\* order, the counts in a snapshot and the choice of victims are those of the
\* exact LRU map: put() evicts from the LRU end and only what it must, a
\* replaced key is never its own victim, contains() does not promote, and a
\* rejected put() changes nothing.
ImplementsExactLru == Abstract!Spec
=============================================================================
