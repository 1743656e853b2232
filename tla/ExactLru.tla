------------------------------ MODULE ExactLru ------------------------------
(***************************************************************************)
(* What LruCache promises its callers (src/include/cache/lru_cache.h): a   *)
(* map of bounded size in which a put is one indivisible step that keeps   *)
(* the longest most-recent part of the other entries that still fits.  The *)
(* state is the sequence of entries alone; every number a caller can see   *)
(* is computed from it.                                                    *)
(***************************************************************************)
EXTENDS Integers, Sequences, FiniteSetsExt

CONSTANTS Key, Value, Cost(_), Payload(_), Status(_), MaxEntries, MaxBytes

VARIABLES
    recency,     \* the entries, most recently used first
    evictions,   \* how many entries have been evicted so far
    ret          \* what the last operation returned

Entry == [key : Key, value : Value]

\* The sum of a sequence of numbers.
Total(c) ==
    LET sum[i \in 0..Len(c)] == IF i = 0 THEN 0 ELSE sum[i - 1] + c[i]
    IN sum[Len(c)]
Costs(s) == [i \in DOMAIN s |-> Cost(s[i])]
Payloads(s) == [i \in DOMAIN s |-> Payload(s[i])]

Present(k) == \E i \in DOMAIN recency : recency[i].key = k
Position(k) == CHOOSE i \in DOMAIN recency : recency[i].key = k
At(k) == recency[Position(k)]

\* The entries other than the one of key k.
Without(k) ==
    IF Present(k)
      THEN SubSeq(recency, 1, Position(k) - 1) \o SubSeq(recency, Position(k) + 1, Len(recency))
      ELSE recency

Init == recency = <<>> /\ evictions = 0 /\ ret = [op |-> "none"]

\* A hit returns the value last put under the key and makes it most recent.
Get(k) ==
    /\ IF Present(k)
         THEN /\ recency' = <<At(k)>> \o Without(k)
              /\ ret' = [op |-> "get", key |-> k, hit |-> TRUE, value |-> At(k).value]
         ELSE /\ ret' = [op |-> "get", key |-> k, hit |-> FALSE]
              /\ UNCHANGED recency
    /\ UNCHANGED evictions

\* The lengths of the prefixes of s beside which a new entry e fits.
Fits(s, e) ==
    {n \in 0..Len(s) : /\ n + 1 <= MaxEntries
                       /\ Total(SubSeq(Costs(s), 1, n)) + Cost(e) <= MaxBytes}

\* Nothing more is dropped than the new entry needs, and it never comes at the
\* expense of an entry more recent than one that stays.
Put(e) ==
    \/ /\ Status(e) # "kStored"
       /\ ret' = [op |-> "put", status |-> Status(e)]
       /\ UNCHANGED <<recency, evictions>>
    \/ /\ Status(e) = "kStored"
       /\ LET others == Without(e.key)
              kept   == Max(Fits(others, e))
          IN /\ recency' = <<e>> \o SubSeq(others, 1, kept)
             /\ evictions' = evictions + (Len(others) - kept)
       /\ ret' = [op |-> "put", status |-> "kStored"]

Erase(k) ==
    /\ recency' = Without(k)
    /\ ret' = [op |-> "erase", key |-> k, erased |-> Present(k)]
    /\ UNCHANGED evictions

Clear ==
    /\ recency' = <<>>
    /\ ret' = [op |-> "clear"]
    /\ UNCHANGED evictions

\* Questions, which change nothing.
Snapshot ==
    /\ ret' = [op |-> "snapshot", entries |-> Len(recency), bytes |-> Total(Costs(recency)),
               payload_bytes |-> Total(Payloads(recency)), evictions |-> evictions]
    /\ UNCHANGED <<recency, evictions>>

Observe ==
    /\ \/ \E k \in Key : ret' = [op |-> "contains", key |-> k, found |-> Present(k)]
       \/ ret' = [op |-> "keys", keys |-> [i \in DOMAIN recency |-> recency[i].key]]
    /\ UNCHANGED <<recency, evictions>>

Next ==
    \/ \E k \in Key : Get(k) \/ Erase(k)
    \/ \E e \in Entry : Put(e)
    \/ Clear
    \/ Snapshot
    \/ Observe

Spec == Init /\ [][Next]_<<recency, evictions, ret>>
=============================================================================
