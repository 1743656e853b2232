------------------------------ MODULE LruCache ------------------------------
(***************************************************************************)
(* LruCache (src/src/lru_cache.cpp): a bounded map in exact                *)
(* least-recently-used order.  The list owns its nodes, the index maps a   *)
(* key to the node that holds it, and two counters account for the bytes.  *)
(*                                                                         *)
(* Every public method runs under the one mutex lock_, so a method is one  *)
(* action; only put() is split, at the iterations of the eviction loop.    *)
(* The mutex is held exactly while "putting" holds a pending insertion,    *)
(* and every other method waits for it.                                    *)
(***************************************************************************)
EXTENDS Integers, Sequences, FiniteSets

CONSTANTS
    Key, Value,
    Node,            \* addresses of list nodes
    KeySize,         \* key.size(), a function on Key
    ValueSize,       \* value.size(), a function on Value
    MaxEntries,      \* limits_.max_entries
    MaxBytes,        \* limits_.max_bytes
    MaxValueBytes,   \* limits_.max_value_bytes
    EvictionBound,   \* bound on the counter evictions, for model checking
    Null             \* no node, no entry, no pending insertion

ASSUME LruAssumption ==
    /\ KeySize \in [Key -> Nat]
    /\ ValueSize \in [Value -> Nat]
    /\ MaxEntries \in Nat
    /\ MaxBytes \in Nat
    /\ MaxValueBytes \in Nat
    /\ EvictionBound \in Nat
    /\ Null \notin Node
    /\ Null \notin [key : Key, value : Value]

VARIABLES
    entries,         \* entries_: the nodes, most recently used first
    heap,            \* contents of each node, Null when it is not allocated
    index,           \* index_: key -> node, Null when the key is absent
    bytes,           \* bytes_
    payload_bytes,   \* payload_bytes_
    evictions,       \* evictions_
    putting,         \* the insertion put() is about to make, else Null
    ret              \* what the last method returned

vars == <<entries, heap, index, bytes, payload_bytes, evictions, putting, ret>>

kEntryOverheadBytes == 128

Entry == [key : Key, value : Value]

entry_cost(e) == KeySize[e.key] + ValueSize[e.value] + kEntryOverheadBytes
payload(e) == KeySize[e.key] + ValueSize[e.value]

\* index_.size()
IndexSize == Cardinality({k \in Key : index[k] # Null})

Init ==
    /\ entries = <<>>
    /\ heap = [n \in Node |-> Null]
    /\ index = [k \in Key |-> Null]
    /\ bytes = 0
    /\ payload_bytes = 0
    /\ evictions = 0
    /\ putting = Null
    /\ ret = [op |-> "none"]

Unlocked == putting = Null

(***************************************************************************)
(* Lookup and removal.                                                     *)
(***************************************************************************)
\* Mutant: a hit that does not promote.
get_without_splice(k) ==
    /\ Unlocked
    /\ ret' = IF index[k] = Null
                THEN [op |-> "get", key |-> k, hit |-> FALSE]
                ELSE [op |-> "get", key |-> k, hit |-> TRUE, value |-> heap[index[k]].value]
    /\ UNCHANGED <<entries, heap, index, bytes, payload_bytes, evictions, putting>>

\* List q without node n, which is linked once.
Unlink(q, n) ==
    LET i == CHOOSE i \in DOMAIN q : q[i] = n
    IN SubSeq(q, 1, i - 1) \o SubSeq(q, i + 1, Len(q))

\* A hit splices the node to the front and copies the value out.
get(k) ==
    /\ Unlocked
    /\ IF index[k] = Null
         THEN /\ ret' = [op |-> "get", key |-> k, hit |-> FALSE]
              /\ UNCHANGED entries
         ELSE /\ entries' = <<index[k]>> \o Unlink(entries, index[k])
              /\ ret' = [op |-> "get", key |-> k, hit |-> TRUE,
                         value |-> heap[index[k]].value]
    /\ UNCHANGED <<heap, index, bytes, payload_bytes, evictions, putting>>

\* Mutant: the node is freed and its index entry stays behind.
erase_list_only(k) ==
    LET n == index[k]
    IN /\ bytes' = bytes - entry_cost(heap[n])
       /\ payload_bytes' = payload_bytes - payload(heap[n])
       /\ entries' = Unlink(entries, n)
       /\ heap' = [heap EXCEPT ![n] = Null]
       /\ UNCHANGED index

\* Mutant: the overhead an insertion charged is not given back.
erase_payload_only(k) ==
    LET n == index[k]
    IN /\ bytes' = bytes - payload(heap[n])
       /\ payload_bytes' = payload_bytes - payload(heap[n])
       /\ index' = [index EXCEPT ![k] = Null]
       /\ entries' = Unlink(entries, n)
       /\ heap' = [heap EXCEPT ![n] = Null]

\* erase_locked(): the accounting, then the index entry, then the node.
erase_locked(k) ==
    LET n == index[k]
    IN /\ bytes' = bytes - entry_cost(heap[n])
       /\ payload_bytes' = payload_bytes - payload(heap[n])
       /\ index' = [index EXCEPT ![k] = Null]
       /\ entries' = Unlink(entries, n)
       /\ heap' = [heap EXCEPT ![n] = Null]

erase(k) ==
    /\ Unlocked
    /\ ret' = [op |-> "erase", key |-> k, erased |-> index[k] # Null]
    /\ IF index[k] = Null
         THEN UNCHANGED <<entries, heap, index, bytes, payload_bytes>>
         ELSE erase_locked(k)
    /\ UNCHANGED <<evictions, putting>>

contains(k) ==
    /\ Unlocked
    /\ ret' = [op |-> "contains", key |-> k, found |-> index[k] # Null]
    /\ UNCHANGED <<entries, heap, index, bytes, payload_bytes, evictions, putting>>

\* clear() leaves the eviction counter alone.
clear ==
    /\ Unlocked
    /\ index' = [k \in Key |-> Null]
    /\ entries' = <<>>
    /\ heap' = [n \in Node |-> Null]
    /\ bytes' = 0
    /\ payload_bytes' = 0
    /\ ret' = [op |-> "clear"]
    /\ UNCHANGED <<evictions, putting>>

\* snapshot(); size() and memory_usage() return two of its fields.
snapshot ==
    /\ Unlocked
    /\ ret' = [op |-> "snapshot", entries |-> IndexSize, bytes |-> bytes,
               payload_bytes |-> payload_bytes, evictions |-> evictions]
    /\ UNCHANGED <<entries, heap, index, bytes, payload_bytes, evictions, putting>>

keys_mru_to_lru ==
    /\ Unlocked
    /\ ret' = [op |-> "keys", keys |-> [i \in DOMAIN entries |-> heap[entries[i]].key]]
    /\ UNCHANGED <<entries, heap, index, bytes, payload_bytes, evictions, putting>>

(***************************************************************************)
(* put(): the two rejections, made before the mutex is taken; removal of   *)
(* the entry it replaces; the eviction loop; the insertion.                *)
(***************************************************************************)
PutStatus(e) ==
    IF ValueSize[e.value] > MaxValueBytes THEN "kValueTooLarge"
    ELSE IF entry_cost(e) > MaxBytes \/ MaxEntries = 0 THEN "kEntryTooLarge"
    ELSE "kStored"

\* The rejection reads only limits_, so it needs no lock; its return is placed
\* where no put is in progress because ret records one call at a time.
put_reject(e) ==
    /\ Unlocked
    /\ PutStatus(e) # "kStored"
    /\ ret' = [op |-> "put", status |-> PutStatus(e)]
    /\ UNCHANGED <<entries, heap, index, bytes, payload_bytes, evictions, putting>>

\* The lock is taken and the entry being replaced is erased.
put_begin(e) ==
    /\ Unlocked
    /\ evictions + Len(entries) <= EvictionBound
    /\ PutStatus(e) = "kStored"
    /\ putting' = e
    /\ IF index[e.key] = Null
         THEN UNCHANGED <<entries, heap, index, bytes, payload_bytes>>
         ELSE erase_locked(e.key)
    /\ UNCHANGED <<evictions, ret>>

\* Mutant: no room is kept for the entry about to be inserted.
MustEvictLate(cost) ==
    /\ entries # <<>>
    /\ IndexSize > MaxEntries \/ bytes + cost > MaxBytes

\* The condition of the loop in make_room_locked().
MustEvict(cost) ==
    /\ entries # <<>>
    /\ IndexSize + 1 > MaxEntries \/ bytes + cost > MaxBytes

\* One iteration: evict_lru_locked() erases the last node of the list.
evict_lru_locked ==
    /\ putting # Null
    /\ MustEvict(entry_cost(putting))
    /\ erase_locked(heap[entries[Len(entries)]].key)
    /\ evictions' = evictions + 1
    /\ UNCHANGED <<putting, ret>>

\* The loop is over: the new node goes to the front and the lock is released.
put_insert ==
    /\ putting # Null
    /\ ~MustEvict(entry_cost(putting))
    /\ \E n \in Node :
         /\ heap[n] = Null
         /\ entries' = <<n>> \o entries
         /\ heap' = [heap EXCEPT ![n] = putting]
         /\ index' = [index EXCEPT ![putting.key] = n]
    /\ bytes' = bytes + entry_cost(putting)
    /\ payload_bytes' = payload_bytes + payload(putting)
    /\ putting' = Null
    /\ ret' = [op |-> "put", status |-> "kStored"]
    /\ UNCHANGED evictions

Next ==
    \/ \E k \in Key : get(k) \/ erase(k) \/ contains(k)
    \/ \E e \in Entry : put_reject(e) \/ put_begin(e)
    \/ evict_lru_locked
    \/ put_insert
    \/ clear
    \/ snapshot
    \/ keys_mru_to_lru

Spec == Init /\ [][Next]_vars

(***************************************************************************)
(* Properties.                                                             *)
(***************************************************************************)
\* The shape of the state, and that no size_t counter is ever taken below zero.
TypeOK ==
    /\ entries \in Seq(Node)
    /\ heap \in [Node -> Entry \cup {Null}]
    /\ index \in [Key -> Node \cup {Null}]
    /\ bytes \in Nat
    /\ payload_bytes \in Nat
    /\ evictions \in Nat
    /\ putting \in Entry \cup {Null}

\* The list and the index describe the same entries, at every iteration of the
\* eviction loop too: no node is linked twice, every index entry leads to a
\* live linked node holding that very key (its string_view is not dangling),
\* every linked node is found through the index, and no live node is leaked.
IndexListAgree ==
    /\ \A i, j \in DOMAIN entries : entries[i] = entries[j] => i = j
    /\ \A i \in DOMAIN entries : /\ heap[entries[i]] # Null
                                 /\ index[heap[entries[i]].key] = entries[i]
    /\ \A k \in Key : index[k] # Null =>
          \E i \in DOMAIN entries : index[k] = entries[i] /\ heap[entries[i]].key = k
    /\ \A n \in Node : heap[n] # Null => \E i \in DOMAIN entries : entries[i] = n

\* The sums of the first i elements of a sequence of numbers.
PrefixSums(c) ==
    LET sum[i \in 0..Len(c)] == IF i = 0 THEN 0 ELSE sum[i - 1] + c[i]
    IN sum
Costs == [i \in DOMAIN entries |-> entry_cost(heap[entries[i]])]
Payloads == [i \in DOMAIN entries |-> payload(heap[entries[i]])]

\* bytes_ and payload_bytes_ are the sums over the stored entries that
\* memory_usage() documents, after any sequence of inserts, replacements,
\* removals and evictions.
AccountingExact ==
    /\ bytes = PrefixSums(Costs)[Len(entries)]
    /\ payload_bytes = PrefixSums(Payloads)[Len(entries)]

\* Both limits hold at every step, in the middle of a put too: the replaced
\* entry and the victims leave before the new one enters, make_room_locked()
\* frees enough for it, and its early exit on an empty list never lets an entry
\* in that does not fit.
WithinLimits == IndexSize <= MaxEntries /\ bytes <= MaxBytes
=============================================================================
