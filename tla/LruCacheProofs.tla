--------------------------- MODULE LruCacheProofs ---------------------------
(***************************************************************************)
(* Proofs, for every value of the constants, that the LRU cache keeps its  *)
(* list and its index in agreement, its byte counters exact and both       *)
(* limits.                                                                 *)
(***************************************************************************)
EXTENDS LruCache, TLAPS, FiniteSetTheorems, WellFoundedInduction

(***************************************************************************)
(* Sums of sequences of numbers.                                           *)
(***************************************************************************)
\* s[0..n] are the running totals of c[1..n].
IsSums(s, c, n) ==
    /\ s \in [0..n -> Int]
    /\ s[0] = 0
    /\ \A i \in 1..n : s[i] = s[i - 1] + c[i]

\* Every nonempty set of naturals has a least element: the form of induction
\* the lemmas below use.
LEMMA LeastNat ==
    ASSUME NEW T \in SUBSET Nat, T # {}
    PROVE  \E m \in T : \A n \in T : m <= n
<1> DEFINE R == OpToRel(<, Nat)
<1>1. \A x, y \in Nat : x < y => <<x, y>> \in R
  BY DEF OpToRel
<1>2. IsWellFoundedOn(R, Nat)
  BY NatLessThanWellFounded, Zenon
<1> HIDE DEF R
<1>3. PICK m \in T : \A n \in T : ~(<<n, m>> \in R)
  BY <1>2, WFMin, Zenon
<1>4. ASSUME NEW n \in T PROVE m <= n
  <2>1. m \in Nat /\ n \in Nat
    OBVIOUS
  <2>2. ~(n < m)
    BY <1>1, <1>3, <2>1, Zenon
  <2> QED  BY <2>1, <2>2
<1> QED  BY <1>4

\* Running totals of naturals are naturals.
LEMMA SumsNat ==
    ASSUME NEW n \in Nat, NEW c \in [1..n -> Nat], NEW s, IsSums(s, c, n)
    PROVE  \A i \in 0..n : s[i] \in Nat
<1> DEFINE Bad == {i \in 0..n : s[i] \notin Nat}
<1>1. SUFFICES ASSUME Bad # {} PROVE FALSE
  OBVIOUS
<1>2. PICK m \in Bad : \A k \in Bad : m <= k
  <2>1. Bad \in SUBSET Nat
    OBVIOUS
  <2> HIDE DEF Bad
  <2> QED  BY <1>1, <2>1, LeastNat
<1>3. m \in 1..n /\ m - 1 \in 0..n /\ m - 1 \notin Bad
  BY <1>2 DEF IsSums
<1>4. s[m] = s[m - 1] + c[m] /\ c[m] \in Nat
  BY <1>3 DEF IsSums
<1> QED  BY <1>2, <1>3, <1>4

\* PrefixSums computes the running totals, whenever they exist.
LEMMA PrefixSumsIs ==
    ASSUME NEW c \in Seq(Nat), NEW s, IsSums(s, c, Len(c))
    PROVE  \A i \in 0..Len(c) : PrefixSums(c)[i] = s[i]
<1> DEFINE n == Len(c)
           Eqn(f) == f = [i \in 0..n |-> IF i = 0 THEN 0 ELSE f[i - 1] + c[i]]
           f0 == CHOOSE f : Eqn(f)
           Bad == {i \in 0..n : f0[i] # s[i]}
<1>0. n \in Nat
  OBVIOUS
<1>1. Eqn(s)
  BY DEF IsSums
<1>2. Eqn(f0)
  BY <1>1, Zenon
<1>3. PrefixSums(c) = f0
  BY DEF PrefixSums
<1> HIDE DEF n, f0
<1>4. \A i \in 0..n : f0[i] = IF i = 0 THEN 0 ELSE f0[i - 1] + c[i]
  BY <1>2, Zenon
<1>5. ASSUME Bad # {} PROVE FALSE
  <2>1. PICK m \in Bad : \A k \in Bad : m <= k
    <3>1. Bad \in SUBSET Nat
      BY <1>0
    <3> HIDE DEF Bad
    <3> QED  BY <1>5, <3>1, LeastNat
  <2>2. IsSums(s, c, n)
    BY DEF n
  <2>3. m \in 1..n /\ m - 1 \in 0..n /\ m - 1 \notin Bad
    BY <1>0, <1>4, <2>1, <2>2 DEF IsSums
  <2> QED  BY <1>0, <1>4, <2>1, <2>2, <2>3 DEF IsSums
<1> QED  BY <1>3, <1>5 DEF n

\* Running totals after a number is put in front.
LEMMA SumsCons ==
    ASSUME NEW n \in Nat, NEW c \in [1..n -> Nat], NEW s, IsSums(s, c, n),
           NEW d \in [1..n + 1 -> Nat],
           \A i \in 1..n : d[i + 1] = c[i]
    PROVE  \E t : IsSums(t, d, n + 1) /\ t[n + 1] = s[n] + d[1]
<1> DEFINE t == [j \in 0..n + 1 |-> IF j = 0 THEN 0 ELSE s[j - 1] + d[1]]
<1>1. t \in [0..n + 1 -> Int] /\ t[0] = 0
  BY DEF IsSums
<1>2. ASSUME NEW i \in 1..n + 1 PROVE t[i] = t[i - 1] + d[i]
  <2>1. CASE i = 1
    BY <2>1 DEF IsSums
  <2>2. CASE i # 1
    <3> DEFINE k == i - 1
    <3>1. k \in 1..n /\ i = k + 1 /\ k - 1 \in 0..n
      BY <2>2
    <3>2. s[k] = s[k - 1] + c[k] /\ d[k + 1] = c[k] /\ s[k - 1] \in Int
      BY <3>1 DEF IsSums
    <3>3. t[k + 1] = s[k] + d[1] /\ t[k] = s[k - 1] + d[1]
      BY <3>1
    <3>4. c[k] \in Nat /\ d[1] \in Nat
      BY <3>1
    <3>5. i = k + 1 /\ i - 1 = k
      BY <3>1
    <3> HIDE DEF k, t
    <3>6. t[k + 1] = t[k] + d[k + 1]
      BY ONLY <3>2, <3>3, <3>4
    <3> QED  BY ONLY <3>5, <3>6
  <2> QED  BY <2>1, <2>2
<1>3. t[n + 1] = s[n] + d[1]
  OBVIOUS
<1> QED  BY <1>1, <1>2, <1>3, Zenon DEF IsSums

\* Running totals after the i-th number is taken out.
LEMMA SumsRemove ==
    ASSUME NEW n \in Nat, NEW c \in [1..n -> Nat], NEW s, IsSums(s, c, n),
           NEW i \in 1..n, NEW d \in [1..n - 1 -> Nat],
           \A j \in 1..n - 1 : d[j] = IF j < i THEN c[j] ELSE c[j + 1]
    PROVE  \E t : IsSums(t, d, n - 1) /\ t[n - 1] = s[n] - c[i]
<1> DEFINE t == [j \in 0..n - 1 |-> IF j < i THEN s[j] ELSE s[j + 1] - c[i]]
<1>1. t \in [0..n - 1 -> Int] /\ t[0] = 0
  <2>1. c[i] \in Nat /\ n - 1 \in Nat
    OBVIOUS
  <2>2. \A j \in 0..n - 1 : s[j] \in Int /\ s[j + 1] \in Int
    BY DEF IsSums
  <2>3. \A j \in 0..n - 1 : (IF j < i THEN s[j] ELSE s[j + 1] - c[i]) \in Int
    <3> TAKE j \in 0..n - 1
    <3>1. s[j] \in Int /\ s[j + 1] \in Int
      BY <2>2
    <3>2. c[i] \in Int
      BY <2>1
    <3>3. s[j + 1] - c[i] \in Int
      BY <3>1, <3>2
    <3> QED  BY <3>1, <3>3
  <2>4. t[0] = s[0]
    BY <2>1
  <2> QED  BY <2>3, <2>4 DEF IsSums
<1>2. ASSUME NEW j \in 1..n - 1 PROVE t[j] = t[j - 1] + d[j]
  <2>1. /\ j \in 1..n /\ j + 1 \in 1..n /\ j - 1 \in 0..n - 1
        /\ (j + 1) - 1 = j /\ (j - 1) + 1 = j
    OBVIOUS
  <2>2. /\ s[j] = s[j - 1] + c[j] /\ s[j + 1] = s[j] + c[j + 1]
        /\ s[j - 1] \in Int /\ c[j] \in Nat /\ c[j + 1] \in Nat
    BY <2>1 DEF IsSums
  <2>3. CASE j < i
    BY <2>1, <2>2, <2>3
  <2>4. CASE j = i
    <3>1. t[j] = s[j + 1] - c[j] /\ t[j - 1] = s[j - 1] /\ d[j] = c[j + 1]
      BY <2>1, <2>4
    <3> HIDE DEF t
    <3> QED  BY <2>2, <3>1
  <2>5. CASE j > i
    <3>1. /\ t[j] = s[j + 1] - c[i] /\ t[j - 1] = s[j] - c[i] /\ d[j] = c[j + 1]
          /\ c[i] \in Nat
      BY <2>1, <2>5
    <3> HIDE DEF t
    <3> QED  BY <2>2, <3>1
  <2> QED  BY <2>3, <2>4, <2>5
<1>3. t[n - 1] = s[n] - c[i]
  <2>1. s[n] = s[n - 1] + c[n] /\ s[n - 1] \in Int /\ c[n] \in Nat
    BY DEF IsSums
  <2>2. CASE i = n
    BY <2>1, <2>2
  <2>3. CASE i < n
    BY <2>3
  <2> QED  BY <2>2, <2>3
<1> QED  BY <1>1, <1>2, <1>3, Zenon DEF IsSums

\* The elements of a concatenation.
LEMMA ConcatFacts ==
    ASSUME NEW S, NEW a \in Seq(S), NEW b \in Seq(S)
    PROVE  /\ a \o b \in Seq(S)
           /\ Len(a \o b) = Len(a) + Len(b)
           /\ \A j \in 1..Len(a) + Len(b) :
                (a \o b)[j] = IF j <= Len(a) THEN a[j] ELSE b[j - Len(a)]
  OBVIOUS

\* Unlink takes one element out of a list without duplicates and keeps
\* the order of the others.
LEMMA UnlinkFacts ==
    ASSUME NEW S, NEW q \in Seq(S), NEW i \in 1..Len(q),
           \A j, k \in 1..Len(q) : q[j] = q[k] => j = k
    PROVE  LET r == Unlink(q, q[i])
           IN /\ r \in Seq(S)
              /\ Len(r) = Len(q) - 1
              /\ \A j \in 1..Len(q) - 1 : r[j] = IF j < i THEN q[j] ELSE q[j + 1]
<1>1. (CHOOSE j \in DOMAIN q : q[j] = q[i]) = i
  OBVIOUS
<1>2. Unlink(q, q[i]) = SubSeq(q, 1, i - 1) \o SubSeq(q, i + 1, Len(q))
  BY <1>1, Zenon DEF Unlink
<1> DEFINE a == SubSeq(q, 1, i - 1)
           b == SubSeq(q, i + 1, Len(q))
<1>4. /\ a \in Seq(S) /\ Len(a) = i - 1
      /\ \A j \in 1..i - 1 : a[j] = q[j]
  OBVIOUS
<1>5. /\ b \in Seq(S) /\ Len(b) = Len(q) - i
      /\ \A j \in 1..Len(q) - i : b[j] = q[i + j]
  OBVIOUS
<1> HIDE DEF a, b
<1>6. /\ a \o b \in Seq(S) /\ Len(a \o b) = Len(a) + Len(b)
      /\ \A j \in 1..Len(a) + Len(b) :
           (a \o b)[j] = IF j <= Len(a) THEN a[j] ELSE b[j - Len(a)]
  <2>1. a \in Seq(S) /\ b \in Seq(S)
    BY <1>4, <1>5
  <2> QED  BY ONLY <2>1
<1>7. ASSUME NEW j \in 1..Len(q) - 1
      PROVE  (a \o b)[j] = IF j < i THEN q[j] ELSE q[j + 1]
  <2>0. j \in 1..Len(a) + Len(b)
    BY <1>4, <1>5
  <2>1. CASE j < i
    <3>1. j <= Len(a) /\ j \in 1..i - 1
      BY <1>4, <2>1
    <3> QED  BY <1>4, <1>6, <2>0, <2>1, <3>1
  <2>2. CASE j >= i
    <3>0. ~(j <= Len(a)) /\ ~(j < i)
      BY <1>4, <2>2
    <3>1. j - (i - 1) \in 1..Len(q) - i /\ i + (j - (i - 1)) = j + 1
      BY <2>2
    <3>2. b[j - (i - 1)] = q[j + 1]
      BY <1>5, <3>1
    <3> QED  BY <1>4, <1>6, <2>0, <3>0, <3>2
  <2>3. j < i \/ j >= i
    OBVIOUS
  <2> QED  BY <2>1, <2>2, <2>3, Zenon
<1>8. Unlink(q, q[i]) = a \o b
  BY <1>2 DEF a, b
<1>9. Len(a \o b) = Len(q) - 1
  BY <1>4, <1>5, <1>6
<1> QED  BY <1>6, <1>7, <1>8, <1>9

(***************************************************************************)
(* The inductive invariant.                                                *)
(***************************************************************************)
HasSum(c, n, total) == \E s : IsSums(s, c, n) /\ s[n] = total

Indexed == {k \in Key : index[k] # Null}

\* List, index and counters, whoever holds the mutex.  The sums are stated as
\* the existence of running totals, which each step can exhibit.
ListInv ==
    /\ entries \in Seq(Node)
    /\ heap \in [Node -> Entry \cup {Null}]
    /\ index \in [Key -> Node \cup {Null}]
    /\ IndexListAgree
    /\ HasSum(Costs, Len(entries), bytes)
    /\ HasSum(Payloads, Len(entries), payload_bytes)
    /\ IsFiniteSet(Indexed)
    /\ WithinLimits

\* While a put is pending its key is not indexed and it was not rejected.
PendingInv ==
    /\ putting \in Entry \cup {Null}
    /\ putting # Null => index[putting.key] = Null /\ PutStatus(putting) = "kStored"

LruInv == ListInv /\ PendingInv /\ evictions \in Nat

\* Costs and payloads of entries are naturals.
LEMMA CostTypes ==
    ASSUME NEW e \in Entry
    PROVE  entry_cost(e) \in Nat /\ payload(e) \in Nat
  BY LruAssumption DEF Entry, entry_cost, payload, kEntryOverheadBytes

\* So Costs and Payloads are sequences of naturals.
LEMMA CostsTypes ==
    ASSUME ListInv
    PROVE  /\ Len(entries) \in Nat /\ DOMAIN entries = 1..Len(entries)
           /\ \A i \in 1..Len(entries) : entries[i] \in Node /\ heap[entries[i]] \in Entry
           /\ Costs \in [1..Len(entries) -> Nat]
           /\ Payloads \in [1..Len(entries) -> Nat]
           /\ Costs \in Seq(Nat) /\ Payloads \in Seq(Nat)
           /\ Len(Costs) = Len(entries) /\ Len(Payloads) = Len(entries)
<1>1. Len(entries) \in Nat /\ DOMAIN entries = 1..Len(entries)
  BY DEF ListInv
<1>2. \A i \in 1..Len(entries) : entries[i] \in Node /\ heap[entries[i]] \in Entry
  BY <1>1 DEF ListInv, IndexListAgree
<1>3. /\ Costs \in [1..Len(entries) -> Nat]
      /\ Payloads \in [1..Len(entries) -> Nat]
  BY <1>1, <1>2, CostTypes DEF Costs, Payloads
<1> QED  BY <1>1, <1>2, <1>3

\* What the invariant says of the counters.
LEMMA CountersExact ==
    ASSUME ListInv
    PROVE  AccountingExact /\ bytes \in Nat /\ payload_bytes \in Nat
<1>1. PICK s : IsSums(s, Costs, Len(entries)) /\ s[Len(entries)] = bytes
  BY DEF ListInv, HasSum
<1>2. PICK t : IsSums(t, Payloads, Len(entries)) /\ t[Len(entries)] = payload_bytes
  BY DEF ListInv, HasSum
<1>3. /\ Costs \in Seq(Nat) /\ Len(Costs) = Len(entries)
      /\ Payloads \in Seq(Nat) /\ Len(Payloads) = Len(entries)
      /\ Len(entries) \in Nat
      /\ Costs \in [1..Len(entries) -> Nat]
      /\ Payloads \in [1..Len(entries) -> Nat]
  BY CostsTypes
<1>3a. Len(entries) \in 0..Len(entries)
  BY <1>3
<1>4. PrefixSums(Costs)[Len(entries)] = bytes
  BY <1>1, <1>3, <1>3a, PrefixSumsIs
<1>5. PrefixSums(Payloads)[Len(entries)] = payload_bytes
  BY <1>2, <1>3, <1>3a, PrefixSumsIs
<1>6. bytes \in Nat
  <2>1. \A i \in 0..Len(entries) : s[i] \in Nat
    BY <1>1, <1>3, SumsNat, Zenon
  <2> QED  BY <1>1, <1>3, <2>1
<1>7. payload_bytes \in Nat
  <2>1. \A i \in 0..Len(entries) : t[i] \in Nat
    BY <1>2, <1>3, SumsNat
  <2> QED  BY <1>2, <1>3, <2>1
<1> QED  BY <1>4, <1>5, <1>6, <1>7 DEF AccountingExact

\* The invariant implies each property.
LEMMA InvImplies ==
    LruInv => TypeOK /\ IndexListAgree /\ AccountingExact /\ WithinLimits
  BY CountersExact DEF LruInv, ListInv, PendingInv, TypeOK

\* The empty cache.
LEMMA InitInv == Init => LruInv
<1> SUFFICES ASSUME Init PROVE LruInv
  OBVIOUS
<1>1. Indexed = {}
  BY DEF Init, Indexed
<1>2. IsFiniteSet(Indexed) /\ Cardinality(Indexed) = 0
  BY <1>1, FS_EmptySet
<1>3. IsSums([i \in 0..0 |-> 0], Costs, Len(entries))
  BY DEF Init, IsSums
<1>4. IsSums([i \in 0..0 |-> 0], Payloads, Len(entries))
  BY DEF Init, IsSums
<1>5. HasSum(Costs, Len(entries), bytes) /\ HasSum(Payloads, Len(entries), payload_bytes)
  BY <1>3, <1>4 DEF Init, HasSum
<1>6. IndexListAgree
  BY DEF Init, IndexListAgree
<1>7. WithinLimits
  BY <1>2, LruAssumption DEF Init, WithinLimits, IndexSize, Indexed
<1> QED  BY <1>2, <1>5, <1>6, <1>7, LruAssumption
        DEF Init, LruInv, ListInv, PendingInv, Entry

\* The two lemmas on running totals, as HasSum states them.
LEMMA HasSumRemove ==
    ASSUME NEW n \in Nat, NEW c \in [1..n -> Nat], NEW total, HasSum(c, n, total),
           NEW i \in 1..n, NEW d \in [1..n - 1 -> Nat],
           \A j \in 1..n - 1 : d[j] = IF j < i THEN c[j] ELSE c[j + 1]
    PROVE  HasSum(d, n - 1, total - c[i])
<1>1. PICK s : IsSums(s, c, n) /\ s[n] = total
  BY DEF HasSum
<1>2. \E t : IsSums(t, d, n - 1) /\ t[n - 1] = s[n] - c[i]
  BY <1>1, SumsRemove, Zenon
<1> QED  BY <1>1, <1>2 DEF HasSum

\* The total with a cost more in front.
LEMMA HasSumCons ==
    ASSUME NEW n \in Nat, NEW c \in [1..n -> Nat], NEW total, HasSum(c, n, total),
           NEW d \in [1..n + 1 -> Nat], \A i \in 1..n : d[i + 1] = c[i]
    PROVE  HasSum(d, n + 1, total + d[1])
<1>1. PICK s : IsSums(s, c, n) /\ s[n] = total
  BY DEF HasSum
<1>2. \E t : IsSums(t, d, n + 1) /\ t[n + 1] = s[n] + d[1]
  BY <1>1, SumsCons, Zenon
<1> QED  BY <1>1, <1>2 DEF HasSum

\* erase_locked() on an indexed key keeps the list invariant, unindexes the key
\* and indexes no other; the entries of the list other than the key's keep their
\* order.
LEMMA EraseLocked ==
    ASSUME ListInv, NEW k \in Key, index[k] # Null, erase_locked(k)
    PROVE  /\ ListInv'
           /\ index'[k] = Null
           /\ \A m \in Key : index[m] = Null => index'[m] = Null
           /\ \E i \in 1..Len(entries) :
                /\ heap[entries[i]].key = k
                /\ Len(entries') = Len(entries) - 1
                /\ \A j \in 1..Len(entries) - 1 :
                     heap'[entries'[j]] = heap[entries[IF j < i THEN j ELSE j + 1]]
<1> DEFINE L == Len(entries)
<1>0. /\ L \in Nat /\ DOMAIN entries = 1..L
      /\ \A j \in 1..L : entries[j] \in Node /\ heap[entries[j]] \in Entry
      /\ Costs \in [1..L -> Nat] /\ Payloads \in [1..L -> Nat]
  BY CostsTypes
<1>1. PICK i \in 1..L : index[k] = entries[i] /\ heap[entries[i]].key = k
  BY <1>0 DEF ListInv, IndexListAgree
<1>2. \A p, q \in 1..L : entries[p] = entries[q] => p = q
  BY <1>0, Zenon DEF ListInv, IndexListAgree
<1>3. /\ entries' = Unlink(entries, entries[i])
      /\ heap' = [heap EXCEPT ![entries[i]] = Null]
      /\ index' = [index EXCEPT ![k] = Null]
      /\ bytes' = bytes - entry_cost(heap[entries[i]])
      /\ payload_bytes' = payload_bytes - payload(heap[entries[i]])
  BY <1>1 DEF erase_locked
<1>4. /\ entries' \in Seq(Node) /\ Len(entries') = L - 1
      /\ \A j \in 1..L - 1 : entries'[j] = IF j < i THEN entries[j] ELSE entries[j + 1]
  <2>1. entries \in Seq(Node)
    BY DEF ListInv
  <2> QED  BY <1>2, <1>3, <2>1, UnlinkFacts
<1>5. DOMAIN entries' = 1..L - 1
  BY <1>4
<1>6. index' \in [Key -> Node \cup {Null}] /\ heap' \in [Node -> Entry \cup {Null}]
  BY <1>3 DEF ListInv
<1>7. /\ \A m \in Key : index'[m] = IF m = k THEN Null ELSE index[m]
      /\ \A x \in Node : heap'[x] = IF x = entries[i] THEN Null ELSE heap[x]
  BY <1>3 DEF ListInv
\* Position j of the new list is position At(j) of the old one.
<1> DEFINE At(j) == IF j < i THEN j ELSE j + 1
<1>8. \A j \in 1..L - 1 : /\ At(j) \in 1..L /\ At(j) # i
                          /\ entries'[j] = entries[At(j)]
                          /\ entries[At(j)] # entries[i]
                          /\ heap'[entries'[j]] = heap[entries[At(j)]]
  <2> TAKE j \in 1..L - 1
  <2>1. At(j) \in 1..L /\ At(j) # i
    BY <1>0
  <2>2. entries'[j] = entries[At(j)]
    BY <1>4
  <2>3. entries[At(j)] # entries[i]
    BY <1>2, <2>1
  <2> HIDE DEF At
  <2> QED  BY <1>0, <1>7, <2>1, <2>2, <2>3
<1>9. \A p \in 1..L : p # i => \E j \in 1..L - 1 : entries'[j] = entries[p]
  <2> SUFFICES ASSUME NEW p \in 1..L, p # i
               PROVE  \E j \in 1..L - 1 : entries'[j] = entries[p]
    OBVIOUS
  <2>1. CASE p < i
    <3>1. p \in 1..L - 1
      BY <1>0, <2>1
    <3> QED  BY <1>4, <2>1, <3>1
  <2>2. CASE p > i
    <3>1. p - 1 \in 1..L - 1 /\ ~(p - 1 < i) /\ (p - 1) + 1 = p
      BY <1>0, <2>2
    <3> QED  BY <1>4, <3>1
  <2> QED  BY <1>0, <2>1, <2>2
<1>10. IndexListAgree'
  <2>1. \A p, q \in DOMAIN entries' : entries'[p] = entries'[q] => p = q
    <3> SUFFICES ASSUME NEW p \in 1..L - 1, NEW q \in 1..L - 1, entries'[p] = entries'[q]
                 PROVE  p = q
      BY <1>5
    <3>1. At(p) = At(q)
      <4> HIDE DEF At
      <4> QED  BY <1>2, <1>8
    <3> QED  BY <1>0, <3>1
  <2> HIDE DEF At
  <2>2. \A j \in DOMAIN entries' : /\ heap'[entries'[j]] # Null
                                   /\ index'[heap'[entries'[j]].key] = entries'[j]
    <3> SUFFICES ASSUME NEW j \in 1..L - 1
                 PROVE  /\ heap'[entries'[j]] # Null
                        /\ index'[heap'[entries'[j]].key] = entries'[j]
      BY <1>5
    <3> DEFINE e == heap[entries[At(j)]]
    <3>1. e \in Entry /\ e # Null /\ index[e.key] = entries[At(j)]
      BY <1>0, <1>8 DEF ListInv, IndexListAgree
    <3>2. e.key \in Key /\ e.key # k
      BY <1>1, <1>8, <3>1 DEF Entry
    <3> HIDE DEF e
    <3>3. heap'[entries'[j]] = e
      BY <1>8 DEF e
    <3> QED  BY <1>7, <1>8, <3>1, <3>2, <3>3
  <2>3. \A m \in Key : index'[m] # Null =>
           \E j \in DOMAIN entries' : index'[m] = entries'[j] /\ heap'[entries'[j]].key = m
    <3> SUFFICES ASSUME NEW m \in Key, index'[m] # Null
                 PROVE  \E j \in 1..L - 1 : /\ index'[m] = entries'[j]
                                            /\ heap'[entries'[j]].key = m
      BY <1>5
    <3>1. m # k /\ index'[m] = index[m]
      BY <1>7
    <3>2. PICK p \in 1..L : index[m] = entries[p] /\ heap[entries[p]].key = m
      BY <1>0, <3>1 DEF ListInv, IndexListAgree
    <3>3. p # i
      BY <1>1, <3>1, <3>2
    <3>4. PICK j \in 1..L - 1 : entries'[j] = entries[p]
      BY <1>9, <3>3
    <3> QED  BY <1>8, <3>1, <3>2, <3>4
  <2>4. \A x \in Node : heap'[x] # Null => \E j \in DOMAIN entries' : entries'[j] = x
    <3> SUFFICES ASSUME NEW x \in Node, heap'[x] # Null
                 PROVE  \E j \in 1..L - 1 : entries'[j] = x
      BY <1>5
    <3>1. x # entries[i] /\ heap[x] # Null
      BY <1>7
    <3>2. PICK p \in 1..L : entries[p] = x
      BY <1>0, <3>1 DEF ListInv, IndexListAgree
    <3> QED  BY <1>9, <3>1, <3>2
  <2> QED  BY <2>1, <2>2, <2>3, <2>4 DEF IndexListAgree
<1>11. /\ Costs' \in [1..L - 1 -> Nat] /\ Payloads' \in [1..L - 1 -> Nat]
       /\ \A j \in 1..L - 1 : /\ Costs'[j] = Costs[At(j)]
                              /\ Payloads'[j] = Payloads[At(j)]
  <2> HIDE DEF At
  <2>1. \A j \in 1..L - 1 : /\ Costs'[j] = entry_cost(heap'[entries'[j]])
                            /\ Payloads'[j] = payload(heap'[entries'[j]])
    BY <1>5 DEF Costs, Payloads
  <2>2. \A j \in 1..L : /\ Costs[j] = entry_cost(heap[entries[j]])
                        /\ Payloads[j] = payload(heap[entries[j]])
    BY <1>0 DEF Costs, Payloads
  <2>3. \A j \in 1..L - 1 : /\ Costs'[j] = Costs[At(j)]
                            /\ Payloads'[j] = Payloads[At(j)]
    BY <1>8, <2>1, <2>2
  <2>4. DOMAIN Costs' = 1..L - 1 /\ DOMAIN Payloads' = 1..L - 1
    BY <1>5 DEF Costs, Payloads
  <2>5. Costs' = [j \in 1..L - 1 |-> entry_cost(heap'[entries'[j]])]
    BY <1>5 DEF Costs
  <2>6. Payloads' = [j \in 1..L - 1 |-> payload(heap'[entries'[j]])]
    BY <1>5 DEF Payloads
  <2>7. \A j \in 1..L - 1 : heap'[entries'[j]] \in Entry
    BY <1>0, <1>8
  <2> QED  BY <2>3, <2>5, <2>6, <2>7, CostTypes, Zenon
<1>12. /\ HasSum(Costs', L - 1, bytes - Costs[i])
       /\ HasSum(Payloads', L - 1, payload_bytes - Payloads[i])
  <2>1. HasSum(Costs, L, bytes) /\ HasSum(Payloads, L, payload_bytes)
    BY DEF ListInv
  <2>2. \A j \in 1..L - 1 : Costs'[j] = IF j < i THEN Costs[j] ELSE Costs[j + 1]
    BY <1>11
  <2>3. \A j \in 1..L - 1 : Payloads'[j] = IF j < i THEN Payloads[j] ELSE Payloads[j + 1]
    BY <1>11
  <2> HIDE DEF L, At
  <2>4. HasSum(Costs', L - 1, bytes - Costs[i])
    BY <1>0, <1>11, <2>1, <2>2, HasSumRemove, Zenon
  <2>5. HasSum(Payloads', L - 1, payload_bytes - Payloads[i])
    BY <1>0, <1>11, <2>1, <2>3, HasSumRemove, Zenon
  <2> QED  BY <2>4, <2>5
<1>13. /\ Costs[i] = entry_cost(heap[entries[i]])
       /\ Payloads[i] = payload(heap[entries[i]])
  BY <1>0 DEF Costs, Payloads
<1>14. IsFiniteSet(Indexed') /\ WithinLimits'
  <2>1. Indexed' = Indexed \ {k}
    BY <1>7 DEF Indexed
  <2>2. IsFiniteSet(Indexed) /\ k \in Indexed
    BY DEF ListInv, Indexed
  <2>3. /\ IsFiniteSet(Indexed') /\ Cardinality(Indexed') = Cardinality(Indexed) - 1
    BY <2>1, <2>2, FS_RemoveElement
  <2>4. Cardinality(Indexed) <= MaxEntries /\ bytes <= MaxBytes
    BY DEF ListInv, WithinLimits, IndexSize, Indexed
  <2>5. Cardinality(Indexed) \in Nat
    BY <2>2, FS_CardinalityType
  <2>6. Cardinality(Indexed') <= MaxEntries
    BY <2>3, <2>4, <2>5, LruAssumption
  <2>7. bytes' <= MaxBytes
    <3>1. bytes \in Nat /\ entry_cost(heap[entries[i]]) \in Nat
      BY <1>0, CountersExact, CostTypes
    <3> QED  BY <1>3, <2>4, <3>1, LruAssumption
  <2> QED  BY <2>3, <2>6, <2>7 DEF WithinLimits, IndexSize, Indexed
<1>15. ListInv'
  <2>1. /\ HasSum(Costs', Len(entries'), bytes')
        /\ HasSum(Payloads', Len(entries'), payload_bytes')
    BY <1>3, <1>4, <1>12, <1>13
  <2> QED  BY <1>4, <1>6, <1>10, <1>14, <2>1 DEF ListInv
<1>16. \A j \in 1..L - 1 : heap'[entries'[j]] = heap[entries[IF j < i THEN j ELSE j + 1]]
  BY <1>8
<1> QED  BY <1>1, <1>4, <1>7, <1>15, <1>16, Zenon

\* Putting one element in front of a sequence.
LEMMA ConsFacts ==
    ASSUME NEW S, NEW x \in S, NEW q \in Seq(S)
    PROVE  /\ <<x>> \o q \in Seq(S)
           /\ Len(<<x>> \o q) = Len(q) + 1
           /\ DOMAIN (<<x>> \o q) = 1..Len(q) + 1
           /\ (<<x>> \o q)[1] = x
           /\ \A j \in 1..Len(q) : (<<x>> \o q)[j + 1] = q[j]
           /\ \A j \in 2..Len(q) + 1 : (<<x>> \o q)[j] = q[j - 1]
  OBVIOUS

\* Moving element i of a list to the front: position j of the new list is
\* position Source(i, j) of the old one.
Source(i, j) == IF j = 1 THEN i ELSE IF j <= i THEN j - 1 ELSE j

\* Source is a permutation of the positions.
LEMMA SourceFacts ==
    ASSUME NEW L \in Nat, NEW i \in 1..L
    PROVE  /\ \A j \in 1..L : Source(i, j) \in 1..L
           /\ \A p, q \in 1..L : Source(i, p) = Source(i, q) => p = q
           /\ \A p \in 1..L : \E j \in 1..L : Source(i, j) = p
<1>1. \A j \in 1..L : Source(i, j) \in 1..L
  BY DEF Source
<1>2. \A p, q \in 1..L : Source(i, p) = Source(i, q) => p = q
  BY DEF Source
<1>3. ASSUME NEW p \in 1..L PROVE \E j \in 1..L : Source(i, j) = p
  <2>1. CASE p = i
    BY <2>1 DEF Source
  <2>2. CASE p < i
    <3>1. p + 1 \in 1..L /\ Source(i, p + 1) = p
      BY <2>2 DEF Source
    <3> QED  BY <3>1
  <2>3. CASE p > i
    BY <2>3 DEF Source
  <2> QED  BY <2>1, <2>2, <2>3
<1> QED  BY <1>1, <1>2, <1>3

\* List q with its i-th element moved to the front.
Promoted(q, i) == <<q[i]>> \o Unlink(q, q[i])

\* What a move to the front does to each position.
LEMMA PromoteFacts ==
    ASSUME NEW S, NEW q \in Seq(S), NEW i \in 1..Len(q),
           \A j, k \in 1..Len(q) : q[j] = q[k] => j = k
    PROVE  /\ Promoted(q, i) \in Seq(S)
           /\ Len(Promoted(q, i)) = Len(q)
           /\ \A j \in 1..Len(q) : Promoted(q, i)[j] = q[Source(i, j)]
<1> DEFINE rest == Unlink(q, q[i])
           r == <<q[i]>> \o rest
<1>1. /\ rest \in Seq(S) /\ Len(rest) = Len(q) - 1
      /\ \A j \in 1..Len(q) - 1 : rest[j] = IF j < i THEN q[j] ELSE q[j + 1]
  BY UnlinkFacts
<1>2. q[i] \in S /\ Len(q) \in Nat
  OBVIOUS
<1> HIDE DEF rest
<1>3. /\ r \in Seq(S) /\ Len(r) = Len(rest) + 1
      /\ r[1] = q[i]
      /\ \A j \in 2..Len(rest) + 1 : r[j] = rest[j - 1]
  BY <1>1, <1>2, ConsFacts
<1> HIDE DEF r
<1>4. ASSUME NEW j \in 1..Len(q) PROVE r[j] = q[Source(i, j)]
  <2>1. CASE j = 1
    BY <1>3, <2>1 DEF Source
  <2>2. CASE j # 1
    <3>1. j \in 2..Len(rest) + 1 /\ j - 1 \in 1..Len(q) - 1 /\ (j - 1) + 1 = j
      BY <1>1, <1>2, <2>2
    <3>2. r[j] = IF j - 1 < i THEN q[j - 1] ELSE q[j]
      BY <1>1, <1>3, <3>1
    <3>3. Source(i, j) = IF j - 1 < i THEN j - 1 ELSE j
      BY <1>2, <2>2 DEF Source
    <3> QED  BY <3>2, <3>3
  <2> QED  BY <2>1, <2>2
<1>5. Len(r) = Len(q)
  BY <1>1, <1>2, <1>3
<1>6. Promoted(q, i) = r
  BY DEF Promoted, r, rest
<1> QED  BY <1>3, <1>4, <1>5, <1>6

\* Moving a number to the front leaves the total alone.
LEMMA HasSumPromote ==
    ASSUME NEW L \in Nat, NEW i \in 1..L, NEW c \in [1..L -> Nat],
           NEW total \in Int, HasSum(c, L, total),
           NEW d \in [1..L -> Nat], \A j \in 1..L : d[j] = c[Source(i, j)]
    PROVE  HasSum(d, L, total)
<1> DEFINE r == [j \in 1..L - 1 |-> IF j < i THEN c[j] ELSE c[j + 1]]
<1>1. r \in [1..L - 1 -> Nat]
  <2> SUFFICES ASSUME NEW j \in 1..L - 1
               PROVE  (IF j < i THEN c[j] ELSE c[j + 1]) \in Nat
    OBVIOUS
  <2>1. j \in 1..L /\ j + 1 \in 1..L
    OBVIOUS
  <2> QED  BY <2>1
<1>2. \A j \in 1..L - 1 : r[j] = IF j < i THEN c[j] ELSE c[j + 1]
  OBVIOUS
<1> HIDE DEF r
<1>3. HasSum(r, L - 1, total - c[i])
  BY <1>1, <1>2, HasSumRemove, Zenon
<1>4. L - 1 \in Nat /\ (L - 1) + 1 = L
  OBVIOUS
<1>5. d[1] = c[i] /\ c[i] \in Nat
  BY DEF Source
<1>6. \A j \in 1..L - 1 : d[j + 1] = r[j]
  <2> TAKE j \in 1..L - 1
  <2>1. j + 1 \in 1..L /\ j + 1 # 1 /\ (j + 1) - 1 = j
    OBVIOUS
  <2>2. Source(i, j + 1) = IF j < i THEN j ELSE j + 1
    BY <2>1 DEF Source
  <2> QED  BY <1>2, <2>1, <2>2, Zenon
<1>7. HasSum(d, (L - 1) + 1, (total - c[i]) + d[1])
  BY <1>1, <1>3, <1>4, <1>6, HasSumCons, Zenon
<1>8. (total - c[i]) + d[1] = total
  BY <1>5
<1> QED  BY <1>4, <1>7, <1>8

\* A hit in get() permutes the list and keeps the invariant.
LEMMA Promote ==
    ASSUME ListInv, NEW i \in 1..Len(entries),
           entries' \in Seq(Node), Len(entries') = Len(entries),
           \A j \in 1..Len(entries) : entries'[j] = entries[Source(i, j)],
           heap' = heap, index' = index, bytes' = bytes, payload_bytes' = payload_bytes
    PROVE  ListInv'
<1> DEFINE L == Len(entries)
<1>0. /\ L \in Nat /\ DOMAIN entries = 1..L
      /\ \A j \in 1..L : entries[j] \in Node /\ heap[entries[j]] \in Entry
      /\ Costs \in [1..L -> Nat] /\ Payloads \in [1..L -> Nat]
  BY CostsTypes
<1>1. /\ \A j \in 1..L : Source(i, j) \in 1..L
      /\ \A p, q \in 1..L : Source(i, p) = Source(i, q) => p = q
      /\ \A p \in 1..L : \E j \in 1..L : Source(i, j) = p
  BY <1>0, SourceFacts, Zenon
<1>2. DOMAIN entries' = 1..L
  BY <1>0
<1>3. \A p \in 1..L : \E j \in 1..L : entries'[j] = entries[p]
  BY <1>1
<1>4. IndexListAgree'
  <2>1. ASSUME NEW p \in 1..L, NEW q \in 1..L, entries'[p] = entries'[q] PROVE p = q
    <3>1. Source(i, p) = Source(i, q)
      BY <1>0, <1>1, <2>1 DEF ListInv, IndexListAgree
    <3> QED  BY <1>1, <3>1
  <2>2. ASSUME NEW j \in 1..L PROVE /\ heap[entries'[j]] # Null
                                    /\ index[heap[entries'[j]].key] = entries'[j]
    <3>1. entries'[j] = entries[Source(i, j)] /\ Source(i, j) \in 1..L
      BY <1>1
    <3> QED  BY <1>0, <3>1 DEF ListInv, IndexListAgree
  <2>3. ASSUME NEW m \in Key, index[m] # Null
        PROVE  \E j \in 1..L : index[m] = entries'[j] /\ heap[entries'[j]].key = m
    <3>1. PICK p \in 1..L : index[m] = entries[p] /\ heap[entries[p]].key = m
      BY <1>0, <2>3 DEF ListInv, IndexListAgree
    <3>2. PICK j \in 1..L : entries'[j] = entries[p]
      BY <1>3
    <3> QED  BY <3>1, <3>2
  <2>4. ASSUME NEW x \in Node, heap[x] # Null PROVE \E j \in 1..L : entries'[j] = x
    <3>1. PICK p \in 1..L : entries[p] = x
      BY <1>0, <2>4 DEF ListInv, IndexListAgree
    <3> QED  BY <1>3, <3>1, Zenon
  <2> QED  BY <1>2, <2>1, <2>2, <2>3, <2>4 DEF IndexListAgree
<1>5. /\ Costs' = [j \in 1..L |-> entry_cost(heap[entries[Source(i, j)]])]
      /\ Payloads' = [j \in 1..L |-> payload(heap[entries[Source(i, j)]])]
  BY <1>2 DEF Costs, Payloads
<1>6. \A j \in 1..L : /\ entry_cost(heap[entries[Source(i, j)]]) = Costs[Source(i, j)]
                      /\ payload(heap[entries[Source(i, j)]]) = Payloads[Source(i, j)]
                      /\ Costs[Source(i, j)] \in Nat /\ Payloads[Source(i, j)] \in Nat
  BY <1>0, <1>1, Zenon DEF Costs, Payloads
<1>7. /\ Costs' \in [1..L -> Nat] /\ Payloads' \in [1..L -> Nat]
      /\ \A j \in 1..L : /\ Costs'[j] = Costs[Source(i, j)]
                         /\ Payloads'[j] = Payloads[Source(i, j)]
  BY <1>5, <1>6, Zenon
<1>8. /\ HasSum(Costs, L, bytes) /\ HasSum(Payloads, L, payload_bytes)
      /\ bytes \in Int /\ payload_bytes \in Int
  BY CountersExact DEF ListInv
<1>9. HasSum(Costs', L, bytes)
  BY <1>0, <1>7, <1>8, HasSumPromote, Zenon
<1>10. HasSum(Payloads', L, payload_bytes)
  BY <1>0, <1>7, <1>8, HasSumPromote, ZenonT(30)
<1> QED  BY <1>4, <1>9, <1>10 DEF ListInv, WithinLimits, IndexSize, Indexed

\* Linking a fresh node for an absent key keeps the invariant, when there is
\* room for it.
LEMMA Insert ==
    ASSUME ListInv, NEW e \in Entry, index[e.key] = Null,
           NEW n \in Node, heap[n] = Null,
           entries' \in Seq(Node), Len(entries') = Len(entries) + 1, entries'[1] = n,
           \A j \in 1..Len(entries) : entries'[j + 1] = entries[j],
           heap' \in [Node -> Entry \cup {Null}],
           \A x \in Node : heap'[x] = IF x = n THEN e ELSE heap[x],
           index' \in [Key -> Node \cup {Null}],
           \A m \in Key : index'[m] = IF m = e.key THEN n ELSE index[m],
           bytes' = bytes + entry_cost(e),
           payload_bytes' = payload_bytes + payload(e),
           IndexSize + 1 <= MaxEntries, bytes + entry_cost(e) <= MaxBytes
    PROVE  ListInv'
<1> DEFINE L == Len(entries)
<1>0. /\ L \in Nat /\ DOMAIN entries = 1..L
      /\ \A j \in 1..L : entries[j] \in Node /\ heap[entries[j]] \in Entry
      /\ Costs \in [1..L -> Nat] /\ Payloads \in [1..L -> Nat]
  BY CostsTypes
<1>1. /\ DOMAIN entries' = 1..L + 1
      /\ \A j \in 2..L + 1 : entries'[j] = entries[j - 1]
  <2>1. \A j \in 2..L + 1 : j - 1 \in 1..L /\ (j - 1) + 1 = j
    BY <1>0
  <2>2. DOMAIN entries' = 1..L + 1
    BY <1>0
  <2> QED  BY <2>1, <2>2
<1>2. e.key \in Key /\ e # Null /\ n # Null
  BY LruAssumption DEF Entry
<1>3. \A j \in 1..L : /\ entries[j] # n /\ heap'[entries[j]] = heap[entries[j]]
                      /\ heap[entries[j]] # Null
                      /\ index[heap[entries[j]].key] = entries[j]
  <2>1. \A j \in 1..L : /\ heap[entries[j]] # Null
                        /\ index[heap[entries[j]].key] = entries[j]
    BY <1>0, Zenon DEF ListInv, IndexListAgree
  <2> QED  BY <1>0, <2>1
<1>4. \A j \in 2..L + 1 : j - 1 \in 1..L /\ entries'[j] = entries[j - 1]
  BY ONLY <1>0, <1>1
<1>4a. \A j \in 1..L : j + 1 \in 1..L + 1 /\ entries'[j + 1] = entries[j]
  <2>1. \A j \in 1..L : j + 1 \in 1..L + 1
    BY ONLY <1>0
  <2> QED  BY <2>1
<1>5. IndexListAgree'
  <2>0. \A p, q \in 1..L : entries[p] = entries[q] => p = q
    BY <1>0, Zenon DEF ListInv, IndexListAgree
  <2>1. ASSUME NEW p \in 1..L + 1, NEW q \in 1..L + 1, entries'[p] = entries'[q]
        PROVE  p = q
    <3>1. CASE p = 1 /\ q = 1
      BY <3>1
    <3>2. CASE p # 1 /\ q # 1
      <4>1. p \in 2..L + 1 /\ q \in 2..L + 1
        BY <1>0, <3>2
      <4>2. entries[p - 1] = entries[q - 1] /\ p - 1 \in 1..L /\ q - 1 \in 1..L
        BY <1>4, <2>1, <4>1
      <4>3. p - 1 = q - 1
        BY <2>0, <4>2
      <4> QED  BY <4>1, <4>3
    <3>3. CASE p = 1 /\ q # 1
      <4>1. q \in 2..L + 1
        BY <1>0, <3>3
      <4>2. entries'[q] # n
        BY ONLY <1>3, <1>4, <4>1
      <4> QED  BY <2>1, <3>3, <4>2
    <3>4. CASE p # 1 /\ q = 1
      <4>1. p \in 2..L + 1
        BY <1>0, <3>4
      <4>2. entries'[p] # n
        BY ONLY <1>3, <1>4, <4>1
      <4> QED  BY <2>1, <3>4, <4>2
    <3> QED  BY <3>1, <3>2, <3>3, <3>4
  <2>2. ASSUME NEW j \in 1..L + 1
        PROVE  /\ heap'[entries'[j]] # Null
               /\ index'[heap'[entries'[j]].key] = entries'[j]
    <3>1. CASE j = 1
      BY <1>1, <1>2, <3>1
    <3>2. CASE j # 1
      <4> DEFINE f == heap[entries[j - 1]]
      <4>1. j \in 2..L + 1 /\ j - 1 \in 1..L
        BY <1>0, <3>2
      <4>2. /\ entries'[j] = entries[j - 1] /\ heap'[entries[j - 1]] = f
            /\ f # Null /\ index[f.key] = entries[j - 1] /\ f \in Entry
            /\ entries[j - 1] \in Node
        BY <1>0, <1>1, <1>3, <4>1
      <4> HIDE DEF f
      <4>3. f.key \in Key /\ f.key # e.key
        <5>1. f.key \in Key
          BY ONLY <4>2 DEF Entry
        <5>2. entries[j - 1] # Null
          BY ONLY <4>2, LruAssumption
        <5>3. index[e.key] = Null
          OBVIOUS
        <5> QED  BY ONLY <4>2, <5>1, <5>2, <5>3
      <4> QED  BY <1>2, <4>2, <4>3
    <3> QED  BY <3>1, <3>2
  <2>3. ASSUME NEW m \in Key, index'[m] # Null
        PROVE  \E j \in 1..L + 1 : index'[m] = entries'[j] /\ heap'[entries'[j]].key = m
    <3>1. CASE m = e.key
      <4>1. 1 \in 1..L + 1
        BY <1>0
      <4> QED  BY <1>1, <1>2, <3>1, <4>1
    <3>2. CASE m # e.key
      <4>1. index'[m] = index[m]
        BY <1>2, <3>2
      <4>2. PICK p \in 1..L : index[m] = entries[p] /\ heap[entries[p]].key = m
        BY <1>0, <2>3, <4>1, Zenon DEF ListInv, IndexListAgree
      <4>3. p + 1 \in 1..L + 1 /\ entries'[p + 1] = entries[p]
        BY ONLY <1>4a, <4>2
      <4>4. heap'[entries[p]] = heap[entries[p]]
        BY ONLY <1>3, <4>2
      <4> QED  BY ONLY <4>1, <4>2, <4>3, <4>4
    <3> QED  BY <3>1, <3>2
  <2>4. ASSUME NEW x \in Node, heap'[x] # Null PROVE \E j \in 1..L + 1 : entries'[j] = x
    <3>1. CASE x = n
      <4>1. 1 \in 1..L + 1
        BY <1>0
      <4> QED  BY <1>1, <3>1, <4>1
    <3>2. CASE x # n
      <4>1. PICK p \in 1..L : entries[p] = x
        BY <1>0, <1>2, <2>4, <3>2 DEF ListInv, IndexListAgree
      <4>2. p + 1 \in 1..L + 1 /\ entries'[p + 1] = entries[p]
        BY ONLY <1>4a, <4>1
      <4> QED  BY ONLY <4>1, <4>2
    <3> QED  BY <3>1, <3>2
  <2> QED  BY <1>1, <2>1, <2>2, <2>3, <2>4, Zenon DEF IndexListAgree
<1>6. /\ Costs' = [j \in 1..L + 1 |-> entry_cost(heap'[entries'[j]])]
      /\ Payloads' = [j \in 1..L + 1 |-> payload(heap'[entries'[j]])]
  BY <1>1 DEF Costs, Payloads
<1>7. \A j \in 1..L + 1 : heap'[entries'[j]] \in Entry
  <2> TAKE j \in 1..L + 1
  <2>1. CASE j = 1
    BY <1>1, <1>2, <2>1
  <2>2. CASE j # 1
    <3>1. j \in 2..L + 1 /\ j - 1 \in 1..L
      BY <1>0, <2>2
    <3>2. heap'[entries'[j]] = heap[entries[j - 1]]
      BY <1>3, <1>4, <3>1
    <3> QED  BY <1>0, <3>1, <3>2
  <2> QED  BY <2>1, <2>2
<1>8. Costs' \in [1..L + 1 -> Nat] /\ Payloads' \in [1..L + 1 -> Nat]
  BY <1>6, <1>7, CostTypes
<1>9. /\ Costs'[1] = entry_cost(e) /\ Payloads'[1] = payload(e)
      /\ \A j \in 1..L : Costs'[j + 1] = Costs[j] /\ Payloads'[j + 1] = Payloads[j]
  <2>1. 1 \in 1..L + 1 /\ \A j \in 1..L : j + 1 \in 1..L + 1
    BY <1>0
  <2>2. \A j \in 1..L : /\ Costs[j] = entry_cost(heap[entries[j]])
                        /\ Payloads[j] = payload(heap[entries[j]])
    BY <1>0 DEF Costs, Payloads
  <2>3. heap'[entries'[1]] = e
    BY <1>1, <1>2
  <2>4. \A j \in 1..L : heap'[entries'[j + 1]] = heap[entries[j]]
    BY <1>1, <1>3
  <2> QED  BY <1>6, <2>1, <2>2, <2>3, <2>4
<1>10. HasSum(Costs, L, bytes) /\ HasSum(Payloads, L, payload_bytes)
  BY DEF ListInv
<1>11. HasSum(Costs', L + 1, bytes')
  <2>1. HasSum(Costs', L + 1, bytes + Costs'[1])
    <3> HIDE DEF L
    <3> QED  BY ONLY <1>0, <1>8, <1>9, <1>10, HasSumCons, Zenon
  <2> QED  BY <1>9, <2>1
<1>12. HasSum(Payloads', L + 1, payload_bytes')
  <2>1. HasSum(Payloads', L + 1, payload_bytes + Payloads'[1])
    <3> HIDE DEF L
    <3> QED  BY ONLY <1>0, <1>8, <1>9, <1>10, HasSumCons, Zenon
  <2> QED  BY <1>9, <2>1
<1>13. IsFiniteSet(Indexed') /\ WithinLimits'
  <2>1. Indexed' = Indexed \cup {e.key} /\ e.key \notin Indexed
    BY <1>2 DEF Indexed
  <2>2. IsFiniteSet(Indexed)
    BY DEF ListInv
  <2>3. IsFiniteSet(Indexed') /\ Cardinality(Indexed') = Cardinality(Indexed) + 1
    BY <2>1, <2>2, FS_AddElement
  <2> QED  BY <2>3 DEF WithinLimits, IndexSize, Indexed
<1> QED  BY <1>1, <1>2, <1>5, <1>11, <1>12, <1>13 DEF ListInv

\* Steps that leave list, index and counters alone keep the list invariant.
LEMMA ListStutter ==
    ASSUME ListInv, UNCHANGED <<entries, heap, index, bytes, payload_bytes>>
    PROVE  ListInv'
  BY DEF ListInv, IndexListAgree, Costs, Payloads, Indexed, WithinLimits, IndexSize

\* Every step of the cache keeps the invariant.
LEMMA NextInv == LruInv /\ [Next]_vars => LruInv'
<1> SUFFICES ASSUME LruInv, [Next]_vars PROVE LruInv'
  OBVIOUS
<1>0. ListInv /\ PendingInv /\ evictions \in Nat
  BY DEF LruInv
<1>1. ASSUME NEW k \in Key, get(k) PROVE LruInv'
  <2>1. CASE index[k] = Null
    <3>1. UNCHANGED <<entries, heap, index, bytes, payload_bytes>>
      BY <1>1, <2>1 DEF get
    <3>2. ListInv'
      BY <1>0, <3>1, ListStutter
    <3> QED  BY <1>0, <1>1, <3>2 DEF get, Unlocked, LruInv, PendingInv
  <2>2. CASE index[k] # Null
    <3>1. PICK i \in 1..Len(entries) : index[k] = entries[i]
      BY <1>0, <2>2, CostsTypes DEF ListInv, IndexListAgree
    <3>2. entries' = Promoted(entries, i)
      BY <1>1, <2>2, <3>1 DEF get, Promoted
    <3>3. /\ entries \in Seq(Node)
          /\ \A p, q \in 1..Len(entries) : entries[p] = entries[q] => p = q
      BY <1>0, CostsTypes DEF ListInv, IndexListAgree
    <3>4. /\ entries' \in Seq(Node) /\ Len(entries') = Len(entries)
          /\ \A j \in 1..Len(entries) : entries'[j] = entries[Source(i, j)]
      BY <3>1, <3>2, <3>3, PromoteFacts
    <3>5. heap' = heap /\ index' = index /\ bytes' = bytes /\ payload_bytes' = payload_bytes
      BY <1>1 DEF get
    <3>6. ListInv'
      BY <1>0, <3>4, <3>5, Promote
    <3> QED  BY <1>0, <1>1, <3>6 DEF get, Unlocked, LruInv, PendingInv
  <2> QED  BY <2>1, <2>2
<1>2. ASSUME NEW k \in Key, erase(k) PROVE LruInv'
  <2>1. ListInv'
    <3>1. CASE index[k] = Null
      BY <1>0, <1>2, <3>1, ListStutter DEF erase
    <3>2. CASE index[k] # Null
      BY <1>0, <1>2, <3>2, EraseLocked DEF erase
    <3> QED  BY <3>1, <3>2
  <2> QED  BY <1>0, <1>2, <2>1 DEF erase, Unlocked, LruInv, PendingInv
<1>3. ASSUME NEW k \in Key, contains(k) PROVE LruInv'
  <2>1. ListInv'
    BY <1>0, <1>3, ListStutter DEF contains
  <2> QED  BY <1>0, <1>3, <2>1 DEF contains, Unlocked, LruInv, PendingInv
<1>4. ASSUME NEW e \in Entry, put_reject(e) PROVE LruInv'
  <2>1. ListInv'
    BY <1>0, <1>4, ListStutter DEF put_reject
  <2> QED  BY <1>0, <1>4, <2>1 DEF put_reject, Unlocked, LruInv, PendingInv
<1>5. ASSUME NEW e \in Entry, put_begin(e) PROVE LruInv'
  <2>0. e.key \in Key
    BY DEF Entry
  <2>1. ListInv' /\ index'[e.key] = Null
    <3>1. CASE index[e.key] = Null
      BY <1>0, <1>5, <3>1, ListStutter DEF put_begin
    <3>2. CASE index[e.key] # Null
      BY <1>0, <1>5, <2>0, <3>2, EraseLocked DEF put_begin
    <3> QED  BY <3>1, <3>2
  <2>2. putting' = e /\ PutStatus(e) = "kStored" /\ evictions' = evictions
    BY <1>5 DEF put_begin
  <2>3. PendingInv'
    BY <2>1, <2>2 DEF PendingInv, PutStatus, entry_cost
  <2> QED  BY <1>0, <2>1, <2>2, <2>3 DEF LruInv
<1>6. ASSUME evict_lru_locked PROVE LruInv'
  <2> DEFINE k == heap[entries[Len(entries)]].key
  <2>1. k \in Key /\ index[k] # Null
    <3>1. Len(entries) \in 1..Len(entries)
      BY <1>0, <1>6 DEF evict_lru_locked, MustEvict, ListInv
    <3>2. /\ heap[entries[Len(entries)]] \in Entry /\ entries[Len(entries)] \in Node
          /\ index[k] = entries[Len(entries)]
      BY <1>0, <3>1, CostsTypes DEF ListInv, IndexListAgree
    <3> QED  BY <3>2, LruAssumption DEF Entry
  <2>2. erase_locked(k) /\ putting' = putting /\ putting # Null /\ evictions' = evictions + 1
    BY <1>6 DEF evict_lru_locked
  <2> HIDE DEF k
  <2>3. ListInv' /\ \A m \in Key : index[m] = Null => index'[m] = Null
    BY <1>0, <2>1, <2>2, EraseLocked
  <2>4. PendingInv'
    BY <1>0, <2>2, <2>3 DEF PendingInv, PutStatus, entry_cost, Entry
  <2> QED  BY <1>0, <2>2, <2>3, <2>4 DEF LruInv
<1>7. ASSUME put_insert PROVE LruInv'
  <2>1. /\ putting \in Entry /\ putting.key \in Key
        /\ index[putting.key] = Null /\ PutStatus(putting) = "kStored"
    BY <1>0, <1>7 DEF put_insert, PendingInv, Entry
  <2>2. PICK n \in Node : /\ heap[n] = Null
                          /\ entries' = <<n>> \o entries
                          /\ heap' = [heap EXCEPT ![n] = putting]
                          /\ index' = [index EXCEPT ![putting.key] = n]
    BY <1>7, Zenon DEF put_insert
  <2>3. entries \in Seq(Node) /\ Len(entries) \in Nat
    BY <1>0, CostsTypes DEF ListInv
  <2>4. /\ entries' \in Seq(Node) /\ Len(entries') = Len(entries) + 1 /\ entries'[1] = n
        /\ \A j \in 1..Len(entries) : entries'[j + 1] = entries[j]
    BY <2>2, <2>3, ConsFacts
  <2>5. /\ heap' \in [Node -> Entry \cup {Null}]
        /\ \A x \in Node : heap'[x] = IF x = n THEN putting ELSE heap[x]
        /\ index' \in [Key -> Node \cup {Null}]
        /\ \A m \in Key : index'[m] = IF m = putting.key THEN n ELSE index[m]
    BY <1>0, <2>1, <2>2 DEF ListInv
  <2>6. /\ bytes' = bytes + entry_cost(putting)
        /\ payload_bytes' = payload_bytes + payload(putting)
    BY <1>7 DEF put_insert
  \* The loop ended with room, or with an empty cache in which the entry fits.
  <2>7. IndexSize + 1 <= MaxEntries /\ bytes + entry_cost(putting) <= MaxBytes
    <3>1. entry_cost(putting) \in Nat /\ bytes \in Nat
      BY <1>0, <2>1, CostTypes, CountersExact
    <3>2. IndexSize \in Nat
      BY <1>0, FS_CardinalityType DEF ListInv, IndexSize, Indexed
    <3>3. CASE entries # <<>>
      <4>1. ~(IndexSize + 1 > MaxEntries) /\ ~(bytes + entry_cost(putting) > MaxBytes)
        BY <1>7, <3>3 DEF put_insert, MustEvict
      <4> QED  BY <3>1, <3>2, <4>1, LruAssumption
    <3>4. CASE entries = <<>>
      <4>1. Indexed = {}
        BY <1>0, <3>4 DEF ListInv, IndexListAgree, Indexed
      <4>2. IndexSize = 0
        BY <4>1, FS_EmptySet DEF IndexSize, Indexed
      <4>3. bytes = 0
        BY <1>0, <3>4 DEF ListInv, HasSum, IsSums
      <4>4. ~(entry_cost(putting) > MaxBytes) /\ MaxEntries # 0
        BY <2>1 DEF PutStatus
      <4> QED  BY <3>1, <4>2, <4>3, <4>4, LruAssumption
    <3> QED  BY <3>3, <3>4
  <2>8. heap[n] = Null
    BY <2>2
  <2>9. ListInv'
    BY <1>0, <2>1, <2>4, <2>5, <2>6, <2>7, <2>8, Insert
  <2> QED  BY <1>0, <1>7, <2>9 DEF put_insert, LruInv, PendingInv
<1>8. ASSUME clear PROVE LruInv'
  <2>1. ListInv'
    <3>1. entries' = <<>> /\ bytes' = 0 /\ payload_bytes' = 0
      BY <1>8 DEF clear
    <3>2. index' = [k \in Key |-> Null] /\ heap' = [n \in Node |-> Null]
      BY <1>8 DEF clear
    <3>3. Indexed' = {}
      BY <3>2 DEF Indexed
    <3>4. IsFiniteSet(Indexed') /\ Cardinality(Indexed') = 0
      BY <3>3, FS_EmptySet
    <3>5. /\ IsSums([i \in 0..0 |-> 0], Costs', Len(entries'))
          /\ IsSums([i \in 0..0 |-> 0], Payloads', Len(entries'))
      BY <3>1 DEF IsSums
    <3>6. /\ HasSum(Costs', Len(entries'), bytes')
          /\ HasSum(Payloads', Len(entries'), payload_bytes')
      BY <3>1, <3>5 DEF HasSum
    <3>7. IndexListAgree'
      BY <3>1, <3>2 DEF IndexListAgree
    <3>8. WithinLimits'
      BY <3>1, <3>4, LruAssumption DEF WithinLimits, IndexSize, Indexed
    <3> QED  BY <3>1, <3>2, <3>4, <3>6, <3>7, <3>8 DEF ListInv
  <2> QED  BY <1>0, <1>8, <2>1 DEF clear, Unlocked, LruInv, PendingInv
<1>9. ASSUME snapshot PROVE LruInv'
  <2>1. ListInv'
    BY <1>0, <1>9, ListStutter DEF snapshot
  <2> QED  BY <1>0, <1>9, <2>1 DEF snapshot, Unlocked, LruInv, PendingInv
<1>10. ASSUME keys_mru_to_lru PROVE LruInv'
  <2>1. ListInv'
    BY <1>0, <1>10, ListStutter DEF keys_mru_to_lru
  <2> QED  BY <1>0, <1>10, <2>1 DEF keys_mru_to_lru, Unlocked, LruInv, PendingInv
<1>11. ASSUME UNCHANGED vars PROVE LruInv'
  <2>1. ListInv'
    BY <1>0, <1>11, ListStutter DEF vars
  <2> QED  BY <1>0, <1>11, <2>1 DEF vars, LruInv, PendingInv, PutStatus, entry_cost
<1> QED  BY <1>1, <1>2, <1>3, <1>4, <1>5, <1>6, <1>7, <1>8, <1>9, <1>10, <1>11 DEF Next

\* The state of the cache always has its type; in particular neither byte
\* counter, a size_t in the code, is ever taken below zero.
THEOREM TypeCorrect == Spec => []TypeOK
<1>1. LruInv => TypeOK
  BY InvImplies
<1> QED  BY <1>1, InitInv, NextInv, PTL DEF Spec

\* The list and the index always describe the same entries.
THEOREM ListAndIndexAgree == Spec => []IndexListAgree
<1>1. LruInv => IndexListAgree
  BY InvImplies
<1> QED  BY <1>1, InitInv, NextInv, PTL DEF Spec

\* Both byte counters are always exact sums over the stored entries.
THEOREM AccountingIsExact == Spec => []AccountingExact
<1>1. LruInv => AccountingExact
  BY InvImplies
<1> QED  BY <1>1, InitInv, NextInv, PTL DEF Spec

\* Neither limit is ever exceeded, in the middle of a put either.
THEOREM LimitsHold == Spec => []WithinLimits
<1>1. LruInv => WithinLimits
  BY InvImplies
<1> QED  BY <1>1, InitInv, NextInv, PTL DEF Spec
=============================================================================
