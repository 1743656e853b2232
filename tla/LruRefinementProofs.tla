------------------------ MODULE LruRefinementProofs ------------------------
(***************************************************************************)
(* The proof that LruCache implements ExactLru, for every value of the     *)
(* constants.                                                              *)
(***************************************************************************)
EXTENDS LruRefinement, LruCacheProofs

\* The entries in recency order: as many as the index counts, with distinct keys,
\* and exactly the keys that are indexed.
LEMMA ContentsFacts ==
    ASSUME ListInv
    PROVE  /\ Len(entries) \in Nat /\ DOMAIN entries = 1..Len(entries)
           /\ Contents \in Seq(Entry) /\ Len(Contents) = Len(entries)
           /\ \A i \in 1..Len(entries) : Contents[i] = heap[entries[i]] /\ Contents[i].key \in Key
           /\ \A i, j \in 1..Len(entries) : Contents[i].key = Contents[j].key => i = j
           /\ \A k \in Key : index[k] # Null <=> \E i \in 1..Len(entries) : Contents[i].key = k
           /\ IndexSize = Len(entries)
<1> DEFINE L == Len(entries)
<1>1. /\ L \in Nat /\ DOMAIN entries = 1..L
      /\ \A i \in 1..L : entries[i] \in Node /\ heap[entries[i]] \in Entry
  BY CostsTypes
<1>2. Contents = [i \in 1..L |-> heap[entries[i]]]
  BY <1>1 DEF Contents
<1>3. Contents \in Seq(Entry) /\ Len(Contents) = L
  BY <1>1, <1>2
<1>4. \A i \in 1..L : Contents[i] = heap[entries[i]] /\ Contents[i].key \in Key
  BY <1>1, <1>2 DEF Entry
<1>5. /\ \A i \in 1..L : index[Contents[i].key] = entries[i]
      /\ \A i, j \in 1..L : entries[i] = entries[j] => i = j
      /\ \A k \in Key : index[k] # Null => \E i \in 1..L : heap[entries[i]].key = k
  BY <1>1, <1>4 DEF ListInv, IndexListAgree
<1>6. \A i, j \in 1..L : Contents[i].key = Contents[j].key => i = j
  BY <1>5
<1>7. \A k \in Key : index[k] # Null <=> \E i \in 1..L : Contents[i].key = k
  BY <1>1, <1>4, <1>5, LruAssumption
<1>8. IndexSize = L
  <2> DEFINE f == [i \in 1..L |-> Contents[i].key]
             T == {k \in Key : index[k] # Null}
  <2>1. f \in [1..L -> T] /\ \A i \in 1..L : f[i] = Contents[i].key
    BY <1>4, <1>7
  <2>2. \A k \in T : \E i \in 1..L : f[i] = k
    BY <1>7
  <2>3. \A i, j \in 1..L : f[i] = f[j] => i = j
    BY <1>6
  <2> HIDE DEF f, T, L
  <2>4. f \in Bijection(1..L, T)
    BY <2>1, <2>2, <2>3 DEF Bijection, Injection, Surjection, IsInjective
  <2>5. Cardinality(T) = L
    BY <1>1, <2>4, FS_CountingElements DEF ExistsBijection
  <2> QED  BY <2>5 DEF IndexSize, T
<1> QED  BY <1>1, <1>3, <1>4, <1>6, <1>7, <1>8

\* A bounded nonempty set of naturals has a maximum.
LEMMA MaxFacts ==
    ASSUME NEW n \in Nat, NEW T \in SUBSET (0..n), T # {}
    PROVE  Max(T) \in T /\ \A t \in T : t <= Max(T)
<1> DEFINE U == {n - t : t \in T}
<1>1. U \in SUBSET Nat /\ U # {}
  <2>1. \A t \in T : t \in 0..n /\ n - t \in Nat
    OBVIOUS
  <2> QED  BY <2>1, Zenon
<1>2. PICK m \in U : \A u \in U : m <= u
  <2> HIDE DEF U
  <2> QED  BY <1>1, LeastNat
<1>3. PICK x \in T : m = n - x
  OBVIOUS
<1>4. \A t \in T : x >= t
  <2> TAKE t \in T
  <2>1. m <= n - t
    BY <1>2
  <2> QED  BY <1>3, <2>1
<1>5. Max(T) \in T /\ \A t \in T : Max(T) >= t
  BY <1>4, Zenon DEF Max
<1>6. \A t \in T : t \in Int
  OBVIOUS
<1> QED  BY <1>5, <1>6

\* The running totals of a prefix are a prefix of the running totals.
LEMMA SumsOfPrefix ==
    ASSUME NEW c \in Seq(Nat), NEW s, IsSums(s, c, Len(c)), NEW m \in 0..Len(c)
    PROVE  /\ Len(SubSeq(c, 1, m)) = m
           /\ \A n \in 0..m : PrefixSums(SubSeq(c, 1, m))[n] = PrefixSums(c)[n]
<1> DEFINE d == SubSeq(c, 1, m)
           t == [i \in 0..m |-> s[i]]
<1>1. d \in Seq(Nat) /\ Len(d) = m /\ \A i \in 1..m : d[i] = c[i]
  OBVIOUS
<1>2. m \in Nat /\ Len(c) \in Nat /\ m <= Len(c)
  OBVIOUS
<1>3. \A i \in 0..m : i \in 0..Len(c) /\ s[i] \in Int
  BY <1>2 DEF IsSums
<1>4. \A i \in 1..m : i \in 0..m /\ i - 1 \in 0..m /\ i \in 1..Len(c)
  BY <1>2
<1>5. t \in [0..m -> Int] /\ t[0] = 0
  BY <1>2, <1>3 DEF IsSums
<1>6. \A i \in 1..m : t[i] = t[i - 1] + d[i]
  BY <1>1, <1>4 DEF IsSums
<1>7. IsSums(t, d, m)
  BY <1>5, <1>6 DEF IsSums
<1>8. \A n \in 0..m : t[n] = s[n]
  OBVIOUS
<1>9. \A n \in 0..Len(c) : PrefixSums(c)[n] = s[n]
  BY PrefixSumsIs
<1> HIDE DEF d, t
<1>10. \A n \in 0..m : PrefixSums(d)[n] = t[n]
  BY <1>1, <1>7, PrefixSumsIs
<1> QED  BY <1>1, <1>3, <1>8, <1>9, <1>10 DEF d

\* Sums, as the abstract specification writes them.
LEMMA TotalIs ==
    ASSUME NEW c \in Seq(Nat), NEW total, HasSum(c, Len(c), total)
    PROVE  /\ Abstract!Total(c) = total
           /\ \A n \in 0..Len(c) : Abstract!Total(SubSeq(c, 1, n)) = PrefixSums(c)[n]
<1>1. PICK s : IsSums(s, c, Len(c)) /\ s[Len(c)] = total
  BY DEF HasSum
<1>2. \A d : Abstract!Total(d) = PrefixSums(d)[Len(d)]
  BY DEF Abstract!Total, PrefixSums
<1>3. \A n \in 0..Len(c) : PrefixSums(c)[n] = s[n]
  BY <1>1, PrefixSumsIs
<1>4. ASSUME NEW n \in 0..Len(c)
      PROVE  /\ Len(SubSeq(c, 1, n)) = n
             /\ PrefixSums(SubSeq(c, 1, n))[n] = PrefixSums(c)[n]
  <2>1. n \in 0..n
    OBVIOUS
  <2> QED  BY <1>1, <2>1, SumsOfPrefix
<1>5. Len(c) \in 0..Len(c)
  OBVIOUS
<1> QED  BY <1>1, <1>2, <1>3, <1>4, <1>5, Zenon

\* The abstract view of the map, while no put is in progress.
LEMMA AbstractIndex ==
    ASSUME ListInv, Unlocked, NEW k \in Key
    PROVE  /\ Abstract!Present(k) <=> index[k] # Null
           /\ index[k] = Null => Abstract!Without(k) = Contents
           /\ \A i \in 1..Len(entries) : Contents[i].key = k =>
                 /\ Abstract!At(k) = Contents[i]
                 /\ Abstract!Without(k) = Unlink(Contents, Contents[i])
<1>1. recencyBar = Contents
  BY DEF recencyBar
<1>2. /\ Len(entries) \in Nat
      /\ Contents \in Seq(Entry) /\ Len(Contents) = Len(entries)
      /\ \A i, j \in 1..Len(entries) : Contents[i].key = Contents[j].key => i = j
      /\ index[k] # Null <=> \E i \in 1..Len(entries) : Contents[i].key = k
  BY ContentsFacts
<1>3. DOMAIN Contents = 1..Len(entries)
  BY <1>2
<1>4. Abstract!Present(k) <=> index[k] # Null
  BY <1>1, <1>2, <1>3 DEF Abstract!Present
<1>5. ASSUME NEW i \in 1..Len(entries), Contents[i].key = k
      PROVE  /\ Abstract!At(k) = Contents[i]
             /\ Abstract!Without(k) = Unlink(Contents, Contents[i])
  <2>1. Abstract!Position(k) = i
    BY <1>1, <1>2, <1>3, <1>5 DEF Abstract!Position
  <2>2. (CHOOSE j \in DOMAIN Contents : Contents[j] = Contents[i]) = i
    BY <1>2, <1>3, <1>5
  <2>3. Abstract!Present(k)
    BY <1>2, <1>4, <1>5
  <2>4. Unlink(Contents, Contents[i])
          = SubSeq(Contents, 1, i - 1) \o SubSeq(Contents, i + 1, Len(Contents))
    BY <2>2, Zenon DEF Unlink
  <2>5. Abstract!Without(k)
          = SubSeq(Contents, 1, i - 1) \o SubSeq(Contents, i + 1, Len(Contents))
    BY <1>1, <2>1, <2>3, Zenon DEF Abstract!Without
  <2> QED  BY <1>1, <2>1, <2>4, <2>5 DEF Abstract!At
<1>6. index[k] = Null => Abstract!Without(k) = Contents
  BY <1>1, <1>4 DEF Abstract!Without
<1> QED  BY <1>4, <1>5, <1>6

\* Erasing a key takes its entry out of the contents and keeps the others in order.
LEMMA EraseContents ==
    ASSUME ListInv, NEW k \in Key, index[k] # Null, erase_locked(k)
    PROVE  \E i \in 1..Len(entries) : /\ Contents[i].key = k
                                      /\ Contents' = Unlink(Contents, Contents[i])
                                      /\ Len(Contents') = Len(entries) - 1
                                      /\ Len(entries') = Len(entries) - 1
<1> DEFINE L == Len(entries)
<1>1. /\ L \in Nat /\ Contents \in Seq(Entry) /\ Len(Contents) = L
      /\ \A i \in 1..L : Contents[i] = heap[entries[i]]
      /\ \A i, j \in 1..L : Contents[i].key = Contents[j].key => i = j
  BY ContentsFacts
<1>2. ListInv'
  BY EraseLocked
<1>3. PICK i \in 1..L : /\ heap[entries[i]].key = k
                        /\ Len(entries') = L - 1
                        /\ \A j \in 1..L - 1 :
                             heap'[entries'[j]] = heap[entries[IF j < i THEN j ELSE j + 1]]
  BY EraseLocked
<1> DEFINE r == Unlink(Contents, Contents[i])
<1>4. /\ r \in Seq(Entry) /\ Len(r) = L - 1
      /\ \A j \in 1..L - 1 : r[j] = IF j < i THEN Contents[j] ELSE Contents[j + 1]
  BY <1>1, UnlinkFacts
<1> HIDE DEF r
<1>5. DOMAIN entries' = 1..L - 1
  BY <1>2, <1>3 DEF ListInv
<1>6. Contents' = [j \in 1..L - 1 |-> heap'[entries'[j]]]
  BY <1>5 DEF Contents
<1>7. ASSUME NEW j \in 1..L - 1 PROVE heap'[entries'[j]] = r[j]
  <2>1. j \in 1..L /\ j + 1 \in 1..L
    BY <1>1
  <2> QED  BY <1>1, <1>3, <1>4, <2>1
<1>8. Contents' = r
  <2> HIDE DEF L
  <2>1. r = [j \in 1..L - 1 |-> r[j]]
    BY <1>4
  <2> QED  BY <1>6, <1>7, <2>1
<1> QED  BY <1>1, <1>3, <1>4, <1>8 DEF r

\* get() is Get.
LEMMA GetRefines ==
    ASSUME LruInv, NEW k \in Key, get(k)
    PROVE  Abstract!Get(k)
<1>0. ListInv
  BY DEF LruInv
<1>1. Unlocked /\ Unlocked'
  BY DEF get, Unlocked
<1>2. /\ recencyBar = Contents /\ recencyBar' = Contents'
      /\ evictionsBar = evictions /\ evictionsBar' = evictions' /\ retBar' = ret'
  BY <1>1 DEF recencyBar, evictionsBar, retBar
<1>3. evictions' = evictions /\ heap' = heap
  BY DEF get
<1>4. CASE index[k] = Null
  <2>1. entries' = entries /\ ret' = [op |-> "get", key |-> k, hit |-> FALSE]
    BY <1>4 DEF get
  <2>2. Contents' = Contents
    BY <1>3, <2>1 DEF Contents
  <2>3. ~Abstract!Present(k)
    BY <1>0, <1>1, <1>4, AbstractIndex
  <2> QED  BY <1>2, <1>3, <2>1, <2>2, <2>3 DEF Abstract!Get
<1>5. CASE index[k] # Null
  <2> DEFINE L == Len(entries)
  <2>1. /\ L \in Nat /\ DOMAIN entries = 1..L
        /\ Contents \in Seq(Entry) /\ Len(Contents) = L
        /\ \A i \in 1..L : Contents[i] = heap[entries[i]]
        /\ \A i, j \in 1..L : Contents[i].key = Contents[j].key => i = j
    BY <1>0, ContentsFacts
  <2>2. PICK i \in 1..L : index[k] = entries[i] /\ heap[entries[i]].key = k
    BY <1>0, <1>5, <2>1 DEF ListInv, IndexListAgree
  <2>3. /\ entries \in Seq(Node)
        /\ \A p, q \in 1..L : entries[p] = entries[q] => p = q
    BY <1>0, <2>1 DEF ListInv, IndexListAgree
  <2>4. /\ entries' = Promoted(entries, i)
        /\ ret' = [op |-> "get", key |-> k, hit |-> TRUE, value |-> heap[entries[i]].value]
    BY <1>5, <2>2 DEF get, Promoted
  <2>5. /\ entries' \in Seq(Node) /\ Len(entries') = L
        /\ \A j \in 1..L : entries'[j] = entries[Source(i, j)]
    BY <2>2, <2>3, <2>4, PromoteFacts
  <2>6. \A p, q \in 1..Len(Contents) : Contents[p] = Contents[q] => p = q
    BY <2>1
  <2> DEFINE r == Promoted(Contents, i)
  <2>7. /\ r \in Seq(Entry) /\ Len(r) = L
        /\ \A j \in 1..L : r[j] = Contents[Source(i, j)]
    BY <2>1, <2>2, <2>6, PromoteFacts
  <2> HIDE DEF r
  <2>8. DOMAIN entries' = 1..L /\ \A j \in 1..L : entries'[j] = entries[Source(i, j)]
    BY <2>1, <2>5
  <2>9. Contents' = [j \in 1..L |-> heap[entries[Source(i, j)]]]
    BY <1>3, <2>8 DEF Contents
  <2>10. \A j \in 1..L : heap[entries[Source(i, j)]] = r[j]
    <3>1. \A j \in 1..L : Source(i, j) \in 1..L
      BY <2>1, SourceFacts
    <3> QED  BY <2>1, <2>7, <3>1
  <2>11. Contents' = r
    BY <2>1, <2>7, <2>9, <2>10
  <2>12. /\ Abstract!Present(k) /\ Abstract!At(k) = Contents[i]
         /\ Abstract!Without(k) = Unlink(Contents, Contents[i])
    BY <1>0, <1>1, <1>5, <2>1, <2>2, AbstractIndex
  <2>13. /\ recencyBar' = <<Abstract!At(k)>> \o Abstract!Without(k)
         /\ retBar' = [op |-> "get", key |-> k, hit |-> TRUE, value |-> Abstract!At(k).value]
    BY <1>2, <2>1, <2>4, <2>11, <2>12, Zenon DEF r, Promoted
  <2> QED  BY <1>2, <1>3, <2>12, <2>13 DEF Abstract!Get
<1> QED  BY <1>4, <1>5

\* erase() is Erase.
LEMMA EraseRefines ==
    ASSUME LruInv, NEW k \in Key, erase(k)
    PROVE  Abstract!Erase(k)
<1>0. ListInv
  BY DEF LruInv
<1>1. Unlocked /\ Unlocked'
  BY DEF erase, Unlocked
<1>2. /\ recencyBar = Contents /\ recencyBar' = Contents'
      /\ evictionsBar = evictions /\ evictionsBar' = evictions' /\ retBar' = ret'
  BY <1>1 DEF recencyBar, evictionsBar, retBar
<1>3. evictions' = evictions /\ ret' = [op |-> "erase", key |-> k, erased |-> index[k] # Null]
  BY DEF erase
<1>4. Abstract!Present(k) <=> index[k] # Null
  BY <1>0, <1>1, AbstractIndex
<1>5. Contents' = Abstract!Without(k)
  <2>1. CASE index[k] = Null
    <3>1. Contents' = Contents
      BY <2>1 DEF erase, Contents
    <3> QED  BY <1>0, <1>1, <2>1, <3>1, AbstractIndex
  <2>2. CASE index[k] # Null
    <3>1. erase_locked(k)
      BY <2>2 DEF erase
    <3> QED  BY <1>0, <1>1, <2>2, <3>1, EraseContents, AbstractIndex
  <2> QED  BY <2>1, <2>2
<1>6. Abstract!Present(k) = (index[k] # Null)
  BY <1>4, Zenon DEF Abstract!Present
<1> QED  BY <1>2, <1>3, <1>5, <1>6 DEF Abstract!Erase

\* The prefixes that leave room for a new entry, as the two specifications write
\* them.
Room(n, c, e) == n + 1 <= MaxEntries /\ PrefixSums(c)[n] + entry_cost(e) <= MaxBytes

\* The abstract specification and the refinement mapping measure the same room.
LEMMA FitsIs ==
    ASSUME NEW q \in Seq(Entry), NEW e \in Entry, NEW total,
           NEW c \in Seq(Nat), c = [i \in 1..Len(q) |-> entry_cost(q[i])],
           HasSum(c, Len(c), total)
    PROVE  Abstract!Fits(q, e) = {n \in 0..Len(q) : Room(n, c, e)}
<1>1. DOMAIN q = 1..Len(q) /\ Len(c) = Len(q)
  OBVIOUS
<1>2. Abstract!Costs(q) = c
  BY <1>1 DEF Abstract!Costs
<1>3. \A n \in 0..Len(q) : Abstract!Total(SubSeq(c, 1, n)) = PrefixSums(c)[n]
  BY <1>1, TotalIs, Zenon
<1> QED  BY <1>2, <1>3 DEF Abstract!Fits, Room

\* The pending put always leaves some prefix of the list in place, perhaps the
\* empty one: it was not rejected.
LEMMA SurvivorsFacts ==
    ASSUME LruInv, putting # Null
    PROVE  /\ Survivors = Max({n \in 0..Len(entries) : Room(n, Costs, putting)})
           /\ Survivors \in 0..Len(entries)
           /\ Room(Survivors, Costs, putting)
           /\ \A n \in 0..Len(entries) : Room(n, Costs, putting) => n <= Survivors
<1> DEFINE T == {n \in 0..Len(entries) : Room(n, Costs, putting)}
<1>0. ListInv /\ putting \in Entry /\ PutStatus(putting) = "kStored"
  BY DEF LruInv, PendingInv
<1>1. Survivors = Max(T)
  BY DEF Survivors, Room
<1>2. Len(entries) \in Nat /\ Costs \in Seq(Nat) /\ Len(Costs) = Len(entries)
  BY <1>0, CostsTypes
<1>3. PrefixSums(Costs)[0] = 0
  <2>1. PICK s : IsSums(s, Costs, Len(entries))
    BY <1>0 DEF ListInv, HasSum
  <2>2. 0 \in 0..Len(Costs)
    BY <1>2
  <2>3. PrefixSums(Costs)[0] = s[0]
    BY <1>2, <2>1, <2>2, PrefixSumsIs
  <2> QED  BY <2>1, <2>3 DEF IsSums
<1>4. Room(0, Costs, putting)
  <2>1. ~(entry_cost(putting) > MaxBytes) /\ MaxEntries # 0
    BY <1>0 DEF PutStatus
  <2>2. entry_cost(putting) \in Nat
    BY <1>0, CostTypes
  <2> QED  BY <1>3, <2>1, <2>2, LruAssumption DEF Room
<1>5. T \in SUBSET (0..Len(entries)) /\ T # {}
  BY <1>2, <1>4
<1>6. Max(T) \in T /\ \A t \in T : t <= Max(T)
  <2> HIDE DEF T
  <2> QED  BY <1>2, <1>5, MaxFacts, Zenon
<1> QED  BY <1>1, <1>6

\* Taking the mutex for a put, and erasing the entry it replaces, is Put: the
\* victims are settled from then on.
LEMMA PutBeginRefines ==
    ASSUME LruInv, LruInv', NEW e \in Entry, put_begin(e)
    PROVE  Abstract!Put(e)
<1>0. ListInv /\ e.key \in Key /\ e # Null
  BY LruAssumption DEF LruInv, Entry
<1>1. /\ Unlocked /\ ~Unlocked' /\ putting' = e /\ PutStatus(e) = "kStored"
      /\ evictions' = evictions
  BY <1>0 DEF put_begin, Unlocked
<1>2. /\ recencyBar = Contents /\ evictionsBar = evictions
      /\ recencyBar' = <<e>> \o SubSeq(Contents', 1, Survivors')
      /\ evictionsBar' = evictions + (Len(entries') - Survivors')
      /\ retBar' = [op |-> "put", status |-> "kStored"]
  BY <1>1, Zenon DEF recencyBar, evictionsBar, retBar
<1>3. Abstract!Without(e.key) = Contents'
  <2>1. CASE index[e.key] = Null
    <3>1. Contents' = Contents
      BY <2>1 DEF put_begin, Contents
    <3> QED  BY <1>0, <1>1, <2>1, <3>1, AbstractIndex
  <2>2. CASE index[e.key] # Null
    <3>1. erase_locked(e.key)
      BY <2>2 DEF put_begin
    <3> QED  BY <1>0, <1>1, <2>2, <3>1, EraseContents, AbstractIndex
  <2> QED  BY <2>1, <2>2
<1>4. /\ entries' \in Seq(Node) /\ Len(entries') \in Nat /\ DOMAIN entries' = 1..Len(entries')
      /\ \A i \in 1..Len(entries') : heap'[entries'[i]] \in Entry
      /\ HasSum(Costs', Len(entries'), bytes')
  BY DEF LruInv, ListInv, IndexListAgree
<1> DEFINE q == Contents'
           c == Costs'
<1>5. /\ q = [i \in 1..Len(entries') |-> heap'[entries'[i]]]
      /\ c = [i \in 1..Len(entries') |-> entry_cost(heap'[entries'[i]])]
  BY <1>4 DEF Contents, Costs
<1>6. q \in Seq(Entry) /\ Len(q) = Len(entries')
  BY <1>4, <1>5
<1>7. c = [i \in 1..Len(q) |-> entry_cost(q[i])]
  BY <1>5, <1>6
<1>8. c \in Seq(Nat) /\ Len(c) = Len(q)
  <2>1. \A i \in 1..Len(q) : entry_cost(q[i]) \in Nat
    BY <1>4, <1>5, <1>6, CostTypes
  <2> QED  BY <1>4, <1>6, <1>7, <2>1
<1>9. Abstract!Fits(q, e) = {n \in 0..Len(q) : Room(n, c, e)}
  <2> HIDE DEF q, c
  <2>1. HasSum(c, Len(c), bytes')
    BY <1>4, <1>6, <1>8 DEF c
  <2> QED  BY <1>6, <1>7, <1>8, <2>1, FitsIs, ZenonT(30)
<1>10. Survivors' = Max({n \in 0..Len(entries') : Room(n, c, e)})
  BY <1>1 DEF Survivors, Room, entry_cost
<1>11. Survivors' = Max(Abstract!Fits(q, e))
  <2> HIDE DEF q, c
  <2> QED  BY <1>6, <1>9, <1>10
<1>12. Abstract!Max(Abstract!Fits(q, e)) = Max(Abstract!Fits(q, e))
  BY DEF Max, Abstract!Max
<1> HIDE DEF q, c
<1>13. Abstract!Without(e.key) = q /\ Len(q) = Len(entries')
  BY <1>3, <1>6 DEF q
<1>14. /\ recencyBar' = <<e>> \o SubSeq(q, 1, Survivors')
       /\ evictionsBar' = evictionsBar + (Len(q) - Survivors')
       /\ Survivors' = Abstract!Max(Abstract!Fits(q, e))
  BY <1>2, <1>11, <1>12, <1>13 DEF q
<1> QED  BY <1>1, <1>2, <1>13, <1>14, Zenon DEF Abstract!Put

\* An eviction inside a pending put changes nothing in the abstract state: its
\* victim is the last entry, which the put was not going to keep.
LEMMA EvictRefines ==
    ASSUME LruInv, LruInv', evict_lru_locked
    PROVE  UNCHANGED <<recencyBar, evictionsBar, retBar>>
<1> DEFINE L == Len(entries)
<1>0. ListInv /\ putting # Null /\ putting' = putting /\ evictions \in Nat
  BY DEF LruInv, evict_lru_locked
<1>1. /\ L \in Nat /\ Contents \in Seq(Entry) /\ Len(Contents) = L /\ IndexSize = L
      /\ \A i \in 1..L : Contents[i] = heap[entries[i]] /\ Contents[i].key \in Key
      /\ \A i, j \in 1..L : Contents[i].key = Contents[j].key => i = j
      /\ \A k \in Key : index[k] # Null <=> \E i \in 1..L : Contents[i].key = k
  BY <1>0, ContentsFacts
<1>2. L \in 1..L
  BY <1>0, <1>1 DEF evict_lru_locked, MustEvict, ListInv
<1> DEFINE k == heap[entries[L]].key
<1>3. k \in Key /\ k = Contents[L].key /\ index[k] # Null /\ erase_locked(k)
  BY <1>1, <1>2 DEF evict_lru_locked
<1> HIDE DEF k
<1>4. /\ Contents' = Unlink(Contents, Contents[L])
      /\ Len(entries') = L - 1 /\ Len(Contents') = L - 1
  BY <1>0, <1>1, <1>2, <1>3, EraseContents
<1>5. Contents' \in Seq(Entry) /\ \A j \in 1..L - 1 : Contents'[j] = Contents[j]
  <2>1. \A i, j \in 1..Len(Contents) : Contents[i] = Contents[j] => i = j
    BY <1>1
  <2> DEFINE r == Unlink(Contents, Contents[L])
  <2>2. /\ r \in Seq(Entry)
        /\ \A j \in 1..Len(Contents) - 1 : r[j] = IF j < L THEN Contents[j] ELSE Contents[j + 1]
    <3>1. L \in 1..Len(Contents) /\ Contents \in Seq(Entry)
      BY <1>1, <1>2
    <3> HIDE DEF L
    <3> QED  BY ONLY <2>1, <3>1, UnlinkFacts
  <2>3. Contents' = r
    BY <1>4
  <2> HIDE DEF r
  <2> QED  BY <1>1, <2>2, <2>3
<1>6. /\ L - 1 \in Nat /\ DOMAIN entries' = 1..L - 1
      /\ \A j \in 1..L - 1 : heap'[entries'[j]] = Contents'[j]
  <2>1. entries' \in Seq(Node)
    BY DEF LruInv, ListInv
  <2>2. DOMAIN entries' = 1..L - 1 /\ L - 1 \in Nat
    BY <1>2, <1>4, <2>1
  <2> QED  BY <2>2 DEF Contents
<1>7. Costs \in Seq(Nat) /\ Len(Costs) = L /\ \A j \in 1..L : Costs[j] = entry_cost(Contents[j])
  BY <1>0, <1>1, CostsTypes DEF Costs
<1>8. Costs' = SubSeq(Costs, 1, L - 1)
  <2>1. Costs' = [j \in 1..L - 1 |-> entry_cost(Contents'[j])]
    BY <1>6 DEF Costs
  <2>2. \A j \in 1..L - 1 : entry_cost(Contents'[j]) = Costs[j]
    <3>1. \A j \in 1..L - 1 : j \in 1..L
      BY <1>1
    <3> QED  BY <1>5, <1>7, <3>1
  <2>3. SubSeq(Costs, 1, L - 1) = [j \in 1..L - 1 |-> Costs[j]]
    <3> HIDE DEF L
    <3> QED  BY ONLY <1>1, <1>6, <1>7
  <2> QED  BY <2>1, <2>2, <2>3
<1>9. \A n \in 0..L - 1 : PrefixSums(Costs')[n] = PrefixSums(Costs)[n]
  <2>1. PICK s : IsSums(s, Costs, L)
    BY <1>0 DEF ListInv, HasSum
  <2>2. L - 1 \in 0..Len(Costs)
    BY <1>2, <1>6, <1>7
  <2> HIDE DEF L
  <2> QED  BY <1>7, <1>8, <2>1, <2>2, SumsOfPrefix
\* The loop condition says that the whole list does not fit.
<1>10. ~Room(L, Costs, putting)
  <2>1. L + 1 > MaxEntries \/ bytes + entry_cost(putting) > MaxBytes
    BY <1>1 DEF evict_lru_locked, MustEvict
  <2>2. bytes = PrefixSums(Costs)[L] /\ bytes \in Nat
    BY <1>0, CountersExact DEF AccountingExact
  <2>3. entry_cost(putting) \in Nat
    BY <1>0, CostTypes DEF LruInv, PendingInv
  <2>4. ~(L + 1 <= MaxEntries) \/ ~(bytes + entry_cost(putting) <= MaxBytes)
    BY <1>1, <2>1, <2>2, <2>3, LruAssumption
  <2> QED  BY <2>2, <2>4 DEF Room
<1>11. {n \in 0..L - 1 : Room(n, Costs', putting)} = {n \in 0..L : Room(n, Costs, putting)}
  <2>1. \A n \in 0..L - 1 : Room(n, Costs', putting) <=> Room(n, Costs, putting)
    BY <1>9 DEF Room
  <2>2. \A n : n \in 0..L - 1 <=> n \in 0..L /\ n # L
    BY <1>1
  <2> HIDE DEF L
  <2> QED  BY <1>10, <2>1, <2>2
<1>12. /\ Survivors = Max({n \in 0..L : Room(n, Costs, putting)})
       /\ Survivors \in 0..L /\ Room(Survivors, Costs, putting)
  BY <1>0, SurvivorsFacts
<1>13. Survivors' = Max({n \in 0..L - 1 : Room(n, Costs', putting)})
  BY <1>0, <1>4 DEF Survivors, Room, entry_cost
<1>14. Survivors' = Survivors
  BY <1>11, <1>12, <1>13, Zenon
<1>15. Survivors \in 0..L - 1
  <2>1. Survivors # L
    BY <1>10, <1>12
  <2> QED  BY <1>1, <1>12, <2>1
<1>16. SubSeq(Contents', 1, Survivors) = SubSeq(Contents, 1, Survivors)
  <2> DEFINE s == Survivors
             a == Contents
             b == Contents'
  <2>1. s \in Nat /\ s <= Len(a) /\ s <= Len(b)
    BY <1>1, <1>4, <1>15
  <2>2. \A j \in 1..s : b[j] = a[j]
    BY <1>5, <1>15
  <2>3. a \in Seq(Entry) /\ b \in Seq(Entry)
    BY <1>1, <1>5
  <2> HIDE DEF s, a, b
  <2>4. SubSeq(b, 1, s) = SubSeq(a, 1, s)
    BY ONLY <2>1, <2>2, <2>3
  <2> QED  BY <2>4, Zenon DEF s, a, b
<1>17. recencyBar' = recencyBar
  BY <1>0, <1>14, <1>16, Zenon DEF recencyBar, Unlocked
<1>18. evictionsBar' = evictionsBar
  <2>1. evictions' = evictions + 1
    BY DEF evict_lru_locked
  <2>2. /\ evictionsBar = evictions + (L - Survivors)
        /\ evictionsBar' = (evictions + 1) + ((L - 1) - Survivors)
    BY <1>0, <1>4, <1>14, <2>1 DEF evictionsBar, Unlocked
  <2>3. Survivors \in Int /\ L \in Int
    BY <1>1, <1>15
  <2> HIDE DEF L
  <2> QED  BY ONLY <1>0, <2>2, <2>3
<1>19. retBar' = retBar
  BY <1>0 DEF retBar, Unlocked
<1> QED  BY <1>17, <1>18, <1>19

\* Nor does the insertion that ends the put.
LEMMA InsertRefines ==
    ASSUME LruInv, LruInv', put_insert
    PROVE  UNCHANGED <<recencyBar, evictionsBar, retBar>>
<1> DEFINE L == Len(entries)
<1>0. ListInv /\ putting # Null /\ putting \in Entry /\ putting' = Null /\ evictions \in Nat
  BY DEF LruInv, PendingInv, put_insert
<1>1. /\ L \in Nat /\ Contents \in Seq(Entry) /\ Len(Contents) = L /\ IndexSize = L
      /\ DOMAIN entries = 1..L
      /\ \A i \in 1..L : Contents[i] = heap[entries[i]]
  BY <1>0, ContentsFacts
<1>2. /\ Survivors \in 0..L /\ Room(Survivors, Costs, putting)
      /\ \A n \in 0..L : Room(n, Costs, putting) => n <= Survivors
  BY <1>0, SurvivorsFacts
<1>3. L \in 0..L
  BY <1>1
\* The loop is over when the whole list fits, or nothing is left of it.
<1>4. Survivors = L
  <2>1. CASE entries = <<>>
    BY <1>2, <2>1
  <2>2. CASE entries # <<>>
    <3>1. ~(L + 1 > MaxEntries) /\ ~(bytes + entry_cost(putting) > MaxBytes)
      BY <1>1, <2>2 DEF put_insert, MustEvict
    <3>2. bytes = PrefixSums(Costs)[L] /\ bytes \in Nat
      BY <1>0, CountersExact DEF AccountingExact
    <3>3. entry_cost(putting) \in Nat
      BY <1>0, CostTypes
    <3>4. L + 1 <= MaxEntries /\ bytes + entry_cost(putting) <= MaxBytes
      BY <1>1, <3>1, <3>2, <3>3, LruAssumption
    <3>5. Room(L, Costs, putting)
      BY <3>2, <3>4 DEF Room
    <3>6. L <= Survivors
      BY <1>2, <1>3, <3>5
    <3> QED  BY <1>1, <1>2, <3>6
  <2> QED  BY <2>1, <2>2
<1>5. PICK n \in Node : /\ heap[n] = Null
                        /\ entries' = <<n>> \o entries
                        /\ heap' = [heap EXCEPT ![n] = putting]
  BY Zenon DEF put_insert
<1>6. Contents' = <<putting>> \o Contents
  <2>1. entries \in Seq(Node) /\ heap \in [Node -> Entry \cup {Null}]
    BY <1>0 DEF ListInv
  <2>2. /\ DOMAIN entries' = 1..L + 1 /\ entries'[1] = n
        /\ \A j \in 2..L + 1 : entries'[j] = entries[j - 1]
    BY <1>5, <2>1, ConsFacts
  <2>3. Contents' = [j \in 1..L + 1 |-> heap'[entries'[j]]]
    BY <2>2 DEF Contents
  <2> DEFINE r == <<putting>> \o Contents
  <2>4. /\ r \in Seq(Entry) /\ DOMAIN r = 1..L + 1 /\ Len(r) = L + 1 /\ r[1] = putting
        /\ \A j \in 2..L + 1 : r[j] = Contents[j - 1]
    BY <1>0, <1>1, ConsFacts
  <2> HIDE DEF r
  <2>5. ASSUME NEW j \in 1..L + 1 PROVE heap'[entries'[j]] = r[j]
    <3>1. CASE j = 1
      BY <1>5, <2>1, <2>2, <2>4, <3>1
    <3>2. CASE j # 1
      <4>1. j \in 2..L + 1 /\ j - 1 \in 1..L
        BY <1>1, <3>2
      <4>2. entries[j - 1] \in Node /\ heap[entries[j - 1]] # Null
        BY <1>0, <1>1, <4>1, CostsTypes, Zenon DEF ListInv, IndexListAgree
      <4>3. heap'[entries[j - 1]] = heap[entries[j - 1]]
        BY <1>5, <2>1, <4>2
      <4> QED  BY <1>1, <2>2, <2>4, <4>1, <4>3, Zenon
    <3> QED  BY <3>1, <3>2
  <2>6. r = [j \in 1..L + 1 |-> r[j]]
    BY <2>4
  <2>7. Contents' = r
    BY <2>3, <2>5, <2>6
  <2> QED  BY <2>7 DEF r
<1>7. SubSeq(Contents, 1, L) = Contents
  BY <1>1
<1>8. recencyBar' = recencyBar
  BY <1>0, <1>4, <1>6, <1>7 DEF recencyBar, Unlocked
<1>9. evictionsBar' = evictionsBar
  BY <1>0, <1>1, <1>4 DEF evictionsBar, Unlocked, put_insert
<1>10. retBar' = retBar
  BY <1>0 DEF retBar, Unlocked, put_insert
<1> QED  BY <1>8, <1>9, <1>10

\* Every step of the cache is a step of the exact LRU map, or changes nothing in
\* it.
LEMMA StepRefines ==
    LruInv /\ LruInv' /\ [Next]_vars
      => [Abstract!Next]_<<recencyBar, evictionsBar, retBar>>
<1> SUFFICES ASSUME LruInv, LruInv', [Next]_vars
             PROVE  Abstract!Next \/ UNCHANGED <<recencyBar, evictionsBar, retBar>>
  OBVIOUS
<1> DEFINE Quiet == UNCHANGED <<recencyBar, evictionsBar>>
<1>0. ListInv
  BY DEF LruInv
<1>1. ASSUME Unlocked, UNCHANGED <<entries, heap, evictions, putting>>
      PROVE  /\ Quiet /\ retBar' = ret' /\ recencyBar = Contents
             /\ evictionsBar = evictions
  BY <1>1 DEF Unlocked, recencyBar, evictionsBar, retBar, Contents
<1>2. ASSUME NEW k \in Key, get(k) PROVE Abstract!Next
  BY <1>2, GetRefines DEF Abstract!Next
<1>3. ASSUME NEW k \in Key, erase(k) PROVE Abstract!Next
  BY <1>3, EraseRefines DEF Abstract!Next
<1>4. ASSUME NEW k \in Key, contains(k) PROVE Abstract!Next
  <2>1. Unlocked /\ Quiet /\ retBar' = ret'
    BY <1>1, <1>4 DEF contains
  <2>2. ret' = [op |-> "contains", key |-> k, found |-> index[k] # Null]
    BY <1>4 DEF contains
  <2>3. Abstract!Present(k) = (index[k] # Null)
    <3>1. Abstract!Present(k) <=> index[k] # Null
      BY <1>0, <2>1, AbstractIndex
    <3> QED  BY <3>1, Zenon DEF Abstract!Present
  <2>4. retBar' = [op |-> "contains", key |-> k, found |-> Abstract!Present(k)]
    BY <2>1, <2>2, <2>3
  <2>5. Abstract!Observe
    BY <2>1, <2>4 DEF Abstract!Observe
  <2> QED  BY <2>5 DEF Abstract!Next
<1>5. ASSUME NEW e \in Entry, put_reject(e) PROVE Abstract!Next
  <2>1. Unlocked /\ Quiet /\ retBar' = ret'
    BY <1>1, <1>5 DEF put_reject
  <2>2. PutStatus(e) # "kStored" /\ ret' = [op |-> "put", status |-> PutStatus(e)]
    BY <1>5 DEF put_reject
  <2>3. Abstract!Put(e)
    BY <2>1, <2>2 DEF Abstract!Put
  <2> QED  BY <2>3 DEF Abstract!Next, Abstract!Entry, Entry
<1>6. ASSUME NEW e \in Entry, put_begin(e) PROVE Abstract!Next
  BY <1>6, PutBeginRefines DEF Abstract!Next, Abstract!Entry, Entry
<1>7. ASSUME evict_lru_locked PROVE UNCHANGED <<recencyBar, evictionsBar, retBar>>
  BY <1>7, EvictRefines
<1>8. ASSUME put_insert PROVE UNCHANGED <<recencyBar, evictionsBar, retBar>>
  BY <1>8, InsertRefines
<1>9. ASSUME clear PROVE Abstract!Next
  <2>1. /\ Unlocked /\ Unlocked' /\ entries' = <<>> /\ evictions' = evictions
        /\ ret' = [op |-> "clear"]
    BY <1>9 DEF clear, Unlocked
  <2>2. Contents' = <<>>
    BY <2>1 DEF Contents
  <2>3. Abstract!Clear
    BY <2>1, <2>2 DEF recencyBar, evictionsBar, retBar, Abstract!Clear
  <2> QED  BY <2>3 DEF Abstract!Next
<1>10. ASSUME snapshot PROVE Abstract!Next
  <2>1. Unlocked /\ Quiet /\ retBar' = ret' /\ recencyBar = Contents /\ evictionsBar = evictions
    BY <1>1, <1>10 DEF snapshot
  <2>2. ret' = [op |-> "snapshot", entries |-> IndexSize, bytes |-> bytes,
                payload_bytes |-> payload_bytes, evictions |-> evictions]
    BY <1>10 DEF snapshot
  <2>3. /\ DOMAIN Contents = DOMAIN entries /\ IndexSize = Len(Contents)
        /\ \A i \in DOMAIN entries : Contents[i] = heap[entries[i]]
    BY <1>0, ContentsFacts
  <2>4. Abstract!Costs(Contents) = Costs /\ Abstract!Payloads(Contents) = Payloads
    BY <2>3 DEF Abstract!Costs, Abstract!Payloads, Costs, Payloads
  <2>5. /\ Costs \in Seq(Nat) /\ HasSum(Costs, Len(Costs), bytes)
        /\ Payloads \in Seq(Nat) /\ HasSum(Payloads, Len(Payloads), payload_bytes)
    BY <1>0, CostsTypes DEF ListInv
  <2>6. Abstract!Total(Costs) = bytes /\ Abstract!Total(Payloads) = payload_bytes
    BY <2>5, TotalIs
  <2>7. retBar' = [op |-> "snapshot", entries |-> Len(recencyBar),
                   bytes |-> Abstract!Total(Abstract!Costs(recencyBar)),
                   payload_bytes |-> Abstract!Total(Abstract!Payloads(recencyBar)),
                   evictions |-> evictionsBar]
    BY <2>1, <2>2, <2>3, <2>4, <2>6
  <2>8. Abstract!Snapshot
    BY <2>1, <2>7 DEF Abstract!Snapshot
  <2> QED  BY <2>8 DEF Abstract!Next
<1>11. ASSUME keys_mru_to_lru PROVE Abstract!Next
  <2>1. Unlocked /\ Quiet /\ retBar' = ret' /\ recencyBar = Contents
    BY <1>1, <1>11 DEF keys_mru_to_lru
  <2>2. ret' = [op |-> "keys", keys |-> [i \in DOMAIN entries |-> heap[entries[i]].key]]
    BY <1>11 DEF keys_mru_to_lru
  <2>3. [i \in DOMAIN entries |-> heap[entries[i]].key]
          = [i \in DOMAIN Contents |-> Contents[i].key]
    BY DEF Contents
  <2>4. Abstract!Observe
    BY <2>1, <2>2, <2>3, ZenonT(30) DEF Abstract!Observe
  <2> QED  BY <2>4 DEF Abstract!Next
<1>12. ASSUME UNCHANGED vars PROVE UNCHANGED <<recencyBar, evictionsBar, retBar>>
  <2>1. UNCHANGED <<entries, heap, evictions, putting, ret>>
    BY <1>12 DEF vars
  <2>2. Contents' = Contents /\ Costs' = Costs
    BY <2>1 DEF Contents, Costs
  <2>3. Survivors' = Survivors
    BY <2>1, <2>2 DEF Survivors, entry_cost
  <2> QED  BY <2>1, <2>2, <2>3 DEF recencyBar, evictionsBar, retBar, Unlocked
<1> QED  BY <1>2, <1>3, <1>4, <1>5, <1>6, <1>7, <1>8, <1>9, <1>10, <1>11, <1>12 DEF Next

\* The empty cache is the empty map.
LEMMA InitRefines == Init => Abstract!Init
  BY DEF Init, Abstract!Init, recencyBar, evictionsBar, retBar, Unlocked, Contents

\* LruCache implements the exact LRU map, for any keys, values, sizes and limits.
THEOREM CacheIsExactLru == Spec => ImplementsExactLru
<1>1. Spec => []LruInv
  BY InitInv, NextInv, PTL DEF Spec
<1>2. LruInv /\ LruInv' /\ [Next]_vars
        => [Abstract!Next]_<<recencyBar, evictionsBar, retBar>>
  BY StepRefines
<1>3. Init => Abstract!Init
  BY InitRefines
<1> QED  BY <1>1, <1>2, <1>3, PTL DEF Spec, ImplementsExactLru, Abstract!Spec
=============================================================================
