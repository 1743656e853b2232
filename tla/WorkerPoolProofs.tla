-------------------------- MODULE WorkerPoolProofs --------------------------
(***************************************************************************)
(* Proofs about the worker pool, for any finite set of workers, any queue  *)
(* bound and any timeouts.                                                 *)
(***************************************************************************)
EXTENDS WorkerPool, TLAPS, FiniteSetTheorems

(***************************************************************************)
(* The three ways the history s \o q \o d of jobs taken, queued and        *)
(* discarded is rearranged.                                                *)
(***************************************************************************)
LEMMA HistoryTake ==
    ASSUME NEW s \in Seq(Nat), NEW q \in Seq(Nat), NEW d \in Seq(Nat), q # <<>>
    PROVE  Append(s, Head(q)) \o Tail(q) \o d = s \o q \o d
<1>1. Append(s, Head(q)) \o Tail(q) = s \o q
  BY SMTT(30)
<1> QED  BY <1>1, Zenon

\* A submission extends the history at its end.
LEMMA HistorySubmit ==
    ASSUME NEW s \in Seq(Nat), NEW q \in Seq(Nat), NEW j \in Nat
    PROVE  Append(s \o q \o <<>>, j) = s \o Append(q, j) \o <<>>
  OBVIOUS

\* A discard leaves the history as it is.
LEMMA HistoryDiscard ==
    ASSUME NEW s \in Seq(Nat), NEW q \in Seq(Nat)
    PROVE  s \o q \o <<>> = s \o <<>> \o (<<>> \o q)
  OBVIOUS

\* The first job queued is the one accepted just after those taken.
LEMMA HistoryHead ==
    ASSUME NEW s \in Seq(Nat), NEW q \in Seq(Nat), NEW d \in Seq(Nat), q # <<>>
    PROVE  LET h == s \o q \o d
           IN /\ Len(s) + 1 \in DOMAIN h
              /\ h[Len(s) + 1] = Head(q)
              /\ \A i \in 1..Len(s) : i \in DOMAIN h /\ h[i] = s[i]
  OBVIOUS

\* The elements of a sequence that grew by one.
LEMMA AppendFacts ==
    ASSUME NEW s \in Seq(Nat), NEW x \in Nat
    PROVE  /\ DOMAIN s = 1..Len(s) /\ Len(s) \in Nat
           /\ DOMAIN Append(s, x) = 1..Len(s) + 1
           /\ Append(s, x)[Len(s) + 1] = x
           /\ \A i \in 1..Len(s) : Append(s, x)[i] = s[i]
           /\ {Append(s, x)[i] : i \in DOMAIN Append(s, x)} = {s[i] : i \in DOMAIN s} \cup {x}
<1>1. /\ DOMAIN s = 1..Len(s) /\ Len(s) \in Nat
      /\ DOMAIN Append(s, x) = 1..Len(s) + 1
      /\ Append(s, x)[Len(s) + 1] = x
      /\ \A i \in 1..Len(s) : Append(s, x)[i] = s[i]
  OBVIOUS
<1>2. 1..Len(s) + 1 = (1..Len(s)) \cup {Len(s) + 1}
  BY <1>1
<1> DEFINE a == Append(s, x)
           n == Len(s)
<1> HIDE DEF a, n
<1>3. {a[i] : i \in (1..n) \cup {n + 1}} = {a[i] : i \in 1..n} \cup {a[n + 1]}
  BY Zenon
<1>4. {a[i] : i \in 1..n} = {s[i] : i \in 1..n}
  BY <1>1 DEF a, n
<1> QED  BY <1>1, <1>2, <1>3, <1>4 DEF a, n

\* Numbering in order is kept when the next number is appended.
LEMMA NumberedAppend ==
    ASSUME NEW s \in Seq(Nat), \A i \in DOMAIN s : s[i] = i
    PROVE  \A i \in DOMAIN Append(s, Len(s) + 1) : Append(s, Len(s) + 1)[i] = i
<1>1. Len(s) + 1 \in Nat
  OBVIOUS
<1> QED  BY <1>1, AppendFacts

(***************************************************************************)
(* The inductive invariant: how the owner's position determines the flags, *)
(* and where each accepted job is.                                         *)
(***************************************************************************)
Flags ==
    /\ stopping <=> owner \in {"stopped", "joining", "joined"}
    /\ accepting <=> owner \in {"serving", "notify"}
    /\ \A w \in Worker : worker[w] = "exited" => stopping /\ queue = <<>>
    /\ owner = "joined" => \A w \in Worker : worker[w] = "exited"

Running == {w \in Worker : worker[w] = "running"}

\* Jobs are numbered in the order they are accepted.
History ==
    /\ accepted = started \o queue \o discarded
    /\ \A i \in DOMAIN accepted : accepted[i] = i
    /\ ~stopping => discarded = <<>>

\* Every job taken is with exactly one worker, or done.
Custody ==
    /\ {started[i] : i \in DOMAIN started} = done \cup {job[w] : w \in Running}
    /\ \A v, w \in Running : job[v] = job[w] => v = w
    /\ \A w \in Running : job[w] \notin done

PoolInv == TypeOK /\ Flags /\ WorkConserving /\ NobodySleepsThroughStop /\ History /\ Custody

\* The invariant implies each property.
LEMMA PoolInvImplies ==
    PoolInv => /\ TypeOK /\ WorkConserving /\ NobodySleepsThroughStop
               /\ TakenInOrderOnce /\ QuietAfterStop
<1> SUFFICES ASSUME PoolInv
             PROVE  /\ TypeOK /\ WorkConserving /\ NobodySleepsThroughStop
                    /\ TakenInOrderOnce /\ QuietAfterStop
  OBVIOUS
<1>1. TakenInOrderOnce
  BY DEF PoolInv, History, Custody, Running, TakenInOrderOnce
<1>2. QuietAfterStop
  <2> SUFFICES ASSUME owner = "joined" PROVE QuietAfterStop
    BY DEF QuietAfterStop
  <2>1. \A w \in Worker : worker[w] = "exited"
    BY DEF PoolInv, Flags
  <2>2. queue = <<>>
    BY <2>1, PoolAssumption DEF PoolInv, Flags
  <2>3. Running = {}
    BY <2>1 DEF Running
  <2>4. ASSUME NEW i \in DOMAIN accepted, ~(i > Len(started)) PROVE accepted[i] \in done
    <3>1. /\ started \in Seq(Nat) /\ queue \in Seq(Nat) /\ discarded \in Seq(Nat)
          /\ accepted = started \o queue \o discarded
      BY DEF PoolInv, TypeOK, History
    <3>2. i \in DOMAIN started /\ accepted[i] = started[i]
      BY <2>4, <3>1
    <3>3. {started[k] : k \in DOMAIN started} = done
      BY <2>3 DEF PoolInv, Custody
    <3> QED  BY <3>2, <3>3
  <2> QED  BY <2>1, <2>2, <2>4 DEF QuietAfterStop
<1> QED  BY <1>1, <1>2 DEF PoolInv

\* Initially nothing was accepted and every worker is about to look for work.
LEMMA PoolInitInv == Init => PoolInv
<1> SUFFICES ASSUME Init PROVE PoolInv
  OBVIOUS
<1>1. TypeOK
  <2>1. queue \in Seq(Nat) /\ Len(queue) <= MaxPending
    BY PoolAssumption DEF Init
  <2>2. accepted \in Seq(Nat) /\ started \in Seq(Nat) /\ discarded \in Seq(Nat)
    BY DEF Init
  <2>3. job \in [Worker -> Nat \cup {NoJob}]
    BY DEF Init
  <2> QED  BY <2>1, <2>2, <2>3, Zenon DEF Init, TypeOK, OwnerAt
<1>2. Flags /\ NobodySleepsThroughStop
  BY DEF Init, Flags, NobodySleepsThroughStop
<1>3. WorkConserving
  BY DEF Init, WorkConserving, Sleeping
<1>4. History
  BY DEF Init, History
<1>5. Running = {}
  BY DEF Init, Running
<1>6. Custody
  BY <1>5 DEF Init, Custody
<1> QED  BY <1>1, <1>2, <1>3, <1>4, <1>6 DEF PoolInv

\* The numbers of awake workers in WorkConserving are naturals.
LEMMA AwakeFinite ==
    /\ IsFiniteSet(Awake) /\ Cardinality(Awake) \in Nat
    /\ \A x : /\ IsFiniteSet(Awake \cup {x})
              /\ Cardinality(Awake \cup {x})
                   = IF x \in Awake THEN Cardinality(Awake) ELSE Cardinality(Awake) + 1
              /\ IsFiniteSet(Awake \ {x})
              /\ Cardinality(Awake \ {x})
                   = IF x \in Awake THEN Cardinality(Awake) - 1 ELSE Cardinality(Awake)
<1>1. IsFiniteSet(Awake)
  <2>1. Awake \subseteq Worker
    BY DEF Awake
  <2> QED  BY <2>1, PoolAssumption, FS_Subset
<1> QED  BY <1>1, FS_CardinalityType, FS_AddElement, FS_RemoveElement

\* Steps that take no job, finish none and accept none keep History and
\* Custody.
LEMMA KeepsJobs ==
    ASSUME History, Custody, stopping' = stopping \/ discarded' = <<>>,
           UNCHANGED <<queue, accepted, started, done, discarded, job>>,
           Running' = Running
    PROVE  History' /\ Custody'
<1>1. History'
  BY DEF History
<1>2. Custody'
  BY DEF Custody
<1> QED  BY <1>1, <1>2

\* Each step keeps the invariant: the steps of the owner.
LEMMA OwnerSteps ==
    ASSUME PoolInv,
           try_submit \/ (\E t \in Timeout : drain_and_stop(t)) \/ in_call
    PROVE  PoolInv'
<1>0. TypeOK /\ Flags /\ WorkConserving /\ NobodySleepsThroughStop /\ History /\ Custody
  BY DEF PoolInv
<1>1. CASE try_submit
  <2>1. TypeOK'
    BY <1>0, <1>1, PoolAssumption DEF TypeOK, try_submit, push_back, OwnerAt
  <2>2. Flags' /\ NobodySleepsThroughStop'
    BY <1>0, <1>1 DEF Flags, NobodySleepsThroughStop, try_submit, push_back
  <2>3. WorkConserving'
    <3>1. Awake' = Awake /\ Sleeping' = Sleeping
      BY <1>1 DEF try_submit, push_back, Awake, Sleeping
    <3>2. /\ Len(queue') = Len(queue) + 1 /\ Len(queue) \in Nat
          /\ owner = "serving" /\ owner' = "notify"
      BY <1>0, <1>1 DEF try_submit, push_back, TypeOK
    <3>3. Sleeping # {} => Len(queue) <= Cardinality(Awake)
      BY <1>0, <3>2, AwakeFinite DEF WorkConserving
    <3>4. Sleeping' # {} => Len(queue') <= Cardinality(Awake') + 1
      BY <3>1, <3>2, <3>3, AwakeFinite
    <3> QED  BY <3>2, <3>4 DEF WorkConserving
  <2>4. History'
    <3> DEFINE j == Len(accepted) + 1
    <3>1. /\ queue' = Append(queue, j) /\ accepted' = Append(accepted, j)
          /\ started' = started /\ discarded' = discarded /\ stopping' = stopping
      BY <1>1 DEF try_submit, push_back
    <3>2. discarded = <<>>
      BY <1>0, <1>1 DEF try_submit, push_back, Flags, History
    <3>3. /\ j \in Nat /\ started \in Seq(Nat) /\ queue \in Seq(Nat) /\ accepted \in Seq(Nat)
      BY <1>0 DEF TypeOK
    <3>4. accepted' = started' \o queue' \o discarded'
      <4>1. accepted = started \o queue \o <<>>
        BY <1>0, <3>2 DEF History
      <4> HIDE DEF j
      <4>2. Append(started \o queue \o <<>>, j) = started \o Append(queue, j) \o <<>>
        BY ONLY <3>3, HistorySubmit, Zenon
      <4> QED  BY ONLY <3>1, <3>2, <4>1, <4>2, Zenon
    <3>5. \A i \in DOMAIN accepted' : accepted'[i] = i
      <4>1. \A i \in DOMAIN accepted : accepted[i] = i
        BY <1>0 DEF History
      <4> QED  BY <3>1, <3>3, <4>1, NumberedAppend
    <3> QED  BY <3>1, <3>2, <3>4, <3>5, Zenon DEF History
  <2>5. Custody'
    BY <1>0, <1>1 DEF try_submit, push_back, Custody, Running
  <2> QED  BY <2>1, <2>2, <2>3, <2>4, <2>5 DEF PoolInv
<1>2. ASSUME NEW t \in Timeout, drain_and_stop(t) PROVE PoolInv'
  <2>1. TypeOK'
    BY <1>0, <1>2, PoolAssumption, Zenon DEF TypeOK, drain_and_stop, OwnerAt
  <2>2. Flags' /\ NobodySleepsThroughStop'
    BY <1>0, <1>2 DEF Flags, NobodySleepsThroughStop, drain_and_stop
  <2>3. WorkConserving'
    BY <1>0, <1>2 DEF WorkConserving, Awake, Sleeping, drain_and_stop
  <2>4. discarded' = <<>>
    BY <1>0, <1>2 DEF Flags, History, drain_and_stop
  <2>5. History' /\ Custody'
    BY <1>0, <1>2, <2>4, KeepsJobs DEF drain_and_stop, Running
  <2> QED  BY <2>1, <2>2, <2>3, <2>5 DEF PoolInv
<1>3. CASE notify_one
  <2>1. TypeOK'
    BY <1>0, <1>3, Zenon DEF TypeOK, notify_one, OwnerAt
  <2>2. Flags' /\ NobodySleepsThroughStop'
    BY <1>0, <1>3 DEF TypeOK, Flags, NobodySleepsThroughStop, notify_one
  <2>3. WorkConserving'
    <3>0. owner = "notify" /\ owner' = "serving" /\ queue' = queue /\ Len(queue) \in Nat
      BY <1>0, <1>3 DEF notify_one, TypeOK
    <3>1. CASE Sleeping = {}
      BY <1>3, <3>1 DEF WorkConserving, Sleeping, notify_one
    <3>2. CASE Sleeping # {}
      <4>1. PICK w \in Worker : /\ worker[w] = "waiting"
                                /\ worker' = [worker EXCEPT ![w] = "lock"]
        BY <1>3, <3>2 DEF notify_one, Sleeping
      <4>2. Awake' = Awake \cup {w} /\ w \notin Awake
        BY <1>0, <4>1 DEF Awake, TypeOK
      <4>3. Cardinality(Awake') = Cardinality(Awake) + 1 /\ Cardinality(Awake) \in Nat
        BY <4>2, AwakeFinite
      <4>4. Len(queue) <= Cardinality(Awake) + 1
        BY <1>0, <3>0, <3>2 DEF WorkConserving
      <4> QED  BY <3>0, <4>3, <4>4 DEF WorkConserving
    <3> QED  BY <3>1, <3>2
  <2>4. Running' = Running
    BY <1>0, <1>3 DEF Running, notify_one, TypeOK
  <2>5. History' /\ Custody'
    BY <1>0, <1>3, <2>4, KeepsJobs DEF notify_one
  <2> QED  BY <2>1, <2>2, <2>3, <2>5 DEF PoolInv
<1>4. CASE drain_wake
  <2>1. TypeOK'
    BY <1>0, <1>4, Zenon DEF TypeOK, drain_wake, OwnerAt
  <2>2. Flags' /\ NobodySleepsThroughStop'
    BY <1>0, <1>4 DEF Flags, NobodySleepsThroughStop, drain_wake
  <2>3. WorkConserving'
    BY <1>0, <1>4 DEF WorkConserving, Awake, Sleeping, drain_wake
  <2>4. discarded' = <<>>
    BY <1>0, <1>4 DEF Flags, History, drain_wake
  <2>5. History' /\ Custody'
    BY <1>0, <1>4, <2>4, KeepsJobs DEF drain_wake, Running
  <2> QED  BY <2>1, <2>2, <2>3, <2>5 DEF PoolInv
<1>5. CASE drain_timeout
  <2>0. discarded = <<>>
    BY <1>0, <1>5 DEF Flags, History, drain_timeout
  <2>1. TypeOK'
    <3>1. queue' \in Seq(Nat) /\ Len(queue') <= MaxPending
      BY <1>5, PoolAssumption DEF drain_timeout
    <3>2. discarded' \in Seq(Nat)
      BY <1>0, <1>5 DEF drain_timeout, TypeOK
    <3> QED  BY <1>0, <1>5, <3>1, <3>2 DEF TypeOK, drain_timeout, OwnerAt
  <2>2. Flags' /\ NobodySleepsThroughStop'
    BY <1>0, <1>5 DEF Flags, NobodySleepsThroughStop, drain_timeout
  <2>3. WorkConserving'
    <3>1. Awake' = Awake /\ Len(queue') = 0 /\ owner' = "stopped"
      BY <1>5 DEF drain_timeout, Awake
    <3>2. 0 <= Cardinality(Awake) + 0
      BY AwakeFinite
    <3> QED  BY <3>1, <3>2 DEF WorkConserving
  <2>4. History'
    <3>1. /\ queue' = <<>> /\ discarded' = <<>> \o queue
          /\ started' = started /\ accepted' = accepted /\ stopping'
      BY <1>5, <2>0 DEF drain_timeout
    <3>2. started \in Seq(Nat) /\ queue \in Seq(Nat)
      BY <1>0 DEF TypeOK
    <3>3. accepted = started \o <<>> \o (<<>> \o queue)
      BY <1>0, <2>0, <3>2, HistoryDiscard DEF History
    <3> QED  BY <1>0, <3>1, <3>3 DEF History
  <2>5. Custody'
    BY <1>0, <1>5 DEF drain_timeout, Custody, Running
  <2> QED  BY <2>1, <2>2, <2>3, <2>4, <2>5 DEF PoolInv
<1>6. CASE stop_notify_all
  <2>1. TypeOK'
    BY <1>0, <1>6 DEF TypeOK, stop_notify_all, announce_stop, OwnerAt
  <2>2. Flags'
    BY <1>0, <1>6 DEF Flags, stop_notify_all, announce_stop
  <2>3. Sleeping' = {}
    BY <1>6 DEF Sleeping, stop_notify_all, announce_stop
  <2>4. WorkConserving' /\ NobodySleepsThroughStop'
    BY <2>3 DEF WorkConserving, NobodySleepsThroughStop
  <2>5. Running' = Running
    BY <1>0, <1>6 DEF Running, stop_notify_all, announce_stop, TypeOK
  <2>6. History' /\ Custody'
    BY <1>0, <1>6, <2>5, KeepsJobs DEF stop_notify_all, announce_stop
  <2> QED  BY <2>1, <2>2, <2>4, <2>6 DEF PoolInv
<1>7. CASE join
  <2>1. TypeOK'
    BY <1>0, <1>7 DEF TypeOK, join, OwnerAt
  <2>2. Flags' /\ NobodySleepsThroughStop'
    BY <1>0, <1>7 DEF Flags, NobodySleepsThroughStop, Sleeping, join
  <2>3. WorkConserving'
    BY <1>0, <1>7 DEF WorkConserving, Awake, Sleeping, join
  <2>4. History' /\ Custody'
    BY <1>0, <1>7, KeepsJobs DEF join, Running
  <2> QED  BY <2>1, <2>2, <2>3, <2>4 DEF PoolInv
<1> QED  BY <1>1, <1>2, <1>3, <1>4, <1>5, <1>6, <1>7 DEF in_call

\* Each step keeps the invariant: the steps of the workers.
LEMMA WorkerSteps ==
    ASSUME PoolInv, NEW w \in Worker, worker_loop(w)
    PROVE  PoolInv'
<1>0. TypeOK /\ Flags /\ WorkConserving /\ NobodySleepsThroughStop /\ History /\ Custody
  BY DEF PoolInv
<1>1. CASE worker_wait(w)
  <2>1. TypeOK'
    BY <1>0, <1>1 DEF TypeOK, worker_wait
  <2>2. Flags' /\ NobodySleepsThroughStop'
    BY <1>0, <1>1 DEF TypeOK, Flags, NobodySleepsThroughStop, worker_wait
  <2>3. WorkConserving'
    <3>1. Awake' = Awake \ {w}
      BY <1>0, <1>1 DEF Awake, worker_wait, TypeOK
    <3>2. Cardinality(Awake') \in Nat
      <4>1. IsFiniteSet(Awake')
        BY <3>1, AwakeFinite, Zenon
      <4> QED  BY <4>1, FS_CardinalityType
    <3>3. Len(queue') = 0
      BY <1>1 DEF worker_wait
    <3> QED  BY <3>2, <3>3 DEF WorkConserving
  <2>4. Running' = Running
    BY <1>0, <1>1 DEF Running, worker_wait, TypeOK
  <2>5. History' /\ Custody'
    BY <1>0, <1>1, <2>4, KeepsJobs DEF worker_wait
  <2> QED  BY <2>1, <2>2, <2>3, <2>5 DEF PoolInv
<1>2. CASE worker_return(w)
  <2>1. TypeOK'
    BY <1>0, <1>2 DEF TypeOK, worker_return
  <2>2. Flags' /\ NobodySleepsThroughStop'
    BY <1>0, <1>2 DEF TypeOK, Flags, NobodySleepsThroughStop, Sleeping, worker_return
  <2>3. WorkConserving'
    <3>1. Awake' = Awake \ {w}
      BY <1>0, <1>2 DEF Awake, worker_return, TypeOK
    <3>2. Cardinality(Awake') \in Nat
      <4>1. IsFiniteSet(Awake')
        BY <3>1, AwakeFinite, Zenon
      <4> QED  BY <4>1, FS_CardinalityType
    <3>3. Len(queue') = 0
      BY <1>2 DEF worker_return
    <3> QED  BY <3>2, <3>3 DEF WorkConserving
  <2>4. Running' = Running
    BY <1>0, <1>2 DEF Running, worker_return, TypeOK
  <2>5. History' /\ Custody'
    BY <1>0, <1>2, <2>4, KeepsJobs DEF worker_return
  <2> QED  BY <2>1, <2>2, <2>3, <2>5 DEF PoolInv
<1>3. CASE worker_take(w)
  <2> DEFINE j == Head(queue)
  <2>0. /\ worker[w] = "lock" /\ queue # <<>> /\ queue \in Seq(Nat) /\ j \in Nat
        /\ Tail(queue) \in Seq(Nat) /\ Len(Tail(queue)) = Len(queue) - 1
        /\ Len(queue) \in Nat
        /\ started \in Seq(Nat) /\ discarded \in Seq(Nat)
    <3>1. worker[w] = "lock" /\ queue # <<>>
      BY <1>3 DEF worker_take, take_job
    <3>2. queue \in Seq(Nat) /\ started \in Seq(Nat) /\ discarded \in Seq(Nat)
      BY <1>0 DEF TypeOK
    <3>3. Head(queue) \in Nat /\ Tail(queue) \in Seq(Nat)
      BY ONLY <3>1, <3>2
    <3>4. Len(Tail(queue)) = Len(queue) - 1 /\ Len(queue) \in Nat
      BY ONLY <3>1, <3>2
    <3> QED  BY <3>1, <3>2, <3>3, <3>4
  <2>1. /\ queue' = Tail(queue) /\ started' = Append(started, j)
        /\ job' = [job EXCEPT ![w] = j] /\ worker' = [worker EXCEPT ![w] = "running"]
        /\ owner' = IF Tail(queue) = <<>> /\ owner = "draining" THEN "drained" ELSE owner
        /\ UNCHANGED <<accepting, stopping, timeout, accepted, done, discarded>>
    BY <1>3 DEF worker_take, take_job
  <2> HIDE DEF j
  <2>2. TypeOK'
    <3>1. queue' \in Seq(Nat) /\ Len(queue') <= MaxPending
      BY <1>0, <2>0, <2>1, PoolAssumption DEF TypeOK
    <3>2. started' \in Seq(Nat)
      BY <2>0, <2>1
    <3> QED  BY <1>0, <2>0, <2>1, <3>1, <3>2 DEF TypeOK, OwnerAt
  <2>3. Flags' /\ NobodySleepsThroughStop'
    BY <1>0, <2>0, <2>1, Zenon DEF TypeOK, Flags, NobodySleepsThroughStop, Sleeping
  <2>4. WorkConserving'
    <3>1. Awake' = Awake \ {w} /\ w \in Awake /\ Sleeping' = Sleeping
      BY <1>0, <2>0, <2>1 DEF Awake, Sleeping, TypeOK
    <3>2. Cardinality(Awake') = Cardinality(Awake) - 1 /\ Cardinality(Awake) \in Nat
      BY <3>1, AwakeFinite
    <3>3. Len(queue') = Len(queue) - 1
      BY <2>0, <2>1
    <3>4. owner' = "notify" <=> owner = "notify"
      BY <2>1
    <3> QED  BY <1>0, <2>0, <3>1, <3>2, <3>3, <3>4 DEF WorkConserving
  <2>5. /\ j = Len(started) + 1
        /\ \A i \in 1..Len(started) : started[i] = i
    BY <1>0, <2>0, HistoryHead, Zenon DEF History, j
  <2>6. History'
    <3>1. accepted' = started' \o queue' \o discarded'
      BY <1>0, <2>0, <2>1, HistoryTake, Zenon DEF History, j
    <3> QED  BY <1>0, <2>1, <3>1, Zenon DEF History
  <2>7. Custody'
    <3>1. Running' = Running \cup {w} /\ w \notin Running
      BY <1>0, <2>0, <2>1 DEF Running, TypeOK
    <3>2. job'[w] = j /\ \A v \in Running : job'[v] = job[v]
      BY <1>0, <2>1, <3>1 DEF TypeOK, Running
    <3>3. {started'[i] : i \in DOMAIN started'} = {started[i] : i \in DOMAIN started} \cup {j}
      <4>1. {Append(started, j)[i] : i \in DOMAIN Append(started, j)}
               = {started[i] : i \in DOMAIN started} \cup {j}
        BY <2>0, AppendFacts, Zenon
      <4>2. started' = Append(started, j)
        BY <2>1
      <4> QED  BY <4>1, <4>2, Zenon
    <3>4. j \notin {started[i] : i \in DOMAIN started}
      <4>1. DOMAIN started = 1..Len(started) /\ Len(started) \in Nat
        BY <2>0
      <4>2. \A i \in DOMAIN started : started[i] # j
        BY <2>5, <4>1
      <4> QED  BY <4>2
    <3>5. j \notin done /\ \A v \in Running : job[v] # j
      BY <1>0, <3>4 DEF Custody
    <3>6. {job'[v] : v \in Running'} = {job[v] : v \in Running} \cup {j}
      BY <3>1, <3>2
    <3>7. {started'[i] : i \in DOMAIN started'} = done' \cup {job'[v] : v \in Running'}
      BY <1>0, <2>1, <3>3, <3>6, Zenon DEF Custody
    <3>8. \A u, v \in Running' : job'[u] = job'[v] => u = v
      BY <1>0, <3>1, <3>2, <3>5 DEF Custody
    <3>9. \A v \in Running' : job'[v] \notin done'
      BY <1>0, <2>1, <3>1, <3>2, <3>5 DEF Custody
    <3> QED  BY <3>7, <3>8, <3>9 DEF Custody
  <2> QED  BY <2>2, <2>3, <2>4, <2>6, <2>7 DEF PoolInv
<1>4. CASE worker_complete(w)
  <2>0. /\ worker[w] = "running" /\ done' = done \cup {job[w]}
        /\ job' = [job EXCEPT ![w] = NoJob] /\ worker' = [worker EXCEPT ![w] = "lock"]
        /\ UNCHANGED <<queue, accepting, stopping, owner, timeout,
                       accepted, started, discarded>>
    BY <1>4 DEF worker_complete
  <2>1. w \in Running /\ job[w] \in Nat
    <3>1. w \in Running
      BY <2>0 DEF Running
    <3>2. job[w] \in {started[i] : i \in DOMAIN started}
      BY <1>0, <3>1 DEF Custody
    <3>3. \A i \in DOMAIN started : started[i] \in Nat
      BY <1>0 DEF TypeOK
    <3> QED  BY <3>1, <3>2, <3>3
  <2>2. TypeOK'
    BY <1>0, <2>0, <2>1, Zenon DEF TypeOK
  <2>3. Flags' /\ NobodySleepsThroughStop'
    BY <1>0, <2>0 DEF TypeOK, Flags, NobodySleepsThroughStop, Sleeping
  <2>4. WorkConserving'
    <3>1. Awake' = Awake \cup {w} /\ w \notin Awake /\ Sleeping' = Sleeping
      BY <1>0, <2>0 DEF Awake, Sleeping, TypeOK
    <3>2. Cardinality(Awake') = Cardinality(Awake) + 1 /\ Cardinality(Awake) \in Nat
      BY <3>1, AwakeFinite
    <3>3. Len(queue) \in Nat /\ queue' = queue /\ owner' = owner
      BY <1>0, <2>0 DEF TypeOK
    <3> QED  BY <1>0, <3>1, <3>2, <3>3 DEF WorkConserving
  <2>5. History'
    BY <1>0, <2>0 DEF History
  <2>6. Custody'
    <3>1. Running' = Running \ {w}
      BY <1>0, <2>0 DEF Running, TypeOK
    <3>2. \A v \in Running' : job'[v] = job[v] /\ v \in Running /\ v # w
      BY <1>0, <2>0, <3>1 DEF TypeOK, Running
    <3>3. \A v \in Running' : job[v] # job[w]
      BY <1>0, <2>1, <3>2 DEF Custody
    <3>4. done' \cup {job'[v] : v \in Running'} = done \cup {job[v] : v \in Running}
      <4>1. {job'[v] : v \in Running'} = {job[v] : v \in Running'}
        BY <3>2
      <4>2. {job[v] : v \in Running} = {job[v] : v \in Running'} \cup {job[w]}
        BY <2>1, <3>1
      <4> QED  BY <2>0, <4>1, <4>2
    <3> QED  BY <1>0, <2>0, <3>2, <3>3, <3>4 DEF Custody
  <2> QED  BY <2>2, <2>3, <2>4, <2>5, <2>6 DEF PoolInv
<1> QED  BY <1>1, <1>2, <1>3, <1>4 DEF worker_loop

\* Every step of the pool keeps the invariant.
LEMMA PoolNextInv == PoolInv /\ [Next]_vars => PoolInv'
<1> SUFFICES ASSUME PoolInv, [Next]_vars PROVE PoolInv'
  OBVIOUS
<1>0. TypeOK /\ Flags /\ WorkConserving /\ NobodySleepsThroughStop /\ History /\ Custody
  BY DEF PoolInv
<1>1. CASE try_submit \/ (\E t \in Timeout : drain_and_stop(t)) \/ in_call
  BY <1>1, OwnerSteps
<1>2. CASE \E w \in Worker : worker_loop(w)
  BY <1>2, WorkerSteps
<1>3. CASE spurious_wakeup
  <2>1. TypeOK'
    BY <1>0, <1>3, Zenon DEF TypeOK, spurious_wakeup, OwnerAt
  <2>2. Flags' /\ NobodySleepsThroughStop'
    BY <1>0, <1>3 DEF TypeOK, Flags, NobodySleepsThroughStop, Sleeping, spurious_wakeup
  <2>3. WorkConserving'
    <3>0. Len(queue) \in Nat /\ queue' = queue
      BY <1>0, <1>3 DEF TypeOK, spurious_wakeup
    <3>1. CASE owner = "draining" /\ owner' = "drained" /\ UNCHANGED worker
      BY <1>0, <3>0, <3>1 DEF WorkConserving, Awake, Sleeping
    <3>2. ASSUME NEW w \in Worker, worker[w] = "waiting",
                 worker' = [worker EXCEPT ![w] = "lock"], owner' = owner
          PROVE  WorkConserving'
      <4>1. Awake' = Awake \cup {w} /\ w \notin Awake /\ w \in Sleeping
        BY <1>0, <3>2 DEF Awake, Sleeping, TypeOK
      <4>2. Cardinality(Awake') = Cardinality(Awake) + 1 /\ Cardinality(Awake) \in Nat
        BY <4>1, AwakeFinite
      <4> QED  BY <1>0, <3>0, <3>2, <4>1, <4>2 DEF WorkConserving
    <3> QED  BY <1>3, <3>1, <3>2 DEF spurious_wakeup
  <2>4. Running' = Running
    BY <1>0, <1>3 DEF Running, spurious_wakeup, TypeOK
  <2>5. History' /\ Custody'
    BY <1>0, <1>3, <2>4, KeepsJobs DEF spurious_wakeup
  <2> QED  BY <2>1, <2>2, <2>3, <2>5 DEF PoolInv
<1>4. CASE stop_again \/ UNCHANGED vars
  <2>1. UNCHANGED vars
    BY <1>4 DEF stop_again
  <2>2. Awake' = Awake /\ Sleeping' = Sleeping /\ Running' = Running
    BY <2>1 DEF vars, poolstate, Awake, Sleeping, Running
  <2>3. History' /\ Custody'
    BY <1>0, <2>1, <2>2, KeepsJobs DEF vars, poolstate
  <2>4. TypeOK' /\ Flags'
    BY <1>0, <2>1 DEF vars, poolstate, TypeOK, Flags
  <2>5. WorkConserving' /\ NobodySleepsThroughStop'
    BY <1>0, <2>1, <2>2 DEF vars, poolstate, WorkConserving, NobodySleepsThroughStop
  <2> QED  BY <2>3, <2>4, <2>5 DEF PoolInv
<1> QED  BY <1>1, <1>2, <1>3, <1>4 DEF Next

\* The pool's state always has its type and the queue never exceeds its bound.
THEOREM PoolTypeCorrect == Spec => []TypeOK
<1>1. PoolInv => TypeOK
  BY PoolInvImplies
<1> QED  BY <1>1, PoolInitInv, PoolNextInv, PTL DEF Spec

\* No notification of work is lost, for any number of workers.
THEOREM NoLostWakeup == Spec => []WorkConserving
<1>1. PoolInv => WorkConserving
  BY PoolInvImplies
<1> QED  BY <1>1, PoolInitInv, PoolNextInv, PTL DEF Spec

\* No worker sleeps through the stop, so the joins wait for running workers only.
THEOREM StopReachesEveryWorker == Spec => []NobodySleepsThroughStop
<1>1. PoolInv => NobodySleepsThroughStop
  BY PoolInvImplies
<1> QED  BY <1>1, PoolInitInv, PoolNextInv, PTL DEF Spec

\* Jobs are taken once each and in the order they were accepted.
THEOREM ExactlyOnceInOrder == Spec => []TakenInOrderOnce
<1>1. PoolInv => TakenInOrderOnce
  BY PoolInvImplies
<1> QED  BY <1>1, PoolInitInv, PoolNextInv, PTL DEF Spec

\* After drain_and_stop() returned no handler runs and every job is settled.
THEOREM QuietOnceJoined == Spec => []QuietAfterStop
<1>1. PoolInv => QuietAfterStop
  BY PoolInvImplies
<1> QED  BY <1>1, PoolInitInv, PoolNextInv, PTL DEF Spec

(***************************************************************************)
(* The pool implements JobQueue.                                           *)
(***************************************************************************)
\* A worker holds a job exactly while it runs one.
HoldsJob == \A w \in Worker : worker[w] = "running" <=> job[w] # NoJob

\* Nobody holds a job at first.
LEMMA HoldsJobInit == Init => HoldsJob
  BY DEF Init, HoldsJob

\* Every step keeps jobs and running workers together.
LEMMA HoldsJobNext == PoolInv /\ HoldsJob /\ [Next]_vars => HoldsJob'
<1> SUFFICES ASSUME PoolInv, HoldsJob, [Next]_vars PROVE HoldsJob'
  OBVIOUS
<1>0. TypeOK
  BY DEF PoolInv
<1>1. CASE try_submit \/ (\E t \in Timeout : drain_and_stop(t)) \/ drain_wake
             \/ drain_timeout \/ join
  BY <1>1 DEF HoldsJob, try_submit, push_back, drain_and_stop, drain_wake, drain_timeout, join
<1>2. CASE notify_one \/ spurious_wakeup
  BY <1>0, <1>2 DEF HoldsJob, TypeOK, notify_one, spurious_wakeup
<1>3. CASE stop_notify_all
  BY <1>0, <1>3 DEF HoldsJob, TypeOK, stop_notify_all, announce_stop
<1>4. ASSUME NEW w \in Worker, worker_wait(w) \/ worker_return(w) PROVE HoldsJob'
  BY <1>0, <1>4 DEF HoldsJob, TypeOK, worker_wait, worker_return
<1>5. ASSUME NEW w \in Worker, worker_take(w) PROVE HoldsJob'
  <2>1. Head(queue) \in Nat
    BY <1>0, <1>5 DEF TypeOK, worker_take, take_job
  <2>2. Head(queue) # NoJob
    BY <2>1, PoolAssumption
  <2> QED  BY <1>0, <1>5, <2>2 DEF HoldsJob, TypeOK, worker_take, take_job
<1>6. ASSUME NEW w \in Worker, worker_complete(w) PROVE HoldsJob'
  BY <1>0, <1>6 DEF HoldsJob, TypeOK, worker_complete
<1>7. CASE stop_again \/ UNCHANGED vars
  BY <1>7 DEF HoldsJob, stop_again, vars, poolstate
<1> QED  BY <1>1, <1>2, <1>3, <1>4, <1>5, <1>6, <1>7 DEF Next, in_call, worker_loop

\* Each step of the pool is a step of JobQueue, or none as its owner sees it:
\* waiting, waking and notifying are invisible.
LEMMA PoolStepRefines ==
    PoolInv /\ HoldsJob /\ [Next]_vars => [Abstract!Next]_(Abstract!poolvars)
<1> SUFFICES ASSUME PoolInv, HoldsJob, [Next]_vars
             PROVE  Abstract!Next \/ UNCHANGED <<queue, job, phaseBar>>
  BY DEF Abstract!poolvars
<1>0. TypeOK /\ Flags
  BY DEF PoolInv
<1>1. CASE try_submit
  <2> DEFINE j == Len(accepted) + 1
  <2>1. j \in 1..MaxJobs
    BY <1>0, <1>1, PoolAssumption DEF TypeOK, try_submit, push_back
  <2>2. Abstract!Submit(j)
    BY <1>1 DEF Abstract!Submit, Abstract!CanSubmit, phaseBar, try_submit, push_back
  <2> QED  BY <2>1, <2>2 DEF Abstract!Next
<1>2. ASSUME NEW t \in Timeout, drain_and_stop(t) PROVE Abstract!Close
  BY <1>0, <1>2 DEF Abstract!Close, phaseBar, drain_and_stop, Flags
<1>3. CASE drain_timeout
  <2>1. Abstract!Discard
    BY <1>0, <1>3 DEF Abstract!Discard, phaseBar, drain_timeout, Flags
  <2> QED  BY <2>1 DEF Abstract!Next
<1>4. CASE join
  <2>1. queue = <<>>
    BY <1>0, <1>4, PoolAssumption DEF join, Flags
  <2>2. \A w \in Worker : job[w] = NoJob
    BY <1>4 DEF join, HoldsJob
  <2>3. Abstract!Stop
    BY <1>0, <1>4, <2>1, <2>2 DEF Abstract!Stop, phaseBar, join, Flags
  <2> QED  BY <2>3 DEF Abstract!Next
<1>5. CASE notify_one \/ drain_wake \/ stop_notify_all \/ spurious_wakeup
  BY <1>0, <1>5 DEF phaseBar, Flags, notify_one, drain_wake, stop_notify_all, announce_stop,
                    spurious_wakeup
<1>6. ASSUME NEW w \in Worker, worker_wait(w) \/ worker_return(w)
      PROVE  UNCHANGED <<queue, job, phaseBar>>
  BY <1>6 DEF phaseBar, worker_wait, worker_return
<1>7. ASSUME NEW w \in Worker, worker_take(w) PROVE Abstract!Next
  <2>1. job[w] = NoJob
    BY <1>7 DEF HoldsJob, worker_take, take_job
  <2>2. owner # "joined"
    BY <1>0, <1>7 DEF Flags, worker_take, take_job
  <2>3. Abstract!Take(w)
    BY <1>7, <2>1, <2>2 DEF Abstract!Take, phaseBar, worker_take, take_job
  <2> QED  BY <2>3 DEF Abstract!Next
<1>8. ASSUME NEW w \in Worker, worker_complete(w) PROVE Abstract!Next
  <2>1. Abstract!Finish(w)
    BY <1>8 DEF Abstract!Finish, HoldsJob, phaseBar, worker_complete
  <2> QED  BY <2>1 DEF Abstract!Next
<1>9. CASE stop_again \/ UNCHANGED vars
  BY <1>9 DEF phaseBar, stop_again, vars, poolstate
<1> QED  BY <1>1, <1>2, <1>3, <1>4, <1>5, <1>6, <1>7, <1>8, <1>9
         DEF Next, in_call, worker_loop, Abstract!Next

\* To the event loop the pool, with its mutex, condition variables, spurious
\* wakeups and joins, behaves like the bounded queue the server's model uses.
THEOREM PoolRefines == Spec => ImplementsJobQueue
<1>1. Init => Abstract!Init
  BY DEF Init, Abstract!Init, phaseBar
<1> QED  BY <1>1, PoolInitInv, PoolNextInv, HoldsJobInit, HoldsJobNext, PoolStepRefines, PTL
         DEF Spec, ImplementsJobQueue, Abstract!Spec
=============================================================================
