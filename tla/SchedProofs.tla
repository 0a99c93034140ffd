---------------------------- MODULE SchedProofs ----------------------------
(***************************************************************************)
(* Proofs about the scheduler, for every set of threads, every assignment  *)
(* of threads to processes, every number of priorities and every slice.    *)
(***************************************************************************)
EXTENDS Sched, SequenceTheorems, WellFoundedInduction, TLAPS

(***************************************************************************)
(* Removing the entry at k from a sequence.                                *)
(***************************************************************************)
LEMMA RemoveAtProperties ==
  ASSUME NEW S, NEW q \in Seq(S), NEW k \in 1 .. Len(q)
  PROVE  /\ RemoveAt(q, k) \in Seq(S)
         /\ Len(RemoveAt(q, k)) = Len(q) - 1
         /\ \A i \in 1 .. Len(q) - 1 :
              RemoveAt(q, k)[i] = IF i < k THEN q[i] ELSE q[i + 1]
<1> DEFINE a == SubSeq(q, 1, k - 1)
           b == SubSeq(q, k + 1, Len(q))
<1>1. Len(q) \in Nat /\ \A i \in 1 .. Len(q) : q[i] \in S
  BY LenProperties, ElementOfSeq
<1>2. /\ a \in Seq(S)
      /\ Len(a) = k - 1
      /\ \A i \in 1 .. k - 1 : a[i] = q[i]
  <2>1. \A i \in 1 .. k - 1 : q[i] \in S
    BY <1>1
  <2>2. k - 1 \in Int
    BY <1>1
  <2>. QED BY <1>1, <2>1, <2>2, SubSeqProperties
<1>3. /\ b \in Seq(S)
      /\ Len(b) = Len(q) - k
      /\ \A i \in 1 .. Len(q) - k : b[i] = q[k + i]
  <2>1. \A i \in k + 1 .. Len(q) : q[i] \in S
    BY <1>1
  <2>2. k + 1 \in Int /\ Len(q) \in Int
    BY <1>1
  <2>. QED BY <1>1, <2>1, <2>2, SubSeqProperties
<1>4. RemoveAt(q, k) = a \o b
  BY DEF RemoveAt
<1> HIDE DEF a, b
<1>5. /\ a \o b \in Seq(S)
      /\ Len(a \o b) = Len(a) + Len(b)
      /\ \A i \in 1 .. Len(a) + Len(b) :
           (a \o b)[i] = IF i <= Len(a) THEN a[i] ELSE b[i - Len(a)]
  BY <1>2, <1>3, ConcatProperties, Zenon
<1>6. Len(a) + Len(b) = Len(q) - 1
  BY <1>1, <1>2, <1>3
<1>7. ASSUME NEW i \in 1 .. Len(q) - 1
      PROVE  (a \o b)[i] = IF i < k THEN q[i] ELSE q[i + 1]
  <2>1. CASE i < k
    BY <1>1, <1>2, <1>5, <1>6, <2>1
  <2>2. CASE ~(i < k)
    <3>1. (a \o b)[i] = b[i - (k - 1)]
      BY <1>1, <1>2, <1>5, <1>6, <2>2
    <3>2. i - (k - 1) \in 1 .. Len(q) - k /\ k + (i - (k - 1)) = i + 1
      BY <1>1, <2>2
    <3>. QED BY <1>3, <2>2, <3>1, <3>2
  <2>. QED BY <2>1, <2>2, Zenon
<1>. QED BY <1>4, <1>5, <1>6, <1>7

(***************************************************************************)
(* list_remove on a list that holds the item exactly once (list.c:65-96).  *)
(***************************************************************************)
LEMMA ListRemoveProperties ==
  ASSUME NEW S, NEW q \in Seq(S), NEW k \in 1 .. Len(q),
         \A i, j \in 1 .. Len(q) : q[i] = q[j] => i = j
  PROVE  /\ list_remove(q, q[k]) \in Seq(S)
         /\ Len(list_remove(q, q[k])) = Len(q) - 1
         /\ \A i \in 1 .. Len(q) - 1 :
              list_remove(q, q[k])[i] = IF i < k THEN q[i] ELSE q[i + 1]
<1> DEFINE P(i) == q[i] = q[k] /\ \A j \in 1 .. (i - 1) : q[j] # q[k]
           m == CHOOSE i \in 1 .. Len(q) : P(i)
<1>0. Len(q) \in Nat
  BY LenProperties
<1>1. P(k)
  BY <1>0
<1>2. m \in 1 .. Len(q) /\ P(m)
  BY <1>1
<1>3. m = k
  BY <1>2
<1>4. list_remove(q, q[k]) = RemoveAt(q, k)
  BY <1>3 DEF list_remove
<1>5. /\ RemoveAt(q, k) \in Seq(S)
      /\ Len(RemoveAt(q, k)) = Len(q) - 1
      /\ \A i \in 1 .. Len(q) - 1 :
           RemoveAt(q, k)[i] = IF i < k THEN q[i] ELSE q[i + 1]
  BY RemoveAtProperties, Zenon
<1>. QED BY <1>4, <1>5
-----------------------------------------------------------------------------
(***************************************************************************)
(* What the queues hold, for thread states st, priorities pr and a set off *)
(* of threads that are on no queue: EachThreadOnce is the case in which    *)
(* only the current thread is off.  The intermediate lists of              *)
(* sched_schedule, where two threads are off, are Partitions as well.      *)
(***************************************************************************)
Partition(qs, st, pr, off) ==
  /\ qs \in [Prios -> Seq(Threads)]
  /\ \A t \in Threads \ off : st[t] # "Initial" =>
       \E i \in 1 .. Len(qs[pr[t]]) : qs[pr[t]][i] = t
  /\ \A p \in Prios : \A i \in 1 .. Len(qs[p]) :
       /\ qs[p][i] \notin off
       /\ st[qs[p][i]] # "Initial"
       /\ pr[qs[p][i]] = p
  /\ \A p \in Prios : \A i, j \in 1 .. Len(qs[p]) :
       qs[p][i] = qs[p][j] => i = j

(***************************************************************************)
(* Appending a thread that is off to the queue of its priority             *)
(* (sched_add_unlocked, sched.c:55-60).                                    *)
(***************************************************************************)
LEMMA AddPartition ==
  ASSUME NEW qs, NEW st, NEW pr \in [Threads -> Prios], NEW off, NEW t \in off,
         off \subseteq Threads, st[t] # "Initial", Partition(qs, st, pr, off)
  PROVE  Partition([qs EXCEPT ![pr[t]] = Append(@, t)], st, pr, off \ {t})
<1> DEFINE p == pr[t]
           q == qs[p]
           new == [qs EXCEPT ![p] = Append(q, t)]
<1>1. t \in Threads /\ p \in Prios /\ q \in Seq(Threads)
  BY DEF Partition
<1>2. /\ Append(q, t) \in Seq(Threads)
      /\ Len(Append(q, t)) = Len(q) + 1
      /\ \A i \in 1 .. Len(q) : Append(q, t)[i] = q[i]
      /\ Append(q, t)[Len(q) + 1] = t
      /\ Len(q) \in Nat
  BY <1>1, AppendProperties, LenProperties
<1>3. /\ new \in [Prios -> Seq(Threads)]
      /\ new[p] = Append(q, t)
      /\ \A r \in Prios : r # p => new[r] = qs[r]
  BY <1>1, <1>2 DEF Partition
<1> HIDE DEF new
<1>4. ASSUME NEW u \in Threads \ (off \ {t}), st[u] # "Initial"
      PROVE  \E i \in 1 .. Len(new[pr[u]]) : new[pr[u]][i] = u
  <2>1. CASE u = t
    BY <1>2, <1>3, <2>1
  <2>2. CASE u # t
    <3>1. PICK i \in 1 .. Len(qs[pr[u]]) : qs[pr[u]][i] = u
      BY <1>4, <2>2 DEF Partition
    <3>2. CASE pr[u] = p
      <4>1. i \in 1 .. Len(q) /\ q[i] = u
        BY <3>1, <3>2
      <4>2. i \in 1 .. Len(Append(q, t)) /\ Append(q, t)[i] = u
        BY <1>2, <4>1
      <4>. QED BY <1>3, <3>2, <4>2, Zenon
    <3>3. CASE pr[u] # p
      BY <1>3, <3>1, <3>3
    <3>. QED BY <3>2, <3>3
  <2>. QED BY <2>1, <2>2
<1>5. ASSUME NEW r \in Prios, NEW i \in 1 .. Len(new[r])
      PROVE  \/ i \in 1 .. Len(qs[r]) /\ new[r][i] = qs[r][i]
             \/ r = p /\ i = Len(q) + 1 /\ new[r][i] = t
  <2>1. CASE r = p
    BY <1>2, <1>3, <2>1
  <2>2. CASE r # p
    BY <1>3, <2>2
  <2>. QED BY <2>1, <2>2
<1>6. ASSUME NEW r \in Prios, NEW i \in 1 .. Len(new[r])
      PROVE  /\ new[r][i] \notin off \ {t}
             /\ st[new[r][i]] # "Initial"
             /\ pr[new[r][i]] = r
  <2>1. CASE i \in 1 .. Len(qs[r]) /\ new[r][i] = qs[r][i]
    <3>1. qs[r][i] \notin off /\ st[qs[r][i]] # "Initial" /\ pr[qs[r][i]] = r
      BY <2>1 DEF Partition
    <3>. QED BY <2>1, <3>1
  <2>2. CASE r = p /\ new[r][i] = t
    BY <2>2
  <2>. QED BY <1>5, <2>1, <2>2
<1>7. ASSUME NEW r \in Prios, NEW i \in 1 .. Len(new[r]),
             NEW j \in 1 .. Len(new[r]), new[r][i] = new[r][j]
      PROVE  i = j
  <2>1. \A k \in 1 .. Len(qs[r]) : qs[r][k] # t
    BY DEF Partition
  <2>2. CASE i \in 1 .. Len(qs[r]) /\ new[r][i] = qs[r][i]
    <3>1. j \in 1 .. Len(qs[r]) /\ new[r][j] = qs[r][j]
      BY <1>5, <1>7, <2>1, <2>2, Zenon
    <3>2. qs[r][i] = qs[r][j]
      BY <1>7, <2>2, <3>1, Zenon
    <3>. QED BY <2>2, <3>1, <3>2 DEF Partition
  <2>3. CASE r = p /\ i = Len(q) + 1 /\ new[r][i] = t
    <3>1. r = p /\ j = Len(q) + 1
      BY <1>5, <1>7, <2>1, <2>3, SMTT(20)
    <3>. QED BY <2>3, <3>1
  <2>. QED BY <1>5, <2>2, <2>3
<1>8. Partition(new, st, pr, off \ {t})
  BY <1>3, <1>4, <1>6, <1>7 DEF Partition
<1>. QED BY <1>8 DEF new

(***************************************************************************)
(* Unlinking a thread from the queue of its priority                       *)
(* (sched_remove_unlocked, sched.c:62-64).                                 *)
(***************************************************************************)
LEMMA RemovePartition ==
  ASSUME NEW qs, NEW st, NEW pr \in [Threads -> Prios], NEW off,
         Partition(qs, st, pr, off),
         NEW p \in Prios, NEW k \in 1 .. Len(qs[p]), NEW t, t = qs[p][k]
  PROVE  Partition([qs EXCEPT ![pr[t]] = list_remove(@, t)], st, pr,
                   off \cup {t})
<1> DEFINE q == qs[p]
           l == list_remove(q, t)
           new == [qs EXCEPT ![p] = l]
<1>1. /\ q \in Seq(Threads) /\ Len(q) \in Nat /\ t \in Threads /\ pr[t] = p
      /\ \A i, j \in 1 .. Len(q) : q[i] = q[j] => i = j
  BY LenProperties, ElementOfSeq DEF Partition
<1>2. /\ l \in Seq(Threads)
      /\ Len(l) = Len(q) - 1
      /\ \A i \in 1 .. Len(q) - 1 : l[i] = IF i < k THEN q[i] ELSE q[i + 1]
  <2>1. k \in 1 .. Len(q) /\ t = q[k]
    OBVIOUS
  <2>. HIDE DEF q
  <2>. QED BY <1>1, <2>1, ListRemoveProperties
<1>3. /\ new \in [Prios -> Seq(Threads)]
      /\ new[p] = l
      /\ \A r \in Prios : r # p => new[r] = qs[r]
  BY <1>2 DEF Partition
<1> HIDE DEF l, new
<1>4. ASSUME NEW i \in 1 .. Len(q) - 1
      PROVE  \E j \in 1 .. Len(q) :
               j # k /\ l[i] = q[j] /\ j = IF i < k THEN i ELSE i + 1
  <2>1. CASE i < k
    BY <1>1, <1>2, <2>1
  <2>2. CASE ~(i < k)
    <3>1. i + 1 \in 1 .. Len(q) /\ i + 1 # k /\ l[i] = q[i + 1]
      BY <1>1, <1>2, <2>2
    <3>. QED BY <2>2, <3>1
  <2>. QED BY <2>1, <2>2
<1>5. ASSUME NEW u \in Threads \ (off \cup {t}), st[u] # "Initial"
      PROVE  \E i \in 1 .. Len(new[pr[u]]) : new[pr[u]][i] = u
  <2>1. PICK i \in 1 .. Len(qs[pr[u]]) : qs[pr[u]][i] = u
    BY <1>5 DEF Partition
  <2>2. CASE pr[u] = p
    <3>1. i # k
      BY <1>5, <2>1, <2>2
    <3>2. CASE i < k
      <4>1. i \in 1 .. Len(l) /\ l[i] = u
        BY <1>1, <1>2, <2>1, <2>2, <3>2
      <4>. QED BY <1>3, <2>2, <4>1
    <3>3. CASE i > k
      <4>1. i - 1 \in 1 .. Len(l) /\ l[i - 1] = u
        BY <1>1, <1>2, <2>1, <2>2, <3>3, SMTT(20)
      <4>. QED BY <1>3, <2>2, <4>1, Zenon
    <3>. QED BY <1>1, <2>1, <2>2, <3>1, <3>2, <3>3, SMTT(20)
  <2>3. CASE pr[u] # p
    BY <1>3, <2>1, <2>3
  <2>. QED BY <2>2, <2>3
<1>6. ASSUME NEW r \in Prios, NEW i \in 1 .. Len(new[r])
      PROVE  \E j \in 1 .. Len(qs[r]) :
               new[r][i] = qs[r][j] /\ qs[r][j] # t
  <2>1. CASE r = p
    <3>1. i \in 1 .. Len(q) - 1
      BY <1>2, <1>3, <2>1, SMTT(20)
    <3>. QED BY <1>1, <1>3, <1>4, <2>1, <3>1, SMTT(20)
  <2>2. CASE r # p
    <3>1. i \in 1 .. Len(qs[r]) /\ new[r][i] = qs[r][i]
      BY <1>3, <2>2
    <3>2. pr[qs[r][i]] = r
      BY <3>1, Zenon DEF Partition
    <3>. QED BY <1>1, <2>2, <3>1, <3>2, SMTT(20)
  <2>. QED BY <2>1, <2>2
<1>7. ASSUME NEW r \in Prios, NEW i \in 1 .. Len(new[r])
      PROVE  /\ new[r][i] \notin off \cup {t}
             /\ st[new[r][i]] # "Initial"
             /\ pr[new[r][i]] = r
  <2>1. PICK j \in 1 .. Len(qs[r]) : new[r][i] = qs[r][j] /\ qs[r][j] # t
    BY <1>6
  <2>2. qs[r][j] \notin off /\ st[qs[r][j]] # "Initial" /\ pr[qs[r][j]] = r
    BY DEF Partition
  <2>. QED BY <2>1, <2>2
<1>8. ASSUME NEW r \in Prios, NEW i \in 1 .. Len(new[r]),
             NEW j \in 1 .. Len(new[r]), new[r][i] = new[r][j]
      PROVE  i = j
  <2>1. CASE r = p
    <3>1. i \in 1 .. Len(q) - 1 /\ j \in 1 .. Len(q) - 1
      BY <1>2, <1>3, <2>1, SMTT(20)
    <3>2. PICK a \in 1 .. Len(q) : l[i] = q[a] /\ a = IF i < k THEN i ELSE i + 1
      BY <1>4, <3>1
    <3>3. PICK b \in 1 .. Len(q) : l[j] = q[b] /\ b = IF j < k THEN j ELSE j + 1
      BY <1>4, <3>1
    <3>4. a = b
      BY <1>1, <1>3, <1>8, <2>1, <3>2, <3>3, ZenonT(60)
    <3>. QED BY <1>1, <3>1, <3>2, <3>3, <3>4, SMTT(20)
  <2>2. CASE r # p
    BY <1>3, <1>8, <2>2, ZenonT(60) DEF Partition
  <2>. QED BY <2>1, <2>2
<1>9. Partition(new, st, pr, off \cup {t})
  BY <1>3, <1>5, <1>7, <1>8 DEF Partition
<1>. QED BY <1>1, <1>9 DEF new, l
-----------------------------------------------------------------------------
(***************************************************************************)
(* A nonempty set of naturals has a least element.                         *)
(***************************************************************************)
LEMMA LeastNat ==
  ASSUME NEW T, T \subseteq Nat, T # {}
  PROVE  \E x \in T : \A y \in T : x <= y
<1>1. PICK x \in T : \A y \in T : ~(<<y, x>> \in OpToRel(<, Nat))
  BY WFMin, NatLessThanWellFounded, Zenon
<1>2. \A y \in T : ~(y < x)
  BY <1>1, Zenon DEF OpToRel
<1>. QED BY <1>2

(***************************************************************************)
(* The scan of sched_choose (sched.c:66-83) returns a thread whenever some *)
(* queue holds a Runnable one.                                             *)
(***************************************************************************)
LEMMA ChooseFinds ==
  ASSUME queues \in [Prios -> Seq(Threads)], NEW st,
         NEW p0 \in Prios, NEW i0 \in 1 .. Len(queues[p0]),
         st[queues[p0][i0]] = "Runnable"
  PROVE  sched_choose(st) # {}
<1> DEFINE Has(p) == \E i \in 1 .. Len(queues[p]) : st[queues[p][i]] = "Runnable"
           T == {n \in Nat : \E p \in Prios : Has(p) /\ n = PrioKernel - p}
<1>0. PrioKernel \in Nat /\ \A p \in Prios : p \in Nat /\ p <= PrioKernel
  BY PrioAssumption DEF Prios
<1>1. PrioKernel - p0 \in T
  <2>1. Has(p0) /\ PrioKernel - p0 \in Nat
    BY <1>0
  <2>. QED BY <2>1
<1>2. PICK n \in T : \A m \in T : n <= m
  <2>. HIDE DEF Has
  <2>1. T \subseteq Nat /\ T # {}
    BY <1>1
  <2>. HIDE DEF T
  <2>. QED BY <2>1, LeastNat
<1>3. PICK p \in Prios : Has(p) /\ n = PrioKernel - p
  OBVIOUS
<1>4. \A q \in Prios : q > p => ~Has(q)
  <2> SUFFICES ASSUME NEW q \in Prios, q > p, Has(q)
               PROVE  FALSE
    OBVIOUS
  <2>. HIDE DEF Has
  <2>1. PrioKernel - q \in T
    BY <1>0, SMTT(20)
  <2>2. n <= PrioKernel - q
    BY <1>2, <2>1
  <2>. QED BY <1>0, <1>3, <2>2
<1> DEFINE U == {i \in 1 .. Len(queues[p]) : st[queues[p][i]] = "Runnable"}
<1>5. Len(queues[p]) \in Nat /\ \A i \in 1 .. Len(queues[p]) : queues[p][i] \in Threads
  BY LenProperties, ElementOfSeq
<1>6. PICK i \in U : \A j \in U : i <= j
  <2>1. U \subseteq Nat
    BY <1>5
  <2>2. U # {}
    <3>1. PICK i \in 1 .. Len(queues[p]) : st[queues[p][i]] = "Runnable"
      BY <1>3
    <3>2. i \in U
      BY <3>1
    <3>. QED BY <3>2
  <2>. HIDE DEF U
  <2>. QED BY <2>1, <2>2, LeastNat, Zenon
<1>7. \A j \in 1 .. (i - 1) : st[queues[p][j]] # "Runnable"
  BY <1>5, <1>6
<1>8. queues[p][i] \in sched_choose(st)
  BY <1>4, <1>5, <1>6, <1>7, Zenon DEF sched_choose
<1>. QED BY <1>8
-----------------------------------------------------------------------------
(***************************************************************************)
(* The inductive invariant.  EachThreadOnce alone is not inductive for     *)
(* AlwaysSomeoneToRun: that the idle thread stays Runnable, that boot ends *)
(* only once it exists, and that only the init thread runs during boot are *)
(* needed as well.                                                         *)
(***************************************************************************)
BootOrder ==
  /\ phase = "boot" => cur = InitThr
  /\ state[cur] # "Initial"
  /\ state[Idle] \in {"Initial", "Runnable"}
  /\ phase # "boot" => state[Idle] = "Runnable"

IInv ==
  /\ TypeOK
  /\ EachThreadOnce
  /\ AlwaysSomeoneToRun
  /\ SpaceOfCurrent
  /\ BootOrder

(***************************************************************************)
(* EachThreadOnce is the partition of the threads over queues and CPU that *)
(* the lemmas above are stated with.                                       *)
(***************************************************************************)
LEMMA OncePartition ==
  ASSUME TypeOK
  PROVE  EachThreadOnce <=> Partition(queues, state, prio, {cur})
BY DEF TypeOK, EachThreadOnce, InOwnQueue, OnlyInOwnQueue, QueuedOnce, Queued,
       Partition

(***************************************************************************)
(* sched_schedule, entered with any change of the current thread's state,  *)
(* preserves the invariant.                                                *)
(***************************************************************************)
LEMMA SchedulePreserves ==
  ASSUME IInv, phase = "run",
         NEW st \in [Threads -> States],
         \A t \in Threads \ {cur} : st[t] = state[t],
         st[cur] # "Initial", st[Idle] = "Runnable",
         sched_schedule(st)
  PROVE  IInv'
<1> USE ThreadsAssumption
<1>1. /\ state' \in [Threads -> States]
      /\ \A t \in Threads \ {cur} : state'[t] = state[t]
      /\ state'[cur] # "Initial"
      /\ state'[Idle] = "Runnable"
      /\ prio' = prio
      /\ cur \in Threads
  BY DEF IInv, TypeOK, sched_schedule, Unyielded, States
<1>2. Partition(queues, state', prio, {cur})
  <2>1. Partition(queues, state, prio, {cur})
    BY OncePartition DEF IInv
  <2>2. \A p \in Prios : \A i \in 1 .. Len(queues[p]) :
          queues[p][i] \in Threads \ {cur}
    BY <2>1, ElementOfSeq DEF Partition
  <2>3. \A t \in Threads \ {cur} : state'[t] # "Initial" =>
          \E i \in 1 .. Len(queues[prio[t]]) : queues[prio[t]][i] = t
    BY <1>1, <2>1 DEF Partition
  <2>4. ASSUME NEW p \in Prios, NEW i \in 1 .. Len(queues[p])
        PROVE  /\ queues[p][i] \notin {cur}
               /\ state'[queues[p][i]] # "Initial"
               /\ prio[queues[p][i]] = p
    <3>1. state'[queues[p][i]] = state[queues[p][i]]
      BY <1>1, <2>2
    <3>. QED BY <2>1, <2>2, <3>1, SMTT(20) DEF Partition
  <2>. QED BY <2>1, <2>3, <2>4, SMTT(20) DEF Partition
<1>3. CASE UNCHANGED <<queues, cur, left, space, phase>>
  <2>1. TypeOK'
    BY <1>1, <1>3 DEF IInv, TypeOK
  <2>2. EachThreadOnce'
    BY <1>1, <1>2, <1>3, <2>1, SMTT(20)
       DEF Partition, EachThreadOnce, InOwnQueue, OnlyInOwnQueue, QueuedOnce,
           Queued
  <2>3. (AlwaysSomeoneToRun /\ SpaceOfCurrent /\ BootOrder)'
    BY <1>1, <1>3, SMTT(20) DEF IInv, AlwaysSomeoneToRun, SpaceOfCurrent, BootOrder
  <2>. QED BY <2>1, <2>2, <2>3 DEF IInv
<1>4. CASE \E thr \in sched_choose(state') : SwitchTo(thr)
  <2>1. PICK thr \in sched_choose(state') : SwitchTo(thr)
    BY <1>4
  <2>a. PICK p \in Prios : \E k \in 1 .. Len(queues[p]) : queues[p][k] = thr
    BY DEF sched_choose
  <2>2. PICK k \in 1 .. Len(queues[p]) : queues[p][k] = thr
    BY <2>a
  <2>3. thr \in Threads /\ thr # cur /\ state'[thr] # "Initial" /\ prio[thr] = p
    BY <1>2, <2>2, ElementOfSeq, SMTT(20) DEF Partition, sched_choose
  <2>4. prio \in [Threads -> Prios]
    BY DEF IInv, TypeOK
  <2> DEFINE mid == sched_remove_unlocked(queues, thr)
  <2>5. Partition(mid, state', prio, {cur, thr})
    <3>1. Partition([queues EXCEPT ![prio[thr]] = list_remove(@, thr)],
                    state', prio, {cur} \cup {thr})
      BY <1>2, <2>2, <2>4, RemovePartition, SMTT(20)
    <3>. QED BY <3>1 DEF sched_remove_unlocked
  <2>6. queues' = [mid EXCEPT ![prio[cur]] = Append(@, cur)]
    BY <2>1 DEF SwitchTo, sched_add_unlocked
  <2>. HIDE DEF mid
  <2>7. Partition(queues', state', prio, {thr})
    <3>1. Partition([mid EXCEPT ![prio[cur]] = Append(@, cur)], state', prio,
                    {cur, thr} \ {cur})
      BY <1>1, <2>3, <2>4, <2>5, AddPartition, ZenonT(60)
    <3>2. {cur, thr} \ {cur} = {thr}
      BY <2>3
    <3>. QED BY <2>6, <3>1, <3>2, Zenon
  <2>8. /\ cur' = thr /\ left' = Slice /\ phase' = phase
        /\ space' = IF Parent[cur] # Parent[thr] THEN Parent[thr] ELSE space
    BY <2>1 DEF SwitchTo, thr_switch
  <2>9. TypeOK'
    <3>1. queues' \in [Prios -> Seq(Threads)]
      BY <2>7 DEF Partition
    <3>2. space' \in Procs
      BY <2>3, <2>8 DEF IInv, TypeOK, Procs
    <3>3. left' \in 0 .. Slice
      BY <2>8, SliceAssumption
    <3>4. prio' \in [Threads -> Prios] /\ cur' \in Threads
      BY <1>1, <2>3, <2>4, <2>8, SMTT(20)
    <3>5. phase' \in {"boot", "run", "fatal", "abort"}
      BY <2>8
    <3>. QED BY <1>1, <3>1, <3>2, <3>3, <3>4, <3>5, SMTT(20) DEF TypeOK
  <2>10. EachThreadOnce'
    <3>1. Partition(queues', state', prio', {cur'})
      BY <1>1, <2>7, <2>8, SMTT(20)
    <3>2. InOwnQueue'
      BY <3>1 DEF Partition, InOwnQueue, Queued
    <3>3. OnlyInOwnQueue'
      BY <3>1 DEF Partition, OnlyInOwnQueue
    <3>4. QueuedOnce'
      BY <3>1 DEF Partition, QueuedOnce
    <3>. QED BY <3>2, <3>3, <3>4, SMTT(20) DEF EachThreadOnce
  <2>11. (AlwaysSomeoneToRun /\ SpaceOfCurrent /\ BootOrder)'
    BY <1>1, <2>3, <2>8, SMTT(20) DEF IInv, AlwaysSomeoneToRun, SpaceOfCurrent, BootOrder
  <2>. QED BY <2>9, <2>10, <2>11, SMTT(20) DEF IInv
<1>5. CASE /\ sched_choose(state') = {}
           /\ phase' = IF state'[cur] = "Runnable" THEN phase ELSE "fatal"
           /\ UNCHANGED <<queues, cur, left, space>>
  <2>1. state'[cur] = "Runnable"
    <3>1. CASE cur = Idle
      BY <1>1, <3>1
    <3>2. CASE cur # Idle
      <4>1. PICK i \in 1 .. Len(queues[prio[Idle]]) : queues[prio[Idle]][i] = Idle
        BY <1>1, <1>2, <3>2 DEF Partition
      <4>2. prio[Idle] \in Prios /\ queues \in [Prios -> Seq(Threads)]
        BY DEF IInv, TypeOK
      <4>3. sched_choose(state') # {}
        BY <1>1, <4>1, <4>2, ChooseFinds
      <4>. QED BY <1>5, <4>3, SMTT(20)
    <3>. QED BY <3>1, <3>2
  <2>. QED BY <1>3, <1>5, <2>1
<1>. QED BY <1>3, <1>4, <1>5, SMTT(20) DEF sched_schedule

(***************************************************************************)
(* Creating a thread and adding it to its queue (thr_create and sched_add, *)
(* thread.c:36-73, sched.c:147-151) preserves the invariant.               *)
(***************************************************************************)
LEMMA SpawnPreserves ==
  ASSUME IInv, NEW t \in Threads, NEW p \in Prios, Spawn(t, p)
  PROVE  IInv'
<1> USE ThreadsAssumption
<1>1. /\ state' = [state EXCEPT ![t] = "Runnable"]
      /\ prio' = [prio EXCEPT ![t] = p]
      /\ queues' = [queues EXCEPT ![p] = Append(@, t)]
      /\ state[t] = "Initial" /\ t # cur /\ phase = "boot"
      /\ cur' = cur /\ left' = left /\ space' = space /\ phase' = phase
  BY DEF Spawn, IInv, BootOrder
<1>2. /\ state' \in [Threads -> States] /\ state'[t] = "Runnable"
      /\ \A u \in Threads : u # t => state'[u] = state[u] /\ prio'[u] = prio[u]
      /\ prio' \in [Threads -> Prios] /\ prio'[t] = p
      /\ cur \in Threads
  BY <1>1 DEF IInv, TypeOK, States
<1>3. Partition(queues, state', prio', {cur, t})
  <2>1. Partition(queues, state, prio, {cur})
    BY OncePartition DEF IInv
  <2>2. ASSUME NEW q \in Prios, NEW i \in 1 .. Len(queues[q])
        PROVE  /\ queues[q][i] \in Threads /\ queues[q][i] \notin {cur, t}
               /\ prio[queues[q][i]] = q
               /\ state[queues[q][i]] # "Initial"
    BY <1>1, <2>1, ElementOfSeq DEF Partition
  <2>3. ASSUME NEW u \in Threads \ {cur, t}, state'[u] # "Initial"
        PROVE  \E i \in 1 .. Len(queues[prio'[u]]) : queues[prio'[u]][i] = u
    <3>1. state[u] # "Initial" /\ prio'[u] = prio[u] /\ u \in Threads \ {cur}
      BY <1>2, <2>3
    <3>2. \E i \in 1 .. Len(queues[prio[u]]) : queues[prio[u]][i] = u
      BY <2>1, <3>1, SMTT(20) DEF Partition
    <3>. QED BY <3>1, <3>2
  <2>4. ASSUME NEW q \in Prios, NEW i \in 1 .. Len(queues[q])
        PROVE  /\ queues[q][i] \notin {cur, t}
               /\ state'[queues[q][i]] # "Initial"
               /\ prio'[queues[q][i]] = q
    <3>1. /\ state'[queues[q][i]] = state[queues[q][i]]
          /\ prio'[queues[q][i]] = prio[queues[q][i]]
      BY <1>2, <2>2
    <3>. QED BY <2>2, <3>1, SMTT(20)
  <2>. QED BY <2>1, <2>3, <2>4, SMTT(20) DEF Partition
<1>4. Partition(queues', state', prio', {cur})
  <2>1. Partition([queues EXCEPT ![prio'[t]] = Append(@, t)], state', prio',
                  {cur, t} \ {t})
    BY <1>2, <1>3, AddPartition, Zenon
  <2>2. {cur, t} \ {t} = {cur}
    BY <1>1, SMTT(20)
  <2>. QED BY <1>1, <1>2, <2>1, <2>2, Zenon
<1>5. TypeOK'
  <2>1. queues' \in [Prios -> Seq(Threads)]
    BY <1>4 DEF Partition
  <2>. QED BY <1>1, <1>2, <2>1, SMTT(20) DEF IInv, TypeOK
<1>6. EachThreadOnce'
  <2>1. InOwnQueue'
    <3>1. \A u \in Threads \ {cur'} : state'[u] # "Initial" =>
            \E i \in 1 .. Len(queues'[prio'[u]]) : queues'[prio'[u]][i] = u
      BY <1>1, <1>4, SMTT(20) DEF Partition
    <3>. QED BY <3>1, SMTT(20) DEF InOwnQueue, Queued
  <2>2. OnlyInOwnQueue'
    BY <1>1, <1>4 DEF Partition, OnlyInOwnQueue
  <2>3. QueuedOnce'
    BY <1>4, Zenon DEF Partition, QueuedOnce
  <2>. QED BY <2>1, <2>2, <2>3, SMTT(20) DEF EachThreadOnce
<1>7. (AlwaysSomeoneToRun /\ SpaceOfCurrent /\ BootOrder)'
  BY <1>1, <1>2 DEF IInv, AlwaysSomeoneToRun, SpaceOfCurrent, BootOrder
<1>. QED BY <1>5, <1>6, <1>7, SMTT(20) DEF IInv

\* A step that moves no thread between queues and off the CPU, and creates none.
LEMMA SameQueues ==
  ASSUME IInv, UNCHANGED <<queues, cur, prio>>, TypeOK',
         \A t \in Threads : state'[t] = "Initial" <=> state[t] = "Initial"
  PROVE  EachThreadOnce'
<1>1. \A p \in Prios : \A i \in 1 .. Len(queues[p]) : queues[p][i] \in Threads
  BY ElementOfSeq DEF IInv, TypeOK
<1>2. InOwnQueue'
  BY DEF IInv, EachThreadOnce, InOwnQueue, Queued
<1>3. OnlyInOwnQueue'
  BY <1>1, SMTT(20) DEF IInv, EachThreadOnce, OnlyInOwnQueue
<1>4. QueuedOnce'
  BY DEF IInv, EachThreadOnce, QueuedOnce
<1>. QED BY <1>2, <1>3, <1>4, SMTT(20) DEF EachThreadOnce

(***************************************************************************)
(* The invariant holds when boot_next begins (tachyon.c:154).              *)
(***************************************************************************)
LEMMA InitIInv == Init => IInv
<1> SUFFICES ASSUME Init
             PROVE  IInv
  OBVIOUS
<1> USE ThreadsAssumption, PrioAssumption, SliceAssumption
<1>1. TypeOK
  <2>1. << >> \in Seq(Threads)
    OBVIOUS
  <2>. QED BY <2>1 DEF Init, TypeOK, Prios, Procs, States
<1>2. EachThreadOnce
  <2>1. \A p \in Prios : Len(queues[p]) = 0
    BY DEF Init
  <2>. QED BY <2>1 DEF Init, EachThreadOnce, InOwnQueue, OnlyInOwnQueue,
                       QueuedOnce
<1>3. AlwaysSomeoneToRun /\ SpaceOfCurrent /\ BootOrder
  BY DEF Init, AlwaysSomeoneToRun, SpaceOfCurrent, BootOrder
<1>. QED BY <1>1, <1>2, <1>3 DEF IInv

(***************************************************************************)
(* Every operation of the scheduler and every tick preserves the           *)
(* invariant.                                                              *)
(***************************************************************************)
LEMMA NextIInv == IInv /\ [Next]_vars => IInv'
<1> SUFFICES ASSUME IInv, [Next]_vars
             PROVE  IInv'
  OBVIOUS
<1> USE ThreadsAssumption
<1>0. /\ state \in [Threads -> States] /\ cur \in Threads
      /\ state[cur] # "Initial"
      /\ phase = "run" => state[Idle] = "Runnable"
  BY DEF IInv, TypeOK, BootOrder
<1>1. CASE idle_init
  <2>1. PrioIdle \in Prios
    BY PrioAssumption DEF PrioIdle, Prios
  <2>. QED BY <1>1, <2>1, SpawnPreserves DEF idle_init
<1>2. CASE boot_spawn
  BY <1>2, SpawnPreserves DEF boot_spawn
<1>3. CASE sched_start
  <2>1. TypeOK'
    BY <1>3 DEF sched_start, IInv, TypeOK, States
  <2>2. EachThreadOnce'
    <3>1. state[InitThr] # "Initial"
      BY <1>0, <1>3 DEF sched_start, IInv, BootOrder
    <3>2. \A t \in Threads : state'[t] = "Initial" <=> state[t] = "Initial"
      BY <1>0, <1>3, <3>1, SMTT(20) DEF sched_start
    <3>. QED BY <1>3, <2>1, <3>2, SameQueues, SMTT(20) DEF sched_start
  <2>3. (AlwaysSomeoneToRun /\ SpaceOfCurrent /\ BootOrder)'
    BY <1>0, <1>3, SMTT(20) DEF sched_start, IInv, AlwaysSomeoneToRun, SpaceOfCurrent,
                      BootOrder
  <2>. QED BY <2>1, <2>2, <2>3, SMTT(20) DEF IInv
<1>4. CASE Clock
  <2>1. TypeOK'
    BY <1>4, SliceAssumption DEF Clock, IInv, TypeOK
  <2>2. EachThreadOnce'
    BY <1>4, <2>1, SameQueues, SMTT(20) DEF Clock
  <2>3. (AlwaysSomeoneToRun /\ SpaceOfCurrent /\ BootOrder)'
    BY <1>4 DEF Clock, IInv, AlwaysSomeoneToRun, SpaceOfCurrent, BootOrder
  <2>. QED BY <2>1, <2>2, <2>3 DEF IInv
<1>5. CASE Tick
  BY <1>0, <1>5, SchedulePreserves, SMTT(20) DEF Tick
<1>6. CASE SysSchedule
  BY <1>0, <1>6, SchedulePreserves, SMTT(20) DEF SysSchedule, Calls
<1>7. ASSUME NEW s \in {"Yielded", "Exited", "Aborting"}, Calls,
             sched_schedule([state EXCEPT ![cur] = s])
      PROVE  IInv'
  <2> DEFINE st == [state EXCEPT ![cur] = s]
  <2>1. /\ st \in [Threads -> States]
        /\ \A t \in Threads \ {cur} : st[t] = state[t]
        /\ st[cur] # "Initial"
        /\ st[Idle] = "Runnable"
        /\ phase = "run"
    BY <1>0, <1>7 DEF Calls, States
  <2>. HIDE DEF st
  <2>2. sched_schedule(st)
    BY <1>7 DEF st
  <2>. QED BY <2>1, <2>2, SchedulePreserves, SMTT(20)
<1>8. CASE sched_yield
  BY <1>7, <1>8 DEF sched_yield
<1>9. CASE thr_exit
  BY <1>7, <1>9 DEF thr_exit
<1>10. CASE thr_abort
  <2>1. CASE Parent[cur] = Core
    <3>1. /\ state' = [state EXCEPT ![cur] = "Aborting"] /\ phase' = "abort"
          /\ cur \notin {Idle, InitThr} /\ phase = "run"
          /\ UNCHANGED <<prio, queues, cur, left, space>>
      BY <1>10, <2>1 DEF thr_abort, Calls
    <3>2. TypeOK'
      BY <1>0, <3>1 DEF IInv, TypeOK, States
    <3>3. EachThreadOnce'
      <4>1. \A t \in Threads : state'[t] = "Initial" <=> state[t] = "Initial"
        BY <1>0, <3>1
      <4>. QED BY <3>1, <3>2, <4>1, SameQueues, SMTT(20)
    <3>4. (AlwaysSomeoneToRun /\ SpaceOfCurrent /\ BootOrder)'
      BY <1>0, <3>1 DEF IInv, AlwaysSomeoneToRun, SpaceOfCurrent, BootOrder
    <3>. QED BY <3>2, <3>3, <3>4 DEF IInv
  <2>2. CASE Parent[cur] # Core
    BY <1>7, <1>10, <2>2, SMTT(20) DEF thr_abort
  <2>. QED BY <2>1, <2>2, SMTT(20)
<1>11. CASE UNCHANGED vars
  <2>1. TypeOK'
    BY <1>11 DEF vars, IInv, TypeOK
  <2>2. EachThreadOnce'
    BY <1>11, <2>1, SameQueues, SMTT(20) DEF vars
  <2>3. (AlwaysSomeoneToRun /\ SpaceOfCurrent /\ BootOrder)'
    BY <1>11 DEF vars, IInv, AlwaysSomeoneToRun, SpaceOfCurrent, BootOrder
  <2>. QED BY <2>1, <2>2, <2>3 DEF IInv
<1>12. CASE abort
  BY <1>11, <1>12 DEF abort
<1>. QED BY <1>1, <1>2, <1>3, <1>4, <1>5, <1>6, <1>8, <1>9, <1>10, <1>11, <1>12, SMTT(20)
         DEF Next

(***************************************************************************)
(* The invariant holds of every behaviour of the scheduler, and with it    *)
(* type correctness.                                                       *)
(***************************************************************************)
THEOREM Invariance == Spec => []IInv
BY InitIInv, NextIInv, PTL DEF Spec

(***************************************************************************)
(* Type correctness of the scheduler's state.                              *)
(***************************************************************************)
THEOREM TypeCorrect == Spec => []TypeOK
<1>1. IInv => TypeOK
  BY DEF IInv
<1>. QED BY <1>1, Invariance, PTL

(***************************************************************************)
(* For any threads, priorities and order of events, the queues and the     *)
(* current thread partition the created threads (sched.c:85-138).          *)
(***************************************************************************)
THEOREM ThreadsNeitherLostNorDoubled == Spec => []EachThreadOnce
<1>1. IInv => EachThreadOnce
  BY DEF IInv
<1>. QED BY <1>1, Invariance, PTL

(***************************************************************************)
(* fatal("no thread left to schedule") is unreachable (sched.c:134).       *)
(***************************************************************************)
THEOREM NeverOutOfThreads == Spec => []AlwaysSomeoneToRun
<1>1. IInv => AlwaysSomeoneToRun
  BY DEF IInv
<1>. QED BY <1>1, Invariance, PTL

(***************************************************************************)
(* CR3 always holds the address space of the current thread's process,     *)
(* though thr_switch loads it only on a change of process (thread.c:103).  *)
(***************************************************************************)
THEOREM RightAddressSpace == Spec => []SpaceOfCurrent
<1>1. IInv => SpaceOfCurrent
  BY DEF IInv
<1>. QED BY <1>1, Invariance, PTL
-----------------------------------------------------------------------------
(***************************************************************************)
(* sched_schedule leaves a dead thread dead: only Yielded is turned into   *)
(* Runnable (sched.c:101-103), and only Runnable threads are chosen.       *)
(***************************************************************************)
LEMMA ScheduleKeepsDead ==
  ASSUME TypeOK, NEW st, NEW t \in Threads, t # cur,
         st[t] = state[t], state[t] \in Dead, sched_schedule(st),
         st \in [Threads -> States]
  PROVE  cur' # t /\ state'[t] = state[t]
<1>1. state'[t] = state[t]
  BY DEF sched_schedule, Unyielded, TypeOK
<1>2. CASE UNCHANGED cur
  BY <1>1, <1>2
<1>3. CASE \E thr \in sched_choose(state') : SwitchTo(thr)
  <2>1. PICK thr \in sched_choose(state') : SwitchTo(thr)
    BY <1>3, SMTT(20)
  <2>2. state'[thr] = "Runnable" /\ cur' = thr
    BY <2>1 DEF sched_choose, SwitchTo, thr_switch
  <2>. QED BY <1>1, <2>2 DEF Dead
<1>. QED BY <1>2, <1>3 DEF sched_schedule

(***************************************************************************)
(* A thread that exited or aborted never runs again (uapi.c:33), for any   *)
(* threads, priorities and order of events.                                *)
(***************************************************************************)
THEOREM DeadNeverRescheduled == Spec => DeadStaysDead
<1> DEFINE A == \A t \in Threads : state[t] \in Dead /\ cur # t =>
                  cur' # t /\ state'[t] = state[t]
<1>1. IInv /\ [Next]_vars => [A]_vars
  <2> SUFFICES ASSUME IInv, Next, NEW t \in Threads, state[t] \in Dead, cur # t
               PROVE  cur' # t /\ state'[t] = state[t]
    BY DEF vars
  <2>0. TypeOK /\ cur \in Threads /\ state \in [Threads -> States]
    BY DEF IInv, TypeOK
  <2>1. ASSUME NEW u \in Threads, NEW p \in Prios, Spawn(u, p)
        PROVE  cur' # t /\ state'[t] = state[t]
    BY <2>0, <2>1 DEF Spawn, Dead
  <2>2. CASE idle_init \/ boot_spawn
    <3>1. Idle \in Threads /\ PrioIdle \in Prios
      BY ThreadsAssumption, PrioAssumption, SMTT(20) DEF PrioIdle, Prios
    <3>. QED BY <2>1, <2>2, <3>1, SMTT(20) DEF idle_init, boot_spawn
  <2>3. CASE sched_start
    BY <2>0, <2>3 DEF sched_start, IInv, BootOrder
  <2>4. CASE Clock \/ abort
    BY <2>4 DEF Clock, abort, vars
  <2>5. CASE Tick \/ SysSchedule
    BY <2>0, <2>5, ScheduleKeepsDead, SMTT(20) DEF Tick, SysSchedule
  <2>6. ASSUME NEW s \in {"Yielded", "Exited", "Aborting"},
               sched_schedule([state EXCEPT ![cur] = s])
        PROVE  cur' # t /\ state'[t] = state[t]
    <3> DEFINE st == [state EXCEPT ![cur] = s]
    <3>1. st \in [Threads -> States] /\ st[t] = state[t]
      BY <2>0 DEF States
    <3>. HIDE DEF st
    <3>2. sched_schedule(st)
      BY <2>6 DEF st
    <3>. QED BY <2>0, <3>1, <3>2, ScheduleKeepsDead, SMTT(20)
  <2>7. CASE sched_yield
    BY <2>6, <2>7 DEF sched_yield
  <2>8. CASE thr_exit
    BY <2>6, <2>8 DEF thr_exit
  <2>9. CASE thr_abort
    <3>1. CASE Parent[cur] = Core
      BY <2>0, <2>9, <3>1 DEF thr_abort
    <3>2. CASE Parent[cur] # Core
      BY <2>6, <2>9, <3>2 DEF thr_abort
    <3>. QED BY <3>1, <3>2
  <2>. QED BY <2>2, <2>3, <2>4, <2>5, <2>7, <2>8, <2>9, SMTT(20) DEF Next
<1>. QED BY <1>1, Invariance, PTL DEF Spec, DeadStaysDead
-----------------------------------------------------------------------------

(***************************************************************************)
(* The queue r keeps the order of the queue q for all but the thread c:    *)
(* every other thread of q is in r, at its old place or nearer the head.   *)
(***************************************************************************)
Keeps(q, r, c) ==
  \A i \in 1 .. Len(q) :
    \/ c = q[i]
    \/ \E j \in 1 .. i : j <= Len(r) /\ r[j] = q[i]

\* A queue that does not change keeps its order.
LEMMA KeepsSame ==
  ASSUME NEW q \in Seq(Threads), NEW c
  PROVE  Keeps(q, q, c)
<1>1. Len(q) \in Nat
  BY LenProperties
<1>2. ASSUME NEW i \in 1 .. Len(q)
      PROVE  \E j \in 1 .. i : j <= Len(q) /\ q[j] = q[i]
  <2>1. i \in 1 .. i /\ i <= Len(q)
    BY <1>1
  <2>. QED BY <2>1
<1>. QED BY <1>2 DEF Keeps

\* Appending a thread keeps the order (sched_add_unlocked, sched.c:55-60).
LEMMA KeepsAppend ==
  ASSUME NEW q \in Seq(Threads), NEW r \in Seq(Threads), NEW t \in Threads,
         NEW c, Keeps(q, r, c)
  PROVE  Keeps(q, Append(r, t), c)
<1>1. /\ Len(Append(r, t)) = Len(r) + 1 /\ Len(r) \in Nat /\ Len(q) \in Nat
      /\ \A j \in 1 .. Len(r) : Append(r, t)[j] = r[j]
  BY AppendProperties, LenProperties
<1>2. ASSUME NEW i \in 1 .. Len(q), c # q[i]
      PROVE  \E j \in 1 .. i : j <= Len(Append(r, t)) /\ Append(r, t)[j] = q[i]
  <2>1. PICK j \in 1 .. i : j <= Len(r) /\ r[j] = q[i]
    BY <1>2 DEF Keeps
  <2>2. j <= Len(Append(r, t)) /\ Append(r, t)[j] = q[i]
    BY <1>1, <2>1
  <2>. QED BY <2>2
<1>. QED BY <1>2 DEF Keeps

\* Unlinking the thread c keeps the order of the others
\* (sched_remove_unlocked, sched.c:62-64).
LEMMA KeepsRemove ==
  ASSUME NEW q \in Seq(Threads), NEW k \in 1 .. Len(q),
         \A i, j \in 1 .. Len(q) : q[i] = q[j] => i = j
  PROVE  Keeps(q, list_remove(q, q[k]), q[k])
<1> DEFINE l == list_remove(q, q[k])
<1>1. /\ Len(l) = Len(q) - 1
      /\ \A i \in 1 .. Len(q) - 1 : l[i] = IF i < k THEN q[i] ELSE q[i + 1]
  BY ListRemoveProperties, Zenon
<1>2. Len(q) \in Nat
  BY LenProperties
<1> HIDE DEF l
<1>3. ASSUME NEW i \in 1 .. Len(q), q[k] # q[i]
      PROVE  \E j \in 1 .. i : j <= Len(l) /\ l[j] = q[i]
  <2>1. CASE i < k
    <3>1. i \in 1 .. i /\ i <= Len(l) /\ l[i] = q[i]
      BY <1>1, <1>2, <2>1, SMTT(20)
    <3>. QED BY <3>1
  <2>2. CASE i > k
    <3>1. i - 1 \in 1 .. i /\ i - 1 <= Len(l) /\ l[i - 1] = q[i]
      BY <1>1, <1>2, <2>2, SMTT(20)
    <3>. QED BY <3>1, Zenon
  <2>3. i < k \/ i > k
    BY <1>2, <1>3
  <2>. QED BY <2>1, <2>2, <2>3, SMTT(20)
<1>4. Keeps(q, l, q[k])
  BY <1>3 DEF Keeps
<1>. QED BY <1>4 DEF l
-----------------------------------------------------------------------------
(***************************************************************************)
(* What NoOvertaking says of a step.                                       *)
(***************************************************************************)
InOrder == \A p \in Prios : Keeps(queues[p], queues'[p], cur')

\* A step that touches no queue.
LEMMA SameInOrder ==
  ASSUME TypeOK, UNCHANGED queues
  PROVE  InOrder
BY KeepsSame DEF InOrder, TypeOK

\* The creation of a thread, which is appended to the queue of its priority.
LEMMA SpawnInOrder ==
  ASSUME TypeOK, NEW t \in Threads, NEW r \in Prios, Spawn(t, r)
  PROVE  InOrder
<1>1. /\ queues' = [queues EXCEPT ![r] = Append(@, t)]
      /\ queues \in [Prios -> Seq(Threads)]
  BY DEF Spawn, TypeOK
<1>2. ASSUME NEW p \in Prios
      PROVE  Keeps(queues[p], queues'[p], cur')
  <2>0. queues[p] \in Seq(Threads) /\ Keeps(queues[p], queues[p], cur')
    BY <1>1, KeepsSame
  <2>1. CASE p = r
    <3>1. queues'[p] = Append(queues[p], t)
      BY <1>1, <2>1
    <3>2. Keeps(queues[p], Append(queues[p], t), cur')
      BY <2>0, KeepsAppend, Zenon
    <3>. QED BY <3>1, <3>2
  <2>2. CASE p # r
    BY <1>1, <2>0, <2>2, SMTT(20)
  <2>. QED BY <2>1, <2>2
<1>. QED BY <1>2 DEF InOrder

(***************************************************************************)
(* A switch: the chosen thread leaves its queue, wherever in it it was,    *)
(* and the old one goes to the end of its own, perhaps the same            *)
(* (sched.c:120-124).                                                      *)
(***************************************************************************)
LEMMA SwitchInOrder ==
  ASSUME IInv, NEW st, NEW thr \in sched_choose(st), SwitchTo(thr)
  PROVE  InOrder
<1> DEFINE mid == [queues EXCEPT ![prio[thr]] = list_remove(@, thr)]
<1>1. /\ queues' = [mid EXCEPT ![prio[cur]] = Append(@, cur)]
      /\ cur' = thr
  BY DEF SwitchTo, thr_switch, sched_add_unlocked, sched_remove_unlocked
<1>2. /\ queues \in [Prios -> Seq(Threads)] /\ prio \in [Threads -> Prios]
      /\ cur \in Threads
      /\ OnlyInOwnQueue /\ QueuedOnce
  BY DEF IInv, TypeOK, EachThreadOnce
<1>3. PICK r \in Prios : \E i \in 1 .. Len(queues[r]) : queues[r][i] = thr
  BY DEF sched_choose
<1>. PICK k \in 1 .. Len(queues[r]) : queues[r][k] = thr
  BY <1>3
<1>4. thr \in Threads /\ prio[thr] = r
  BY <1>2, <1>3, SMTT(20) DEF sched_choose, OnlyInOwnQueue
<1>5. /\ list_remove(queues[r], thr) \in Seq(Threads)
      /\ Keeps(queues[r], list_remove(queues[r], thr), thr)
  <2> DEFINE q == queues[r]
  <2>1. /\ q \in Seq(Threads) /\ k \in 1 .. Len(q) /\ q[k] = thr
        /\ \A i, j \in 1 .. Len(q) : q[i] = q[j] => i = j
    BY <1>2, <1>3 DEF QueuedOnce
  <2> HIDE DEF q
  <2>2. list_remove(q, q[k]) \in Seq(Threads)
    BY <2>1, ListRemoveProperties
  <2>3. Keeps(q, list_remove(q, q[k]), q[k])
    BY <2>1, KeepsRemove
  <2>. QED BY <2>1, <2>2, <2>3, SMTT(20) DEF q
<1>6. mid \in [Prios -> Seq(Threads)]
  BY <1>2, <1>4, <1>5, SMTT(20)
<1>7. ASSUME NEW p \in Prios
      PROVE  Keeps(queues[p], mid[p], thr)
  <2>1. CASE p = r
    <3>1. mid[p] = list_remove(queues[r], thr)
      BY <1>2, <1>4, <2>1
    <3>. QED BY <1>5, <2>1, <3>1
  <2>2. CASE p # r
    <3>1. mid[p] = queues[p]
      BY <1>2, <1>4, <2>2
    <3>2. Keeps(queues[p], queues[p], thr)
      BY <1>2, KeepsSame
    <3>. QED BY <3>1, <3>2
  <2>. QED BY <2>1, <2>2, SMTT(20)
<1> HIDE DEF mid
<1>8. ASSUME NEW p \in Prios
      PROVE  Keeps(queues[p], queues'[p], thr)
  <2>1. CASE p = prio[cur]
    <3>1. queues'[p] = Append(mid[p], cur)
      BY <1>1, <1>6, <2>1
    <3>2. queues[p] \in Seq(Threads) /\ mid[p] \in Seq(Threads)
      BY <1>2, <1>6
    <3>3. Keeps(queues[p], Append(mid[p], cur), thr)
      BY <1>2, <1>7, <3>2, KeepsAppend, ZenonT(60)
    <3>. QED BY <3>1, <3>3
  <2>2. CASE p # prio[cur]
    <3>1. queues'[p] = mid[p]
      BY <1>1, <1>6, <2>2
    <3>. QED BY <1>7, <3>1
  <2>. QED BY <2>1, <2>2
<1>. QED BY <1>1, <1>8, SMTT(20) DEF InOrder

\* sched_schedule, whatever state the caller gave the current thread.
LEMMA ScheduleInOrder ==
  ASSUME IInv, NEW st, sched_schedule(st)
  PROVE  InOrder
<1>1. CASE UNCHANGED queues
  BY <1>1, SameInOrder DEF IInv
<1>2. CASE \E thr \in sched_choose(state') : SwitchTo(thr)
  <2>1. PICK thr \in sched_choose(state') : SwitchTo(thr)
    BY <1>2
  <2>. QED BY <2>1, SwitchInOrder
<1>. QED BY <1>1, <1>2 DEF sched_schedule

(***************************************************************************)
(* No thread is overtaken within its priority, for any threads, priorities *)
(* and order of ticks, yields, exits and aborts (sched.c:66-138).          *)
(***************************************************************************)
THEOREM FirstComeFirstServed == Spec => NoOvertaking
<1> DEFINE A == \A p \in Prios : \A i \in 1 .. Len(queues[p]) :
                  \/ cur' = queues[p][i]
                  \/ \E j \in 1 .. i :
                       j <= Len(queues'[p]) /\ queues'[p][j] = queues[p][i]
<1>1. IInv /\ [Next]_vars => [A]_vars
  <2> SUFFICES ASSUME IInv, Next
               PROVE  InOrder
    BY Zenon DEF InOrder, Keeps
  <2>0. TypeOK
    BY DEF IInv
  <2>1. CASE idle_init
    <3>1. Idle \in Threads /\ PrioIdle \in Prios
      BY ThreadsAssumption, PrioAssumption DEF PrioIdle, Prios
    <3>. QED BY <2>0, <2>1, <3>1, SpawnInOrder, SMTT(20) DEF idle_init
  <2>2. CASE boot_spawn
    BY <2>0, <2>2, SpawnInOrder DEF boot_spawn
  <2>3. CASE sched_start
    BY <2>0, <2>3, SameInOrder DEF sched_start
  <2>4. CASE Clock \/ abort
    BY <2>0, <2>4, SameInOrder DEF Clock, abort, vars
  <2>5. CASE Tick \/ SysSchedule
    BY <2>5, ScheduleInOrder DEF Tick, SysSchedule
  <2>6. CASE sched_yield
    BY <2>6, ScheduleInOrder DEF sched_yield
  <2>7. CASE thr_exit
    BY <2>7, ScheduleInOrder DEF thr_exit
  <2>8. CASE thr_abort
    <3>1. CASE Parent[cur] = Core
      BY <2>0, <2>8, <3>1, SameInOrder DEF thr_abort
    <3>2. CASE Parent[cur] # Core
      BY <2>8, <3>2, ScheduleInOrder DEF thr_abort
    <3>. QED BY <3>1, <3>2
  <2>. QED BY <2>1, <2>2, <2>3, <2>4, <2>5, <2>6, <2>7, <2>8, SMTT(20) DEF Next
<1>. QED BY <1>1, Invariance, PTL DEF Spec, NoOvertaking
=============================================================================
