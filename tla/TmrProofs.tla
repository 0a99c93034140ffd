------------------------------ MODULE TmrProofs ------------------------------
(***************************************************************************)
(* The timers of tmr.c are never called early, however many there are, and *)
(* the one timer of the kernel is always armed and called in time.         *)
(***************************************************************************)
EXTENDS Tmr, ListLemmas

(***************************************************************************)
(* The inductive invariant behind NeverEarly: what has passed since the    *)
(* last call and what is left until the next one make up the timeout.      *)
(***************************************************************************)
NotDueEarly ==
  /\ used \subseteq Timers /\ us \in [Timers -> 0 .. TimeCap]
  /\ due \in [Timers -> Int] /\ since \in [Timers -> Int] /\ age \in Nat
  /\ \A t \in Timers : since[t] <= TimeCap
  /\ \A t \in used : since[t] = TimeCap \/ since[t] + due[t] >= us[t]

\* The times of the timers after a callback that ran for d.
LaterDue(d) ==
  [o \in Timers |-> IF due[o] - d > -TimeCap THEN due[o] - d ELSE -TimeCap]

LaterSince(d) ==
  [o \in Timers |-> IF since[o] + d < TimeCap THEN since[o] + d ELSE TimeCap]

(***************************************************************************)
(* What a round of tmr_do_handle_tick does, for a timer that is freed and  *)
(* for one that is linked again (tmr.c:76-100).                            *)
(***************************************************************************)
LEMMA ExpiredEffect ==
  ASSUME tmr_handle_expired
  PROVE  /\ phase = "tick" /\ phase' = "tick"
         /\ node # NULL /\ due[Current] + age <= 0
         /\ us' = us /\ once' = once /\ shot' = shot
         /\ node' = timers.next[node]
         /\ \E d \in 0 .. MaxRun :
              /\ age' = age + d
              /\ since' = [LaterSince(d) EXCEPT ![Current] = d]
              /\ \/ /\ timers' = list_remove(timers, Current)
                    /\ due' = LaterDue(d) /\ used' = used \ {Current}
                 \/ /\ due' = [LaterDue(d) EXCEPT ![Current] = us[Current]]
                    /\ timers' \in tmr_resched_sorted(list_remove(timers, Current),
                                                      Current, due')
                    /\ used' = used
BY Zenon DEF tmr_handle_expired, Expired, Expire, Unlinked, LaterDue, LaterSince

(***************************************************************************)
(* No callback is called early, for any number of timers: between the call *)
(* of tmr_schedule, or the end of the previous callback, and a call lies   *)
(* at least the timeout (tmr.c:79 and tmr.c:94).                           *)
(***************************************************************************)
THEOREM TimersAreNeverEarly == Spec => NeverEarly
<1> USE TimeoutsAssumption
<1> DEFINE Early == \A t \in used : since'[t] < since[t] => since[t] >= us[t]
<1>1. Init => NotDueEarly
  BY DEF Init, NotDueEarly
<1>2. NotDueEarly /\ [Next]_vars => NotDueEarly' /\ (Early \/ UNCHANGED vars)
  <2> SUFFICES ASSUME NotDueEarly, [Next]_vars
               PROVE  NotDueEarly' /\ (Early \/ UNCHANGED vars)
    OBVIOUS
  <2>1. CASE tmr_schedule
    <3>1. PICK t \in Timers \ used, n \in Timeouts :
            /\ used' = used \union {t} /\ us' = [us EXCEPT ![t] = n]
            /\ due' = [due EXCEPT ![t] = n] /\ since' = [since EXCEPT ![t] = 0]
            /\ age' = 0
      BY <2>1, Zenon DEF tmr_schedule, tmr_set_next_tick
    <3>2. n \in 0 .. TimeCap /\ n \in Int
      OBVIOUS
    <3>3. /\ us' \in [Timers -> 0 .. TimeCap]
          /\ due' \in [Timers -> Int] /\ since' \in [Timers -> Int] /\ age' \in Nat
          /\ \A o \in Timers : since'[o] <= TimeCap
      BY <3>1, <3>2 DEF NotDueEarly
    <3>4. \A o \in Timers \ {t} : /\ us'[o] = us[o] /\ due'[o] = due[o]
                                  /\ since'[o] = since[o]
      BY <3>1 DEF NotDueEarly
    <3>5. us'[t] = n /\ due'[t] = n /\ since'[t] = 0
      BY <3>1 DEF NotDueEarly
    <3>6. Early
      BY <3>1, <3>4 DEF NotDueEarly
    <3>. QED BY <3>1, <3>2, <3>3, <3>4, <3>5, <3>6, SMTT(20) DEF NotDueEarly
  <2>2. CASE Clock
    <3>1. /\ used' = used /\ us' = us /\ age' = age
          /\ due' = [o \in Timers |-> IF due[o] > -TimeCap THEN due[o] - 1 ELSE due[o]]
          /\ since' = [o \in Timers |-> IF since[o] < TimeCap
                                        THEN since[o] + 1 ELSE since[o]]
      BY <2>2 DEF Clock
    <3>2. \A o \in Timers :
            /\ due[o] \in Int /\ since[o] \in Int /\ since[o] <= TimeCap
            /\ due'[o] = IF due[o] > -TimeCap THEN due[o] - 1 ELSE due[o]
            /\ since'[o] = IF since[o] < TimeCap THEN since[o] + 1 ELSE since[o]
      BY <3>1 DEF NotDueEarly
    <3>3. /\ due' \in [Timers -> Int] /\ since' \in [Timers -> Int]
          /\ \A o \in Timers : since'[o] <= TimeCap /\ ~(since'[o] < since[o])
      BY <3>1, <3>2
    <3>4. ASSUME NEW o \in used
          PROVE  since'[o] = TimeCap \/ since'[o] + due'[o] >= us[o]
      <4>1. /\ o \in Timers /\ us[o] \in Int
            /\ since[o] = TimeCap \/ since[o] + due[o] >= us[o]
        BY DEF NotDueEarly
      <4>2. /\ due[o] \in Int /\ since[o] \in Int /\ since[o] <= TimeCap
            /\ due'[o] = IF due[o] > -TimeCap THEN due[o] - 1 ELSE due[o]
            /\ since'[o] = IF since[o] < TimeCap THEN since[o] + 1 ELSE since[o]
        BY <3>2, <4>1
      <4>. QED BY <4>1, <4>2
    <3>. QED BY <3>1, <3>3, <3>4 DEF NotDueEarly
  <2>3. CASE tmr_handle_tick
    <3>1. /\ used' = used /\ us' = us /\ due' = due /\ since' = since /\ age' = 0
      BY <2>3 DEF tmr_handle_tick, tmr_set_next_tick
    <3>2. Early
      BY <3>1 DEF NotDueEarly
    <3>. QED BY <3>1, <3>2 DEF NotDueEarly
  <2>4. CASE tmr_handle_expired
    <3>0. us' = us /\ due[Current] + age <= 0
      BY <2>4, ExpiredEffect
    <3>1. PICK d \in 0 .. MaxRun :
            /\ age' = age + d
            /\ since' = [LaterSince(d) EXCEPT ![Current] = d]
            /\ \/ due' = LaterDue(d) /\ used' = used \ {Current}
               \/ /\ due' = [LaterDue(d) EXCEPT ![Current] = us[Current]]
                  /\ used' = used
      BY <2>4, ExpiredEffect
    <3> DEFINE c == Current
    <3>2. d \in Int /\ 0 <= d /\ d <= TimeCap
      OBVIOUS
    <3> HIDE DEF c
    <3>3. /\ due[c] + age <= 0 /\ age \in Nat /\ age' = age + d
          /\ since' = [LaterSince(d) EXCEPT ![c] = d]
          /\ \/ due' = LaterDue(d) /\ used' = used \ {c}
             \/ due' = [LaterDue(d) EXCEPT ![c] = us[c]] /\ used' = used
      BY <3>0, <3>1 DEF c, NotDueEarly
    <3>4. ASSUME NEW o \in Timers
          PROVE  /\ due[o] \in Int /\ since[o] \in Int /\ us[o] \in 0 .. TimeCap
                 /\ since[o] <= TimeCap
                 /\ LaterSince(d)[o] = IF since[o] + d < TimeCap
                                       THEN since[o] + d ELSE TimeCap
                 /\ LaterDue(d)[o] = IF due[o] - d > -TimeCap
                                     THEN due[o] - d ELSE -TimeCap
                 /\ since'[o] = IF o = c THEN d ELSE LaterSince(d)[o]
                 /\ due'[o] = LaterDue(d)[o] \/ (o = c /\ due'[o] = us[o])
      BY <3>3, Zenon DEF NotDueEarly, LaterSince, LaterDue
    <3>5. LaterDue(d) \in [Timers -> Int] /\ LaterSince(d) \in [Timers -> Int]
      BY <3>2, <3>4 DEF LaterDue, LaterSince
    <3>6. c \in Timers => us[c] \in Int
      BY DEF NotDueEarly
    <3>7. due' \in [Timers -> Int] /\ since' \in [Timers -> Int]
      BY <3>2, <3>3, <3>5, <3>6, Zenon
    <3>8. \A o \in Timers : since'[o] <= TimeCap
      BY <3>2, <3>4
    <3>9. ASSUME NEW o \in used'
          PROVE  since'[o] = TimeCap \/ since'[o] + due'[o] >= us[o]
      <4>1. o \in used /\ o \in Timers
        BY <3>3 DEF NotDueEarly
      <4>2. since[o] = TimeCap \/ since[o] + due[o] >= us[o]
        BY <4>1 DEF NotDueEarly
      <4>3. CASE o = c
        <5>1. due'[o] = us[o] /\ since'[o] = d
          BY <3>3, <3>4, <4>1, <4>3, SMTT(20) DEF LaterDue
        <5>. QED BY <3>2, <3>4, <4>1, <5>1, SMTT(20)
      <4>4. CASE o # c
        <5>1. /\ since'[o] = IF since[o] + d < TimeCap THEN since[o] + d ELSE TimeCap
              /\ due'[o] = IF due[o] - d > -TimeCap THEN due[o] - d ELSE -TimeCap
              /\ due[o] \in Int /\ since[o] \in Int /\ us[o] \in 0 .. TimeCap
              /\ since[o] <= TimeCap
          BY <3>4, <4>1, <4>4, SMTT(20)
        <5>. QED BY <3>2, <4>2, <5>1, SMTT(20)
      <4>. QED BY <4>3, <4>4
    <3>10. ASSUME NEW o \in used, since'[o] < since[o]
           PROVE  since[o] >= us[o]
      <4>1. /\ o \in Timers
            /\ since[o] = TimeCap \/ since[o] + due[o] >= us[o]
        BY DEF NotDueEarly
      <4>2. o = c
        BY <3>2, <3>4, <3>10, <4>1, SMTT(20)
      <4>. QED BY <3>3, <3>4, <4>1, <4>2, SMTT(20)
    <3>11. used' \subseteq Timers /\ age' \in Nat /\ us' \in [Timers -> 0 .. TimeCap]
      BY <3>0, <3>2, <3>3 DEF NotDueEarly
    <3>. QED BY <3>0, <3>7, <3>8, <3>9, <3>10, <3>11, SMTT(20) DEF NotDueEarly
  <2>5. CASE set_generator
    <3>1. /\ used' = used /\ us' = us /\ due' = due /\ since' = since /\ age' = age
      BY <2>5 DEF set_generator
    <3>2. Early
      BY <3>1 DEF NotDueEarly
    <3>. QED BY <3>1, <3>2 DEF NotDueEarly
  <2>6. CASE UNCHANGED vars
    <3>1. used' = used /\ us' = us /\ due' = due /\ since' = since /\ age' = age
      BY <2>6 DEF vars
    <3>. QED BY <2>6, <3>1 DEF NotDueEarly
  <2>. QED BY <2>1, <2>2, <2>3, <2>4, <2>5, <2>6, SMTT(20) DEF Next
<1>. QED BY <1>1, <1>2, PTL DEF Spec, NeverEarly
-----------------------------------------------------------------------------
\* A timer linked into the empty list is its only node.
LEMMA LinkFirst ==
  ASSUME NEW l \in Lists, Chain(l, <<>>), NEW t \in Timers, NEW in,
         NEW after \in tmr_resched_sorted(l, t, in)
  PROVE  /\ after \in Lists
         /\ \E n \in Nodes : Chain(after, <<n>>) /\ after.data[n] = t
<1>1. Visited(l) = <<>> /\ l.tail = NULL
  <2>1. Visited(l) = <<>>
    BY VisitedChain
  <2>2. l.tail = NULL
    BY DEF Chain
  <2>. QED BY <2>1, <2>2
<1>2. Preceeding(l, t, in) = NULL
  BY <1>1 DEF Preceeding
<1>3. PICK new \in Nodes \ l.live : after = list_insert(l, NULL, t, new)
  BY <1>2 DEF tmr_resched_sorted
<1>4. after = list_add(l, t, new)
  BY <1>1, <1>3 DEF list_add
<1> DEFINE to == InsertAt(<<>>, Len(<<>>) + 1, new)
<1>5. /\ after \in Lists /\ Chain(after, to)
      /\ after.data = [l.data EXCEPT ![new] = t]
  BY <1>4, AddChain DEF Timers
<1>6. to = <<new>>
  <2> DEFINE e == <<>>
             p == 1
  <2>0. to = InsertAt(e, p, new) /\ p = 1
    OBVIOUS
  <2>1. e \in Seq(Nodes) /\ p \in 1 .. Len(e) + 1 /\ new \in Nodes
    OBVIOUS
  <2>1a. Len(e) = 0
    OBVIOUS
  <2>. HIDE DEF to, e, p
  <2>2. InsertAt(e, p, new) \in Seq(Nodes)
    BY <2>1, InsertAtProperties
  <2>3. Len(InsertAt(e, p, new)) = Len(e) + 1
    BY <2>1, InsertAtProperties
  <2>4. \A i \in 1 .. Len(e) + 1 :
          InsertAt(e, p, new)[i] = IF i < p THEN e[i] ELSE IF i = p THEN new ELSE e[i - 1]
    BY <2>1, InsertAtProperties
  <2>5. to \in Seq(Nodes) /\ Len(to) = 1 /\ to[1] = new
    BY <2>0, <2>1a, <2>2, <2>3, <2>4, SMTT(20)
  <2>. QED BY <2>5
<1>7. after.data[new] = t
  BY <1>5 DEF Lists
<1>. QED BY <1>5, <1>6, <1>7

\* The only timer unlinked leaves the list empty.
LEMMA UnlinkOnly ==
  ASSUME NEW l \in Lists, NEW n \in Nodes, Chain(l, <<n>>), NEW t, l.data[n] = t
  PROVE  list_remove(l, t) \in Lists /\ Chain(list_remove(l, t), <<>>)
<1> DEFINE at == <<n>>
<1>1. /\ at \in Seq(Nodes) /\ Len(at) = 1 /\ at[1] = n /\ 1 \in 1 .. Len(at)
      /\ \A j \in 1 .. (1 - 1) : l.data[at[j]] # t
  OBVIOUS
<1>2. Chain(l, at) /\ l.data[at[1]] = t
  BY <1>1
<1> HIDE DEF at
<1>3. list_remove(l, t) \in Lists /\ Chain(list_remove(l, t), RemoveAt(at, 1))
  BY <1>1, <1>2, RemoveChain, SMTT(20)
<1>4. RemoveAt(at, 1) \in Seq(Nodes)
  BY <1>1, RemoveAtProperties, Zenon
<1>5. Len(RemoveAt(at, 1)) = Len(at) - 1
  BY <1>1, RemoveAtProperties, ZenonT(60)
<1>6. RemoveAt(at, 1) = <<>>
  BY <1>1, <1>4, <1>5
<1>. QED BY <1>3, <1>6

\* A function stays in its set when it is changed at one place.
LEMMA ExceptType ==
  ASSUME NEW S, NEW T, NEW f \in [S -> T], NEW x, NEW v \in T
  PROVE  [f EXCEPT ![x] = v] \in [S -> T]
BY Zenon

\* The timeout of t, or TMR_MIN_TIMEOUT if that is more.
Least(t) == IF us[t] > MinTimeout THEN us[t] ELSE MinTimeout

(***************************************************************************)
(* The inductive invariant of the one timer t, the heartbeat of the        *)
(* scheduler.  Outside a tick the APIC counts at least until t expires,    *)
(* and not much beyond its timeout.  In a tick t has expired, or was just  *)
(* scheduled, or has just been called and linked again.                    *)
(***************************************************************************)
Heartbeat(t) ==
  /\ TypeOK
  /\ used = {} => Chain(timers, <<>>)
  /\ used # {} => /\ us[t] \in Timeouts
                  /\ \E n \in Nodes : Chain(timers, <<n>>) /\ timers.data[n] = t
  /\ phase = "idle" /\ used # {} =>
       /\ shot \in Int /\ shot >= -MaxLate
       /\ due[t] <= 0 \/ shot >= due[t]
       /\ since[t] + shot <= Least(t) + 2 * MaxRun
  /\ phase = "tick" /\ used # {} =>
       \/ /\ node = timers.head /\ age = 0 /\ due[t] <= 0
          /\ since[t] <= Least(t) + MaxLate + 2 * MaxRun
       \/ node = timers.head /\ age = 0 /\ due[t] = us[t] /\ since[t] = 0
       \/ node = NULL /\ due[t] = us[t] /\ since[t] = age /\ age <= MaxRun
  /\ phase = "tick" /\ used = {} => node = NULL

(***************************************************************************)
(* The one timer keeps Heartbeat in every step.                            *)
(***************************************************************************)
LEMMA HeartbeatHolds ==
  ASSUME NEW t, Timers = {t}
  PROVE  Spec => []Heartbeat(t)
<1> USE TimeoutsAssumption
<1>0. Cardinality(Timers) = 1 /\ MaxRun * Cardinality(Timers) = MaxRun
  <2>1. Cardinality({t}) = 1
    BY FS_Singleton
  <2>. QED BY <2>1
<1>1. Init => Heartbeat(t)
  <2> SUFFICES ASSUME Init
               PROVE  Heartbeat(t)
    OBVIOUS
  <2>1. timers \in Lists /\ Chain(timers, <<>>)
    BY DEF Init, list_new, Lists, Chain
  <2>2. once \in [Timers -> BOOLEAN]
    BY Zenon DEF Init
  <2>3. /\ us \in [Timers -> Timeouts \union {0}] /\ used \subseteq Timers
        /\ due \in [Timers -> (-TimeCap) .. TimeCap] /\ since \in [Timers -> 0 .. TimeCap]
        /\ shot \in Int \union {Off} /\ node \in Nodes \union {NULL}
        /\ age \in 0 .. (MaxRun * Cardinality(Timers)) /\ phase \in {"idle", "tick"}
    BY <1>0 DEF Init
  <2>4. TypeOK
    BY <2>1, <2>2, <2>3, ZenonT(60) DEF TypeOK
  <2>. QED BY <2>1, <2>4, SMTT(20) DEF Init, Heartbeat
<1>2. Heartbeat(t) /\ [Next]_vars => Heartbeat(t)'
  <2> SUFFICES ASSUME Heartbeat(t), [Next]_vars
               PROVE  Heartbeat(t)'
    OBVIOUS
  <2>0. /\ timers \in Lists /\ us \in [Timers -> Timeouts \union {0}]
        /\ due \in [Timers -> (-TimeCap) .. TimeCap] /\ since \in [Timers -> 0 .. TimeCap]
        /\ used \subseteq Timers /\ shot \in Int \union {Off}
        /\ node \in Nodes \union {NULL} /\ age \in 0 .. MaxRun
        /\ phase \in {"idle", "tick"}
    BY <1>0 DEF Heartbeat, TypeOK
  <2>0a. once \in [Timers -> BOOLEAN]
    BY Zenon DEF Heartbeat, TypeOK
  <2>0b. /\ t \in Timers
         /\ used = {} \/ used = {t}
         /\ us[t] \in Timeouts \union {0} /\ due[t] \in (-TimeCap) .. TimeCap
         /\ since[t] \in 0 .. TimeCap
    BY <2>0, SMTT(20)
  <2>0c. /\ us[t] \in Int /\ due[t] \in Int /\ since[t] \in Int /\ since[t] >= 0
         /\ us[t] \in Timeouts => us[t] >= 1
    <3>1. us[t] \in 0 .. TimeCap /\ (us[t] \in Timeouts => us[t] >= 1)
      <4>1. CASE us[t] \in Timeouts
        <5>1. us[t] \in 1 .. TimeCap
          BY <4>1, Zenon
        <5>. QED BY <5>1
      <4>2. CASE us[t] = 0
        <5>1. 0 \notin Timeouts
          BY SMTT(20)
        <5>. QED BY <4>2, <5>1, SMTT(20)
      <4>. QED BY <2>0b, <4>1, <4>2, SMTT(20)
    <3>. QED BY <2>0b, <3>1, SMTT(20)
  <2>1. CASE tmr_schedule
    <3>1. PICK x \in Timers \ used, n \in Timeouts, oneshot \in BOOLEAN :
            /\ used' = used \union {x} /\ us' = [us EXCEPT ![x] = n]
            /\ once' = [once EXCEPT ![x] = oneshot]
            /\ due' = [due EXCEPT ![x] = n] /\ since' = [since EXCEPT ![x] = 0]
            /\ timers' \in tmr_resched_sorted(timers, x, due')
      BY <2>1, Zenon DEF tmr_schedule
    <3>2. node' = timers'.head /\ age' = 0 /\ phase' = "tick" /\ shot' = shot
      BY <2>1, Zenon DEF tmr_schedule, tmr_set_next_tick
    <3>3. x = t /\ used = {} /\ used' = {t}
      BY <2>0b, <3>1, SMTT(20)
    <3>4. Chain(timers, <<>>)
      BY <3>3, SMTT(20) DEF Heartbeat
    <3>5. /\ timers' \in Lists
          /\ \E m \in Nodes : Chain(timers', <<m>>) /\ timers'.data[m] = t
      BY <2>0, <3>1, <3>3, <3>4, LinkFirst, SMTT(20)
    <3>6. once' \in [Timers -> BOOLEAN]
      BY <2>0a, <3>1, ExceptType, ZenonT(60)
    <3>7. n \in 0 .. TimeCap /\ n \in (-TimeCap) .. TimeCap
      OBVIOUS
    <3>8. /\ us' \in [Timers -> Timeouts \union {0}] /\ used' \subseteq Timers
          /\ due' \in [Timers -> (-TimeCap) .. TimeCap]
          /\ since' \in [Timers -> 0 .. TimeCap]
          /\ shot' \in Int \union {Off} /\ node' \in Nodes \union {NULL}
          /\ age' \in 0 .. (MaxRun * Cardinality(Timers)) /\ phase' \in {"idle", "tick"}
      BY <1>0, <2>0, <2>0b, <3>1, <3>2, <3>3, <3>5, <3>7, SMTT(20) DEF Lists
    <3>9. TypeOK'
      BY <3>5, <3>6, <3>8, ZenonT(60) DEF TypeOK
    <3>10. us'[t] = n /\ due'[t] = n /\ since'[t] = 0
      BY <2>0, <2>0b, <3>1, <3>3, SMTT(20)
    <3>. QED BY <3>2, <3>3, <3>5, <3>9, <3>10, SMTT(20) DEF Heartbeat
  <2>2. CASE Clock
    <3>1. /\ phase = "idle" /\ phase' = phase /\ shot # Off /\ shot > -MaxLate
          /\ shot' = shot - 1 /\ timers' = timers /\ us' = us /\ once' = once
          /\ used' = used /\ node' = node /\ age' = age
          /\ due' = [o \in Timers |-> IF due[o] > -TimeCap THEN due[o] - 1 ELSE due[o]]
          /\ since' = [o \in Timers |-> IF since[o] < TimeCap
                                        THEN since[o] + 1 ELSE since[o]]
      BY <2>2 DEF Clock
    <3>2. /\ due'[t] = IF due[t] > -TimeCap THEN due[t] - 1 ELSE due[t]
          /\ since'[t] = IF since[t] < TimeCap THEN since[t] + 1 ELSE since[t]
      BY <2>0b, <3>1, SMTT(20)
    <3>3. /\ due' \in [Timers -> (-TimeCap) .. TimeCap]
          /\ since' \in [Timers -> 0 .. TimeCap] /\ shot \in Int
      BY <2>0, <3>1
    <3>4. TypeOK'
      <4>1. /\ shot' \in Int \union {Off}
            /\ age' \in 0 .. (MaxRun * Cardinality(Timers))
        BY <1>0, <2>0, <3>1, <3>3, SMTT(20)
      <4>2. once' \in [Timers -> BOOLEAN]
        BY <2>0a, <3>1, Zenon
      <4>3. /\ timers' \in Lists /\ us' \in [Timers -> Timeouts \union {0}]
            /\ used' \subseteq Timers /\ node' \in Nodes \union {NULL}
            /\ phase' \in {"idle", "tick"}
        BY <2>0, <3>1
      <4>. QED BY <3>3, <4>1, <4>2, <4>3, ZenonT(60) DEF TypeOK
    <3>5. ASSUME used # {}
          PROVE  /\ shot' \in Int /\ shot' >= -MaxLate
                 /\ due'[t] <= 0 \/ shot' >= due'[t]
                 /\ since'[t] + shot' <= Least(t) + 2 * MaxRun
      <4>1. /\ due[t] <= 0 \/ shot >= due[t]
            /\ since[t] + shot <= Least(t) + 2 * MaxRun
        BY <3>1, <3>5 DEF Heartbeat
      <4>2. Least(t) \in Int
        BY <2>0c DEF Least
      <4>. QED BY <2>0c, <3>1, <3>2, <3>3, <4>1, <4>2, SMTT(20)
    <3>6. Least(t)' = Least(t)
      BY <3>1, SMTT(20) DEF Least
    <3>. QED BY <3>1, <3>4, <3>5, <3>6, SMTT(20) DEF Heartbeat
  <2>3. CASE tmr_handle_tick
    <3>1. /\ phase = "idle" /\ shot # Off /\ shot <= 0 /\ shot' = Off
          /\ timers' = timers /\ us' = us /\ once' = once /\ due' = due
          /\ used' = used /\ since' = since
          /\ node' = timers'.head /\ age' = 0 /\ phase' = "tick"
      BY <2>3 DEF tmr_handle_tick, tmr_set_next_tick
    <3>2. TypeOK'
      <4>1. /\ shot' \in Int \union {Off} /\ node' \in Nodes \union {NULL}
            /\ age' \in 0 .. (MaxRun * Cardinality(Timers))
        BY <1>0, <2>0, <3>1 DEF Lists
      <4>2. once' \in [Timers -> BOOLEAN]
        BY <2>0a, <3>1, Zenon
      <4>3. /\ timers' \in Lists /\ us' \in [Timers -> Timeouts \union {0}]
            /\ due' \in [Timers -> (-TimeCap) .. TimeCap]
            /\ since' \in [Timers -> 0 .. TimeCap]
            /\ used' \subseteq Timers /\ phase' \in {"idle", "tick"}
        BY <2>0, <3>1
      <4>. QED BY <4>1, <4>2, <4>3, Zenon DEF TypeOK
    <3>3. ASSUME used # {}
          PROVE  /\ due[t] <= 0
                 /\ since[t] <= Least(t) + MaxLate + 2 * MaxRun
      <4>1. /\ due[t] <= 0 \/ shot >= due[t]
            /\ shot \in Int /\ shot >= -MaxLate
            /\ since[t] + shot <= Least(t) + 2 * MaxRun
        BY <3>1, <3>3, SMTT(20) DEF Heartbeat
      <4>2. Least(t) \in Int
        BY <2>0c DEF Least
      <4>. QED BY <2>0c, <3>1, <4>1, <4>2, SMTT(20)
    <3>4. used = {} => node' = NULL
      BY <3>1 DEF Heartbeat, Chain
    <3>5. Least(t)' = Least(t)
      BY <3>1, SMTT(20) DEF Least
    <3>. QED BY <3>1, <3>2, <3>3, <3>4, <3>5, SMTT(20) DEF Heartbeat
  <2>4. CASE tmr_handle_expired
    <3>1. /\ phase = "tick" /\ phase' = "tick" /\ node # NULL /\ due[Current] + age <= 0
          /\ us' = us /\ shot' = shot /\ node' = timers.next[node]
      BY <2>4, ExpiredEffect, SMTT(20)
    <3>2. used = {t}
      BY <2>0b, <3>1, SMTT(20) DEF Heartbeat
    <3>3. PICK n \in Nodes : Chain(timers, <<n>>) /\ timers.data[n] = t
      BY <3>2, Zenon DEF Heartbeat
    <3>4. timers.head = n /\ timers.next[n] = NULL
      <4>1. Len(<<n>>) = 1 /\ <<n>>[1] = n /\ 1 \in 1 .. Len(<<n>>)
        OBVIOUS
      <4>. QED BY <3>3, <4>1 DEF Chain
    <3>5. node = timers.head /\ age = 0
      BY <3>1, <3>2 DEF Heartbeat
    <3>6. Current = t /\ node' = NULL
      BY <3>1, <3>3, <3>4, <3>5, SMTT(20) DEF Current
    <3>7. PICK d \in 0 .. MaxRun :
            /\ age' = age + d
            /\ since' = [LaterSince(d) EXCEPT ![t] = d]
            /\ \/ /\ timers' = list_remove(timers, t)
                  /\ due' = LaterDue(d) /\ used' = used \ {t}
               \/ /\ due' = [LaterDue(d) EXCEPT ![t] = us[t]]
                  /\ timers' \in tmr_resched_sorted(list_remove(timers, t), t, due')
                  /\ used' = used
      BY <2>4, <3>6, ExpiredEffect, ZenonT(60)
    <3>8. age' = d /\ d \in 0 .. TimeCap
      BY <3>5, <3>7
    <3>9. LaterSince(d) \in [Timers -> 0 .. TimeCap]
      BY <2>0, <3>8, SMTT(20) DEF LaterSince
    <3>10. LaterDue(d) \in [Timers -> (-TimeCap) .. TimeCap]
      BY <2>0, <3>8, SMTT(20) DEF LaterDue
    <3>11. us[t] \in Timeouts /\ us[t] \in (-TimeCap) .. TimeCap
      <4>1. us[t] \in Timeouts
        BY <3>2 DEF Heartbeat
      <4>2. us[t] \in 1 .. TimeCap
        BY <4>1, ZenonT(60)
      <4>. QED BY <4>1, <4>2, SMTT(20)
    <3>12. /\ since' \in [Timers -> 0 .. TimeCap] /\ since'[t] = d
           /\ due' \in [Timers -> (-TimeCap) .. TimeCap]
      <4>1. since' = [LaterSince(d) EXCEPT ![t] = d]
        BY <3>7, SMTT(20)
      <4>2. \/ due' = LaterDue(d)
            \/ due' = [LaterDue(d) EXCEPT ![t] = us[t]]
        BY <3>7, SMTT(20)
      <4>. QED BY <2>0b, <3>8, <3>9, <3>10, <3>11, <4>1, <4>2
    <3> DEFINE rest == list_remove(timers, t)
    <3>13. rest \in Lists /\ Chain(rest, <<>>)
      BY <2>0, <3>3, UnlinkOnly, SMTT(20)
    <3> HIDE DEF rest
    <3>14. \/ timers' = rest /\ used' = {}
           \/ /\ timers' \in tmr_resched_sorted(rest, t, due')
              /\ used' = {t} /\ due'[t] = us[t]
      <4>1. CASE timers' = rest /\ used' = used \ {t}
        BY <3>2, <4>1, SMTT(20)
      <4>2. CASE /\ due' = [LaterDue(d) EXCEPT ![t] = us[t]] /\ used' = used
                 /\ timers' \in tmr_resched_sorted(rest, t, due')
        <5>1. due'[t] = us[t]
          BY <2>0b, <3>10, <4>2, SMTT(20)
        <5>. QED BY <3>2, <4>2, <5>1, SMTT(20)
      <4>. QED BY <3>7, <4>1, <4>2, SMTT(20) DEF rest
    <3>15. timers' \in Lists /\ used' \subseteq Timers
      BY <2>0b, <3>13, <3>14, LinkFirst, SMTT(20)
    <3>16. used' = {} => Chain(timers', <<>>)
      BY <3>13, <3>14, SMTT(20)
    <3>17. used' # {} =>
             /\ \E m \in Nodes : Chain(timers', <<m>>) /\ timers'.data[m] = t
             /\ due'[t] = us[t]
      BY <2>0b, <3>13, <3>14, LinkFirst, SMTT(20)
    <3>18. once' \in [Timers -> BOOLEAN]
      BY <2>0a, <2>4, ExpiredEffect, ZenonT(60)
    <3>19. /\ us' \in [Timers -> Timeouts \union {0}]
           /\ shot' \in Int \union {Off} /\ node' \in Nodes \union {NULL}
           /\ age' \in 0 .. (MaxRun * Cardinality(Timers))
           /\ phase' \in {"idle", "tick"}
      BY <1>0, <2>0, <3>1, <3>6, <3>8, SMTT(20)
    <3>20. TypeOK'
      BY <3>12, <3>15, <3>18, <3>19, ZenonT(60) DEF TypeOK
    <3>21. /\ used' # {} => us'[t] \in Timeouts
           /\ used' # {} => /\ node' = NULL /\ due'[t] = us'[t]
                            /\ since'[t] = age' /\ age' <= MaxRun
      BY <3>1, <3>6, <3>7, <3>8, <3>11, <3>12, <3>17, SMTT(20)
    <3>. QED BY <3>1, <3>6, <3>16, <3>17, <3>20, <3>21, SMTT(20) DEF Heartbeat
  <2>5. CASE set_generator
    <3>1. /\ phase = "tick" /\ ~Expired /\ shot' = NextTimeout /\ node' = NULL
          /\ phase' = "idle" /\ timers' = timers /\ us' = us /\ once' = once
          /\ due' = due /\ used' = used /\ since' = since /\ age' = age
      BY <2>5, SMTT(20) DEF set_generator
    <3>2. CASE used = {}
      <4>1. Chain(timers, <<>>) /\ timers.head = NULL
        BY <3>2 DEF Heartbeat, Chain
      <4>2. shot' \in Int
        BY <3>1, <4>1 DEF NextTimeout
      <4>3. TypeOK'
        BY <1>0, <2>0, <2>0a, <3>1, <4>2, ZenonT(60) DEF TypeOK
      <4>. QED BY <3>1, <3>2, <4>1, <4>3, SMTT(20) DEF Heartbeat
    <3>3. CASE used = {t}
      <4>1. PICK n \in Nodes : Chain(timers, <<n>>) /\ timers.data[n] = t
        BY <3>3 DEF Heartbeat
      <4>2. timers.head = n /\ n # NULL
        <5>1. Len(<<n>>) = 1 /\ <<n>>[1] = n
          OBVIOUS
        <5>. QED BY <4>1, <5>1, NodesAssumption DEF Chain
      <4>3. us[t] \in Timeouts /\ us[t] >= 1
        BY <2>0c, <3>3, SMTT(20) DEF Heartbeat
      <4>4. \/ age = 0 /\ due[t] = us[t] /\ since[t] = 0
            \/ due[t] = us[t] /\ since[t] = age /\ age <= MaxRun
        <5>1. node = timers.head => Current = t
          BY <4>1, <4>2, SMTT(20) DEF Current
        <5>2. ~(node = timers.head /\ age = 0 /\ due[t] <= 0)
          BY <2>0c, <3>1, <4>2, <5>1, SMTT(20) DEF Expired
        <5>. QED BY <3>1, <3>3, <5>2, SMTT(20) DEF Heartbeat
      <4>5. shot' = IF due[t] + age <= MinTimeout THEN MinTimeout ELSE due[t] + age
        BY <3>1, <4>1, <4>2, SMTT(20) DEF NextTimeout
      <4>6. age \in Int /\ age >= 0 /\ age <= MaxRun
        BY <2>0
      <4>7. /\ shot' \in Int /\ shot' >= -MaxLate /\ shot' >= due[t]
            /\ since[t] + shot' <= Least(t) + 2 * MaxRun
        BY <2>0c, <4>3, <4>4, <4>5, <4>6, SMTT(20) DEF Least
      <4>8. TypeOK'
        BY <1>0, <2>0, <2>0a, <3>1, <4>7, ZenonT(60) DEF TypeOK
      <4>9. Least(t)' = Least(t)
        BY <3>1, SMTT(20) DEF Least
      <4>. QED BY <3>1, <3>3, <4>1, <4>3, <4>7, <4>8, <4>9, SMTT(20) DEF Heartbeat
    <3>. QED BY <2>0b, <3>2, <3>3
  <2>6. CASE UNCHANGED vars
    <3>1. /\ timers' = timers /\ us' = us /\ due' = due /\ used' = used
          /\ since' = since /\ shot' = shot /\ node' = node /\ age' = age
          /\ phase' = phase /\ once' = once
      BY <2>6 DEF vars
    <3>2. TypeOK'
      <4>1. TypeOK
        BY DEF Heartbeat
      <4>. QED BY <3>1, <4>1, ZenonT(60) DEF TypeOK
    <3>3. Least(t)' = Least(t)
      BY <3>1 DEF Least
    <3>. QED BY <3>1, <3>2, <3>3, SMTT(20) DEF Heartbeat
  <2>. QED BY <2>1, <2>2, <2>3, <2>4, <2>5, <2>6, SMTT(20) DEF Next
<1>. QED BY <1>1, <1>2, PTL DEF Spec

(***************************************************************************)
(* The one timer of the kernel is called within its timeout, or            *)
(* TMR_MIN_TIMEOUT, plus the time the interrupt was masked and that        *)
(* callbacks took (tmr.h:35).                                              *)
(***************************************************************************)
THEOREM HeartbeatInTime ==
  ASSUME NEW t, Timers = {t}
  PROVE  Spec => []CalledInTime
<1> USE TimeoutsAssumption
<1>1. Cardinality(Timers) = 1
  BY FS_Singleton, SMTT(20)
<1>2. Heartbeat(t) => CalledInTime
  <2> SUFFICES ASSUME Heartbeat(t), NEW o \in used
               PROVE  since[o] <= (IF us[o] > MinTimeout THEN us[o] ELSE MinTimeout)
                                    + MaxLate + 2 * MaxRun * Cardinality(Timers)
    BY Zenon DEF CalledInTime
  <2>1. /\ us \in [Timers -> Timeouts \union {0}] /\ since \in [Timers -> 0 .. TimeCap]
        /\ used \subseteq Timers /\ phase \in {"idle", "tick"}
    BY DEF Heartbeat, TypeOK
  <2>2. o = t /\ used # {} /\ since[t] \in Int /\ us[t] \in Timeouts \union {0}
    BY <2>1
  <2>3. us[t] \in Int
    <3>1. CASE us[t] \in Timeouts
      <4>1. us[t] \in 1 .. TimeCap
        BY <3>1, Zenon
      <4>. QED BY <4>1
    <3>2. CASE us[t] = 0
      BY <3>2
    <3>. QED BY <2>2, <3>1, <3>2, SMTT(20)
  <2>4. 2 * MaxRun * Cardinality(Timers) = 2 * MaxRun
    BY <1>1, SMTT(20)
  <2>5. since[t] <= Least(t) + MaxLate + 2 * MaxRun
    <3>0. Least(t) \in Int /\ Least(t) >= 0
      BY <2>3, SMTT(20) DEF Least
    <3>1. CASE phase = "idle"
      <4>1. shot \in Int /\ shot >= -MaxLate /\ since[t] + shot <= Least(t) + 2 * MaxRun
        BY <2>2, <3>1, SMTT(20) DEF Heartbeat
      <4>. QED BY <2>2, <3>0, <4>1, SMTT(20)
    <3>2. CASE phase = "tick"
      <4>1. \/ since[t] <= Least(t) + MaxLate + 2 * MaxRun
            \/ since[t] = 0
            \/ since[t] = age /\ age <= MaxRun
        BY <2>2, <3>2, SMTT(20) DEF Heartbeat
      <4>. QED BY <2>2, <3>0, <4>1, SMTT(20)
    <3>. QED BY <2>1, <3>1, <3>2, SMTT(20)
  <2>. QED BY <2>2, <2>4, <2>5, SMTT(20) DEF Least
<1>. QED BY <1>2, HeartbeatHolds, PTL

(***************************************************************************)
(* The one timer of the kernel is linked once, and outside a tick the APIC *)
(* counts, so that there is a next tick (tmr.c:102-122).                   *)
(***************************************************************************)
THEOREM HeartbeatArmed ==
  ASSUME NEW t, Timers = {t}
  PROVE  Spec => []AlwaysArmed
<1> USE TimeoutsAssumption
<1>1. Heartbeat(t) => AlwaysArmed
  <2> SUFFICES ASSUME Heartbeat(t)
               PROVE  AlwaysArmed
    OBVIOUS
  <2>1. TypeOK
    BY DEF Heartbeat
  <2>2. timers \in Lists /\ used \subseteq Timers
    BY <2>1, SMTT(20) DEF TypeOK
  <2>3. ASSUME phase = "idle", used # {}
        PROVE  /\ shot # Off
               /\ \A o \in used : \E i \in DOMAIN Contents(timers) :
                    /\ Contents(timers)[i] = o
                    /\ \A j \in DOMAIN Contents(timers) \ {i} : Contents(timers)[j] # o
    <3>1. shot # Off
      BY <2>3, SMTT(20) DEF Heartbeat
    <3>2. PICK n \in Nodes : Chain(timers, <<n>>) /\ timers.data[n] = t
      BY <2>3 DEF Heartbeat
    <3>3. Contents(timers) = [i \in 1 .. Len(<<n>>) |-> timers.data[<<n>>[i]]]
      BY <3>2, ContentsChain, SMTT(20)
    <3>4. DOMAIN Contents(timers) = {1} /\ Contents(timers)[1] = t
      <4>1. Len(<<n>>) = 1 /\ <<n>>[1] = n /\ 1 .. 1 = {1}
        OBVIOUS
      <4>. QED BY <3>2, <3>3, <4>1, SMTT(20)
    <3>. QED BY <2>2, <3>1, <3>4, SMTT(20)
  <2>. QED BY <2>1, <2>3, Zenon DEF AlwaysArmed
<1>. QED BY <1>1, HeartbeatHolds, PTL
=============================================================================
