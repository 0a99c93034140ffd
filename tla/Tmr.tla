--------------------------------- MODULE Tmr ---------------------------------
(***************************************************************************)
(* Software timers (tmr.c) on the one-shot timer of the local APIC         *)
(* (lapic_tmr.c): the list of timers, the tick that runs the expired ones  *)
(* and the programming of the next tick.                                   *)
(*                                                                         *)
(* Times are relative to the present: due[t] is t->expire - systime(),     *)
(* shot is what the APIC's count has left.  Interrupts are off while       *)
(* timers are handled, so nothing interleaves with a tick, but time passes *)
(* while a callback runs.                                                  *)
(***************************************************************************)
EXTENDS ListOps

CONSTANTS
  Timeouts,     \* the timeouts tmr_schedule is called with
  MinTimeout,   \* TMR_MIN_TIMEOUT
  MaxTimeout,   \* TMR_MAX_TIMEOUT
  MaxLate,      \* bound: how long an interrupt stays masked
  MaxRun,       \* bound: how long a callback runs
  TimeCap,      \* bound: times further from the present are not told apart
  Off           \* the APIC timer is not counting

ASSUME TimeoutsAssumption ==
  /\ Timeouts \subseteq 1 .. TimeCap /\ MinTimeout \in Nat \ {0}
  /\ MaxTimeout \in Nat /\ MaxLate \in Nat /\ TimeCap \in Nat
  /\ MaxRun \in 0 .. TimeCap /\ Off \notin Int

Timers == Items

VARIABLES
  timers,  \* _timers
  us,      \* the timeout the timer was scheduled with
  once,    \* whether its period is zero
  due,     \* t->expire, from now on
  used,    \* the allocated timers
  since,   \* time since it was scheduled or its callback last called
  shot,    \* time until the APIC interrupts, not positive if it is masked
  node,    \* the loop variable of tmr_do_handle_tick
  age,     \* how long ago the tick read the time it works with
  phase    \* "idle", or "tick" while timers are handled

vars == <<timers, us, once, due, used, since, shot, node, age, phase>>

Init ==
  /\ timers = list_new
  /\ us = [t \in Timers |-> 0]
  /\ once = [t \in Timers |-> TRUE]
  /\ due = [t \in Timers |-> 0]
  /\ used = {}
  /\ since = [t \in Timers |-> 0]
  /\ shot = Off
  /\ node = NULL
  /\ age = 0
  /\ phase = "idle"

(***************************************************************************)
(* The node tmr_resched_sorted inserts t behind: the first one that        *)
(* expires no earlier than t, or NULL if none does.                        *)
(***************************************************************************)
Preceeding(l, t, in) ==
  LET at == Visited(l)
      NoEarlier(i) == in[l.data[at[i]]] >= in[t]
  IN  IF \E i \in DOMAIN at : NoEarlier(i)
      THEN at[CHOOSE i \in DOMAIN at :
                NoEarlier(i) /\ \A j \in 1 .. (i - 1) : ~NoEarlier(j)]
      ELSE NULL

tmr_resched_sorted(l, t, in) ==
  {list_insert(l, Preceeding(l, t, in), t, new) : new \in Nodes \ l.live}

\* tmr_set_next_tick up to the loop of tmr_do_handle_tick.
tmr_set_next_tick ==
  /\ node' = timers'.head
  /\ age' = 0
  /\ phase' = "tick"

\* tmr_schedule with a callback; without one it only leaks a tmr_t.
tmr_schedule ==
  /\ phase = "idle"
  /\ \E t \in Timers \ used, n \in Timeouts, oneshot \in BOOLEAN :
       /\ used' = used \union {t}
       /\ us' = [us EXCEPT ![t] = n]
       /\ once' = [once EXCEPT ![t] = oneshot]
       /\ due' = [due EXCEPT ![t] = n]
       /\ since' = [since EXCEPT ![t] = 0]
       /\ timers' \in tmr_resched_sorted(timers, t, due')
  /\ tmr_set_next_tick
  /\ UNCHANGED shot

\* Time passes; a masked interrupt is delivered at the latest after MaxLate.
Clock ==
  /\ phase = "idle" /\ shot # Off /\ shot > -MaxLate
  /\ shot' = shot - 1
  /\ due' = [t \in Timers |-> IF due[t] > -TimeCap THEN due[t] - 1 ELSE due[t]]
  /\ since' = [t \in Timers |-> IF since[t] < TimeCap THEN since[t] + 1 ELSE since[t]]
  /\ UNCHANGED <<timers, us, once, used, node, age, phase>>

\* The APIC interrupts and calls tmr_handle_tick.
tmr_handle_tick ==
  /\ phase = "idle" /\ shot # Off /\ shot <= 0
  /\ shot' = Off
  /\ UNCHANGED timers
  /\ tmr_set_next_tick
  /\ UNCHANGED <<us, once, due, used, since>>

Current == timers.data[node]

\* Whether the loop of tmr_do_handle_tick goes on: t->expire <= current.
Expired == node # NULL /\ due[Current] + age <= 0

\* Mutant of Expire: the period is added to the old expire time.
mut_expire_from_old(t, later) ==
  [later EXCEPT ![t] = IF us[t] + later[t] > 0 THEN us[t] + later[t] ELSE 0]

\* The expire time tmr_handle_expired gives a periodic timer: a period from
\* the time it reads after the callback.
Expire(t, later) == [later EXCEPT ![t] = us[t]]

\* Mutant of Unlinked: the timer is left in the list.
mut_unlinked(t) == timers

Unlinked(t) == list_remove(timers, t)

(***************************************************************************)
(* One round of that loop: tmr_handle_expired calls the callback, which    *)
(* runs for d, unlinks the timer, and either frees it or links it again.   *)
(***************************************************************************)
tmr_handle_expired ==
  /\ phase = "tick" /\ Expired
  /\ LET t == Current IN
     \E d \in 0 .. MaxRun :
       /\ age' = age + d
       /\ since' = [[o \in Timers |-> IF since[o] + d < TimeCap
                                      THEN since[o] + d ELSE TimeCap] EXCEPT ![t] = d]
       /\ LET later == [o \in Timers |-> IF due[o] - d > -TimeCap
                                         THEN due[o] - d ELSE -TimeCap]
          IN  IF once[t]
              THEN /\ timers' = Unlinked(t)
                   /\ due' = later
                   /\ used' = used \ {t}
              ELSE /\ due' = Expire(t, later)
                   /\ timers' \in tmr_resched_sorted(Unlinked(t), t, due')
                   /\ UNCHANGED used
       /\ node' = timers.next[node]
  /\ UNCHANGED <<us, once, shot, phase>>

\* Mutant of NextTimeout: the maximum is the minimum.
mut_next_timeout ==
  IF timers.head = NULL THEN MaxTimeout
  ELSE LET timeout == due[timers.data[timers.head]] + age
       IN  IF timeout <= MaxTimeout THEN MaxTimeout ELSE timeout

\* What tmr_set_next_tick programs, from the time it read at first.
NextTimeout ==
  IF timers.head = NULL THEN MaxTimeout
  ELSE LET timeout == due[timers.data[timers.head]] + age
       IN  IF timeout <= MinTimeout THEN MinTimeout ELSE timeout

\* The end of tmr_set_next_tick.
set_generator ==
  /\ phase = "tick" /\ ~Expired
  /\ shot' = NextTimeout
  /\ node' = NULL
  /\ phase' = "idle"
  /\ UNCHANGED <<timers, us, once, due, used, since, age>>

Next ==
  \/ tmr_schedule
  \/ Clock
  \/ tmr_handle_tick
  \/ tmr_handle_expired
  \/ set_generator

Spec == Init /\ [][Next]_vars
-----------------------------------------------------------------------------
\* The timer list, the times and the generator are of their types, and no time
\* is beyond what the timeouts allow (tmr.c:16-20).
TypeOK ==
  /\ timers \in Lists
  /\ us \in [Timers -> Timeouts \union {0}]
  /\ once \in [Timers -> BOOLEAN]
  /\ due \in [Timers -> (-TimeCap) .. TimeCap]
  /\ used \subseteq Timers
  /\ since \in [Timers -> 0 .. TimeCap]
  /\ shot \in Int \union {Off}
  /\ node \in Nodes \union {NULL}
  /\ age \in 0 .. (MaxRun * Cardinality(Timers))
  /\ phase \in {"idle", "tick"}

(***************************************************************************)
(* "Schedule a timer callback to be called once or periodically."          *)
(* (tmr.h:35): a scheduled timer's callback is called within its timeout,  *)
(* or TMR_MIN_TIMEOUT if that is more, plus the time the interrupt was     *)
(* masked and that callbacks took, in the tick before and in this one.     *)
(***************************************************************************)
CalledInTime ==
  \A t \in used :
    since[t] <= (IF us[t] > MinTimeout THEN us[t] ELSE MinTimeout)
                  + MaxLate + 2 * MaxRun * Cardinality(Timers)

(***************************************************************************)
(* No callback is called early: between the call of tmr_schedule, or the   *)
(* end of the previous callback, and a call lies at least the timeout      *)
(* (tmr.c:79 and tmr.c:94).                                                *)
(***************************************************************************)
NeverEarly ==
  [][\A t \in used : since'[t] < since[t] => since[t] >= us[t]]_vars

(***************************************************************************)
(* Outside a tick every allocated timer is linked exactly once, and the    *)
(* APIC is counting, so that there is a next tick; no time is ever beyond  *)
(* what the timeouts allow (tmr.c:102-122).                                *)
(***************************************************************************)
AlwaysArmed ==
  /\ TypeOK
  /\ phase = "idle" /\ used # {} =>
       /\ shot # Off
       /\ \A t \in used : \E i \in DOMAIN Contents(timers) :
            /\ Contents(timers)[i] = t
            /\ \A j \in DOMAIN Contents(timers) \ {i} : Contents(timers)[j] # t
=============================================================================
