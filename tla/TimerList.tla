------------------------------ MODULE TimerList ------------------------------
(***************************************************************************)
(* The software timers of basework: the delta list of                      *)
(* src/basework/lib/timer/timer_list.c and the thread that drives it in    *)
(* src/basework/os/win32/os_timer_impl.cc.                                 *)
(*                                                                         *)
(* Each timer on the list stores the time between its predecessor's expiry *)
(* and its own.  The driver sleeps, tells timer_schedule how long it slept *)
(* and calls back every timer that has become due, with the list unlocked. *)
(* A critical section is one step, except that the walk of timer_add_locked*)
(* takes one step per node.                                                *)
(*                                                                         *)
(* Two countdowns are kept for every timer, for the properties only.  due  *)
(* is its delay less all the time that timer_schedule has been told of     *)
(* since then; nothing the list computes goes into it.  real counts down   *)
(* with the wall clock.                                                    *)
(***************************************************************************)
EXTENDS Integers, FiniteSets, SequencesExt

CONSTANTS
  Timers,     \* the objects of the os_timer pool
  NoTimer,    \* no timer
  Delays,     \* the delays callers ask for
  IdleSleep   \* how long the driver sleeps when there is no timer

ASSUME TimersAssumption == NoTimer \notin Timers
ASSUME DelaysAssumption == Delays \subseteq Nat
ASSUME IdleSleepAssumption == IdleSleep \in Nat \ {0}

VARIABLES
  list,       \* timer_list
  expires,    \* timer->expires
  state,      \* timer->state
  owner,      \* who has the object: see Owners
  walk,       \* the insertion in progress; the list is locked meanwhile
  dpc,        \* the driver: asleep, in a callback, or the list is undefined
  slept,      \* sleep_ms
  togo,       \* what is left of the sleep
  left,       \* local expires of timer_schedule
  cur,        \* the timer being called back
  late,       \* how long cur was overdue, by due, when it was taken off
  early,      \* what was left of its real then
  due,        \* time to be handed to timer_schedule until a timer is due
  real        \* wall-clock time until a timer is due

listVars == <<list, expires, state>>
driver == <<dpc, slept, togo, left, cur, late, early>>
vars == <<listVars, owner, walk, driver, due, real>>

\* An object is in the pool (free), a caller's (used), or between the two calls
\* of os_timer_destroy (dying).  Its own callback, already under way, may arm it
\* again: while it is dying (revived), or when the pool has it (stray), and then
\* timer_list runs through an object whose first word is the pool's link.
Owners == {"free", "used", "dying", "revived", "stray"}

NoWalk == [timer |-> NoTimer, expires |-> 0, pos |-> 0]

\* The list lock can be taken; nobody gets there once the list is undefined.
Walking == walk.timer # NoTimer
Unlocked == ~Walking /\ dpc # "ub"

Init ==
  /\ list = <<>>
  /\ expires = [t \in Timers |-> 0]
  /\ state = [t \in Timers |-> "IDLE"]
  /\ owner = [t \in Timers |-> "free"]
  /\ walk = NoWalk
  /\ dpc = "sleep" /\ slept = IdleSleep /\ togo = IdleSleep
  /\ left = 0 /\ cur = NoTimer /\ late = 0 /\ early = 0
  /\ due = [t \in Timers |-> 0]
  /\ real = [t \in Timers |-> 0]

-----------------------------------------------------------------------------
(* Callers: other threads, or the callback that is running. *)

\* The list and the pool are undefined from here on: one final state.
Undefined ==
  /\ dpc' = "ub" /\ slept' = 0 /\ togo' = 0
  /\ list' = <<>> /\ walk' = NoWalk
  /\ expires' = [t \in Timers |-> 0]
  /\ state' = [t \in Timers |-> "IDLE"]
  /\ owner' = [t \in Timers |-> "free"]
  /\ left' = 0 /\ cur' = NoTimer /\ late' = 0 /\ early' = 0
  /\ due' = [t \in Timers |-> 0] /\ real' = [t \in Timers |-> 0]

\* os_timer_create and timer_init: an idle timer from the pool.  The link that
\* os_obj_allocate follows is overwritten in an object that is or was stray.
Create(t) ==
  /\ dpc # "ub"
  /\ \/ /\ owner[t] = "free"
        /\ owner' = [owner EXCEPT ![t] = "used"]
        /\ expires' = [expires EXCEPT ![t] = 0]
        /\ state' = [state EXCEPT ![t] = "IDLE"]
        /\ UNCHANGED <<list, walk, driver, due, real>>
     \/ owner[t] = "stray" /\ Undefined

\* The time that is charged to a timer without having passed since it was armed:
\* the driver's sleep so far, or the arrears it is working off.
Advance == IF dpc = "sleep" THEN slept - togo ELSE late

\* timer_add_locked up to the loop; the caller asks for a delay of e.  Arrears of
\* a callback in progress count as handed over already.
StartInsert(t, e) ==
  /\ walk' = [timer |-> t, expires |-> e, pos |-> 1]
  /\ due' = [due EXCEPT ![t] = e - late]
  /\ real' = [real EXCEPT ![t] = IF e > Advance THEN e - Advance ELSE 0]

\* timer_add: -EBUSY, and no change, unless the timer is idle.
Add(t, e) ==
  /\ owner[t] = "used" /\ Unlocked /\ state[t] = "IDLE"
  /\ state' = [state EXCEPT ![t] = "INSERT"]
  /\ StartInsert(t, e)
  /\ UNCHANGED <<list, expires, owner, driver>>

PosOf(t) == CHOOSE p \in 1..Len(list) : list[p] = t

\* Mutant: the next timer keeps its own share only.
ExpiresUnchanged(t) == expires

\* The remaining times after timer_remove_locked: the next timer takes over the
\* share of the one that leaves, whose own is of no use until it is armed again.
ExpiresWithout(t) ==
  [u \in Timers |->
     CASE u = t -> 0
       [] u # t /\ PosOf(t) < Len(list) /\ u = list[PosOf(t) + 1]
            -> expires[u] + expires[t]
       [] OTHER -> expires[u]]

\* timer_mod: timer_remove_locked, which does nothing to an idle timer, and then
\* timer_add_locked.
Rearm(t, e) ==
  /\ Unlocked
  /\ state' = [state EXCEPT ![t] = "INSERT"]
  /\ IF state[t] = "IDLE" THEN UNCHANGED <<list, expires>>
     ELSE list' = RemoveAt(list, PosOf(t)) /\ expires' = ExpiresWithout(t)
  /\ StartInsert(t, e)
  /\ UNCHANGED driver

Mod(t, e) == owner[t] = "used" /\ Rearm(t, e) /\ UNCHANGED owner

\* A callback arms its own timer again, as bh_check_cb does, after another
\* thread has begun, or finished, to destroy it.
LateMod(e) ==
  /\ dpc = "call" /\ owner[cur] # "used"
  /\ Rearm(cur, e)
  /\ owner' = [owner EXCEPT ![cur] = IF @ \in {"free", "stray"} THEN "stray"
                                     ELSE "revived"]

\* Mutant: the loop goes on behind a later timer.
WalkOnPast ==
  /\ Walking /\ walk.pos <= Len(list)
  /\ walk' = [walk EXCEPT !.expires = @ - expires[list[walk.pos]], !.pos = @ + 1]
  /\ UNCHANGED <<listVars, owner, driver, due, real>>

\* The loop of timer_add_locked: the timer goes behind this node.
WalkOn ==
  /\ Walking /\ walk.pos <= Len(list)
  /\ walk.expires >= expires[list[walk.pos]]
  /\ walk' = [walk EXCEPT !.expires = @ - expires[list[walk.pos]], !.pos = @ + 1]
  /\ UNCHANGED <<listVars, owner, driver, due, real>>

\* The end of the loop: insert before the node reached, whose share shrinks.
WalkEnd ==
  /\ Walking
  /\ walk.pos <= Len(list) => walk.expires < expires[list[walk.pos]]
  /\ list' = InsertAt(list, walk.pos, walk.timer)
  /\ expires' = [t \in Timers |->
       CASE t = walk.timer -> walk.expires
         [] t # walk.timer /\ walk.pos <= Len(list) /\ t = list[walk.pos]
              -> expires[t] - walk.expires
         [] OTHER -> expires[t]]
  /\ state' = [state EXCEPT ![walk.timer] = "ACTIVED"]
  /\ walk' = NoWalk
  /\ UNCHANGED <<owner, driver, due, real>>

\* Mutant: the state is not reset.
UnlinkKeepsState(t) ==
  /\ state[t] = "ACTIVED"
  /\ list' = RemoveAt(list, PosOf(t))
  /\ expires' = ExpiresWithout(t)
  /\ due' = [due EXCEPT ![t] = 0]
  /\ real' = [real EXCEPT ![t] = 0]
  /\ UNCHANGED state

\* timer_remove_locked of a timer on the list.
Unlink(t) ==
  /\ state[t] = "ACTIVED"
  /\ list' = RemoveAt(list, PosOf(t))
  /\ expires' = ExpiresWithout(t)
  /\ state' = [state EXCEPT ![t] = "IDLE"]
  /\ due' = [due EXCEPT ![t] = 0]
  /\ real' = [real EXCEPT ![t] = 0]

\* timer_del.
Del(t) ==
  /\ owner[t] = "used" /\ Unlocked
  /\ Unlink(t)
  /\ UNCHANGED <<owner, walk, driver>>

\* Mutant: os_timer_destroy without timer_del.
DestroyLinked(t) ==
  /\ owner[t] = "used" /\ Unlocked
  /\ owner' = [owner EXCEPT ![t] = "dying"]
  /\ UNCHANGED <<listVars, walk, driver, due, real>>

\* os_timer_destroy, its timer_del.
Destroy(t) ==
  /\ owner[t] = "used" /\ Unlocked
  /\ \/ Unlink(t)
     \/ state[t] = "IDLE" /\ UNCHANGED <<listVars, due, real>>
  /\ owner' = [owner EXCEPT ![t] = "dying"]
  /\ UNCHANGED <<walk, driver>>

\* os_timer_destroy, its os_obj_free, which takes another lock than the list's
\* and overwrites the first word of the object, its node's next.
Free(t) ==
  /\ owner[t] \in {"dying", "revived"} /\ dpc # "ub"
  /\ \/ /\ state[t] # "ACTIVED"
        /\ owner' = [owner EXCEPT ![t] = IF state[t] = "IDLE" THEN "free" ELSE "stray"]
        /\ UNCHANGED <<listVars, walk, driver, due, real>>
     \/ state[t] = "ACTIVED" /\ Undefined

-----------------------------------------------------------------------------
(* The driver: os_timer_thread and timer_schedule. *)

Queued == {list[p] : p \in 1..Len(list)}

\* The time that has just been handed to timer_schedule is charged to all timers.
Charged(new) == [t \in Timers |-> IF t \in Queued THEN due[t] - new ELSE due[t]]

\* timer_schedule returns, and the driver sleeps for d.
Sleep(d) ==
  /\ dpc' = "sleep" /\ slept' = d /\ togo' = d
  /\ left' = 0 /\ cur' = NoTimer /\ late' = 0 /\ early' = 0

\* With nothing on the list it returns 0, and the driver sleeps its default.
ScheduleNone ==
  /\ list = <<>>
  /\ Sleep(IdleSleep)
  /\ UNCHANGED <<listVars, due, real>>

\* The first timer is not due: shorten its wait and return it.
ScheduleOut(e, new) ==
  /\ list # <<>> /\ expires[Head(list)] > e
  /\ expires' = [expires EXCEPT ![Head(list)] = @ - e]
  /\ due' = Charged(new)
  /\ Sleep(expires[Head(list)] - e)
  /\ UNCHANGED <<list, state, real>>

\* Mutant: what is left of the time does not shrink by the timer's share.
ScheduleCallKeepsTime(e, new) ==
  LET t == Head(list) IN
  /\ list # <<>> /\ expires[t] <= e
  /\ list' = Tail(list)
  /\ left' = e
  /\ state' = [state EXCEPT ![t] = "IDLE"]
  /\ expires' = [expires EXCEPT ![t] = 0]
  /\ due' = [Charged(new) EXCEPT ![t] = 0]
  /\ real' = [real EXCEPT ![t] = 0]
  /\ cur' = t /\ dpc' = "call"
  /\ late' = new - due[t] /\ early' = real[t]
  /\ UNCHANGED <<slept, togo>>

\* The first timer is due: take it off the list and unlock to call it.
ScheduleCall(e, new) ==
  LET t == Head(list) IN
  /\ list # <<>> /\ expires[t] <= e
  /\ list' = Tail(list)
  /\ left' = e - expires[t]
  /\ state' = [state EXCEPT ![t] = "IDLE"]
  /\ expires' = [expires EXCEPT ![t] = 0]
  /\ due' = [Charged(new) EXCEPT ![t] = 0]
  /\ real' = [real EXCEPT ![t] = 0]
  /\ cur' = t /\ dpc' = "call"
  /\ late' = new - due[t] /\ early' = real[t]
  /\ UNCHANGED <<slept, togo>>

\* timer_schedule, or its loop, with e still to be given out; new of it is charged
\* now.
Schedule(e, new) ==
  /\ Unlocked
  /\ ScheduleNone \/ ScheduleOut(e, new) \/ ScheduleCall(e, new)
  /\ UNCHANGED <<owner, walk>>

\* Mutant: the driver does not report how long it slept.
WakeZero == dpc = "sleep" /\ togo = 0 /\ Schedule(0, 0)

\* Mutant: the driver reports its default sleep, however long it slept.
WakeDefault == dpc = "sleep" /\ togo = 0 /\ Schedule(IdleSleep, IdleSleep)

\* The sleep is over.
Wake == dpc = "sleep" /\ togo = 0 /\ Schedule(slept, slept)

\* The callback has returned; timer_schedule goes on with what is left.
CallbackReturn == dpc = "call" /\ Schedule(left, 0)

\* A unit of time passes, while the driver sleeps or runs a callback.
Tick ==
  /\ dpc = "call" \/ (dpc = "sleep" /\ togo > 0)
  /\ togo' = IF dpc = "sleep" THEN togo - 1 ELSE togo
  /\ real' = [t \in Timers |-> IF real[t] > 0 THEN real[t] - 1 ELSE 0]
  /\ UNCHANGED <<listVars, owner, walk, dpc, slept, left, cur, late, early, due>>

-----------------------------------------------------------------------------
Insert == WalkOn \/ WalkEnd

Next ==
  \/ \E t \in Timers : Create(t) \/ Del(t) \/ Destroy(t) \/ Free(t)
  \/ \E t \in Timers, e \in Delays : Add(t, e) \/ Mod(t, e)
  \/ \E e \in Delays : LateMod(e)
  \/ Insert \/ Wake \/ CallbackReturn \/ Tick

Spec == Init /\ [][Next]_vars

\* Insertions end, the driver runs, callbacks return and time goes on.
Fairness ==
  /\ WF_vars(Insert) /\ SF_vars(Wake) /\ SF_vars(CallbackReturn)
  /\ WF_vars(Tick /\ dpc = "sleep")

LiveSpec == Spec /\ Fairness

-----------------------------------------------------------------------------
(* Properties. *)

TypeOK ==
  /\ list \in Seq(Timers)
  /\ expires \in [Timers -> Nat]
  /\ state \in [Timers -> {"IDLE", "INSERT", "ACTIVED"}]
  /\ owner \in [Timers -> Owners]
  /\ walk \in [timer : Timers \cup {NoTimer}, expires : Nat, pos : Nat]
  /\ dpc \in {"sleep", "call", "ub"}
  /\ slept \in Nat /\ togo \in Nat /\ left \in Nat
  /\ cur \in Timers \cup {NoTimer}
  /\ late \in Int /\ early \in Nat
  /\ due \in [Timers -> Int] /\ real \in [Timers -> Nat]

\* The list and the states agree: a timer is on the list, once, exactly when it
\* is ACTIVED, and being inserted exactly when it is INSERT.
StatesAgree ==
  /\ \A i, j \in 1..Len(list) : list[i] = list[j] => i = j
  /\ \A t \in Timers : state[t] = "ACTIVED" <=> t \in Queued
  /\ \A t \in Timers : state[t] = "INSERT" <=> walk.timer = t

\* The deltas add up to the time each timer still has, which is kept apart from
\* them: the first timer's share and the time timer_schedule has still to give out
\* make its due time, and every other is due its own share after the one before -
\* through insertions in the middle, removals, and timers armed while callbacks
\* run.
DeltasAddUp ==
  /\ list # <<>> => due[list[1]] + left = expires[list[1]]
  /\ \A p \in 1..(Len(list) - 1) :
       due[list[p + 1]] = due[list[p]] + expires[list[p + 1]]

\* A timer is called in the first call of timer_schedule with which the time
\* handed over since it was armed reaches its delay: not before, and not so long
\* overdue that an earlier call must have overlooked it.
FiresOnTime == dpc = "call" => late \in 0..slept

\* On the wall clock a timer is not called before its delay is over, counted from
\* the start of the driver's sleep, or from the time the list had reached, when it
\* was armed.  timer_list.h:64-66 ("@expires: expiration time (unit: ms)") lets a
\* caller expect it from the call of timer_add: os_timer_impl.cc:83 charges a
\* timer with the whole of a sleep in which it was added.
FiresAfterDelay == early = 0

\* A timer that os_timer_destroy has taken off the list, and one in the pool, get
\* back on it in no other way than by their own callback, under way at that time,
\* arming them again.
DestroyedNotQueued ==
  \A p \in 1..Len(list) : owner[list[p]] \in {"used", "revived", "stray"}

\* Every active timer is called back, unless it is removed or modified, whatever
\* is added in front of it and however long callbacks take - provided that
\* nobody asks for a delay of 0 and no freed timer breaks the lists.
EveryTimerFires ==
  \A t \in Timers : state[t] = "ACTIVED" ~> state[t] # "ACTIVED" \/ dpc = "ub"
==============================================================================
