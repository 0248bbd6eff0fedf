----------------------------- MODULE AlarmClock -----------------------------
(* What the timers promise their owners.  An alarm that is ordered is set for *)
(* the time that was asked, early by as much as the clock is behind.  Alarms  *)
(* ring in the order in which they are due, never before the time they are    *)
(* set for, and a periodic one is due again a period after it was due, not    *)
(* after it rang.  A stop returns when its alarm is neither ordered nor set   *)
(* any more (OsTimer.cpp, OsTimerTask.cpp, OsSysSoftTimer.cpp).               *)
EXTENDS Integers

CONSTANTS
  Timers,
  Periodic,   \* those that ring again and again
  Offsets,    \* that may be asked for
  Period,     \* of the periodic ones
  MaxLag      \* how far the clock is behind at most

VARIABLES
  orders,     \* a timer and the offset that was asked: not set yet
  alarms,     \* a timer and the ticks that are left
  stopping    \* the timers whose owner waits for the end of a stop
vars == <<orders, alarms, stopping>>

Of(tm) == {a \in alarms : a.timer = tm}
Idle(tm) == Of(tm) = {} /\ \A o \in orders : o.timer # tm

Init == orders = {} /\ alarms = {} /\ stopping = {}

\* Only who has no alarm any more orders one.
Order(tm, offset) ==
  /\ Idle(tm) /\ tm \notin stopping
  /\ orders' = orders \cup {[timer |-> tm, offset |-> offset]}
  /\ UNCHANGED <<alarms, stopping>>

\* When it rings first, a periodic one that is late not at once.
First(offset) == IF offset > 0 THEN {offset} ELSE 1..Period

Arm(o) ==
  /\ orders' = orders \ {o}
  /\ \E ticks \in First(o.offset), late \in 0..MaxLag :
       alarms' = alarms \cup {[timer |-> o.timer, left |-> ticks - late]}
  /\ UNCHANGED stopping

\* An alarm that rings once and is over already is never set.
RingAtOnce(o) ==
  /\ o.timer \notin Periodic /\ o.offset <= 0
  /\ orders' = orders \ {o}
  /\ UNCHANGED <<alarms, stopping>>

\* The first of the alarms that are due rings.
Ring(a) ==
  /\ a.left \in (-MaxLag)..0 /\ \A b \in alarms : a.left <= b.left
  /\ alarms' = (alarms \ {a}) \cup
       {[timer |-> tm, left |-> a.left + Period] : tm \in Periodic \cap {a.timer}}
  /\ UNCHANGED <<orders, stopping>>

AskStop(tm) == stopping' = stopping \cup {tm} /\ UNCHANGED <<orders, alarms>>

\* An alarm is only taken away from who asked for it.
Disarm(tm) ==
  /\ tm \in stopping
  /\ alarms' = alarms \ Of(tm)
  /\ UNCHANGED <<orders, stopping>>

Return(tm) ==
  /\ tm \in stopping /\ Idle(tm)
  /\ stopping' = stopping \ {tm}
  /\ UNCHANGED <<orders, alarms>>

Tick ==
  /\ alarms' = {[timer |-> a.timer, left |-> a.left - 1] : a \in alarms}
  /\ UNCHANGED <<orders, stopping>>

Next ==
  \/ \E tm \in Timers :
       (\E offset \in Offsets : Order(tm, offset)) \/ AskStop(tm) \/ Disarm(tm) \/ Return(tm)
  \/ \E o \in orders : Arm(o) \/ RingAtOnce(o)
  \/ \E a \in alarms : Ring(a)
  \/ Tick

Spec == Init /\ [][Next]_vars
=============================================================================
