------------------------------- MODULE OsTimer -------------------------------
(* Timers: the owner's calls (OsTimer), the task that forwards them           *)
(* (OsTimerTask) and the thread that keeps the differential queue of timers   *)
(* and fires them (OsSysSoftTimer).  A start is asynchronous all the way, a   *)
(* stop waits until the thread has done it.  Time is counted in ticks since   *)
(* the thread's reference time, so it goes on for ever.                       *)
EXTENDS Integers, Sequences, FiniteSetsExt

CONSTANTS
  Timers,
  Periodic,   \* timers that are armed with periodicEvery; the others are oneshot
  Fresh,      \* timers that were never armed before
  Offsets,    \* arguments of oneshotAfter and periodicEvery
  Period,     \* of the periodic timers
  Heartbeat,  \* of the thread's own dummy timer
  MaxLag,     \* bound: the thread catches up with its reference time by then
  None
ASSUME TimersAssumption == Periodic \subseteq Timers /\ Fresh \subseteq Timers /\ None \notin Timers
ASSUME TimesAssumption == /\ Offsets \subseteq Int /\ Period \in Nat \ {0}
                          /\ Heartbeat \in Nat \ {0} /\ MaxLag \in Nat /\ Heartbeat <= MaxLag

VARIABLES
  mState, mTimerId, mExpiresAt,   \* of each timer; no id yet: None
  owner,      \* what the owner of each timer does: "idle", "stopping", "waiting"
  taskQ,      \* messages of OsTimerTask
  task,       \* the timer whose removal OsTimerTask waits for, and the answer
  requestQ,   \* messages of the thread
  timerQ,     \* the differential queue.  left is history: ticks until it is due
  firing,     \* the node that was taken off the queue to be fired
  thread,     \* where the thread is: "wait", "serve" or "fire"
  lag         \* ticks since the reference time
owners == <<mExpiresAt, owner>>
tasks == <<taskQ, task>>
threads == <<requestQ, timerQ, firing, thread, lag>>
vars == <<mState, mTimerId, owners, tasks, threads>>

Node(tm, ticks) == [timer |-> tm, expiry |-> ticks, left |-> ticks - lag]
NoNode == [timer |-> None, expiry |-> 0, left |-> 0]
NoTask == [timer |-> None, synch |-> FALSE]

\* Ticks from the reference time until the i-th node is due.
Due(q, i) ==
  LET due[n \in 0..Len(q)] == IF n = 0 THEN 0 ELSE q[n].expiry + due[n - 1] IN due[i]

\* Mutant: the next node's difference is not shortened.
BugInsertKeepsNext(q, node) ==
  LET k == Max({n \in 0..Len(q) : \A i \in 1..n : node.expiry > Due(q, i)})
  IN  SubSeq(q, 1, k) \o <<[node EXCEPT !.expiry = @ - Due(q, k)]>> \o SubSeq(q, k + 1, Len(q))

\* The node goes before the first one that is not due before it.
insertQ(q, node) ==
  LET k == Max({n \in 0..Len(q) : \A i \in 1..n : node.expiry > Due(q, i)})
      difference == node.expiry - Due(q, k)
  IN  SubSeq(q, 1, k) \o <<[node EXCEPT !.expiry = difference]>>
        \o [i \in 1..(Len(q) - k) |->
              IF i = 1 THEN [q[k + 1] EXCEPT !.expiry = @ - difference] ELSE q[k + i]]

\* The first node of the timer leaves, and the next one inherits its difference.
RemoveNode(q, tm) ==
  LET at == {i \in DOMAIN q : q[i].timer = tm}
      k == Min(at)
  IN  IF at = {} \/ tm = None THEN q
      ELSE [i \in 1..(Len(q) - 1) |->
              IF i < k THEN q[i]
              ELSE [q[i + 1] EXCEPT !.expiry = IF i = k THEN @ + q[k].expiry ELSE @]]

Init ==
  /\ mState = [tm \in Timers |-> IF tm \in Fresh THEN "CREATED" ELSE "STOPPED"]
  /\ mTimerId = [tm \in Timers |-> IF tm \in Fresh THEN None ELSE tm]
  /\ mExpiresAt = [tm \in Timers |-> 0]
  /\ owner = [tm \in Timers |-> "idle"]
  /\ taskQ = <<>> /\ task = NoTask /\ requestQ = <<>>
  /\ lag = 0
  /\ timerQ = <<[timer |-> None, expiry |-> Heartbeat, left |-> Heartbeat]>>
  /\ firing = NoNode
  /\ thread = "wait"

-----------------------------------------------------------------------------
(* The owner of a timer *)

\* oneshotAfter, periodicEvery: only a timer that is not started (doStartTimer
\* asserts it).
doStartTimer(tm, offset) ==
  /\ owner[tm] = "idle" /\ mState[tm] \in {"CREATED", "STOPPED"}
  /\ mExpiresAt' = [mExpiresAt EXCEPT ![tm] = offset]
  /\ mState' = [mState EXCEPT ![tm] = "STARTED"]
  /\ taskQ' = Append(taskQ, [type |-> "START", timer |-> tm])
  /\ UNCHANGED <<mTimerId, owner, task, threads>>

\* stop and the destructor return at once if the timer is stopped ...
doStopTimer(tm) ==
  /\ owner[tm] = "idle" /\ mState[tm] = "STARTED"
  /\ owner' = [owner EXCEPT ![tm] = "stopping"]
  /\ UNCHANGED <<mState, mTimerId, mExpiresAt, tasks, threads>>

\* ... and otherwise send the task a message and wait.
stopTimer(tm) ==
  /\ owner[tm] = "stopping"
  /\ owner' = [owner EXCEPT ![tm] = "waiting"]
  /\ taskQ' = Append(taskQ, [type |-> "STOP", timer |-> tm])
  /\ UNCHANGED <<mState, mTimerId, mExpiresAt, task, threads>>

-----------------------------------------------------------------------------
(* OsTimerTask *)

\* Mutant: STOP does not wait for the thread.
BugHandleMessageNoWait ==
  /\ task.timer = None /\ taskQ # <<>>
  /\ LET msg == Head(taskQ) IN
       IF msg.type = "START"
         THEN /\ requestQ' = Append(requestQ, [type |-> "ADD", timer |-> msg.timer])
              /\ UNCHANGED task
         ELSE /\ requestQ' = Append(requestQ, [type |-> "REMOVE", timer |-> mTimerId[msg.timer]])
              /\ task' = [timer |-> msg.timer, synch |-> TRUE]
  /\ taskQ' = Tail(taskQ)
  /\ UNCHANGED <<mState, mTimerId, owners, timerQ, firing, thread, lag>>

\* START becomes an ADD request; STOP becomes a REMOVE request with the id the
\* timer has now, and the task waits for it.
handleMessage ==
  /\ task.timer = None /\ taskQ # <<>>
  /\ LET msg == Head(taskQ) IN
       IF msg.type = "START"
         THEN /\ requestQ' = Append(requestQ, [type |-> "ADD", timer |-> msg.timer])
              /\ UNCHANGED task
         ELSE /\ requestQ' = Append(requestQ, [type |-> "REMOVE", timer |-> mTimerId[msg.timer]])
              /\ task' = [timer |-> msg.timer, synch |-> FALSE]
  /\ taskQ' = Tail(taskQ)
  /\ UNCHANGED <<mState, mTimerId, owners, timerQ, firing, thread, lag>>

\* The removal is done: the timer is stopped and its owner goes on.
RemovalDone ==
  /\ task.timer # None /\ task.synch
  /\ mState' = [mState EXCEPT ![task.timer] = "STOPPED"]
  /\ owner' = [owner EXCEPT ![task.timer] = "idle"]
  /\ task' = NoTask
  /\ UNCHANGED <<mTimerId, mExpiresAt, taskQ, threads>>

-----------------------------------------------------------------------------
(* OsSysSoftTimer *)

\* The first expiry that is not over yet, of a periodic timer that starts late.
FirstExpiry(offset) ==
  IF offset > 0 THEN offset ELSE IF offset % Period = 0 THEN Period ELSE offset % Period

\* A timer that is already over is fired at once, a periodic one as often as
\* it is late, and then put in the queue.
doAddTimer(tm) ==
  IF tm \notin Periodic /\ mExpiresAt[tm] <= 0
    THEN mState' = [mState EXCEPT ![tm] = "STOPPED"] /\ UNCHANGED <<mTimerId, mExpiresAt, timerQ>>
    ELSE LET expiry == FirstExpiry(mExpiresAt[tm]) IN
         /\ mExpiresAt' = [mExpiresAt EXCEPT ![tm] = expiry]
         /\ mTimerId' = [mTimerId EXCEPT ![tm] = tm]
         /\ timerQ' = insertQ(timerQ, Node(tm, expiry))
         /\ UNCHANGED mState

\* Mutant: only a removal that finds its timer is answered.
BugRemoveAnswersFound ==
  /\ thread \in {"wait", "serve"} /\ requestQ # <<>>
  /\ thread' = "serve"
  /\ requestQ' = Tail(requestQ)
  /\ LET msg == Head(requestQ) IN
       \/ msg.type = "ADD" /\ doAddTimer(msg.timer) /\ UNCHANGED task
       \/ /\ msg.type = "REMOVE"
          /\ timerQ' = RemoveNode(timerQ, msg.timer)
          /\ task' = [task EXCEPT !.synch = timerQ' # timerQ]
          /\ UNCHANGED <<mState, mTimerId, mExpiresAt>>
  /\ UNCHANGED <<owner, taskQ, firing, lag>>

\* The thread waits for a request or for the first timer to expire, and then
\* takes requests until there is none.
doServiceRequests ==
  /\ thread \in {"wait", "serve"} /\ requestQ # <<>>
  /\ thread' = "serve"
  /\ requestQ' = Tail(requestQ)
  /\ LET msg == Head(requestQ) IN
       \/ msg.type = "ADD" /\ doAddTimer(msg.timer) /\ UNCHANGED task
       \/ /\ msg.type = "REMOVE"
          /\ timerQ' = RemoveNode(timerQ, msg.timer)
          /\ task' = [task EXCEPT !.synch = TRUE]
          /\ UNCHANGED <<mState, mTimerId, mExpiresAt>>
  /\ UNCHANGED <<owner, taskQ, firing, lag>>

\* The reference time is set to now and the first timer is charged with the
\* ticks in between.  If it has expired it leaves the queue to be fired, and
\* the reference time is set to the time it should have been fired.
UpdateReference ==
  LET first == Head(timerQ) IN
    IF first.expiry > lag
      THEN /\ timerQ' = [timerQ EXCEPT ![1].expiry = @ - lag]
           /\ lag' = 0 /\ thread' = "wait" /\ UNCHANGED firing
      ELSE /\ timerQ' = Tail(timerQ) /\ firing' = first
           /\ lag' = lag - first.expiry /\ thread' = "fire"

\* Mutant: the wait for requests does not time out.
BugSettleNoTimeout ==
  /\ thread = "serve" /\ requestQ = <<>>
  /\ UpdateReference
  /\ UNCHANGED <<mState, mTimerId, owners, tasks, requestQ>>

\* No more requests, or the wait for one timed out.
Settle ==
  /\ \/ thread = "serve" /\ requestQ = <<>>
     \/ thread = "wait" /\ lag >= Head(timerQ).expiry
  /\ UpdateReference
  /\ UNCHANGED <<mState, mTimerId, owners, tasks, requestQ>>

\* Mutant: the dummy timer is not armed again.
BugFireDummyOnce ==
  /\ thread = "fire"
  /\ IF firing.timer \in Periodic
       THEN /\ timerQ' = insertQ(timerQ, [firing EXCEPT !.expiry = Period, !.left = @ + Period])
            /\ UNCHANGED mState
       ELSE /\ mState' = [tm \in Timers |-> IF tm = firing.timer THEN "STOPPED" ELSE mState[tm]]
            /\ UNCHANGED timerQ
  /\ firing' = NoNode
  /\ thread' = "serve"
  /\ UNCHANGED <<mTimerId, owners, tasks, requestQ, lag>>

\* Mutant: a periodic timer is due a period after it was fired.
BugFireDrifts ==
  /\ thread = "fire"
  /\ IF firing.timer \in Periodic \cup {None}
       THEN LET period == IF firing.timer = None THEN Heartbeat ELSE Period IN
            /\ timerQ' = insertQ(timerQ, Node(firing.timer, lag + period))
            /\ UNCHANGED mState
       ELSE mState' = [mState EXCEPT ![firing.timer] = "STOPPED"] /\ UNCHANGED timerQ
  /\ firing' = NoNode
  /\ thread' = "serve"
  /\ UNCHANGED <<mTimerId, owners, tasks, requestQ, lag>>

\* The notifier was signalled; a periodic timer goes back into the queue, a
\* oneshot timer is stopped.
Fire ==
  /\ thread = "fire"
  /\ IF firing.timer \in Periodic \cup {None}
       THEN LET period == IF firing.timer = None THEN Heartbeat ELSE Period IN
            /\ timerQ' = insertQ(timerQ, [firing EXCEPT !.expiry = period, !.left = @ + period])
            /\ UNCHANGED mState
       ELSE mState' = [mState EXCEPT ![firing.timer] = "STOPPED"] /\ UNCHANGED timerQ
  /\ firing' = NoNode
  /\ thread' = "serve"
  /\ UNCHANGED <<mTimerId, owners, tasks, requestQ, lag>>

\* Time passes.
Tick ==
  /\ lag < MaxLag
  /\ lag' = lag + 1
  /\ timerQ' = [i \in DOMAIN timerQ |-> [timerQ[i] EXCEPT !.left = @ - 1]]
  /\ firing' = IF thread = "fire" THEN [firing EXCEPT !.left = @ - 1] ELSE firing
  /\ UNCHANGED <<mState, mTimerId, owners, tasks, requestQ, thread>>

-----------------------------------------------------------------------------
Next ==
  \/ \E tm \in Timers :
       \/ \E offset \in Offsets : doStartTimer(tm, offset)
       \/ doStopTimer(tm) \/ stopTimer(tm)
  \/ handleMessage \/ RemovalDone
  \/ doServiceRequests \/ Settle \/ Fire \/ Tick

\* The task and the thread go on, a stop that was begun is sent, time passes,
\* and the thread finds its requests done again and again.
Fairness ==
  /\ \A tm \in Timers : WF_vars(stopTimer(tm))
  /\ WF_vars(handleMessage) /\ WF_vars(RemovalDone)
  /\ WF_vars(doServiceRequests) /\ SF_vars(Settle) /\ WF_vars(Fire) /\ WF_vars(Tick)

Spec == Init /\ [][Next]_vars
FairSpec == Spec /\ Fairness

-----------------------------------------------------------------------------
Nodes == {timerQ[i] : i \in DOMAIN timerQ}
NodeType == [timer : Timers \cup {None}, expiry : Int, left : Int]

\* Timers, messages and nodes have their types, and the thread's dummy timer is
\* in the queue whenever the thread looks at it (OsSysSoftTimer::run, "should
\* always be the case, as we have a dummy timer").
TypeOK ==
  /\ mState \in [Timers -> {"CREATED", "STARTED", "STOPPED"}]
  /\ mTimerId \in [Timers -> Timers \cup {None}]
  /\ mExpiresAt \in [Timers -> Int]
  /\ owner \in [Timers -> {"idle", "stopping", "waiting"}]
  /\ taskQ \in Seq([type : {"START", "STOP"}, timer : Timers])
  /\ task \in [timer : Timers \cup {None}, synch : BOOLEAN]
  /\ requestQ \in Seq([type : {"ADD", "REMOVE"}, timer : Timers \cup {None}])
  /\ timerQ \in Seq(NodeType) /\ firing \in NodeType
  /\ thread \in {"wait", "serve", "fire"} /\ lag \in 0..MaxLag
  /\ thread # "fire" => None \in {node.timer : node \in Nodes}

\* The timer is nowhere in the hands of the task or the thread.
Unused(tm) ==
  /\ tm \notin {node.timer : node \in Nodes} /\ firing.timer # tm
  /\ \A i \in DOMAIN taskQ : taskQ[i].timer # tm
  /\ \A i \in DOMAIN requestQ : requestQ[i].timer # tm

StopIsFinal(S) ==
  \A tm \in S : mState[tm] = "STOPPED" /\ owner[tm] = "idle" => Unused(tm)

\* A timer that was registered before it was armed this time is not used any
\* more once it is stopped: its owner may delete it or arm it again
\* (OsTimer::stop, ~OsTimer), as OsStunDatagramSocket, OsSysLogTask and
\* PsHookswTask do with theirs.  Owners that make a new OsTimer for each arming,
\* such as SipTransaction and SipRefreshManager, have only first stops, of which
\* this says nothing.
StoppedIsUnused == StopIsFinal(Timers \ Fresh)

\* The same of every timer (OsTimerTask.cpp: "we don't allow the caller to run
\* before the OsTimer has stopped using the timer").
EveryStopIsFinal == StopIsFinal(Timers)

\* No operation on the queue moves another timer: the differences add up to
\* the time at which each node was due when it was added, or added again.
DueKept ==
  /\ \A i \in DOMAIN timerQ : timerQ[i].left = Due(timerQ, i) - lag
  /\ thread = "fire" => firing.left = -lag

\* Of a timer that was armed before: its orders, which the task or the thread
\* still has to take, its alarms, the one that is being fired too, and its stop
Known == Timers \ Fresh
Ordered(tm) ==
  \/ \E i \in DOMAIN taskQ : taskQ[i] = [type |-> "START", timer |-> tm]
  \/ \E i \in DOMAIN requestQ : requestQ[i] = [type |-> "ADD", timer |-> tm]
Orders == {[timer |-> tm, offset |-> mExpiresAt[tm]] : tm \in {x \in Known : Ordered(x)}}
Alarms == {[timer |-> node.timer, left |-> node.left] :
             node \in {n \in Nodes \cup {firing} : n.timer \in Known}}
Stopping == {tm \in Known : owner[tm] # "idle"}

\* To the owners of the timers the task, the thread and the differential queue
\* are an alarm clock: alarms ring in the order they are due, none before the
\* time it was set for, which is early by the thread's lag when it was added, and
\* none moved by another, periodic ones do not drift, and a stop returns when
\* its timer is nowhere any more.
Clock == INSTANCE AlarmClock WITH
  Timers <- Known, Periodic <- Periodic \cap Known,
  orders <- Orders, alarms <- Alarms, stopping <- Stopping
ClockSpec == Clock!Spec

\* Liveness: a started timer fires, again and again if it is periodic, unless
\* it is stopped.
StartedFires ==
  \A tm \in Timers : mState[tm] = "STARTED" ~> firing.timer = tm \/ mState[tm] = "STOPPED"

\* Liveness: stop returns.
StopReturns == \A tm \in Timers : owner[tm] = "stopping" ~> owner[tm] = "idle"
=============================================================================
