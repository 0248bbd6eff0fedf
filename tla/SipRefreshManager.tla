-------------------------- MODULE SipRefreshManager --------------------------
(* Subscriptions and registrations that are kept alive: the applications that *)
(* start and stop a refresh, the task of SipRefreshManager with its queue of  *)
(* timer events and responses, the timers, and the servers.  Expirations are  *)
(* counted in ticks from now.                                                 *)
EXTENDS Integers, Sequences

CONSTANTS
  States,      \* addresses of RefreshDialogStates, one application for each
  Requested,   \* the expiration that is asked for (mExpirationPeriodSeconds)
  Granted,     \* expirations that a server may grant, no longer than Longest
  Longest,
  MinRefresh,  \* the transaction timeout, which no resend time goes below
  LongAgo,     \* an error time is shortened by what passed since a request
  MinError,    \* that was sent longer ago than that, but not below this
  MaxFlights,  \* bound: no time passes while a server has more requests
  MaxQueue,    \* bound: no refresh is started while more messages are queued
  None
ASSUME GrantedAssumption == /\ Requested \in Nat \ {0} /\ Longest \in Nat
                            /\ Requested <= Longest /\ Granted \subseteq 0..Longest
ASSUME TimesAssumption == /\ MinRefresh \in Nat \ {0} /\ LongAgo \in Nat
                          /\ MinError \in Nat \ {0} /\ MaxFlights \in Nat /\ MaxQueue \in Nat
ASSUME NoneAssumption == None \notin States \cup Int

VARIABLES
  mRefreshes,      \* the states that are in the container
  mRequestState, mExpiration,
  age,             \* ticks since mPendingStartTime
  mpRefreshTimer,  \* ticks until it fires, -1 if it fired or was stopped
  initiating,      \* what initiateRefresh is at: "idle", "send" or "failed",
  mReset,          \* and whether its timer was replaced in the meantime
  queue,           \* of the task: timer events and responses
  sending,         \* the state whose request the task sends without the lock
  flights,         \* to each server: requests in the order of their CSeq
  binding          \* at each server: ticks until the subscription expires
fields == <<mRequestState, mExpiration, age>>
starts == <<initiating, mReset>>
servers == <<flights, binding>>
vars == <<mRefreshes, fields, mpRefreshTimer, starts, queue, sending, servers>>

MaxOf(a, b) == IF a > b THEN a ELSE b

calculateResendTime(isSuccessfulResend) ==
  MaxOf(MinRefresh, ((IF isSuccessfulResend THEN 55 ELSE 10) * Requested) \div 100)

\* The timer that setRefreshTimer sets.
ResendTime(s, isSuccessfulReschedule) ==
  LET ticks == calculateResendTime(isSuccessfulReschedule) IN
    IF ~isSuccessfulReschedule /\ age[s] > LongAgo THEN MaxOf(MinError, ticks - age[s]) ELSE ticks

Event(kind, s) == [kind |-> kind, state |-> s, granted |-> 0, last |-> FALSE]

\* What a 2xx says of the expiration, None: it has no Expires.
Answer(kind, s, granted) == [kind |-> kind, state |-> s, granted |-> granted, last |-> TRUE]

\* A response counts as long as its request is the last one of the dialog.
Overtaken(q, s) ==
  [i \in DOMAIN q |-> IF q[i].state = s THEN [q[i] EXCEPT !.last = FALSE] ELSE q[i]]

\* The next request of the dialog gets its CSeq.
setForResend(s, expireNow, sent) ==
  flights' = [flights EXCEPT ![s] =
    Append([i \in DOMAIN @ |-> [@[i] EXCEPT !.last = FALSE]],
           [expireNow |-> expireNow, sent |-> sent, last |-> TRUE])]

Init ==
  /\ mRefreshes = {} /\ queue = <<>> /\ sending = None
  /\ mRequestState = [s \in States |-> "UNKNOWN"]
  /\ mExpiration = [s \in States |-> 0] /\ age = [s \in States |-> 0]
  /\ mpRefreshTimer = [s \in States |-> -1]
  /\ initiating = [s \in States |-> "idle"] /\ mReset = [s \in States |-> FALSE]
  /\ flights = [s \in States |-> <<>>] /\ binding = [s \in States |-> 0]

-----------------------------------------------------------------------------
(* The applications *)

\* A new state, which may have the address of a deleted one but is of a new
\* dialog, of which the server knows nothing: its timer is set before the
\* request is sent.
initiateRefresh(s) ==
  /\ s \notin mRefreshes /\ initiating[s] = "idle" /\ Len(queue) <= MaxQueue
  /\ flights[s] = <<>> /\ binding[s] = 0 /\ sending # s
  /\ mRefreshes' = mRefreshes \cup {s}
  /\ mRequestState' = [mRequestState EXCEPT ![s] = "PENDING"]
  /\ mExpiration' = [mExpiration EXCEPT ![s] = 0]
  /\ age' = [age EXCEPT ![s] = 0]
  /\ mpRefreshTimer' = [mpRefreshTimer EXCEPT ![s] = calculateResendTime(TRUE)]
  /\ initiating' = [initiating EXCEPT ![s] = "send"]
  /\ mReset' = [mReset EXCEPT ![s] = FALSE]
  /\ UNCHANGED <<queue, sending, servers>>

\* SipUserAgent::send, without the lock.
SendInitial(s) ==
  /\ initiating[s] = "send"
  /\ \/ /\ initiating' = [initiating EXCEPT ![s] = "idle"]
        /\ setForResend(s, FALSE, TRUE)
     \/ /\ initiating' = [initiating EXCEPT ![s] = "failed"]
        /\ UNCHANGED flights
  /\ UNCHANGED <<mRefreshes, fields, mpRefreshTimer, mReset, queue, sending, binding>>

\* The send failed: if the timer is still the one that was set, it is stopped
\* and its event is queued as interrupted.
InitialFailed(s) ==
  /\ initiating[s] = "failed"
  /\ initiating' = [initiating EXCEPT ![s] = "idle"]
  /\ mRequestState' = [mRequestState EXCEPT ![s] = "FAILED"]
  /\ IF mReset[s] THEN UNCHANGED <<mpRefreshTimer, queue>>
     ELSE /\ mpRefreshTimer' = [mpRefreshTimer EXCEPT ![s] = -1]
          /\ queue' = Append(queue, Event("interrupted", s))
  /\ UNCHANGED <<mRefreshes, mExpiration, age, mReset, sending, servers>>

\* Mutant: the state is not taken out of the container.
BugStopKeepsState(s) ==
  /\ s \in mRefreshes /\ initiating[s] = "idle"
  /\ IF mExpiration[s] > 0 \/ mRequestState[s] = "PENDING"
       THEN setForResend(s, TRUE, TRUE) ELSE UNCHANGED flights
  /\ queue' = Overtaken(queue, s)
  /\ mRequestState' = [mRequestState EXCEPT ![s] = "UNKNOWN"]
  /\ mExpiration' = [mExpiration EXCEPT ![s] = 0]
  /\ mpRefreshTimer' = [mpRefreshTimer EXCEPT ![s] = -1]
  /\ UNCHANGED <<mRefreshes, age, starts, sending, binding>>

\* The state leaves the container, so that nobody else touches it any more;
\* a subscription that is not over, or may not be, is ended at the server.
stopRefresh(s) ==
  /\ s \in mRefreshes /\ initiating[s] = "idle"
  /\ mRefreshes' = mRefreshes \ {s}
  /\ IF mExpiration[s] > 0 \/ mRequestState[s] = "PENDING"
       THEN setForResend(s, TRUE, TRUE) ELSE UNCHANGED flights
  /\ queue' = Overtaken(queue, s)
  /\ mRequestState' = [mRequestState EXCEPT ![s] = "UNKNOWN"]
  /\ mExpiration' = [mExpiration EXCEPT ![s] = 0]
  /\ mpRefreshTimer' = [mpRefreshTimer EXCEPT ![s] = -1]
  /\ UNCHANGED <<age, starts, sending, binding>>

-----------------------------------------------------------------------------
(* The task *)

\* The first message of the queue is handled.
Receives(kinds) ==
  /\ sending = None
  /\ queue # <<>> /\ Head(queue).kind \in kinds

setRefreshTimer(s, isSuccessfulReschedule) ==
  /\ mpRefreshTimer' = [mpRefreshTimer EXCEPT ![s] = ResendTime(s, isSuccessfulReschedule)]
  /\ mReset' = [mReset EXCEPT ![s] = TRUE]

\* A timer event of a state that is not in the container any more.
IgnoreTimer ==
  /\ Receives({"timer", "interrupted"}) /\ Head(queue).state \notin mRefreshes
  /\ queue' = Tail(queue)
  /\ UNCHANGED <<mRefreshes, fields, mpRefreshTimer, starts, sending, servers>>

\* Mutant: the timer is set for failed requests only.
BugRescheduleFailed ==
  /\ Receives({"timer", "interrupted"})
  /\ LET s == Head(queue).state IN
       /\ s \in mRefreshes
       /\ Head(queue).kind = "interrupted" \/ mRequestState[s] = "PENDING"
       /\ IF Head(queue).kind = "interrupted"
            THEN setRefreshTimer(s, FALSE) ELSE UNCHANGED <<mpRefreshTimer, mReset>>
  /\ queue' = Tail(queue)
  /\ UNCHANGED <<mRefreshes, fields, initiating, sending, servers>>

\* A request failed, or the timer fired while it is pending: the timer is set
\* to the shorter time.
Reschedule ==
  /\ Receives({"timer", "interrupted"})
  /\ LET s == Head(queue).state IN
       /\ s \in mRefreshes
       /\ Head(queue).kind = "interrupted" \/ mRequestState[s] = "PENDING"
       /\ setRefreshTimer(s, FALSE)
  /\ queue' = Tail(queue)
  /\ UNCHANGED <<mRefreshes, fields, initiating, sending, servers>>

\* Time to refresh.  The timer is set as if the request were going to succeed;
\* mRequestState stays what it is.
Refresh ==
  /\ Receives({"timer"})
  /\ LET s == Head(queue).state IN
       /\ s \in mRefreshes /\ mRequestState[s] # "PENDING"
       /\ setRefreshTimer(s, TRUE)
       /\ setForResend(s, FALSE, FALSE)
       /\ age' = [age EXCEPT ![s] = 0]
       /\ sending' = s
       /\ queue' = Overtaken(Tail(queue), s)
  /\ UNCHANGED <<mRefreshes, mRequestState, mExpiration, initiating, binding>>

\* The requests without the one that was not sent.
Withdrawn(requests) ==
  LET unsent == {i \in DOMAIN requests : ~requests[i].sent} IN
    IF unsent = {} THEN {requests}
    ELSE {SubSeq(requests, 1, i - 1) \o SubSeq(requests, i + 1, Len(requests)) : i \in unsent}

\* The copy of the request is sent without the lock; whether that succeeds is
\* not looked at, and the server may have taken a later request before.
SendRefresh ==
  /\ sending # None
  /\ sending' = None
  /\ LET requests == flights[sending] IN
       \E q \in {[i \in DOMAIN requests |-> [requests[i] EXCEPT !.sent = TRUE]]}
                 \cup Withdrawn(requests) :
         flights' = [flights EXCEPT ![sending] = q]
  /\ UNCHANGED <<mRefreshes, fields, mpRefreshTimer, starts, queue, binding>>

\* A response to another than the last request, or without a state.
IgnoreResponse ==
  /\ Receives({"success", "failure"}) /\ ~(Head(queue).last /\ Head(queue).state \in mRefreshes)
  /\ queue' = Tail(queue)
  /\ UNCHANGED <<mRefreshes, fields, mpRefreshTimer, starts, sending, servers>>

\* The expiration of a 2xx, getAcceptedExpiration: without one it is assumed
\* that the server granted what was asked for.
Accepted(granted) == IF granted = None THEN Requested ELSE granted

\* Mutant: the expiration counts from the response.
BugSucceedFromNow ==
  /\ Receives({"success"}) /\ Head(queue).last
  /\ LET s == Head(queue).state IN
       /\ s \in mRefreshes
       /\ mExpiration' = [mExpiration EXCEPT ![s] = Accepted(Head(queue).granted)]
       /\ mRequestState' = [mRequestState EXCEPT ![s] = "SUCCEEDED"]
  /\ queue' = Tail(queue)
  /\ UNCHANGED <<mRefreshes, age, mpRefreshTimer, starts, sending, servers>>

\* A 2xx: the expiration is the granted time from when the request was sent, or
\* now if that is 0.  The timer runs on.
RequestSucceeded ==
  /\ Receives({"success"}) /\ Head(queue).last
  /\ LET s == Head(queue).state IN
       /\ s \in mRefreshes
       /\ mExpiration' = [mExpiration EXCEPT ![s] = MaxOf(0, Accepted(Head(queue).granted) - age[s])]
       /\ mRequestState' = [mRequestState EXCEPT ![s] = "SUCCEEDED"]
  /\ queue' = Tail(queue)
  /\ UNCHANGED <<mRefreshes, age, mpRefreshTimer, starts, sending, servers>>

\* Mutant: the timer is stopped, and nothing is queued.
BugFailedUnqueued ==
  /\ Receives({"failure"}) /\ Head(queue).last
  /\ LET s == Head(queue).state IN
       /\ s \in mRefreshes
       /\ mRequestState' = [mRequestState EXCEPT ![s] = "FAILED"]
       /\ mpRefreshTimer' = [mpRefreshTimer EXCEPT ![s] = -1]
  /\ queue' = Tail(queue)
  /\ UNCHANGED <<mRefreshes, mExpiration, age, starts, sending, servers>>

\* A failure response, or the timeout of the transaction: the timer is stopped
\* and its event queued as interrupted (stopTimerForFailureReschedule); the
\* expiration is whatever it was.
RequestFailed ==
  /\ Receives({"failure"}) /\ Head(queue).last
  /\ LET s == Head(queue).state IN
       /\ s \in mRefreshes
       /\ mRequestState' = [mRequestState EXCEPT ![s] = "FAILED"]
       /\ mpRefreshTimer' = [mpRefreshTimer EXCEPT ![s] = -1]
       /\ queue' = Append(Tail(queue), Event("interrupted", s))
  /\ UNCHANGED <<mRefreshes, mExpiration, age, starts, sending, servers>>

-----------------------------------------------------------------------------
(* The timers and the servers *)

TimerFires(s) ==
  /\ mpRefreshTimer[s] = 0
  /\ mpRefreshTimer' = [mpRefreshTimer EXCEPT ![s] = -1]
  /\ queue' = Append(queue, Event("timer", s))
  /\ UNCHANGED <<mRefreshes, fields, starts, sending, servers>>

\* A server takes a request, which makes it refuse the ones before it, and grants
\* it any time, none at all or less than what was left included, or refuses it.
\* Its 2xx may come without an Expires or be lost, which the client sees as a
\* failure.  A response without a dialog is dropped.
Serve(s) ==
  /\ \E i \in DOMAIN flights[s], granted \in Granted, taken \in BOOLEAN,
        kind \in {"success", "failure"} :
       LET request == flights[s][i]
           given == IF request.expireNow THEN 0 ELSE granted IN
       /\ request.sent /\ (kind = "success" => taken)
       /\ binding' = [binding EXCEPT ![s] = IF taken THEN given ELSE @]
       /\ flights' = [flights EXCEPT ![s] = SubSeq(@, i + 1, Len(@))]
       /\ IF request.last /\ s \in mRefreshes
            THEN \E said \in IF kind = "success" THEN {given, None} ELSE {0} :
                   queue' = Append(queue, Answer(kind, s, said))
            ELSE UNCHANGED queue
  /\ UNCHANGED <<mRefreshes, fields, mpRefreshTimer, starts, sending>>

\* Time passes.
Tick ==
  /\ \A s \in States : Len(flights[s]) <= MaxFlights
  /\ mpRefreshTimer' = [s \in States |->
       IF mpRefreshTimer[s] > 0 THEN mpRefreshTimer[s] - 1 ELSE mpRefreshTimer[s]]
  /\ mExpiration' = [s \in States |-> MaxOf(0, mExpiration[s] - 1)]
  /\ binding' = [s \in States |-> MaxOf(0, binding[s] - 1)]
  /\ age' = [s \in States |-> IF age[s] < Longest THEN age[s] + 1 ELSE age[s]]
  /\ UNCHANGED <<mRefreshes, mRequestState, starts, queue, sending, flights>>

-----------------------------------------------------------------------------
handleMessage ==
  \/ IgnoreTimer \/ Reschedule \/ Refresh \/ SendRefresh
  \/ IgnoreResponse \/ RequestSucceeded \/ RequestFailed

Next ==
  \/ \E s \in States :
       \/ initiateRefresh(s) \/ SendInitial(s) \/ InitialFailed(s) \/ stopRefresh(s)
       \/ TimerFires(s) \/ Serve(s)
  \/ handleMessage \/ Tick

\* The task goes on, so do calls that were begun; timers fire, servers (or the
\* timeout of the transaction) answer and time passes.
Fairness ==
  /\ WF_vars(handleMessage) /\ WF_vars(Tick)
  /\ \A s \in States :
       WF_vars(SendInitial(s) \/ InitialFailed(s)) /\ WF_vars(TimerFires(s)) /\ WF_vars(Serve(s))

Spec == Init /\ [][Next]_vars
FairSpec == Spec /\ Fairness

-----------------------------------------------------------------------------
Message == [kind : {"timer", "interrupted", "success", "failure"}, state : States,
            granted : (0..Longest) \cup {None}, last : BOOLEAN]
Request == [expireNow : BOOLEAN, sent : BOOLEAN, last : BOOLEAN]
InQueue(s, kinds) ==
  \E i \in DOMAIN queue : queue[i].state = s /\ queue[i].kind \in kinds

\* States, messages and requests have their types; a state in the container was
\* filled in (createNewRefreshState), and a request that is not sent yet is of
\* the state that the task sends for.
TypeOK ==
  /\ mRefreshes \subseteq States
  /\ mRequestState \in [States -> {"UNKNOWN", "PENDING", "FAILED", "SUCCEEDED"}]
  /\ mExpiration \in [States -> 0..Longest] /\ age \in [States -> 0..Longest]
  /\ mpRefreshTimer \in [States -> Int]
  /\ initiating \in [States -> {"idle", "send", "failed"}] /\ mReset \in [States -> BOOLEAN]
  /\ queue \in Seq(Message) /\ sending \in States \cup {None}
  /\ flights \in [States -> Seq(Request)] /\ binding \in [States -> 0..Longest]
  /\ \A s \in mRefreshes : mRequestState[s] # "UNKNOWN"
  /\ \A s \in States : (\E i \in DOMAIN flights[s] : ~flights[s][i].sent) => sending = s

\* No refresh is forgotten: its timer runs or an event of it is in the queue
\* (SipRefreshManager::handleMessage, stopTimerForFailureReschedule).
RefreshGoesOn ==
  \A s \in mRefreshes : mpRefreshTimer[s] >= 0 \/ InQueue(s, {"timer", "interrupted"})

\* The task takes a 2xx to the last request.
Hears(s) ==
  /\ Len(queue') < Len(queue)
  /\ Head(queue).kind = "success" /\ Head(queue).last /\ Head(queue).state = s

ToldSafely ==
  \A s \in mRefreshes :
    Hears(s) \/ mExpiration'[s] > mExpiration[s] =>
      mExpiration'[s] <= binding[s] \/ Head(queue).granted = None

\* A 2xx never tells the application of a later expiration than the server has,
\* however late it comes and whatever the server granted before it, and nothing
\* else puts the expiration off (handleMessage, mPendingStartTime).  Only where
\* the 2xx has no Expires the code takes what it asked for.
ExpirationIsSafe == [][ToldSafely]_vars

\* Liveness: a refresh that failed is sent again, unless it is stopped.
FailedIsRetried ==
  \A s \in States :
    mRequestState[s] = "FAILED" ~> (s \notin mRefreshes \/ sending = s)

\* A refresh that is stopped is ended at the server if a request may still be
\* granted (SipRefreshManager.cpp: "If the subscription or registration has not
\* expired or there is a pending request").
StoppedUnsubscribes ==
  \A s \in States \ mRefreshes :
    flights[s] # <<>> => flights[s][Len(flights[s])].expireNow
=============================================================================
