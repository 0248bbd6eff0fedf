--------------------------- MODULE SipTransaction ---------------------------
(***************************************************************************)
(* The client side of one request sent by the application: the transaction *)
(* tree of SipTransaction (src/net/SipTransaction.cpp).                     *)
(*                                                                         *)
(* The root stands for the application's request; it never sends anything. *)
(* It has one child for each server that DNS SRV names, at most            *)
(* MaxSrvRecords, in the order of preference.  The children are tried one   *)
(* after the other: the next one when the current one gave up without a     *)
(* word.  Responses, resend timers, expiration timers and the application's *)
(* CANCEL arrive in any order, late ones too.                               *)
(*                                                                         *)
(* A handler is one step: it runs between markBusy and markAvailable of the *)
(* whole tree, which SipTransactionList shows to exclude the other tasks.   *)
(* Each send of a message may fail at once.  Responses are classes: a 1xx,  *)
(* a 2xx, a 487 and any other failure (4xx to 6xx).                         *)
(***************************************************************************)
EXTENDS Integers, Sequences

CONSTANTS
  MaxSrvRecords,     \* servers the DNS may name
  ResendTimes,       \* SIP_UDP_RESEND_TIMES, sends of a message over UDP
  Reliable,          \* the servers reached over TCP
  Invites,           \* may the request be an INVITE, may it be another one
  MaxForwarded,      \* bound: the further finals that are passed through
  None

Root         == 0
Servers      == 1..MaxSrvRecords
Transactions == 0..MaxSrvRecords
Nobody       == MaxSrvRecords + 1    \* no server: the sends to all of them failed

ASSUME MaxSrvRecordsAssumption == MaxSrvRecords \in Nat
ASSUME ResendTimesAssumption   == ResendTimes \in Nat \ {0}
ASSUME InvitesAssumption       == Invites \subseteq BOOLEAN
ASSUME ReliableAssumption      == Reliable \subseteq Servers
ASSUME NoneAssumption          == None \notin Transactions /\ None \notin {"2xx", "487", "failure"}

VARIABLES
  mIsInvite,                  \* the request is an INVITE
  mTransactionState,
  mIsCanceled,                \* the transactions with that flag
  mIsRecursing,               \* of the root
  mDispatchedFinalResponse,   \* of the root
  mpLastProvisionalResponse,  \* the children that have one
  mpLastFinalResponse,        \* of each child
  mpCancel,                   \* the children a CANCEL was sent to
  timesSent,                  \* sends of each child's request ...
  cancelTimesSent,            \* ... and of the application's CANCEL
  mTimers,                    \* running timers, <<kind, transaction>>
  appCancel,                  \* the transaction the application's CANCEL found
  dispatched,                 \* the tree's final responses to the application
  forwarded                   \* how many further finals were passed through to it

vars == <<mIsInvite, mTransactionState, mIsCanceled, mIsRecursing,
          mDispatchedFinalResponse, mpLastProvisionalResponse,
          mpLastFinalResponse, mpCancel, timesSent, cancelTimesSent, mTimers,
          appCancel, dispatched, forwarded>>

\* "UNKNOWN" is a child that does not exist
States == {"UNKNOWN", "LOCALLY_INIITATED", "CALLING", "PROCEEDING", "COMPLETE",
           "CONFIRMED", "TERMINATED"}
Finals == {"2xx", "487", "failure"}
Timers == ({"resend", "cancelResend", "cancelExpires"} \X Servers)
            \cup ({"expires"} \X Transactions)

TypeOK ==
  /\ mIsInvite \in BOOLEAN
  /\ mTransactionState \in [Transactions -> States]
  /\ mIsCanceled \subseteq Transactions
  /\ mIsRecursing \in BOOLEAN
  /\ mDispatchedFinalResponse \in BOOLEAN
  /\ mpLastProvisionalResponse \subseteq Servers
  /\ mpLastFinalResponse \in [Servers -> Finals \cup {None}]
  /\ mpCancel \subseteq Servers
  /\ timesSent \in [Servers -> 0..ResendTimes]
  /\ cancelTimesSent \in 0..ResendTimes
  /\ mTimers \subseteq Timers
  /\ appCancel \in Transactions \cup {None}
  /\ dispatched \in Seq({"2xx", "failure", "408"})
  /\ forwarded \in Nat

Init ==
  /\ mIsInvite \in Invites
  /\ mTransactionState = [t \in Transactions |->
                            IF t = Root THEN "LOCALLY_INIITATED" ELSE "UNKNOWN"]
  /\ mIsCanceled = {} /\ mpLastProvisionalResponse = {} /\ mpCancel = {}
  /\ mIsRecursing = FALSE /\ mDispatchedFinalResponse = FALSE
  /\ mpLastFinalResponse = [c \in Servers |-> None]
  /\ timesSent = [c \in Servers |-> 0]
  /\ cancelTimesSent = 0
  /\ mTimers = {} /\ appCancel = None /\ dispatched = <<>> /\ forwarded = 0
-----------------------------------------------------------------------------
(* The children, in the states st that a handler has brought them to so far *)

Active == {"CALLING", "PROCEEDING"}

Children == {c \in Servers : mTransactionState[c] # "UNKNOWN"}

\* a server that was sent the request may send responses, late ones too
Sent(c) == mTransactionState[c] \in Active \cup {"COMPLETE"}

BugLimitOffByOne(c) == IF c \in Reliable THEN 1 ELSE ResendTimes + 1

Limit(c) == IF c \in Reliable THEN 1 ELSE ResendTimes

Untried(st) == {c \in Servers : st[c] = "LOCALLY_INIITATED"}

BugPursuedCanceled(st) == {c \in Servers : st[c] \in Active}

\* the children that are still worth waiting for
Pursued(st) == {c \in Servers \ mIsCanceled' : st[c] \in Active}

Answered == mpLastProvisionalResponse
              \cup {c \in Servers : mpLastFinalResponse[c] # None}

BugSettledUnanswered(st) == Pursued(st)

BugSettledComplete(st) ==
  Pursued(st) \cup {c \in Servers \ mIsCanceled' : st[c] = "COMPLETE"}

\* a child at which recurseDnsSrvChildren stops looking for the next server
Settled(st) == Pursued(st) \cup (Answered' \ mIsCanceled')

\* the children that recurseDnsSrvChildren may get to, in their order
Reachable(st) ==
  {c \in Untried(st) : \A d \in 1..(c - 1) : d \notin Settled(st)}

BugFirstSendAll(st, next) ==
  [t \in Transactions |-> IF t \notin Reachable(st) THEN st[t]
                          ELSE IF t >= next THEN "CALLING" ELSE "TERMINATED"]

BugFirstSendOnly(st, next) ==
  [t \in Transactions |->
     IF t \notin Reachable(st) \/ t > next THEN st[t]
     ELSE IF t = next THEN "CALLING"
     ELSE IF next = Nobody /\ \E d \in Reachable(st) : d < t THEN st[t] ELSE "TERMINATED"]

\* it sends their requests until a send succeeds, the one to next; those that
\* failed before are over
FirstSend(st, next) ==
  [t \in Transactions |-> IF t \notin Reachable(st) \/ t > next THEN st[t]
                          ELSE IF t = next THEN "CALLING" ELSE "TERMINATED"]

\* a request that was sent runs its two timers
Arm(next, timers) ==
  /\ mTimers' = timers \cup ({"resend", "expires"} \X ({next} \cap Servers))
  /\ timesSent' = [c \in Servers |-> IF c = next THEN 1 ELSE timesSent[c]]

\* startSequentialSearch: the next server, if no child is pursued
SearchNext(st) ==
  /\ Root \notin mIsCanceled'
  /\ \E c \in Untried(st) \ mIsCanceled' : \A d \in Pursued(st) : d >= c

BugSearchForgetsPursued(st, timers, next) ==
  /\ next \in {Nobody} \cup {c \in Reachable(st) : SearchNext(st)}
  /\ mTransactionState' = IF SearchNext(st) THEN FirstSend(st, next) ELSE st
  /\ Arm(next, timers)
  /\ mIsRecursing' = (next # Nobody)

startSequentialSearch(st, timers, next) ==
  /\ next \in {Nobody} \cup {c \in Reachable(st) : SearchNext(st)}
  /\ mTransactionState' = IF SearchNext(st) THEN FirstSend(st, next) ELSE st
  /\ Arm(next, timers)
  /\ mIsRecursing' = (Pursued(st) # {} \/ next # Nobody)

\* a 2xx, else any failure but the 487 of a canceled branch, else a timeout
findBestResponse ==
  LET finals == {mpLastFinalResponse'[c] : c \in Servers} \ {None, "487"}
  IN  IF "2xx" \in finals THEN "2xx"
      ELSE IF "failure" \in finals THEN "failure" ELSE "408"

Dispatch(response) ==
  /\ mDispatchedFinalResponse' = TRUE
  /\ dispatched' = Append(dispatched, response)

\* the search, and when it is over the best response unless one was dispatched
SearchOrDispatch(st, timers, next) ==
  /\ startSequentialSearch(st, timers, next)
  /\ IF mIsRecursing' \/ mDispatchedFinalResponse
     THEN UNCHANGED <<mDispatchedFinalResponse, dispatched>>
     ELSE Dispatch(findBestResponse)

BugCancelRingingOnly(cs, st) ==
  LET ringing == {c \in (cs \cap Servers) \ mIsCanceled : st[c] = "PROCEEDING"}
  IN  /\ mIsCanceled' = mIsCanceled \cup ringing
      /\ mpCancel' = mpCancel \cup {c \in ringing : mIsInvite}

BugCancelUnsent(cs, st) == mIsCanceled' = mIsCanceled \cup cs /\ UNCHANGED mpCancel

BugCancelUnheard(cs, st) ==
  /\ mIsCanceled' = mIsCanceled \cup cs
  /\ mpCancel' = mpCancel \cup
       {c \in (cs \cap Servers) \ mIsCanceled : mIsInvite /\ st[c] \in Active}

\* cancel: a CANCEL goes to the servers that a provisional response was heard
\* from and whose transaction is not complete
cancel(cs, st) ==
  /\ mIsCanceled' = mIsCanceled \cup cs
  /\ mpCancel' = mpCancel \cup
       {c \in (cs \cap Servers) \ mIsCanceled : mIsInvite /\ st[c] = "PROCEEDING"}

Completed(c) == [mTransactionState EXCEPT ![c] = "COMPLETE"]
-----------------------------------------------------------------------------
(* The application sends the request: the root looks up its servers *)

Send(n, next) ==
  LET st == [t \in Transactions |->
               IF t = Root THEN "CONFIRMED"
               ELSE IF t <= n THEN "LOCALLY_INIITATED" ELSE "UNKNOWN"]
  IN  /\ mTransactionState[Root] = "LOCALLY_INIITATED"
      /\ UNCHANGED <<mIsInvite, mIsCanceled, mpLastProvisionalResponse,
                     mpLastFinalResponse, mpCancel, cancelTimesSent, appCancel,
                     mDispatchedFinalResponse, dispatched, forwarded>>
      /\ next \in Reachable(st) \cup {Nobody}
      /\ mTransactionState' = FirstSend(st, next)
      /\ Arm(next, {<<"expires", Root>>})
      /\ mIsRecursing' = (next # Nobody)
-----------------------------------------------------------------------------
(* Responses of the servers *)

\* a canceled INVITE that could not be canceled before is canceled now
Provisional(c) ==
  /\ Sent(c)
  /\ mpLastProvisionalResponse' = mpLastProvisionalResponse \cup {c}
  /\ mTransactionState' = [mTransactionState EXCEPT ![c] =
                             IF @ = "CALLING" THEN "PROCEEDING" ELSE @]
  /\ mpCancel' = mpCancel \cup
       {d \in {c} : mIsInvite /\ d \in mIsCanceled}
  /\ UNCHANGED <<mIsInvite, mIsCanceled, mIsRecursing, mDispatchedFinalResponse,
                 mpLastFinalResponse, timesSent, cancelTimesSent, mTimers,
                 appCancel, dispatched, forwarded>>

\* a success is dispatched at once and cancels the other children
FinalOk(c) ==
  /\ Sent(c) /\ mpLastFinalResponse[c] = None
  /\ mTransactionState' = Completed(c)
  /\ mpLastFinalResponse' = [mpLastFinalResponse EXCEPT ![c] = "2xx"]
  /\ cancel(Children, Completed(c))
  /\ Dispatch("2xx")
  /\ UNCHANGED <<mIsInvite, mIsRecursing, mpLastProvisionalResponse, timesSent,
                 cancelTimesSent, mTimers, appCancel, forwarded>>

\* a server that has answered finally answers otherwise, or is the second that
\* a forked INVITE got to: what it says is passed through and changes nothing
NewFinal(c, code) ==
  /\ mpLastFinalResponse[c] # None
  /\ code = "487" /\ mpLastFinalResponse[c] = "487" => mIsInvite
  /\ forwarded < MaxForwarded
  /\ forwarded' = forwarded + 1
  /\ UNCHANGED <<mIsInvite, mTransactionState, mIsCanceled, mIsRecursing,
                 mDispatchedFinalResponse, mpLastProvisionalResponse,
                 mpLastFinalResponse, mpCancel, timesSent, cancelTimesSent,
                 mTimers, appCancel, dispatched>>

\* a failure may be the end of the search
FinalFailure(c, code, next) ==
  /\ Sent(c) /\ mpLastFinalResponse[c] = None
  /\ mpLastFinalResponse' = [mpLastFinalResponse EXCEPT ![c] = code]
  /\ UNCHANGED <<mIsInvite, mIsCanceled, mpLastProvisionalResponse, mpCancel,
                 cancelTimesSent, appCancel, forwarded>>
  /\ IF mDispatchedFinalResponse
     THEN /\ mTransactionState' = Completed(c)
          /\ UNCHANGED <<mIsRecursing, mDispatchedFinalResponse, dispatched,
                         timesSent, mTimers>>
     ELSE SearchOrDispatch(Completed(c), mTimers, next)
-----------------------------------------------------------------------------
(* Timers: each one fires once *)

\* nothing was heard: the message is due to be sent again
Silent(c) ==
  /\ c \notin mIsCanceled
  /\ c \notin Answered
  /\ mTransactionState[c] = "CALLING"

BugGiveUpStays(c) == mTransactionState

\* a child that is called is complete when its resends are over
GiveUp(c) ==
  [mTransactionState EXCEPT ![c] = IF @ = "CALLING" THEN "COMPLETE" ELSE @]

Resend(c, ok, next) ==
  /\ <<"resend", c>> \in mTimers
  /\ UNCHANGED <<mIsInvite, mIsCanceled, mpLastProvisionalResponse,
                 mpLastFinalResponse, mpCancel, cancelTimesSent, appCancel,
                 forwarded>>
  /\ IF Silent(c) /\ timesSent[c] < Limit(c) /\ ok
     THEN /\ timesSent' = [timesSent EXCEPT ![c] = @ + 1]
          /\ UNCHANGED <<mTransactionState, mIsRecursing, mTimers,
                         mDispatchedFinalResponse, dispatched>>
     ELSE SearchOrDispatch(GiveUp(c), mTimers \ {<<"resend", c>>}, next)

\* the DNS SRV timeout of a server: it counts only while nothing was heard
Expires(c, next) ==
  LET expired == c \notin Answered
                   /\ mTransactionState[c] \in Active \cup {"LOCALLY_INIITATED"}
  IN  /\ <<"expires", c>> \in mTimers
      /\ cancel(IF expired THEN {c} ELSE {}, mTransactionState)
      /\ UNCHANGED <<mIsInvite, mpLastProvisionalResponse, mpLastFinalResponse,
                     cancelTimesSent, appCancel, forwarded>>
      /\ SearchOrDispatch(mTransactionState, mTimers \ {<<"expires", c>>}, next)

\* the expiration of the request ends the whole search
ExpiresRoot(next) ==
  /\ <<"expires", Root>> \in mTimers
  /\ cancel(IF mIsRecursing /\ Root \notin mIsCanceled
            THEN Children \cup {Root} ELSE {}, mTransactionState)
  /\ UNCHANGED <<mIsInvite, mpLastProvisionalResponse, mpLastFinalResponse,
                 cancelTimesSent, appCancel, forwarded>>
  /\ SearchOrDispatch(mTransactionState, mTimers \ {<<"expires", Root>>}, next)
-----------------------------------------------------------------------------
(* The application cancels its INVITE: the CANCEL finds a transaction of the *)
(* call that was sent, whichever comes first in the list.                    *)

\* the root cancels the tree
AppCancelRoot ==
  /\ mIsInvite /\ appCancel = None /\ mTransactionState[Root] = "CONFIRMED"
  /\ appCancel' = Root
  /\ cancel(IF Root \in mIsCanceled THEN {} ELSE Children \cup {Root},
            mTransactionState)
  /\ UNCHANGED <<mIsInvite, mTransactionState, mIsRecursing, timesSent,
                 mDispatchedFinalResponse, mpLastProvisionalResponse,
                 mpLastFinalResponse, cancelTimesSent, mTimers, dispatched,
                 forwarded>>

\* a child just sends the message
AppCancelChild(c, ok) ==
  /\ mIsInvite /\ appCancel = None
  /\ mTransactionState[c] \notin {"UNKNOWN", "LOCALLY_INIITATED"}
  /\ appCancel' = c
  /\ mpCancel' = mpCancel \cup {c}
  /\ cancelTimesSent' = 1
  /\ mTimers' = mTimers \cup
       (IF ok THEN {"cancelResend", "cancelExpires"} \X {c} ELSE {})
  /\ UNCHANGED <<mIsInvite, mTransactionState, mIsCanceled, mIsRecursing,
                 mDispatchedFinalResponse, mpLastProvisionalResponse,
                 mpLastFinalResponse, timesSent, dispatched, forwarded>>

\* the resend timer of that CANCEL looks at the child as if it were the request's
CancelResend(c, ok) ==
  /\ <<"cancelResend", c>> \in mTimers
  /\ IF Silent(c) /\ cancelTimesSent < Limit(c) /\ ok
     THEN /\ cancelTimesSent' = cancelTimesSent + 1
          /\ UNCHANGED <<mTransactionState, mTimers>>
     ELSE /\ mTransactionState' = GiveUp(c)
          /\ mTimers' = mTimers \ {<<"cancelResend", c>>}
          /\ UNCHANGED cancelTimesSent
  /\ UNCHANGED <<mIsInvite, mIsCanceled, mIsRecursing, mDispatchedFinalResponse,
                 mpLastProvisionalResponse, mpLastFinalResponse, mpCancel,
                 timesSent, appCancel, dispatched, forwarded>>

\* and so does its expiration timer
CancelExpires(c) ==
  /\ <<"cancelExpires", c>> \in mTimers
  /\ cancel(IF c \notin Answered /\ mTransactionState[c] \in Active
            THEN {c} ELSE {}, mTransactionState)
  /\ mTimers' = mTimers \ {<<"cancelExpires", c>>}
  /\ UNCHANGED <<mIsInvite, mTransactionState, mIsRecursing, timesSent,
                 mDispatchedFinalResponse, mpLastProvisionalResponse,
                 mpLastFinalResponse, cancelTimesSent, appCancel, dispatched,
                 forwarded>>
-----------------------------------------------------------------------------
\* the server whose request is sent next
Nexts == Servers \cup {Nobody}

Respond(c) ==
  \/ Provisional(c)
  \/ FinalOk(c)
  \/ \E code \in Finals : NewFinal(c, code)
  \/ \E code \in {"487", "failure"}, next \in Nexts : FinalFailure(c, code, next)

ResendTimer(c)  == \E ok \in BOOLEAN, next \in Nexts : Resend(c, ok, next)
ExpiresTimer(c) == \E next \in Nexts : Expires(c, next)
RootTimer       == \E next \in Nexts : ExpiresRoot(next)

AppCancel ==
  \/ AppCancelRoot
  \/ \E c \in Servers, ok \in BOOLEAN : AppCancelChild(c, ok)

CancelTimer(c) ==
  \/ \E ok \in BOOLEAN : CancelResend(c, ok)
  \/ CancelExpires(c)

Next ==
  \/ \E n \in Transactions, next \in Nexts : Send(n, next)
  \/ \E c \in Servers : Respond(c)
  \/ \E c \in Servers : ResendTimer(c) \/ ExpiresTimer(c)
  \/ RootTimer
  \/ AppCancel
  \/ \E c \in Servers : CancelTimer(c)

Spec == Init /\ [][Next]_vars

\* the oneshot timers of the servers fire and the user agent serves its queue;
\* the root's timer is left to the property that needs it
FairSpec ==
  Spec /\ \A c \in Servers : WF_vars(ResendTimer(c)) /\ WF_vars(ExpiresTimer(c))
=============================================================================
