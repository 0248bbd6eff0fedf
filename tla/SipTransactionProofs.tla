------------------------ MODULE SipTransactionProofs ------------------------
(***************************************************************************)
(* Proofs, for any number of servers and of resends, that the client tree   *)
(* pursues one server at a time, settles before it dispatches, and cancels  *)
(* what rings.                                                              *)
(***************************************************************************)
EXTENDS SipTransactionProperties, TLAPS
-----------------------------------------------------------------------------
(* The inductive invariant *)

Unsent == {"UNKNOWN", "LOCALLY_INIITATED"}

\* The servers not called yet come after the others, and before the unused.
InOrder(st) ==
  \A c, d \in Servers : c < d =>
    /\ st[c] \in Unsent => st[d] \in Unsent
    /\ st[c] = "UNKNOWN" => st[d] = "UNKNOWN"

\* Nobody answers a request that was not sent.
AnswersAreSent(st) == \A c \in Answered : st[c] \notin Unsent

\* After the dispatch of a final response no search gets to another server:
\* it is canceled, or an earlier one has answered and is not.
NoneIsNext(st) ==
  Root \in mIsCanceled \/
  \A c \in Servers : st[c] = "LOCALLY_INIITATED" =>
    c \in mIsCanceled \/ \E d \in 1..(c - 1) : d \in Answered \ mIsCanceled

Settling(st) == mDispatchedFinalResponse => NoneIsNext(st)

\* Nothing happens before the request is sent.
RootInv ==
  /\ mTransactionState[Root] \in {"LOCALLY_INIITATED", "CONFIRMED"}
  /\ mTransactionState[Root] = "LOCALLY_INIITATED" =>
       /\ mIsCanceled = {} /\ Answered = {} /\ mpCancel = {} /\ mTimers = {}
       /\ ~mDispatchedFinalResponse
       /\ \A c \in Servers : mTransactionState[c] = "UNKNOWN"

\* The child that is proceeding has been heard.
ProceedingIsHeard(st) ==
  \A c \in Servers : st[c] = "PROCEEDING" => c \in mpLastProvisionalResponse

\* The root knows that a server is pursued.
PursuitIsKnown == InPursuit # {} => mIsRecursing

\* The flag of the root says whether the tree has told anything.
FlagIsTrue == ~mDispatchedFinalResponse => dispatched = <<>>

TreeInv ==
  /\ InOrder(mTransactionState)
  /\ AnswersAreSent(mTransactionState)
  /\ OneServerAtATime
  /\ PursuitIsKnown
  /\ SettledAtFinal
  /\ Settling(mTransactionState)
  /\ RootInv
  /\ FlagIsTrue
  /\ OneFailure

CancelInv ==
  /\ ProceedingIsHeard(mTransactionState)
  /\ SilenceIsTimed
  /\ RingingIsCanceled
  /\ CancelAfterProvisional

IInv == TypeOK /\ TreeInv /\ CancelInv

\* What a step that calls a server must find: no final was dispatched and no
\* earlier server has answered without being given up.
StartsWell ==
  \A c \in Servers : Started(c) =>
    /\ ~mDispatchedFinalResponse
    /\ \A d \in 1..(c - 1) : d \in Answered' => d \in mIsCanceled'
-----------------------------------------------------------------------------
(* What the search does to the children *)

\* The only child it calls is next, and next was reachable.
LEMMA SearchCallsNext ==
  ASSUME NEW st \in [Transactions -> States], NEW timers \in SUBSET Timers,
         NEW next \in Nexts, startSequentialSearch(st, timers, next)
  PROVE  /\ mTransactionState' \in [Transactions -> States]
         /\ \A t \in Transactions :
              \/ mTransactionState'[t] = st[t]
              \/ /\ t \in Reachable(st) /\ SearchNext(st) /\ t <= next
                 /\ mTransactionState'[t] =
                      IF t = next THEN "CALLING" ELSE "TERMINATED"
         /\ SearchNext(st) => \A t \in Reachable(st) : t <= next =>
              mTransactionState'[t] \in {"CALLING", "TERMINATED"}
         /\ next # Nobody => /\ next \in Reachable(st) /\ SearchNext(st)
                             /\ mTransactionState'[next] = "CALLING"
<1>1. Reachable(st) \subseteq Servers /\ Servers \subseteq Transactions
  BY MaxSrvRecordsAssumption DEF Reachable, Untried, Servers, Transactions
<1>2. /\ mTransactionState' = IF SearchNext(st) THEN FirstSend(st, next) ELSE st
      /\ next \in {Nobody} \cup {c \in Reachable(st) : SearchNext(st)}
  BY DEF startSequentialSearch
<1>3. FirstSend(st, next) \in [Transactions -> States]
  BY DEF FirstSend, States
<1>4. \A t \in Transactions :
        FirstSend(st, next)[t] =
          IF t \notin Reachable(st) \/ t > next THEN st[t]
          ELSE IF t = next THEN "CALLING" ELSE "TERMINATED"
  BY DEF FirstSend
<1>5. next \in Int /\ \A t \in Transactions : t \in Int
  BY MaxSrvRecordsAssumption DEF Nexts, Nobody, Servers, Transactions
<1> QED BY <1>1, <1>2, <1>3, <1>4, <1>5

LEMMA SearchTypes ==
  ASSUME TypeOK, NEW st \in [Transactions -> States], NEW timers \in SUBSET Timers,
         NEW next \in Nexts, SearchOrDispatch(st, timers, next)
  PROVE  /\ mTransactionState' \in [Transactions -> States]
         /\ mIsRecursing' \in BOOLEAN /\ mDispatchedFinalResponse' \in BOOLEAN
         /\ timesSent' \in [Servers -> 0..ResendTimes]
         /\ mTimers' \subseteq Timers
         /\ dispatched' \in Seq({"2xx", "failure", "408"})
<1>1. startSequentialSearch(st, timers, next)
  BY DEF SearchOrDispatch
<1>2. mTransactionState' \in [Transactions -> States]
  BY <1>1, SearchCallsNext
<1>3. mIsRecursing' \in BOOLEAN
  BY <1>1 DEF startSequentialSearch
<1>4. Arm(next, timers)
  BY <1>1 DEF startSequentialSearch
<1>5. timesSent' \in [Servers -> 0..ResendTimes]
  BY <1>4, ResendTimesAssumption DEF Arm, TypeOK
<1>6. mTimers' \subseteq Timers
  <2>1. Servers \subseteq Transactions
    BY MaxSrvRecordsAssumption DEF Servers, Transactions
  <2> QED BY <1>4, <2>1 DEF Arm, Timers
<1>7. findBestResponse \in {"2xx", "failure", "408"}
  BY DEF findBestResponse
<1>8. CASE mIsRecursing' \/ mDispatchedFinalResponse
  <2>1. UNCHANGED <<mDispatchedFinalResponse, dispatched>>
    BY <1>8 DEF SearchOrDispatch
  <2> QED BY <1>2, <1>3, <1>5, <1>6, <2>1 DEF TypeOK
<1>9. CASE ~(mIsRecursing' \/ mDispatchedFinalResponse)
  <2>1. Dispatch(findBestResponse)
    BY <1>9 DEF SearchOrDispatch
  <2>2. ASSUME NEW r \in {"2xx", "failure", "408"}, Dispatch(r)
        PROVE  /\ mDispatchedFinalResponse' \in BOOLEAN
               /\ dispatched' \in Seq({"2xx", "failure", "408"})
    BY <2>2 DEF Dispatch, TypeOK
  <2>3. /\ mDispatchedFinalResponse' \in BOOLEAN
        /\ dispatched' \in Seq({"2xx", "failure", "408"})
    BY <1>7, <2>1, <2>2
  <2> QED BY <1>2, <1>3, <1>5, <1>6, <2>3
<1> QED BY <1>8, <1>9

\* The order of the servers survives a search.
LEMMA SearchKeepsOrder ==
  ASSUME NEW st \in [Transactions -> States], NEW timers \in SUBSET Timers,
         NEW next \in Nexts, startSequentialSearch(st, timers, next),
         InOrder(st), \A c \in Answered' : c \in Servers /\ st[c] \notin Unsent
  PROVE  InOrder(mTransactionState)' /\ AnswersAreSent(mTransactionState)'
<1> USE DEF Unsent
<1>0. Servers \subseteq Transactions /\ \A c \in Servers : c \in Int
  BY MaxSrvRecordsAssumption DEF Servers, Transactions
<1>00. next \in Int
  BY MaxSrvRecordsAssumption DEF Nexts, Nobody, Servers
<1>1. ASSUME NEW c \in Servers, NEW d \in Servers, c < d,
             mTransactionState'[c] \in Unsent
      PROVE  /\ mTransactionState'[d] \in Unsent
             /\ mTransactionState'[c] = "UNKNOWN" => mTransactionState'[d] = "UNKNOWN"
  <2>1. mTransactionState'[c] = st[c]
    BY <1>0, <1>1, SearchCallsNext
  <2>2. st[d] \in Unsent /\ (st[c] = "UNKNOWN" => st[d] = "UNKNOWN")
    BY <1>1, <2>1 DEF InOrder
  <2>3. CASE mTransactionState'[d] = st[d]
    BY <2>1, <2>2, <2>3
  <2>4. CASE d \in Reachable(st) /\ SearchNext(st) /\ d <= next
    <3>1. st[d] = "LOCALLY_INIITATED"
      BY <2>4 DEF Reachable, Untried
    <3>2. st[c] = "LOCALLY_INIITATED"
      BY <1>1, <2>1, <2>2, <3>1
    <3>3. c \in Reachable(st)
      BY <1>0, <1>1, <2>4, <3>2 DEF Reachable, Untried, Servers
    <3>4. c <= next
      BY <1>0, <1>00, <1>1, <2>4
    <3> QED BY <1>1, <2>4, <3>3, <3>4, SearchCallsNext
  <2> QED BY <1>0, <2>3, <2>4, SearchCallsNext
<1>2. InOrder(mTransactionState)'
  BY <1>1 DEF InOrder
<1>3. AnswersAreSent(mTransactionState)'
  <2> SUFFICES ASSUME NEW c \in Answered' PROVE mTransactionState'[c] \notin Unsent
    BY DEF AnswersAreSent
  <2>1. c \in Transactions /\ st[c] \notin Unsent
    BY <1>0
  <2> QED BY <2>1, SearchCallsNext DEF Reachable, Untried
<1> QED BY <1>2, <1>3

\* A search leaves at most one server in pursuit.
LEMMA SearchKeepsAlone ==
  ASSUME NEW st \in [Transactions -> States], NEW timers \in SUBSET Timers,
         NEW next \in Nexts, startSequentialSearch(st, timers, next),
         InOrder(st), \A c, d \in Pursued(st) : c = d
  PROVE  OneServerAtATime' /\ PursuitIsKnown'
<1>0. Servers \subseteq Transactions /\ \A c \in Servers : c \in Int
  BY MaxSrvRecordsAssumption DEF Servers, Transactions
<1>1. \A c \in Servers : c \in InPursuit' =>
        c \in Pursued(st) \/ (c = next /\ c \in Reachable(st))
  <2> SUFFICES ASSUME NEW c \in Servers, c \in InPursuit'
               PROVE  c \in Pursued(st) \/ (c = next /\ c \in Reachable(st))
    OBVIOUS
  <2>1. c \notin mIsCanceled' /\ mTransactionState'[c] \in Active
    BY DEF InPursuit
  <2>2. CASE mTransactionState'[c] = st[c]
    BY <2>1, <2>2 DEF Pursued
  <2>3. CASE /\ c \in Reachable(st)
             /\ mTransactionState'[c] = IF c = next THEN "CALLING" ELSE "TERMINATED"
    BY <2>1, <2>3 DEF Active
  <2> QED BY <1>0, <2>2, <2>3, SearchCallsNext
<1>2. ASSUME NEW c \in Pursued(st), next \in Reachable(st)
      PROVE  FALSE
  <2>1. c \in Servers /\ next \in Servers /\ st[next] = "LOCALLY_INIITATED"
    BY <1>2 DEF Pursued, Reachable, Untried
  <2>2. c \notin 1..(next - 1)
    BY <1>2 DEF Reachable, Settled
  <2>3. st[c] \in Active
    BY <1>2 DEF Pursued
  <2>4. c # next
    BY <2>1, <2>3 DEF Active
  <2>5. next < c
    BY <1>0, <2>1, <2>2, <2>4 DEF Servers
  <2> QED BY <2>1, <2>3, <2>5 DEF InOrder, Unsent, Active
<1>3. OneServerAtATime'
  <2> SUFFICES ASSUME NEW c \in InPursuit', NEW d \in InPursuit' PROVE c = d
    BY DEF OneServerAtATime
  <2>1. c \in Servers /\ d \in Servers
    BY DEF InPursuit
  <2> QED BY <1>1, <1>2, <2>1
<1>4. PursuitIsKnown'
  <2> SUFFICES ASSUME NEW c \in InPursuit' PROVE mIsRecursing'
    BY DEF PursuitIsKnown
  <2>1. c \in Servers
    BY DEF InPursuit
  <2>2. c # Nobody
    BY <2>1, MaxSrvRecordsAssumption DEF Servers, Nobody
  <2> QED BY <1>1, <2>1, <2>2 DEF startSequentialSearch
<1> QED BY <1>3, <1>4

\* A search that runs when a final was dispatched calls nobody, and one that
\* dispatches leaves nobody to call.
LEMMA SearchKeepsSettled ==
  ASSUME TypeOK, NEW st \in [Transactions -> States], NEW timers \in SUBSET Timers,
         NEW next \in Nexts, SearchOrDispatch(st, timers, next),
         mIsCanceled' \subseteq Transactions,
         InOrder(st), \A c \in Answered' : c \in Servers /\ st[c] \notin Unsent,
         mDispatchedFinalResponse =>
           /\ Pursued(st) = {}
           /\ Root \in mIsCanceled' \/
              \A c \in Untried(st) :
                c \in mIsCanceled' \/ \E d \in 1..(c - 1) : d \in Answered' \ mIsCanceled'
  PROVE  /\ SettledAtFinal' /\ Settling(mTransactionState)'
         /\ mDispatchedFinalResponse => next = Nobody
<1>0. /\ Servers \subseteq Transactions /\ \A c \in Servers : c \in Int /\ c # Nobody
      /\ \A c \in Servers : 1..(c - 1) \subseteq Servers
  BY MaxSrvRecordsAssumption DEF Servers, Transactions, Nobody
<1>00. startSequentialSearch(st, timers, next)
  BY DEF SearchOrDispatch
<1>1. ASSUME mDispatchedFinalResponse, next # Nobody
      PROVE  FALSE
  <2>1. /\ next \in Reachable(st) /\ SearchNext(st)
    BY <1>00, <1>1, SearchCallsNext, ZenonT(80)
  <2>2. PICK c \in Untried(st) \ mIsCanceled' : TRUE
    BY <2>1 DEF SearchNext
  <2>3. PICK d \in 1..(c - 1) : d \in Answered' \ mIsCanceled'
    BY <1>1, <2>1, <2>2 DEF SearchNext
  <2>4. /\ c \in Servers /\ d \in Servers /\ d < c /\ next \in Servers
        /\ st[next] = "LOCALLY_INIITATED"
    BY <1>0, <2>1, <2>2, <2>3 DEF Untried, Reachable, Servers
  <2>5. d \notin 1..(next - 1)
    BY <2>1, <2>3 DEF Reachable, Settled
  <2>6. st[d] \notin Unsent
    BY <2>3
  <2>7. d # next
    BY <2>4, <2>6 DEF Unsent
  <2>8. next < d
    BY <1>0, <2>4, <2>5, <2>7 DEF Servers
  <2> QED BY <2>4, <2>6, <2>8 DEF InOrder, Unsent
<1>2. ASSUME next = Nobody, Pursued(st) = {}
      PROVE  InPursuit' = {}
  <2> SUFFICES ASSUME NEW c \in InPursuit' PROVE FALSE
    OBVIOUS
  <2>1. c \in Servers /\ c \notin mIsCanceled' /\ mTransactionState'[c] \in Active
    BY DEF InPursuit
  <2>2. mTransactionState'[c] # "TERMINATED" /\ c # next
    BY <1>0, <1>2, <2>1 DEF Active
  <2>3. mTransactionState'[c] = st[c]
    BY <1>0, <1>00, <2>1, <2>2, SearchCallsNext
  <2> QED BY <1>2, <2>1, <2>3 DEF Pursued
<1>3. ASSUME NEW c \in Servers, mTransactionState'[c] = "LOCALLY_INIITATED"
      PROVE  /\ c \in Untried(st)
             /\ next = Nobody /\ SearchNext(st) => c \notin Reachable(st)
  <2>1. mTransactionState'[c] = st[c]
    BY <1>0, <1>00, <1>3, SearchCallsNext
  <2>2. c <= Nobody
    BY MaxSrvRecordsAssumption DEF Servers, Nobody
  <2>3. next = Nobody /\ SearchNext(st) /\ c \in Reachable(st) =>
          mTransactionState'[c] \in {"CALLING", "TERMINATED"}
    BY <1>00, <2>2, SearchCallsNext
  <2> QED BY <1>3, <2>1, <2>3 DEF Untried
<1>4. CASE mDispatchedFinalResponse
  <2>1. next = Nobody /\ Pursued(st) = {}
    BY <1>1, <1>4
  <2>2. SettledAtFinal'
    BY <1>2, <2>1 DEF SettledAtFinal
  <2>3. Settling(mTransactionState)'
    BY <1>3, <1>4 DEF Settling, NoneIsNext
  <2> QED BY <2>1, <2>2, <2>3
<1>5. CASE ~mDispatchedFinalResponse /\ mIsRecursing'
  <2>1. ~mDispatchedFinalResponse'
    BY <1>5 DEF SearchOrDispatch
  <2> QED BY <1>5, <2>1 DEF SettledAtFinal, Settling
<1>6. CASE ~mDispatchedFinalResponse /\ ~mIsRecursing'
  <2>1. Pursued(st) = {} /\ next = Nobody
    BY <1>00, <1>6 DEF startSequentialSearch
  <2>2. SettledAtFinal'
    BY <1>2, <2>1 DEF SettledAtFinal
  <2>3. ASSUME NEW c \in Servers, mTransactionState'[c] = "LOCALLY_INIITATED",
               Root \notin mIsCanceled', c \notin mIsCanceled'
        PROVE  \E d \in 1..(c - 1) : d \in Answered' \ mIsCanceled'
    <3>1. c \in Untried(st) \ mIsCanceled'
      BY <1>3, <2>3
    <3>2. SearchNext(st)
      BY <2>1, <2>3, <3>1 DEF SearchNext
    <3>3. c \notin Reachable(st)
      BY <1>3, <2>1, <2>3, <3>2
    <3>4. PICK d \in 1..(c - 1) : d \in Settled(st)
      BY <3>1, <3>3 DEF Reachable
    <3> QED BY <2>1, <3>4 DEF Settled
  <2>4. Settling(mTransactionState)'
    BY <2>3 DEF Settling, NoneIsNext
  <2> QED BY <1>6, <2>2, <2>4
<1> QED BY <1>4, <1>5, <1>6

\* A search dispatches the one failure there is.
LEMMA SearchKeepsFailures ==
  ASSUME TypeOK, NEW st, NEW timers, NEW next, SearchOrDispatch(st, timers, next),
         FlagIsTrue, OneFailure
  PROVE  FlagIsTrue' /\ OneFailure'
<1>1. CASE mIsRecursing' \/ mDispatchedFinalResponse
  <2>1. UNCHANGED <<mDispatchedFinalResponse, dispatched>>
    BY <1>1 DEF SearchOrDispatch
  <2> QED BY <2>1 DEF FlagIsTrue, OneFailure
<1>2. CASE ~(mIsRecursing' \/ mDispatchedFinalResponse)
  <2>1. PICK r : r = findBestResponse /\ dispatched' = Append(dispatched, r)
    BY <1>2 DEF SearchOrDispatch, Dispatch
  <2>2. mDispatchedFinalResponse'
    BY <1>2 DEF SearchOrDispatch, Dispatch
  <2>3. dispatched = <<>>
    BY <1>2 DEF FlagIsTrue
  <2>4. DOMAIN dispatched' = {1}
    BY <2>1, <2>3
  <2> QED BY <2>2, <2>4 DEF FlagIsTrue, OneFailure
<1> QED BY <1>1, <1>2

\* A search calls no server whose CANCEL is due and times the one it calls.
LEMMA SearchKeepsCancels ==
  ASSUME NEW st \in [Transactions -> States], NEW timers \in SUBSET Timers,
         NEW next \in Nexts, startSequentialSearch(st, timers, next),
         \A c \in Servers : st[c] = "PROCEEDING" => c \in mpLastProvisionalResponse',
         \A c \in Pursued(st) \ Answered' :
           <<"resend", c>> \in timers /\ <<"expires", c>> \in timers,
         mIsInvite' => \A c \in Servers \cap mIsCanceled' :
                         st[c] = "PROCEEDING" => c \in mpCancel'
  PROVE  /\ ProceedingIsHeard(mTransactionState)'
         /\ SilenceIsTimed' /\ RingingIsCanceled'
<1>0. Servers \subseteq Transactions
  BY MaxSrvRecordsAssumption DEF Servers, Transactions
<1>1. \A c \in Servers : mTransactionState'[c] = "PROCEEDING" => st[c] = "PROCEEDING"
  BY <1>0, SearchCallsNext
<1>2. ProceedingIsHeard(mTransactionState)' /\ RingingIsCanceled'
  BY <1>1 DEF ProceedingIsHeard, RingingIsCanceled
<1>3. SilenceIsTimed'
  <2> SUFFICES ASSUME NEW c \in InPursuit', c \notin Answered'
               PROVE  <<"resend", c>> \in mTimers' /\ <<"expires", c>> \in mTimers'
    BY DEF SilenceIsTimed
  <2>1. /\ c \in Servers /\ c \notin mIsCanceled' /\ mTransactionState'[c] \in Active
        /\ c \in Transactions
    BY <1>0 DEF InPursuit
  <2>2. mTimers' = timers \cup ({"resend", "expires"} \X ({next} \cap Servers))
    BY DEF startSequentialSearch, Arm
  <2>3. CASE mTransactionState'[c] = st[c]
    BY <2>1, <2>2, <2>3 DEF Pursued
  <2>4. CASE mTransactionState'[c] = IF c = next THEN "CALLING" ELSE "TERMINATED"
    BY <2>1, <2>2, <2>4 DEF Active
  <2> QED BY <2>1, <2>3, <2>4, SearchCallsNext
<1> QED BY <1>2, <1>3
-----------------------------------------------------------------------------
(* What the handlers do before they search *)

\* A handler that only moves children that were sent, never back to a pursuit.
LEMMA QuietKeeps ==
  ASSUME TypeOK, TreeInv, NEW st, mIsCanceled \subseteq mIsCanceled',
         \A c \in Servers : st[c] # mTransactionState[c] =>
           st[c] \notin Unsent /\ mTransactionState[c] \notin Unsent,
         \A c \in Servers : st[c] \in Active => mTransactionState[c] \in Active
  PROVE  /\ InOrder(st)
         /\ Pursued(st) \subseteq InPursuit
         /\ \A c, d \in Pursued(st) : c = d
         /\ mDispatchedFinalResponse => Pursued(st) = {}
<1>1. InOrder(st)
  <2> SUFFICES ASSUME NEW c \in Servers, NEW d \in Servers, c < d
               PROVE  /\ st[c] \in Unsent => st[d] \in Unsent
                      /\ st[c] = "UNKNOWN" => st[d] = "UNKNOWN"
    BY DEF InOrder
  <2>1. /\ mTransactionState[c] \in Unsent => mTransactionState[d] \in Unsent
        /\ mTransactionState[c] = "UNKNOWN" => mTransactionState[d] = "UNKNOWN"
    BY DEF TreeInv, InOrder
  <2> QED BY <2>1 DEF Unsent
<1>2. Pursued(st) \subseteq InPursuit
  BY DEF Pursued, InPursuit
<1> QED BY <1>1, <1>2 DEF TreeInv, OneServerAtATime, SettledAtFinal

\* It leaves no server to call after a final, if it cancels none that has
\* answered, or else all that are not called.
LEMMA QuietKeepsSettling ==
  ASSUME Settling(mTransactionState), NEW st,
         mIsCanceled \subseteq mIsCanceled', Answered \subseteq Answered',
         \A c \in Servers : st[c] = "LOCALLY_INIITATED" =>
                            mTransactionState[c] = "LOCALLY_INIITATED",
         \/ \A c \in Answered : c \in mIsCanceled' => c \in mIsCanceled
         \/ \A c \in Servers : mTransactionState[c] = "LOCALLY_INIITATED" =>
                               c \in mIsCanceled'
  PROVE  mDispatchedFinalResponse =>
           Root \in mIsCanceled' \/
           \A c \in Untried(st) :
             c \in mIsCanceled' \/ \E d \in 1..(c - 1) : d \in Answered' \ mIsCanceled'
  BY DEF Settling, NoneIsNext, Untried

\* The state in which a handler starts its search: what SearchKeeps needs.
MidInv(st, timers) ==
  /\ st \in [Transactions -> States] /\ timers \in SUBSET Timers
  /\ \A c \in Servers : st[c] \in Active => st[c] = mTransactionState[c]
  /\ mIsCanceled' \subseteq Transactions /\ st[Root] = "CONFIRMED"
  /\ InOrder(st)
  /\ \A c \in Answered' : c \in Servers /\ st[c] \notin Unsent
  /\ \A c, d \in Pursued(st) : c = d
  /\ mDispatchedFinalResponse =>
       /\ Pursued(st) = {}
       /\ Root \in mIsCanceled' \/
          \A c \in Untried(st) :
            c \in mIsCanceled' \/ \E d \in 1..(c - 1) : d \in Answered' \ mIsCanceled'
  /\ \A c \in Servers : st[c] = "PROCEEDING" => c \in mpLastProvisionalResponse'
  /\ \A c \in Pursued(st) \ Answered' :
       <<"resend", c>> \in timers /\ <<"expires", c>> \in timers
  /\ mIsInvite' => \A c \in Servers \cap mIsCanceled' :
                     st[c] = "PROCEEDING" => c \in mpCancel'

LEMMA SearchKeeps ==
  ASSUME TypeOK, FlagIsTrue, OneFailure, NEW st, NEW timers, NEW next \in Nexts,
         MidInv(st, timers), SearchOrDispatch(st, timers, next)
  PROVE  /\ TreeInv'
         /\ ProceedingIsHeard(mTransactionState)' /\ SilenceIsTimed'
         /\ RingingIsCanceled'
         /\ StartsWell
<1>1. startSequentialSearch(st, timers, next)
  BY DEF SearchOrDispatch
<1>2. InOrder(mTransactionState)' /\ AnswersAreSent(mTransactionState)'
  BY <1>1, SearchKeepsOrder DEF MidInv
<1>3. OneServerAtATime' /\ PursuitIsKnown'
  BY <1>1, SearchKeepsAlone DEF MidInv
<1>4. /\ SettledAtFinal' /\ Settling(mTransactionState)'
      /\ mDispatchedFinalResponse => next = Nobody
  BY SearchKeepsSettled DEF MidInv
<1>5. FlagIsTrue' /\ OneFailure'
  BY SearchKeepsFailures
<1>6. ProceedingIsHeard(mTransactionState)' /\ SilenceIsTimed' /\ RingingIsCanceled'
  BY <1>1, SearchKeepsCancels DEF MidInv
<1>7. RootInv'
  <2>1. Root \in Transactions /\ Root \notin Reachable(st)
    BY MaxSrvRecordsAssumption DEF Root, Transactions, Reachable, Untried, Servers
  <2>2. mTransactionState'[Root] = "CONFIRMED"
    BY <1>1, <2>1, SearchCallsNext DEF MidInv
  <2> QED BY <2>2 DEF RootInv
<1>8. StartsWell
  <2> SUFFICES ASSUME NEW c \in Servers, Started(c)
               PROVE  /\ ~mDispatchedFinalResponse
                      /\ \A d \in 1..(c - 1) : d \in Answered' => d \in mIsCanceled'
    BY DEF StartsWell
  <2>1. mTransactionState'[c] = "CALLING" /\ mTransactionState'[c] # st[c]
    BY DEF Started, MidInv, Active
  <2>2. c \in Transactions /\ c # Nobody
    BY MaxSrvRecordsAssumption DEF Servers, Transactions, Nobody
  <2>3. c = next /\ c \in Reachable(st)
    <3>1. st \in [Transactions -> States] /\ timers \in SUBSET Timers
      BY DEF MidInv
    <3>2. \A t \in Transactions :
            \/ mTransactionState'[t] = st[t]
            \/ /\ t \in Reachable(st)
               /\ mTransactionState'[t] = IF t = next THEN "CALLING" ELSE "TERMINATED"
      BY <1>1, <3>1, SearchCallsNext
    <3> QED BY <2>1, <2>2, <3>2
  <2> QED BY <1>4, <2>2, <2>3 DEF Reachable, Settled
<1> QED BY <1>2, <1>3, <1>4, <1>5, <1>6, <1>7, <1>8 DEF TreeInv

\* A handler that does not search keeps the invariant if it is as quiet as
\* QuietKeeps asks and does its part of the dispatching and the canceling.
LEMMA QuietStep ==
  ASSUME TypeOK, TreeInv, CancelInv,
         mTransactionState[Root] = "CONFIRMED", mTransactionState'[Root] = "CONFIRMED",
         mIsCanceled \subseteq mIsCanceled', Answered \subseteq Answered',
         UNCHANGED <<mIsRecursing, mDispatchedFinalResponse>>,
         \A c \in Servers : mTransactionState'[c] # mTransactionState[c] =>
           mTransactionState'[c] \notin Unsent /\ mTransactionState[c] \notin Unsent,
         \A c \in Servers : mTransactionState'[c] \in Active => mTransactionState[c] \in Active,
         \A c \in Answered' : c \in Servers /\ mTransactionState'[c] \notin Unsent,
         \/ \A c \in Answered : c \in mIsCanceled' => c \in mIsCanceled
         \/ \A c \in Servers : mTransactionState[c] = "LOCALLY_INIITATED" =>
                               c \in mIsCanceled',
         \A c \in Servers, k \in {"resend", "expires"} :
           c \notin Answered' /\ mTransactionState'[c] \in Active /\ <<k, c>> \in mTimers
             => <<k, c>> \in mTimers',
         FlagIsTrue', OneFailure',
         ProceedingIsHeard(mTransactionState)', RingingIsCanceled',
         CancelAfterProvisional'
  PROVE  TreeInv' /\ CancelInv' /\ StartsWell
<1>1. /\ InOrder(mTransactionState') /\ Pursued(mTransactionState') \subseteq InPursuit
      /\ \A c, d \in Pursued(mTransactionState') : c = d
      /\ mDispatchedFinalResponse => Pursued(mTransactionState') = {}
  <2> DEFINE st == mTransactionState'
  <2>1. /\ \A c \in Servers : st[c] # mTransactionState[c] =>
             st[c] \notin Unsent /\ mTransactionState[c] \notin Unsent
        /\ \A c \in Servers : st[c] \in Active => mTransactionState[c] \in Active
    OBVIOUS
  <2> HIDE DEF st
  <2>2. /\ InOrder(st) /\ Pursued(st) \subseteq InPursuit
        /\ \A c, d \in Pursued(st) : c = d
        /\ mDispatchedFinalResponse => Pursued(st) = {}
    BY <2>1, QuietKeeps
  <2> QED BY <2>2 DEF st
<1>2. InPursuit' = Pursued(mTransactionState')
  BY DEF InPursuit, Pursued
<1>3. InOrder(mTransactionState)' /\ AnswersAreSent(mTransactionState)'
  BY <1>1 DEF InOrder, AnswersAreSent
<1>4. OneServerAtATime' /\ PursuitIsKnown' /\ SettledAtFinal'
  BY <1>1, <1>2 DEF OneServerAtATime, PursuitIsKnown, SettledAtFinal, TreeInv
<1>5. Settling(mTransactionState)'
  <2> DEFINE st == mTransactionState'
  <2>1. /\ Settling(mTransactionState)
        /\ \A c \in Servers : st[c] = "LOCALLY_INIITATED" =>
                              mTransactionState[c] = "LOCALLY_INIITATED"
    BY DEF TreeInv, Unsent
  <2> HIDE DEF st
  <2>2. mDispatchedFinalResponse =>
           Root \in mIsCanceled' \/
           \A c \in Untried(st) :
             c \in mIsCanceled' \/ \E d \in 1..(c - 1) : d \in Answered' \ mIsCanceled'
    BY <2>1, QuietKeepsSettling
  <2> QED BY <2>2 DEF Settling, NoneIsNext, Untried, st
<1>6. RootInv'
  BY DEF RootInv
<1>7. SilenceIsTimed'
  <2> SUFFICES ASSUME NEW c \in InPursuit', c \notin Answered'
               PROVE  <<"resend", c>> \in mTimers' /\ <<"expires", c>> \in mTimers'
    BY DEF SilenceIsTimed
  <2>1. c \in InPursuit /\ c \notin Answered
    BY <1>1, <1>2
  <2>2. <<"resend", c>> \in mTimers /\ <<"expires", c>> \in mTimers
    BY <2>1 DEF CancelInv, SilenceIsTimed
  <2> QED BY <2>2 DEF InPursuit
<1>8. StartsWell
  BY DEF StartsWell, Started, Active
<1> QED BY <1>3, <1>4, <1>5, <1>6, <1>7, <1>8 DEF TreeInv, CancelInv

\* A success that goes out is no failure.
LEMMA SuccessAppended ==
  ASSUME TypeOK, OneFailure, dispatched' = Append(dispatched, "2xx")
  PROVE  OneFailure'
<1>1. dispatched \in Seq({"2xx", "failure", "408"})
  BY DEF TypeOK
<1>2. /\ DOMAIN dispatched' = 1..(Len(dispatched) + 1)
      /\ DOMAIN dispatched = 1..Len(dispatched) /\ Len(dispatched) \in Nat
      /\ dispatched'[Len(dispatched) + 1] = "2xx"
      /\ \A i \in 1..Len(dispatched) : dispatched'[i] = dispatched[i]
  BY <1>1
<1>3. \A i \in DOMAIN dispatched' : dispatched'[i] # "2xx" =>
        i \in DOMAIN dispatched /\ dispatched'[i] = dispatched[i]
  BY <1>2
<1> QED BY <1>3 DEF OneFailure

\* Something was sent, answered or timed: the request is out.
LEMMA RequestIsOut ==
  ASSUME RootInv, NEW c \in Servers,
         Sent(c) \/ mTransactionState[c] # "UNKNOWN" \/ Answered # {} \/ mTimers # {}
  PROVE  mTransactionState[Root] = "CONFIRMED"
  BY DEF RootInv, Sent, Active

LEMMA Numbers ==
  /\ Servers \subseteq Transactions /\ Servers \subseteq Int /\ Root \in Transactions
  /\ \A c \in Servers : c # Root /\ c # None
  /\ Nobody \notin Servers /\ Root # None
  BY MaxSrvRecordsAssumption, NoneAssumption
  DEF Servers, Transactions, Root, Nobody
-----------------------------------------------------------------------------
(* Type correctness *)

LEMMA CancelTypes ==
  ASSUME TypeOK, NEW cs \in SUBSET Transactions, NEW st, cancel(cs, st)
  PROVE  mIsCanceled' \subseteq Transactions /\ mpCancel' \subseteq Servers
  BY DEF cancel, TypeOK

LEMMA ChangeTypes ==
  ASSUME TypeOK, NEW c \in Servers
  PROVE  /\ Completed(c) \in [Transactions -> States]
         /\ GiveUp(c) \in [Transactions -> States]
         /\ Children \subseteq Transactions
         /\ \A r \in Finals : [mpLastFinalResponse EXCEPT ![c] = r]
                              \in [Servers -> Finals \cup {None}]
  BY Numbers DEF TypeOK, Completed, GiveUp, States, Children

LEMMA TypeInit == Init => TypeOK
<1> SUFFICES ASSUME Init PROVE TypeOK
  OBVIOUS
<1>1. mIsInvite \in BOOLEAN
  BY InvitesAssumption DEF Init
<1>2. mTransactionState \in [Transactions -> States]
  BY DEF Init, States
<1>3. /\ mpLastFinalResponse \in [Servers -> Finals \cup {None}]
      /\ mIsCanceled \subseteq Transactions /\ mpLastProvisionalResponse \subseteq Servers
      /\ mpCancel \subseteq Servers /\ mTimers \subseteq Timers
      /\ mIsRecursing \in BOOLEAN /\ mDispatchedFinalResponse \in BOOLEAN
  BY DEF Init
<1>4. timesSent \in [Servers -> 0..ResendTimes] /\ cancelTimesSent \in 0..ResendTimes
  BY ResendTimesAssumption DEF Init
<1>5. /\ appCancel \in Transactions \cup {None}
      /\ dispatched \in Seq({"2xx", "failure", "408"}) /\ forwarded \in Nat
  BY DEF Init
<1> QED BY <1>1, <1>2, <1>3, <1>4, <1>5 DEF TypeOK

LEMMA TypeStep == TypeOK /\ [Next]_vars => TypeOK'
<1> SUFFICES ASSUME TypeOK, [Next]_vars PROVE TypeOK'
  OBVIOUS
<1>1. ASSUME NEW n \in Transactions, NEW next \in Nexts, Send(n, next)
      PROVE  TypeOK'
  <2>1. mTransactionState' \in [Transactions -> States]
    BY <1>1 DEF Send, FirstSend, States
  <2>2. timesSent' \in [Servers -> 0..ResendTimes]
    BY <1>1, ResendTimesAssumption DEF Send, Arm, TypeOK
  <2>3. mTimers' \subseteq Timers
    <3>1. mTimers' = {<<"expires", Root>>} \cup ({"resend", "expires"} \X ({next} \cap Servers))
      BY <1>1 DEF Send, Arm
    <3>2. {<<"expires", Root>>} \subseteq Timers
      BY Numbers DEF Timers
    <3>3. {"resend", "expires"} \X ({next} \cap Servers) \subseteq Timers
      BY Numbers DEF Timers
    <3> QED BY <3>1, <3>2, <3>3
  <2>4. mIsRecursing' \in BOOLEAN
    BY <1>1 DEF Send
  <2> QED BY <1>1, <2>1, <2>2, <2>3, <2>4 DEF Send, TypeOK
<1>2. ASSUME NEW c \in Servers, Provisional(c)
      PROVE  TypeOK'
  BY <1>2, Numbers DEF Provisional, TypeOK, States
<1>3. ASSUME NEW c \in Servers, FinalOk(c)
      PROVE  TypeOK'
  <2>1. /\ mIsCanceled' \subseteq Transactions /\ mpCancel' \subseteq Servers
        /\ mTransactionState' \in [Transactions -> States]
        /\ mpLastFinalResponse' \in [Servers -> Finals \cup {None}]
    BY <1>3, ChangeTypes, CancelTypes DEF FinalOk, Finals
  <2>2. /\ dispatched' \in Seq({"2xx", "failure", "408"})
        /\ mDispatchedFinalResponse' \in BOOLEAN
    BY <1>3 DEF FinalOk, Dispatch, TypeOK
  <2> QED BY <1>3, <2>1, <2>2 DEF FinalOk, TypeOK
<1>4. ASSUME NEW c \in Servers, NEW code \in Finals, NewFinal(c, code)
      PROVE  TypeOK'
  <2>1. forwarded' \in Nat
    BY <1>4 DEF NewFinal, TypeOK
  <2> QED BY <1>4, <2>1 DEF NewFinal, TypeOK
<1>5. ASSUME NEW c \in Servers, NEW code \in {"487", "failure"},
             NEW next \in Nexts, FinalFailure(c, code, next)
      PROVE  TypeOK'
  <2>1. mpLastFinalResponse' \in [Servers -> Finals \cup {None}]
    BY <1>5, ChangeTypes DEF FinalFailure, Finals
  <2>2. CASE mDispatchedFinalResponse
    BY <1>5, <2>1, <2>2, ChangeTypes DEF FinalFailure, TypeOK
  <2>3. CASE ~mDispatchedFinalResponse
    <3>1. SearchOrDispatch(Completed(c), mTimers, next)
      BY <1>5, <2>3 DEF FinalFailure
    <3>2. Completed(c) \in [Transactions -> States] /\ mTimers \in SUBSET Timers
      BY ChangeTypes DEF TypeOK
    <3> QED BY <1>5, <2>1, <3>1, <3>2, SearchTypes DEF FinalFailure, TypeOK
  <2> QED BY <2>2, <2>3
<1>6. ASSUME NEW c \in Servers, NEW ok \in BOOLEAN, NEW next \in Nexts,
             Resend(c, ok, next)
      PROVE  TypeOK'
  <2>1. CASE Silent(c) /\ timesSent[c] < Limit(c) /\ ok
    <3>1. timesSent' = [timesSent EXCEPT ![c] = @ + 1]
      BY <1>6, <2>1 DEF Resend
    <3>2. timesSent[c] + 1 \in 0..ResendTimes
      BY <2>1, ResendTimesAssumption DEF Limit, TypeOK
    <3>3. timesSent' \in [Servers -> 0..ResendTimes]
      BY <3>1, <3>2 DEF TypeOK
    <3> QED BY <1>6, <2>1, <3>3 DEF Resend, TypeOK
  <2>2. CASE ~(Silent(c) /\ timesSent[c] < Limit(c) /\ ok)
    <3>1. SearchOrDispatch(GiveUp(c), mTimers \ {<<"resend", c>>}, next)
      BY <1>6, <2>2 DEF Resend
    <3>2. /\ GiveUp(c) \in [Transactions -> States]
          /\ mTimers \ {<<"resend", c>>} \in SUBSET Timers
      BY ChangeTypes DEF TypeOK
    <3> QED BY <1>6, <3>1, <3>2, SearchTypes DEF Resend, TypeOK
  <2> QED BY <2>1, <2>2
<1>7. ASSUME NEW c \in Servers, NEW next \in Nexts, Expires(c, next)
      PROVE  TypeOK'
  <2>1. PICK cs \in SUBSET Transactions : cancel(cs, mTransactionState)
    BY <1>7, Numbers DEF Expires
  <2>2. mIsCanceled' \subseteq Transactions /\ mpCancel' \subseteq Servers
    BY <2>1, CancelTypes
  <2>3. SearchOrDispatch(mTransactionState, mTimers \ {<<"expires", c>>}, next)
    BY <1>7 DEF Expires
  <2>4. /\ mTransactionState \in [Transactions -> States]
        /\ mTimers \ {<<"expires", c>>} \in SUBSET Timers
    BY DEF TypeOK
  <2> QED BY <1>7, <2>2, <2>3, <2>4, SearchTypes DEF Expires, TypeOK
<1>8. ASSUME NEW next \in Nexts, ExpiresRoot(next)
      PROVE  TypeOK'
  <2>1. PICK cs \in SUBSET Transactions : cancel(cs, mTransactionState)
    BY <1>8, Numbers DEF ExpiresRoot, Children
  <2>2. mIsCanceled' \subseteq Transactions /\ mpCancel' \subseteq Servers
    BY <2>1, CancelTypes
  <2>3. SearchOrDispatch(mTransactionState, mTimers \ {<<"expires", Root>>}, next)
    BY <1>8 DEF ExpiresRoot
  <2>4. /\ mTransactionState \in [Transactions -> States]
        /\ mTimers \ {<<"expires", Root>>} \in SUBSET Timers
    BY DEF TypeOK
  <2> QED BY <1>8, <2>2, <2>3, <2>4, SearchTypes DEF ExpiresRoot, TypeOK
<1>9. ASSUME AppCancelRoot
      PROVE  TypeOK'
  <2>1. PICK cs \in SUBSET Transactions : cancel(cs, mTransactionState)
    BY <1>9, Numbers DEF AppCancelRoot, Children
  <2>2. mIsCanceled' \subseteq Transactions /\ mpCancel' \subseteq Servers
    BY <2>1, CancelTypes
  <2> QED BY <1>9, <2>2, Numbers DEF AppCancelRoot, TypeOK
<1>10. ASSUME NEW c \in Servers, NEW ok \in BOOLEAN, AppCancelChild(c, ok)
       PROVE  TypeOK'
  <2>1. mTimers' \subseteq Timers
    BY <1>10 DEF AppCancelChild, TypeOK, Timers
  <2>2. cancelTimesSent' \in 0..ResendTimes
    BY <1>10, ResendTimesAssumption DEF AppCancelChild
  <2> QED BY <1>10, <2>1, <2>2, Numbers DEF AppCancelChild, TypeOK
<1>11. ASSUME NEW c \in Servers, NEW ok \in BOOLEAN, CancelResend(c, ok)
       PROVE  TypeOK'
  <2>1. CASE Silent(c) /\ cancelTimesSent < Limit(c) /\ ok
    <3>1. cancelTimesSent' \in 0..ResendTimes
      BY <1>11, <2>1, ResendTimesAssumption DEF CancelResend, Limit, TypeOK
    <3> QED BY <1>11, <2>1, <3>1 DEF CancelResend, TypeOK
  <2>2. CASE ~(Silent(c) /\ cancelTimesSent < Limit(c) /\ ok)
    BY <1>11, <2>2, ChangeTypes DEF CancelResend, TypeOK
  <2> QED BY <2>1, <2>2
<1>12. ASSUME NEW c \in Servers, CancelExpires(c)
       PROVE  TypeOK'
  <2>1. PICK cs \in SUBSET Transactions : cancel(cs, mTransactionState)
    BY <1>12, Numbers DEF CancelExpires
  <2>2. mIsCanceled' \subseteq Transactions /\ mpCancel' \subseteq Servers
    BY <2>1, CancelTypes
  <2> QED BY <1>12, <2>2 DEF CancelExpires, TypeOK
<1>13. CASE UNCHANGED vars
  BY <1>13 DEF vars, TypeOK
<1> QED BY <1>1, <1>2, <1>3, <1>4, <1>5, <1>6, <1>7, <1>8, <1>9, <1>10, <1>11,
           <1>12, <1>13
        DEF Next, Respond, ResendTimer, ExpiresTimer, RootTimer, AppCancel, CancelTimer
-----------------------------------------------------------------------------
(* The invariant is inductive *)

LEMMA InvInit == Init => IInv
<1> SUFFICES ASSUME Init PROVE IInv
  OBVIOUS
<1>1. TypeOK
  BY TypeInit
<1>2. Answered = {} /\ InPursuit = {}
  BY Numbers DEF Init, Answered, InPursuit, Active
<1>3. /\ \A c \in Servers : mTransactionState[c] = "UNKNOWN"
      /\ mTransactionState[Root] = "LOCALLY_INIITATED"
  BY Numbers DEF Init
<1>4. FlagIsTrue /\ OneFailure
  BY DEF Init, FlagIsTrue, OneFailure
<1>5. TreeInv
  BY <1>2, <1>3, <1>4
  DEF Init, TreeInv, InOrder, Unsent, AnswersAreSent, OneServerAtATime,
      PursuitIsKnown, SettledAtFinal, Settling, RootInv
<1>6. CancelInv
  BY <1>2, <1>3
  DEF Init, CancelInv, ProceedingIsHeard, SilenceIsTimed, RingingIsCanceled,
      CancelAfterProvisional
<1> QED BY <1>1, <1>5, <1>6 DEF IInv

\* cancel sends a CANCEL to what rings, and to nothing else.
LEMMA CancelKeeps ==
  ASSUME TypeOK, CancelInv, NEW st, NEW cs, cancel(cs, st),
         \A c \in Servers : st[c] = "PROCEEDING" => mTransactionState[c] = "PROCEEDING",
         UNCHANGED <<mIsInvite, appCancel, mpLastProvisionalResponse>>
  PROVE  /\ mIsCanceled \subseteq mIsCanceled' /\ mIsCanceled' = mIsCanceled \cup cs
         /\ mIsInvite' => \A c \in Servers \cap mIsCanceled' :
                            st[c] = "PROCEEDING" => c \in mpCancel'
         /\ CancelAfterProvisional'
<1>1. mIsCanceled' = mIsCanceled \cup cs
  BY DEF cancel
<1>2. ASSUME mIsInvite', NEW c \in Servers \cap mIsCanceled', st[c] = "PROCEEDING"
      PROVE  c \in mpCancel'
  <2>1. CASE c \in mIsCanceled
    BY <1>2, <2>1 DEF cancel, CancelInv, RingingIsCanceled
  <2>2. CASE c \notin mIsCanceled
    BY <1>1, <1>2, <2>2 DEF cancel
  <2> QED BY <2>1, <2>2
<1>3. CancelAfterProvisional'
  <2> SUFFICES ASSUME NEW c \in mpCancel'
               PROVE  c = appCancel' \/ c \in mpLastProvisionalResponse' \cap mIsCanceled'
    BY DEF CancelAfterProvisional
  <2>1. CASE c \in mpCancel
    BY <1>1, <2>1 DEF CancelInv, CancelAfterProvisional
  <2>2. CASE c \notin mpCancel
    <3>1. c \in Servers /\ c \in cs /\ st[c] = "PROCEEDING"
      BY <2>2 DEF cancel
    <3> QED BY <1>1, <3>1 DEF CancelInv, ProceedingIsHeard
  <2> QED BY <2>1, <2>2
<1> QED BY <1>1, <1>2, <1>3

\* What a handler that searches has to do before its search.
LEMMA MidHolds ==
  ASSUME TypeOK, TreeInv, CancelInv,
         NEW st \in [Transactions -> States], NEW timers \in SUBSET Timers,
         st[Root] = "CONFIRMED", mIsCanceled' \subseteq Transactions,
         mIsCanceled \subseteq mIsCanceled', Answered \subseteq Answered',
         UNCHANGED mpLastProvisionalResponse,
         \A c \in Servers : st[c] # mTransactionState[c] =>
           st[c] \notin Unsent /\ mTransactionState[c] \notin Unsent,
         \A c \in Servers : st[c] \in Active => st[c] = mTransactionState[c],
         \A c \in Answered' : c \in Servers /\ st[c] \notin Unsent,
         \/ \A c \in Answered : c \in mIsCanceled' => c \in mIsCanceled
         \/ \A c \in Servers : mTransactionState[c] = "LOCALLY_INIITATED" =>
                               c \in mIsCanceled',
         \A c \in Pursued(st) \ Answered', k \in {"resend", "expires"} :
           <<k, c>> \in mTimers => <<k, c>> \in timers,
         mIsInvite' => \A c \in Servers \cap mIsCanceled' :
                         st[c] = "PROCEEDING" => c \in mpCancel'
  PROVE  MidInv(st, timers)
<1>1. /\ InOrder(st) /\ Pursued(st) \subseteq InPursuit
      /\ \A c, d \in Pursued(st) : c = d
      /\ mDispatchedFinalResponse => Pursued(st) = {}
  BY QuietKeeps
<1>2. /\ Settling(mTransactionState)
      /\ \A c \in Servers : st[c] = "LOCALLY_INIITATED" =>
                            mTransactionState[c] = "LOCALLY_INIITATED"
  BY DEF TreeInv, Unsent
<1>3. mDispatchedFinalResponse =>
        Root \in mIsCanceled' \/
        \A c \in Untried(st) :
          c \in mIsCanceled' \/ \E d \in 1..(c - 1) : d \in Answered' \ mIsCanceled'
  BY <1>2, QuietKeepsSettling
<1>4. \A c \in Servers : st[c] = "PROCEEDING" => c \in mpLastProvisionalResponse'
  BY DEF CancelInv, ProceedingIsHeard, Active
<1>5. \A c \in Pursued(st) \ Answered' :
        <<"resend", c>> \in timers /\ <<"expires", c>> \in timers
  <2> SUFFICES ASSUME NEW c \in Pursued(st) \ Answered'
               PROVE  <<"resend", c>> \in timers /\ <<"expires", c>> \in timers
    OBVIOUS
  <2>1. c \in InPursuit \ Answered
    BY <1>1
  <2>2. <<"resend", c>> \in mTimers /\ <<"expires", c>> \in mTimers
    BY <2>1 DEF CancelInv, SilenceIsTimed
  <2> QED BY <2>2
<1> QED BY <1>1, <1>3, <1>4, <1>5 DEF MidInv

\* The state of one child changes as Completed and GiveUp change it.
LEMMA Changes ==
  ASSUME TypeOK, NEW c \in Servers
  PROVE  /\ \A t \in Transactions : t # c =>
              Completed(c)[t] = mTransactionState[t] /\ GiveUp(c)[t] = mTransactionState[t]
         /\ Completed(c)[c] = "COMPLETE"
         /\ GiveUp(c)[c] = IF mTransactionState[c] = "CALLING" THEN "COMPLETE"
                           ELSE mTransactionState[c]
  BY Numbers DEF TypeOK, Completed, GiveUp
-----------------------------------------------------------------------------
(* One lemma per action *)

LEMMA SendKeeps ==
  ASSUME IInv, NEW n \in Transactions, NEW next \in Nexts, Send(n, next)
  PROVE  TreeInv' /\ CancelInv' /\ StartsWell
<1> DEFINE st == [t \in Transactions |->
               IF t = Root THEN "CONFIRMED"
               ELSE IF t <= n THEN "LOCALLY_INIITATED" ELSE "UNKNOWN"]
           timers == {<<"expires", Root>>}
<1>1. /\ mIsCanceled' = {} /\ Answered' = {} /\ mpCancel' = {}
      /\ ~mDispatchedFinalResponse'
  BY DEF Send, IInv, TreeInv, RootInv, Answered
<1>2. /\ st \in [Transactions -> States] /\ timers \in SUBSET Timers
      /\ \A c \in Servers : st[c] \in Unsent
      /\ st[Root] = "CONFIRMED"
      /\ InOrder(st)
  <2>1. st \in [Transactions -> States]
    BY DEF States
  <2>2. timers \in SUBSET Timers
    BY Numbers DEF Timers
  <2>3. \A c \in Servers : st[c] = IF c <= n THEN "LOCALLY_INIITATED" ELSE "UNKNOWN"
    BY Numbers
  <2>4. st[Root] = "CONFIRMED"
    BY Numbers
  <2>5. \A c, d \in Servers : c < d /\ d <= n => c <= n
    BY MaxSrvRecordsAssumption DEF Servers, Transactions
  <2> HIDE DEF st
  <2>6. InOrder(st)
    BY <2>3, <2>5 DEF InOrder, Unsent
  <2> QED BY <2>1, <2>2, <2>3, <2>4, <2>6 DEF Unsent
<1>3. /\ next \in Reachable(st) \cup {Nobody} /\ mTransactionState' = FirstSend(st, next)
      /\ Arm(next, timers) /\ mIsRecursing' = (next # Nobody)
      /\ UNCHANGED dispatched
  BY DEF Send
<1> HIDE DEF st, timers
<1>4. Pursued(st) = {}
  BY <1>2 DEF Pursued, Unsent, Active
<1>5. Reachable(st) # {} => SearchNext(st)
  <2>1. SearchNext(st) <=> Untried(st) # {}
    BY <1>1, <1>4 DEF SearchNext
  <2> QED BY <2>1 DEF Reachable
<1>6. ~SearchNext(st) => FirstSend(st, next) = st
  BY <1>2, <1>5 DEF FirstSend
<1>7. startSequentialSearch(st, timers, next)
  BY <1>3, <1>4, <1>5, <1>6 DEF startSequentialSearch
<1>8. InOrder(mTransactionState)' /\ AnswersAreSent(mTransactionState)'
  BY <1>1, <1>2, <1>7, SearchKeepsOrder
<1>9. OneServerAtATime' /\ PursuitIsKnown'
  BY <1>2, <1>4, <1>7, SearchKeepsAlone
<1>10. ProceedingIsHeard(mTransactionState)' /\ SilenceIsTimed' /\ RingingIsCanceled'
  BY <1>1, <1>2, <1>4, <1>7, SearchKeepsCancels DEF Unsent
<1>11. SettledAtFinal' /\ Settling(mTransactionState)'
  BY <1>1 DEF SettledAtFinal, Settling
<1>12. FlagIsTrue' /\ OneFailure'
  <2>1. UNCHANGED <<mDispatchedFinalResponse, dispatched>>
    BY DEF Send
  <2> QED BY <2>1 DEF IInv, TreeInv, FlagIsTrue, OneFailure
<1>13. RootInv'
  <2>1. Root \notin Reachable(st)
    BY Numbers DEF Reachable, Untried
  <2>2. mTransactionState'[Root] = "CONFIRMED"
    BY <1>2, <1>7, <2>1, Numbers, SearchCallsNext
  <2> QED BY <2>2 DEF RootInv
<1>14. CancelAfterProvisional'
  BY <1>1 DEF CancelAfterProvisional
<1>15. StartsWell
  BY DEF StartsWell, Started, Send, IInv, TreeInv, RootInv
<1> QED BY <1>8, <1>9, <1>10, <1>11, <1>12, <1>13, <1>14, <1>15 DEF TreeInv, CancelInv

LEMMA ProvisionalKeeps ==
  ASSUME IInv, NEW c \in Servers, Provisional(c)
  PROVE  TreeInv' /\ CancelInv' /\ StartsWell
<1>1. mTransactionState[Root] = "CONFIRMED"
  BY RequestIsOut DEF IInv, TreeInv, Provisional
<1>2. /\ \A d \in Transactions : d # c => mTransactionState'[d] = mTransactionState[d]
      /\ mTransactionState'[c] =
           IF mTransactionState[c] = "CALLING" THEN "PROCEEDING" ELSE mTransactionState[c]
      /\ mTransactionState[c] \in Active \cup {"COMPLETE"}
  BY Numbers DEF IInv, TypeOK, Provisional, Sent
<1>3. Answered' = Answered \cup {c}
  BY DEF Provisional, Answered
<1>4. /\ \A d \in Servers : mTransactionState'[d] # mTransactionState[d] =>
           mTransactionState'[d] \notin Unsent /\ mTransactionState[d] \notin Unsent
      /\ \A d \in Servers : mTransactionState'[d] \in Active => mTransactionState[d] \in Active
      /\ mTransactionState'[Root] = "CONFIRMED"
  BY <1>1, <1>2, Numbers DEF Unsent, Active
<1>5. \A d \in Answered' : d \in Servers /\ mTransactionState'[d] \notin Unsent
  <2>1. \A d \in Answered : d \in Servers /\ mTransactionState[d] \notin Unsent
    BY DEF IInv, TreeInv, AnswersAreSent, Answered, TypeOK
  <2> QED BY <1>2, <1>3, <1>4, <2>1 DEF Unsent, Active
<1>6. ProceedingIsHeard(mTransactionState)'
  BY <1>2, Numbers DEF Provisional, IInv, CancelInv, ProceedingIsHeard
<1>7. RingingIsCanceled'
  BY <1>2, Numbers DEF Provisional, IInv, CancelInv, RingingIsCanceled
<1>8. CancelAfterProvisional'
  BY DEF Provisional, IInv, CancelInv, CancelAfterProvisional
<1>9. FlagIsTrue' /\ OneFailure'
  <2>1. UNCHANGED <<mDispatchedFinalResponse, dispatched>>
    BY DEF Provisional
  <2> QED BY <2>1 DEF IInv, TreeInv, FlagIsTrue, OneFailure
<1>10. UNCHANGED <<mIsRecursing, mDispatchedFinalResponse, mIsCanceled, mTimers>>
  BY DEF Provisional
<1> QED BY <1>1, <1>3, <1>4, <1>5, <1>6, <1>7, <1>8, <1>9, <1>10, QuietStep DEF IInv

LEMMA FinalOkKeeps ==
  ASSUME IInv, NEW c \in Servers, FinalOk(c)
  PROVE  TreeInv' /\ CancelInv' /\ StartsWell
<1> USE DEF IInv
<1>1. /\ cancel(Children, Completed(c)) /\ mTransactionState' = Completed(c)
      /\ mTransactionState[c] \in Active \cup {"COMPLETE"}
      /\ UNCHANGED <<mIsInvite, appCancel, mpLastProvisionalResponse>>
      /\ mDispatchedFinalResponse' = TRUE
      /\ dispatched' = Append(dispatched, "2xx")
  BY DEF FinalOk, Sent, Dispatch
<1>2. /\ mTransactionState'[c] = "COMPLETE"
      /\ \A d \in Transactions : d # c => mTransactionState'[d] = mTransactionState[d]
  BY <1>1, Changes
<1>3. \A d \in Servers : Completed(c)[d] = "PROCEEDING" => mTransactionState[d] = "PROCEEDING"
  BY <1>1, <1>2, Numbers
<1>4. /\ mIsCanceled' = mIsCanceled \cup Children /\ CancelAfterProvisional'
      /\ mIsInvite' => \A d \in Servers \cap mIsCanceled' :
                          Completed(c)[d] = "PROCEEDING" => d \in mpCancel'
  BY <1>1, <1>3, CancelKeeps
<1>5. Answered' = Answered \cup {c}
  <2>1. mpLastFinalResponse' = [mpLastFinalResponse EXCEPT ![c] = "2xx"]
    BY DEF FinalOk
  <2> QED BY <1>1, <2>1, NoneAssumption DEF Answered, TypeOK
<1>6. InPursuit' = {}
  BY <1>1, <1>2, <1>4, Numbers DEF InPursuit, Children, Active
<1>7. /\ OneServerAtATime' /\ PursuitIsKnown' /\ SettledAtFinal' /\ SilenceIsTimed'
  BY <1>6 DEF OneServerAtATime, PursuitIsKnown, SettledAtFinal, SilenceIsTimed
<1>8. InOrder(mTransactionState)'
  BY <1>1, <1>2, Numbers DEF TreeInv, InOrder, Unsent, Active
<1>9. AnswersAreSent(mTransactionState)'
  <2>1. \A d \in Answered : d \in Servers /\ mTransactionState[d] \notin Unsent
    BY DEF TreeInv, AnswersAreSent, Answered, TypeOK
  <2> QED BY <1>2, <1>5, <2>1, Numbers DEF AnswersAreSent, Unsent
<1>10. Settling(mTransactionState)'
  BY <1>2, <1>4, Numbers DEF Settling, NoneIsNext, Children
<1>11. RootInv'
  <2>1. mTransactionState[Root] = "CONFIRMED"
    BY RequestIsOut DEF TreeInv, FinalOk
  <2> QED BY <1>2, <2>1, Numbers DEF RootInv
<1>12. FlagIsTrue' /\ OneFailure'
  <2>1. OneFailure'
    BY <1>1, SuccessAppended DEF TreeInv
  <2> QED BY <1>1, <2>1 DEF FlagIsTrue
<1>13. ProceedingIsHeard(mTransactionState)' /\ RingingIsCanceled'
  BY <1>1, <1>3, <1>4 DEF CancelInv, ProceedingIsHeard, RingingIsCanceled
<1>14. StartsWell
  BY <1>2, Numbers DEF StartsWell, Started
<1> QED BY <1>4, <1>7, <1>8, <1>9, <1>10, <1>11, <1>12, <1>13, <1>14
        DEF TreeInv, CancelInv

LEMMA NewFinalKeeps ==
  ASSUME IInv, NEW c \in Servers, NEW code \in Finals, NewFinal(c, code)
  PROVE  TreeInv' /\ CancelInv' /\ StartsWell
<1> USE DEF IInv
<1>1. mTransactionState[Root] = "CONFIRMED"
  <2>1. Answered # {}
    BY DEF NewFinal, Answered
  <2> QED BY <2>1, RequestIsOut DEF TreeInv
<1>2. UNCHANGED <<mIsInvite, mTransactionState, mIsCanceled, mIsRecursing,
                  mDispatchedFinalResponse, mpLastProvisionalResponse,
                  mpLastFinalResponse, mpCancel, mTimers, appCancel, dispatched>>
  BY DEF NewFinal
<1>3. FlagIsTrue' /\ OneFailure'
  BY <1>2 DEF TreeInv, FlagIsTrue, OneFailure
<1>4. UNCHANGED Answered
  BY <1>2 DEF Answered
<1>5. /\ ProceedingIsHeard(mTransactionState)' /\ RingingIsCanceled'
      /\ CancelAfterProvisional'
  BY <1>2 DEF CancelInv, ProceedingIsHeard, RingingIsCanceled, CancelAfterProvisional
<1>6. \A d \in Answered' : d \in Servers /\ mTransactionState'[d] \notin Unsent
  BY <1>2, <1>4 DEF TreeInv, AnswersAreSent, Answered, TypeOK
<1> QED BY <1>1, <1>2, <1>3, <1>4, <1>5, <1>6, QuietStep

LEMMA FinalFailureKeeps ==
  ASSUME IInv, NEW c \in Servers, NEW code \in {"487", "failure"},
         NEW next \in Nexts, FinalFailure(c, code, next)
  PROVE  /\ TreeInv' /\ CancelInv' /\ StartsWell
         /\ mDispatchedFinalResponse \/ MidInv(Completed(c), mTimers)
<1> USE DEF IInv
<1>1. /\ mTransactionState[Root] = "CONFIRMED"
      /\ mTransactionState[c] \in Active \cup {"COMPLETE"}
      /\ UNCHANGED <<mIsInvite, mIsCanceled, mpLastProvisionalResponse, mpCancel, appCancel>>
  BY RequestIsOut DEF TreeInv, FinalFailure, Sent
<1>2. Answered' = Answered \cup {c}
  <2>1. mpLastFinalResponse' = [mpLastFinalResponse EXCEPT ![c] = code]
    BY DEF FinalFailure
  <2> QED BY <1>1, <2>1, NoneAssumption DEF Answered, TypeOK
<1>3. /\ \A d \in Transactions : d # c => Completed(c)[d] = mTransactionState[d]
      /\ Completed(c)[c] = "COMPLETE" /\ Completed(c) \in [Transactions -> States]
  BY Changes, ChangeTypes
<1>4. /\ Completed(c)[Root] = "CONFIRMED"
      /\ \A d \in Servers : Completed(c)[d] # mTransactionState[d] =>
           Completed(c)[d] \notin Unsent /\ mTransactionState[d] \notin Unsent
      /\ \A d \in Servers : Completed(c)[d] \in Active =>
                             Completed(c)[d] = mTransactionState[d]
  BY <1>1, <1>3, Numbers DEF Unsent, Active
<1>5. \A d \in Answered' : d \in Servers /\ Completed(c)[d] \notin Unsent
  <2>1. \A d \in Answered : d \in Servers /\ mTransactionState[d] \notin Unsent
    BY DEF TreeInv, AnswersAreSent, Answered, TypeOK
  <2> QED BY <1>2, <1>3, <2>1, Numbers DEF Unsent
<1>6. CancelAfterProvisional'
  BY <1>1 DEF CancelInv, CancelAfterProvisional
<1>7. CASE mDispatchedFinalResponse
  <2>1. /\ mTransactionState' = Completed(c)
        /\ UNCHANGED <<mIsRecursing, mDispatchedFinalResponse, dispatched, mTimers>>
    BY <1>7 DEF FinalFailure
  <2>2. FlagIsTrue' /\ OneFailure'
    BY <2>1 DEF TreeInv, FlagIsTrue, OneFailure
  <2>3. ProceedingIsHeard(mTransactionState)' /\ RingingIsCanceled'
    BY <1>1, <1>4, <2>1 DEF CancelInv, ProceedingIsHeard, RingingIsCanceled, Active
  <2> QED BY <1>1, <1>2, <1>4, <1>5, <1>6, <1>7, <2>1, <2>2, <2>3, QuietStep
<1>8. CASE ~mDispatchedFinalResponse
  <2>1. SearchOrDispatch(Completed(c), mTimers, next)
    BY <1>8 DEF FinalFailure
  <2>2. mIsInvite' => \A d \in Servers \cap mIsCanceled' :
                        Completed(c)[d] = "PROCEEDING" => d \in mpCancel'
    BY <1>1, <1>4 DEF CancelInv, RingingIsCanceled, Active
  <2>3. mTimers \in SUBSET Timers /\ mIsCanceled' \subseteq Transactions
    BY <1>1 DEF TypeOK
  <2>4. MidInv(Completed(c), mTimers)
    BY <1>1, <1>2, <1>3, <1>4, <1>5, <2>2, <2>3, MidHolds
  <2> QED BY <1>6, <2>1, <2>4, SearchKeeps DEF TreeInv, CancelInv
<1> QED BY <1>7, <1>8

LEMMA ResendKeeps ==
  ASSUME IInv, NEW c \in Servers, NEW ok \in BOOLEAN, NEW next \in Nexts,
         Resend(c, ok, next)
  PROVE  /\ TreeInv' /\ CancelInv' /\ StartsWell
         /\ \/ Silent(c) /\ timesSent[c] < Limit(c) /\ ok
            \/ MidInv(GiveUp(c), mTimers \ {<<"resend", c>>})
<1> USE DEF IInv
<1>1. /\ mTransactionState[Root] = "CONFIRMED"
      /\ UNCHANGED <<mIsInvite, mIsCanceled, mpLastProvisionalResponse,
                     mpLastFinalResponse, mpCancel, appCancel>>
      /\ mIsCanceled' \subseteq Transactions
  BY RequestIsOut DEF TreeInv, Resend, TypeOK
<1>2. Answered' = Answered
  BY <1>1 DEF Answered
<1>3. \A d \in Answered : d \in Servers /\ mTransactionState[d] \notin Unsent
  BY DEF TreeInv, AnswersAreSent, Answered, TypeOK
<1>4. CancelAfterProvisional'
  BY <1>1 DEF CancelInv, CancelAfterProvisional
<1>5. CASE Silent(c) /\ timesSent[c] < Limit(c) /\ ok
  <2>1. UNCHANGED <<mTransactionState, mIsRecursing, mTimers,
                    mDispatchedFinalResponse, dispatched>>
    BY <1>5 DEF Resend
  <2>2. FlagIsTrue' /\ OneFailure'
    BY <2>1 DEF TreeInv, FlagIsTrue, OneFailure
  <2>3. ProceedingIsHeard(mTransactionState)' /\ RingingIsCanceled'
    BY <1>1, <2>1 DEF CancelInv, ProceedingIsHeard, RingingIsCanceled
  <2> QED BY <1>1, <1>2, <1>3, <1>4, <1>5, <2>1, <2>2, <2>3, QuietStep
<1>6. CASE ~(Silent(c) /\ timesSent[c] < Limit(c) /\ ok)
  <2> DEFINE timers == mTimers \ {<<"resend", c>>}
  <2>1. SearchOrDispatch(GiveUp(c), timers, next)
    BY <1>6 DEF Resend
  <2>2. /\ \A d \in Transactions : d # c => GiveUp(c)[d] = mTransactionState[d]
        /\ GiveUp(c)[c] = IF mTransactionState[c] = "CALLING" THEN "COMPLETE"
                          ELSE mTransactionState[c]
        /\ GiveUp(c) \in [Transactions -> States]
    BY Changes, ChangeTypes
  <2>3. /\ GiveUp(c)[Root] = "CONFIRMED"
        /\ \A d \in Servers : GiveUp(c)[d] # mTransactionState[d] =>
             GiveUp(c)[d] \notin Unsent /\ mTransactionState[d] \notin Unsent
        /\ \A d \in Servers : GiveUp(c)[d] \in Active => GiveUp(c)[d] = mTransactionState[d]
    BY <1>1, <2>2, Numbers DEF Unsent, Active
  <2>4. \A d \in Answered' : d \in Servers /\ GiveUp(c)[d] \notin Unsent
    BY <1>2, <1>3, <2>3
  <2>5. mIsInvite' => \A d \in Servers \cap mIsCanceled' :
                        GiveUp(c)[d] = "PROCEEDING" => d \in mpCancel'
    BY <1>1, <2>3 DEF CancelInv, RingingIsCanceled, Active
  <2>6. timers \in SUBSET Timers
    BY DEF TypeOK
  <2>7. \A d \in Pursued(GiveUp(c)) \ Answered', k \in {"resend", "expires"} :
          <<k, d>> \in mTimers => <<k, d>> \in timers
    <3>1. c \notin Pursued(GiveUp(c)) \ Answered'
      <4>1. GiveUp(c)[c] \in Active => c \in Answered
        BY <2>2 DEF Active, CancelInv, ProceedingIsHeard, Answered
      <4> QED BY <1>2, <4>1 DEF Pursued
    <3> QED BY <3>1
  <2> HIDE DEF timers
  <2>8. MidInv(GiveUp(c), timers)
    BY <1>1, <1>2, <2>2, <2>3, <2>4, <2>5, <2>6, <2>7, MidHolds
  <2>9. TreeInv' /\ CancelInv' /\ StartsWell
    BY <1>4, <2>1, <2>8, SearchKeeps DEF TreeInv, CancelInv
  <2> QED BY <2>8, <2>9 DEF timers
<1> QED BY <1>5, <1>6

LEMMA ExpiresKeeps ==
  ASSUME IInv, NEW c \in Servers, NEW next \in Nexts, Expires(c, next)
  PROVE  /\ TreeInv' /\ CancelInv' /\ StartsWell
         /\ MidInv(mTransactionState, mTimers \ {<<"expires", c>>})
<1> USE DEF IInv
<1> DEFINE expired == c \notin Answered
                        /\ mTransactionState[c] \in Active \cup {"LOCALLY_INIITATED"}
           cs      == IF expired THEN {c} ELSE {}
           timers  == mTimers \ {<<"expires", c>>}
<1>1. /\ cancel(cs, mTransactionState)
      /\ UNCHANGED <<mIsInvite, mpLastProvisionalResponse, mpLastFinalResponse, appCancel>>
      /\ SearchOrDispatch(mTransactionState, timers, next)
  BY DEF Expires
<1>2. mTransactionState[Root] = "CONFIRMED"
  BY RequestIsOut DEF TreeInv, Expires
<1>3. cs \in SUBSET Servers /\ (c \in cs => c \notin Answered)
  OBVIOUS
<1>4. c \in Answered \/ c \in cs \/ mTransactionState[c] \notin Active
  OBVIOUS
<1>5. timers \in SUBSET Timers
  BY DEF TypeOK
<1>6. \A d \in Servers, k \in {"resend", "expires"} :
        d # c /\ <<k, d>> \in mTimers => <<k, d>> \in timers
  OBVIOUS
<1>7. \A d \in cs : d \notin Answered
  OBVIOUS
<1> HIDE DEF expired, cs, timers
<1>8. /\ mIsCanceled' = mIsCanceled \cup cs /\ CancelAfterProvisional'
      /\ mIsInvite' => \A d \in Servers \cap mIsCanceled' :
                         mTransactionState[d] = "PROCEEDING" => d \in mpCancel'
  BY <1>1, CancelKeeps
<1>9. Answered' = Answered
  BY <1>1 DEF Answered
<1>10. \A d \in Answered : d \in Servers /\ mTransactionState[d] \notin Unsent
  BY DEF TreeInv, AnswersAreSent, Answered, TypeOK
<1>11. \A d \in Pursued(mTransactionState) \ Answered', k \in {"resend", "expires"} :
         <<k, d>> \in mTimers => <<k, d>> \in timers
  BY <1>4, <1>6, <1>8, <1>9 DEF Pursued
<1>12. mTransactionState \in [Transactions -> States] /\ mIsCanceled' \subseteq Transactions
  BY <1>3, <1>8, Numbers DEF TypeOK
<1>13. MidInv(mTransactionState, timers)
  BY <1>1, <1>2, <1>5, <1>7, <1>8, <1>9, <1>10, <1>11, <1>12, MidHolds
<1>14. TreeInv' /\ CancelInv' /\ StartsWell
  BY <1>1, <1>8, <1>13, SearchKeeps DEF TreeInv, CancelInv
<1> QED BY <1>13, <1>14 DEF timers

LEMMA ExpiresRootKeeps ==
  ASSUME IInv, NEW next \in Nexts, ExpiresRoot(next)
  PROVE  /\ TreeInv' /\ CancelInv' /\ StartsWell
         /\ MidInv(mTransactionState, mTimers \ {<<"expires", Root>>})
<1> USE DEF IInv
<1> DEFINE cs     == IF mIsRecursing /\ Root \notin mIsCanceled
                     THEN Children \cup {Root} ELSE {}
           timers == mTimers \ {<<"expires", Root>>}
<1>1. /\ cancel(cs, mTransactionState)
      /\ UNCHANGED <<mIsInvite, mpLastProvisionalResponse, mpLastFinalResponse, appCancel>>
      /\ SearchOrDispatch(mTransactionState, timers, next)
  BY DEF ExpiresRoot
<1>2. mTransactionState[Root] = "CONFIRMED"
  BY RequestIsOut DEF TreeInv, ExpiresRoot, RootInv
<1>3. /\ cs \in SUBSET Transactions
      /\ cs = {} \/ \A c \in Servers : mTransactionState[c] = "LOCALLY_INIITATED" => c \in cs
  BY Numbers DEF Children
<1>5. timers \in SUBSET Timers
  BY DEF TypeOK
<1>6. \A d \in Servers, k \in {"resend", "expires"} :
        <<k, d>> \in mTimers => <<k, d>> \in timers
  BY Numbers
<1> HIDE DEF cs, timers
<1>8. /\ mIsCanceled' = mIsCanceled \cup cs /\ CancelAfterProvisional'
      /\ mIsInvite' => \A d \in Servers \cap mIsCanceled' :
                         mTransactionState[d] = "PROCEEDING" => d \in mpCancel'
  BY <1>1, CancelKeeps
<1>9. Answered' = Answered
  BY <1>1 DEF Answered
<1>10. \A d \in Answered : d \in Servers /\ mTransactionState[d] \notin Unsent
  BY DEF TreeInv, AnswersAreSent, Answered, TypeOK
<1>11. \A d \in Pursued(mTransactionState) \ Answered', k \in {"resend", "expires"} :
         <<k, d>> \in mTimers => <<k, d>> \in timers
  BY <1>6 DEF Pursued
<1>12. mTransactionState \in [Transactions -> States] /\ mIsCanceled' \subseteq Transactions
  BY <1>3, <1>8 DEF TypeOK
<1>13. MidInv(mTransactionState, timers)
  BY <1>1, <1>2, <1>3, <1>5, <1>8, <1>9, <1>10, <1>11, <1>12, MidHolds
<1>14. TreeInv' /\ CancelInv' /\ StartsWell
  BY <1>1, <1>8, <1>13, SearchKeeps DEF TreeInv, CancelInv
<1> QED BY <1>13, <1>14 DEF timers

LEMMA AppCancelRootKeeps ==
  ASSUME IInv, AppCancelRoot
  PROVE  TreeInv' /\ CancelInv' /\ StartsWell
<1> USE DEF IInv
<1> DEFINE cs == IF Root \in mIsCanceled THEN {} ELSE Children \cup {Root}
<1>1. /\ mTransactionState[Root] = "CONFIRMED"
      /\ cancel(cs, mTransactionState)
      /\ UNCHANGED <<mIsInvite, mTransactionState, mIsRecursing, mTimers,
                     mDispatchedFinalResponse, mpLastProvisionalResponse,
                     mpLastFinalResponse, dispatched>>
      /\ appCancel = None /\ appCancel' = Root
  BY DEF AppCancelRoot
<1>2. cs = {} \/ \A c \in Servers : mTransactionState[c] = "LOCALLY_INIITATED" => c \in cs
  BY DEF Children
<1> HIDE DEF cs
<1>3. mIsCanceled' = mIsCanceled \cup cs
  BY <1>1 DEF cancel
<1>4. Answered' = Answered
  BY <1>1 DEF Answered
<1>5. \A d \in Answered : d \in Servers /\ mTransactionState[d] \notin Unsent
  BY DEF TreeInv, AnswersAreSent, Answered, TypeOK
<1>6. FlagIsTrue' /\ OneFailure'
  BY <1>1 DEF TreeInv, FlagIsTrue, OneFailure
<1>7. ProceedingIsHeard(mTransactionState)' /\ RingingIsCanceled'
  BY <1>1, <1>3 DEF cancel, CancelInv, ProceedingIsHeard, RingingIsCanceled
<1>8. CancelAfterProvisional'
  <2> SUFFICES ASSUME NEW c \in mpCancel'
               PROVE  c \in mpLastProvisionalResponse' \cap mIsCanceled'
    BY DEF CancelAfterProvisional
  <2>1. CASE c \in mpCancel
    BY <1>1, <1>3, <2>1, Numbers DEF TypeOK, CancelInv, CancelAfterProvisional
  <2>2. CASE c \notin mpCancel
    BY <1>1, <1>3, <2>2 DEF cancel, CancelInv, ProceedingIsHeard
  <2> QED BY <2>1, <2>2
<1> QED BY <1>1, <1>2, <1>3, <1>4, <1>5, <1>6, <1>7, <1>8, QuietStep

LEMMA AppCancelChildKeeps ==
  ASSUME IInv, NEW c \in Servers, NEW ok \in BOOLEAN, AppCancelChild(c, ok)
  PROVE  TreeInv' /\ CancelInv' /\ StartsWell
<1> USE DEF IInv
<1>1. mTransactionState[Root] = "CONFIRMED"
  BY RequestIsOut DEF TreeInv, AppCancelChild
<1>2. /\ UNCHANGED <<mIsInvite, mTransactionState, mIsCanceled, mIsRecursing,
                     mDispatchedFinalResponse, mpLastProvisionalResponse,
                     mpLastFinalResponse, dispatched>>
      /\ mTimers \subseteq mTimers' /\ mpCancel' = mpCancel \cup {c}
      /\ appCancel = None /\ appCancel' = c
  BY DEF AppCancelChild
<1>3. Answered' = Answered
  BY <1>2 DEF Answered
<1>4. \A d \in Answered : d \in Servers /\ mTransactionState[d] \notin Unsent
  BY DEF TreeInv, AnswersAreSent, Answered, TypeOK
<1>5. FlagIsTrue' /\ OneFailure'
  BY <1>2 DEF TreeInv, FlagIsTrue, OneFailure
<1>6. ProceedingIsHeard(mTransactionState)' /\ RingingIsCanceled'
  BY <1>2 DEF CancelInv, ProceedingIsHeard, RingingIsCanceled
<1>7. CancelAfterProvisional'
  BY <1>2, Numbers DEF TypeOK, CancelInv, CancelAfterProvisional
<1> QED BY <1>1, <1>2, <1>3, <1>4, <1>5, <1>6, <1>7, QuietStep

LEMMA CancelResendKeeps ==
  ASSUME IInv, NEW c \in Servers, NEW ok \in BOOLEAN, CancelResend(c, ok)
  PROVE  TreeInv' /\ CancelInv' /\ StartsWell
<1> USE DEF IInv
<1>1. mTransactionState[Root] = "CONFIRMED"
  BY RequestIsOut DEF TreeInv, CancelResend
<1>2. /\ UNCHANGED <<mIsInvite, mIsCanceled, mIsRecursing, mDispatchedFinalResponse,
                     mpLastProvisionalResponse, mpLastFinalResponse, mpCancel,
                     appCancel, dispatched>>
      /\ mTransactionState' \in {mTransactionState, GiveUp(c)}
      /\ \A d \in Servers, k \in {"resend", "expires"} :
           <<k, d>> \in mTimers => <<k, d>> \in mTimers'
  BY DEF CancelResend
<1>3. /\ \A d \in Transactions : d # c => mTransactionState'[d] = mTransactionState[d]
      /\ \/ mTransactionState'[c] = mTransactionState[c]
         \/ /\ mTransactionState[c] = "CALLING"
            /\ mTransactionState'[c] = "COMPLETE"
  BY <1>2, Changes
<1>4. /\ mTransactionState'[Root] = "CONFIRMED"
      /\ \A d \in Servers : mTransactionState'[d] # mTransactionState[d] =>
           mTransactionState'[d] \notin Unsent /\ mTransactionState[d] \notin Unsent
      /\ \A d \in Servers : mTransactionState'[d] \in Active =>
                             mTransactionState'[d] = mTransactionState[d]
  BY <1>1, <1>3, Numbers DEF Unsent, Active
<1>5. Answered' = Answered
  BY <1>2 DEF Answered
<1>6. \A d \in Answered : d \in Servers /\ mTransactionState'[d] \notin Unsent
  BY <1>4 DEF TreeInv, AnswersAreSent, Answered, TypeOK
<1>7. FlagIsTrue' /\ OneFailure'
  BY <1>2 DEF TreeInv, FlagIsTrue, OneFailure
<1>8. ProceedingIsHeard(mTransactionState)' /\ RingingIsCanceled'
  BY <1>2, <1>4 DEF CancelInv, ProceedingIsHeard, RingingIsCanceled, Active
<1>9. CancelAfterProvisional'
  BY <1>2 DEF CancelInv, CancelAfterProvisional
<1> QED BY <1>1, <1>2, <1>4, <1>5, <1>6, <1>7, <1>8, <1>9, QuietStep

LEMMA CancelExpiresKeeps ==
  ASSUME IInv, NEW c \in Servers, CancelExpires(c)
  PROVE  TreeInv' /\ CancelInv' /\ StartsWell
<1> USE DEF IInv
<1> DEFINE cs == IF c \notin Answered /\ mTransactionState[c] \in Active THEN {c} ELSE {}
<1>1. mTransactionState[Root] = "CONFIRMED"
  BY RequestIsOut DEF TreeInv, CancelExpires
<1>2. /\ cancel(cs, mTransactionState)
      /\ UNCHANGED <<mIsInvite, mTransactionState, mIsRecursing, mDispatchedFinalResponse,
                     mpLastProvisionalResponse, mpLastFinalResponse, appCancel, dispatched>>
      /\ \A d \in Servers, k \in {"resend", "expires"} :
           <<k, d>> \in mTimers => <<k, d>> \in mTimers'
  BY DEF CancelExpires
<1>3. \A d \in cs : d \notin Answered
  OBVIOUS
<1> HIDE DEF cs
<1>4. /\ mIsCanceled' = mIsCanceled \cup cs /\ CancelAfterProvisional'
      /\ mIsInvite' => \A d \in Servers \cap mIsCanceled' :
                         mTransactionState[d] = "PROCEEDING" => d \in mpCancel'
  BY <1>2, CancelKeeps
<1>5. Answered' = Answered
  BY <1>2 DEF Answered
<1>6. \A d \in Answered : d \in Servers /\ mTransactionState[d] \notin Unsent
  BY DEF TreeInv, AnswersAreSent, Answered, TypeOK
<1>7. FlagIsTrue' /\ OneFailure'
  BY <1>2 DEF TreeInv, FlagIsTrue, OneFailure
<1>8. ProceedingIsHeard(mTransactionState)' /\ RingingIsCanceled'
  BY <1>2, <1>4 DEF CancelInv, ProceedingIsHeard, RingingIsCanceled
<1> QED BY <1>1, <1>2, <1>3, <1>4, <1>5, <1>6, <1>7, <1>8, QuietStep

LEMMA StutterKeeps ==
  ASSUME IInv, UNCHANGED vars
  PROVE  TreeInv' /\ CancelInv' /\ StartsWell
<1> USE DEF vars, InPursuit, Answered
<1>1. TreeInv'
  BY DEF IInv, TreeInv, InOrder, AnswersAreSent, OneServerAtATime, PursuitIsKnown,
         SettledAtFinal, Settling, NoneIsNext, RootInv, FlagIsTrue, OneFailure
<1>2. CancelInv'
  BY DEF IInv, CancelInv, ProceedingIsHeard, SilenceIsTimed, RingingIsCanceled,
         CancelAfterProvisional
<1>3. StartsWell
  BY DEF StartsWell, Started
<1> QED BY <1>1, <1>2, <1>3

LEMMA InvStep == IInv /\ [Next]_vars => IInv' /\ StartsWell
<1> SUFFICES ASSUME IInv, [Next]_vars
             PROVE  IInv' /\ StartsWell
  OBVIOUS
<1>1. TypeOK'
  BY TypeStep DEF IInv
<1>2. TreeInv' /\ CancelInv' /\ StartsWell
  <2>1. CASE UNCHANGED vars
    BY <2>1, StutterKeeps
  <2>2. CASE \E n \in Transactions, next \in Nexts : Send(n, next)
    BY <2>2, SendKeeps
  <2>3. CASE \E c \in Servers : Respond(c)
    BY <2>3, ProvisionalKeeps, FinalOkKeeps, NewFinalKeeps, FinalFailureKeeps DEF Respond
  <2>4. CASE \E c \in Servers : ResendTimer(c) \/ ExpiresTimer(c)
    BY <2>4, ResendKeeps, ExpiresKeeps DEF ResendTimer, ExpiresTimer
  <2>5. CASE RootTimer
    BY <2>5, ExpiresRootKeeps DEF RootTimer
  <2>6. CASE AppCancel
    BY <2>6, AppCancelRootKeeps, AppCancelChildKeeps DEF AppCancel
  <2>7. CASE \E c \in Servers : CancelTimer(c)
    BY <2>7, CancelResendKeeps, CancelExpiresKeeps DEF CancelTimer
  <2> QED BY <2>1, <2>2, <2>3, <2>4, <2>5, <2>6, <2>7 DEF Next
<1> QED BY <1>1, <1>2 DEF IInv
-----------------------------------------------------------------------------
(* What holds for any number of servers *)

LEMMA Invariance == Spec => []IInv
<1> QED BY InvInit, InvStep, PTL DEF Spec

\* The state of the tree is well typed; no message is sent more often than
\* SIP_UDP_RESEND_TIMES.
THEOREM TypeCorrect == Spec => []TypeOK
<1>1. IInv => TypeOK
  BY DEF IInv
<1> QED BY <1>1, Invariance, PTL

\* startSequentialSearch never has two servers pursued at the same time.
THEOREM Serial == Spec => []OneServerAtATime
<1>1. IInv => OneServerAtATime
  BY DEF IInv, TreeInv
<1> QED BY <1>1, Invariance, PTL

\* A silent server in pursuit has both timers that give it up.
THEOREM Timed == Spec => []SilenceIsTimed
<1>1. IInv => SilenceIsTimed
  BY DEF IInv, CancelInv
<1> QED BY <1>1, Invariance, PTL

\* Nothing is pursued once the root has dispatched a final response.
THEOREM Settlement == Spec => []SettledAtFinal
<1>1. IInv => SettledAtFinal
  BY DEF IInv, TreeInv
<1> QED BY <1>1, Invariance, PTL

\* The tree tells one failure at most, and none after a success.
THEOREM SingleFailure == Spec => []OneFailure
<1>1. IInv => OneFailure
  BY DEF IInv, TreeInv
<1> QED BY <1>1, Invariance, PTL

\* A server that rings after it was canceled has its CANCEL.
THEOREM NothingRingsOn == Spec => []RingingIsCanceled
<1>1. IInv => RingingIsCanceled
  BY DEF IInv, CancelInv
<1> QED BY <1>1, Invariance, PTL

\* The stack cancels only what it heard a provisional response from.
THEOREM NoEarlyCancel == Spec => []CancelAfterProvisional
<1>1. IInv => CancelAfterProvisional
  BY DEF IInv, CancelInv
<1> QED BY <1>1, Invariance, PTL

\* No server is called after the dispatch of a final response.
THEOREM FinalIsFinal == Spec => NoServerAfterFinal
<1>1. IInv /\ [Next]_vars =>
        [\A c \in Servers : Started(c) => ~mDispatchedFinalResponse]_vars
  BY InvStep DEF StartsWell
<1> QED BY <1>1, Invariance, PTL DEF Spec, NoServerAfterFinal

\* No server is called past an earlier one that answered and was not given up.
THEOREM AnswerStopsSearch == Spec => NoServerAfterAnswer
<1>1. IInv /\ [Next]_vars =>
        [\A c \in Servers : Started(c) =>
           \A d \in 1..(c - 1) : d \in Answered' => d \in mIsCanceled']_vars
  BY InvStep DEF StartsWell
<1> QED BY <1>1, Invariance, PTL DEF Spec, NoServerAfterAnswer
-----------------------------------------------------------------------------
(* What the serial search needs besides *)

\* The root and the servers not called yet are canceled with all the others.
CanceledTogether(st) ==
  \A t \in mIsCanceled : t = Root \/ st[t] = "LOCALLY_INIITATED" =>
    \A c \in Servers : st[c] # "UNKNOWN" => c \in mIsCanceled

\* Only a request that was sent can expire.
TimersAreSent(st) ==
  \A c \in Servers : <<"expires", c>> \in mTimers => st[c] \notin Unsent

\* Only the servers whose request went out have answered.
AnswersAreCalled == Answered \subseteq Called

\* The first success was told at once.
SuccessIsTold ==
  \A c \in Servers : mpLastFinalResponse[c] = "2xx" => mDispatchedFinalResponse

SearchInv ==
  /\ CanceledTogether(mTransactionState) /\ TimersAreSent(mTransactionState)
  /\ AnswersAreCalled /\ SuccessIsTold

CalledIn(st) == {c \in Servers : st[c] \in Active \cup {"COMPLETE"}}

\* The same in the state in which a handler starts its search.
SearchMid(st, timers) ==
  /\ \A t \in mIsCanceled' : t = Root \/ st[t] = "LOCALLY_INIITATED" =>
       \A c \in Servers : st[c] # "UNKNOWN" => c \in mIsCanceled'
  /\ \A c \in Servers : <<"expires", c>> \in timers => st[c] \notin Unsent
  /\ Answered' \subseteq CalledIn(st)
  /\ \A c \in Servers : mpLastFinalResponse'[c] = "2xx" => mDispatchedFinalResponse

LEMMA MidSearch ==
  ASSUME IInv, SearchInv, NEW st, NEW timers,
         \A t \in Transactions : st[t] # mTransactionState[t] =>
           t \in Called /\ t \in CalledIn(st),
         \A c \in Servers : <<"expires", c>> \in timers => <<"expires", c>> \in mTimers,
         mIsCanceled \subseteq mIsCanceled', mIsCanceled' \subseteq Transactions,
         \A t \in mIsCanceled' \ mIsCanceled :
           \/ t \in Servers /\ mTransactionState[t] \notin Unsent
           \/ Children \subseteq mIsCanceled',
         Answered' \subseteq Answered \cup Called,
         \A c \in Servers : mpLastFinalResponse'[c] = "2xx" => mpLastFinalResponse[c] = "2xx"
  PROVE  SearchMid(st, timers)
<1>1. \A c \in Servers : c \in Transactions /\ c # Root
  BY Numbers
<1>2. ASSUME NEW t \in Transactions
      PROVE  /\ st[t] = "LOCALLY_INIITATED" => mTransactionState[t] = "LOCALLY_INIITATED"
             /\ st[t] # "UNKNOWN" => mTransactionState[t] # "UNKNOWN"
             /\ mTransactionState[t] \notin Unsent => st[t] \notin Unsent
  BY DEF CalledIn, Called, Sent, Active, Unsent
<1>3. ASSUME NEW t \in mIsCanceled', t = Root \/ st[t] = "LOCALLY_INIITATED",
             NEW c \in Servers, st[c] # "UNKNOWN"
      PROVE  c \in mIsCanceled'
  <2>1. CASE t \in mIsCanceled
    BY <1>1, <1>2, <1>3, <2>1 DEF SearchInv, CanceledTogether
  <2>2. CASE t \notin mIsCanceled
    <3>1. Children \subseteq mIsCanceled'
      BY <1>1, <1>2, <1>3, <2>2 DEF Unsent
    <3> QED BY <1>1, <1>2, <1>3, <3>1 DEF Children
  <2> QED BY <2>1, <2>2
<1>4. ASSUME NEW c \in Servers, <<"expires", c>> \in timers
      PROVE  st[c] \notin Unsent
  BY <1>1, <1>2, <1>4 DEF SearchInv, TimersAreSent
<1>5. Called \subseteq CalledIn(st)
  BY <1>1 DEF Called, CalledIn, Sent
<1>6. Answered' \subseteq CalledIn(st)
  BY <1>5 DEF SearchInv, AnswersAreCalled
<1> QED BY <1>3, <1>4, <1>6 DEF SearchMid, SearchInv, SuccessIsTold

\* A handler that does not search leaves what MidSearch says.
LEMMA MidStays ==
  ASSUME NEW st, NEW timers, SearchMid(st, timers),
         mTransactionState' = st, mTimers' = timers,
         mDispatchedFinalResponse => mDispatchedFinalResponse'
  PROVE  SearchInv'
<1>1. CanceledTogether(mTransactionState)' /\ TimersAreSent(mTransactionState)'
  BY DEF SearchMid, CanceledTogether, TimersAreSent
<1>2. AnswersAreCalled' /\ SuccessIsTold'
  BY DEF SearchMid, AnswersAreCalled, SuccessIsTold, Called, CalledIn, Sent
<1> QED BY <1>1, <1>2 DEF SearchInv

\* A search keeps it.
LEMMA SearchKeepsSearch ==
  ASSUME NEW st \in [Transactions -> States], NEW timers \in SUBSET Timers,
         NEW next \in Nexts, SearchMid(st, timers), SearchOrDispatch(st, timers, next),
         mIsCanceled' \subseteq Transactions
  PROVE  SearchInv'
<1>1. startSequentialSearch(st, timers, next)
  BY DEF SearchOrDispatch
<1>2. ASSUME NEW t \in Transactions
      PROVE  \/ mTransactionState'[t] = st[t]
             \/ /\ st[t] = "LOCALLY_INIITATED"
                /\ mTransactionState'[t] \in {"CALLING", "TERMINATED"}
  <2>1. \/ mTransactionState'[t] = st[t]
        \/ /\ t \in Reachable(st)
           /\ mTransactionState'[t] = IF t = next THEN "CALLING" ELSE "TERMINATED"
    BY <1>1, SearchCallsNext
  <2> QED BY <2>1 DEF Reachable, Untried
<1>3. \A c \in Servers : c \in Transactions
  BY Numbers
<1>4. CanceledTogether(mTransactionState)'
  BY <1>2, <1>3 DEF SearchMid, CanceledTogether
<1>6. TimersAreSent(mTransactionState)'
  <2> SUFFICES ASSUME NEW c \in Servers, <<"expires", c>> \in mTimers'
               PROVE  mTransactionState'[c] \notin Unsent
    BY DEF TimersAreSent
  <2>1. mTimers' = timers \cup ({"resend", "expires"} \X ({next} \cap Servers))
    BY <1>1 DEF startSequentialSearch, Arm
  <2>2. CASE <<"expires", c>> \in timers
    BY <1>2, <1>3, <2>2 DEF SearchMid, Unsent
  <2>3. CASE <<"expires", c>> \notin timers
    <3>1. c = next /\ next # Nobody
      BY <2>1, <2>3, Numbers
    <3> QED BY <1>1, <3>1, SearchCallsNext DEF Unsent
  <2> QED BY <2>2, <2>3
<1>7. AnswersAreCalled'
  BY <1>2, <1>3 DEF SearchMid, AnswersAreCalled, Called, CalledIn, Sent, Active
<1>8. SuccessIsTold'
  <2>1. mDispatchedFinalResponse => mDispatchedFinalResponse'
    BY DEF SearchOrDispatch, Dispatch
  <2> QED BY <2>1 DEF SearchMid, SuccessIsTold
<1> QED BY <1>4, <1>6, <1>7, <1>8 DEF SearchInv

\* The search finds all the servers that are left, or none.
LEMMA ReachableIs ==
  ASSUME NEW st, InOrder(st), \A c \in Answered' : c \in Servers /\ st[c] \notin Unsent
  PROVE  /\ Settled(st) = {} => Reachable(st) = Untried(st)
         /\ Settled(st) # {} => Reachable(st) = {}
<1>1. ASSUME NEW c \in Untried(st), NEW d \in Settled(st)
      PROVE  d \in 1..(c - 1)
  <2>1. /\ c \in Servers /\ d \in Servers /\ c \in Int /\ d \in Int /\ 1 <= d
        /\ st[c] = "LOCALLY_INIITATED" /\ st[d] \notin Unsent
    BY Numbers DEF Untried, Settled, Pursued, Active, Unsent, Servers
  <2>2. ~(c < d) /\ c # d
    BY <2>1 DEF InOrder, Unsent
  <2> QED BY <2>1, <2>2
<1>2. Reachable(st) \subseteq Untried(st)
  BY DEF Reachable
<1>3. ASSUME Settled(st) = {} PROVE Untried(st) \subseteq Reachable(st)
  BY <1>3 DEF Reachable
<1>4. ASSUME NEW d \in Settled(st) PROVE Reachable(st) = {}
  BY <1>1, <1>2 DEF Reachable
<1> QED BY <1>2, <1>3, <1>4

\* What a search does to what is left, called, pursued and standing.
LEMMA SearchMoves ==
  ASSUME NEW st \in [Transactions -> States], NEW timers \in SUBSET Timers,
         NEW next \in Nexts, startSequentialSearch(st, timers, next), InOrder(st),
         \A c \in Answered' : c \in Servers /\ st[c] \notin Unsent,
         SearchMid(st, timers), NEW left, left = Untried(st) \ mIsCanceled'
  PROVE  /\ next # Nobody =>
              /\ next \in left /\ Left' = {c \in left : c > next}
              /\ Standing' = {} /\ InPursuit' = {next} /\ Called' = CalledIn(st) \cup {next}
         /\ next = Nobody =>
              /\ Called' = CalledIn(st) /\ InPursuit' = Pursued(st)
              /\ Left' = left \/ (Left' = {} /\ Pursued(st) = {} /\ Standing' = {})
              /\ Pursued(st) = {} => Left' = {} \/ Standing' # {}
<1>0. /\ \A c \in Servers : c \in Transactions /\ c \in Int /\ c # Nobody /\ c <= Nobody
      /\ next \in Int /\ Nobody \in Int
  BY MaxSrvRecordsAssumption DEF Servers, Transactions, Nobody, Nexts
<1>1. Settled(st) = Pursued(st) \cup Standing'
  BY DEF Settled, Standing
<1>2. /\ Settled(st) = {} => Reachable(st) = Untried(st)
      /\ Settled(st) # {} => Reachable(st) = {}
  BY ReachableIs
<1>3. /\ mTransactionState' = IF SearchNext(st) THEN FirstSend(st, next) ELSE st
      /\ next \in {Nobody} \cup {c \in Reachable(st) : SearchNext(st)}
  BY DEF startSequentialSearch
<1>4. \A t \in Servers :
        FirstSend(st, next)[t] =
          IF t \notin Reachable(st) \/ t > next THEN st[t]
          ELSE IF t = next THEN "CALLING" ELSE "TERMINATED"
  BY <1>0 DEF FirstSend
<1>5. SearchNext(st) <=> /\ Root \notin mIsCanceled'
                         /\ \E c \in left : \A d \in Pursued(st) : d >= c
  BY DEF SearchNext
<1>6. ASSUME NEW c \in Untried(st), c \in mIsCanceled' \/ Root \in mIsCanceled'
      PROVE  left = {}
  <2>1. \A d \in Servers : st[d] # "UNKNOWN" => d \in mIsCanceled'
    BY <1>6 DEF SearchMid, Untried
  <2> QED BY <2>1 DEF Untried
<1>7. Untried(st) = {c \in Servers : st[c] = "LOCALLY_INIITATED"} /\ left \subseteq Untried(st)
  BY DEF Untried
<1>8. /\ Left' = {c \in Servers : mTransactionState'[c] = "LOCALLY_INIITATED"} \ mIsCanceled'
      /\ InPursuit' = {c \in Servers \ mIsCanceled' : mTransactionState'[c] \in Active}
      /\ Called' = {c \in Servers : mTransactionState'[c] \in Active \cup {"COMPLETE"}}
      /\ Pursued(st) = {c \in Servers \ mIsCanceled' : st[c] \in Active}
      /\ CalledIn(st) = {c \in Servers : st[c] \in Active \cup {"COMPLETE"}}
  BY DEF Left, Untried, InPursuit, Called, Sent, Pursued, CalledIn
<1>9. CASE next # Nobody
  <2>1. /\ next \in Reachable(st) /\ SearchNext(st)
    BY <1>3, <1>9
  <2>2. /\ Settled(st) = {} /\ Reachable(st) = Untried(st)
        /\ Pursued(st) = {} /\ Standing' = {}
    BY <1>1, <1>2, <2>1
  <2>3. next \in left
    BY <1>5, <1>6, <2>1, <2>2
  <2>4. \A t \in Servers :
          mTransactionState'[t] = IF t \notin Untried(st) \/ t > next THEN st[t]
                                  ELSE IF t = next THEN "CALLING" ELSE "TERMINATED"
    BY <1>3, <1>4, <2>1, <2>2
  <2>5. Left' = {c \in left : c > next}
    BY <1>0, <1>7, <1>8, <2>4
  <2>6. InPursuit' = {next}
    BY <1>0, <1>7, <1>8, <2>2, <2>3, <2>4 DEF Active
  <2>7. Called' = CalledIn(st) \cup {next}
    BY <1>0, <1>7, <1>8, <2>3, <2>4 DEF Active
  <2> QED BY <1>9, <2>2, <2>3, <2>5, <2>6, <2>7
<1>10. CASE next = Nobody /\ SearchNext(st) /\ Settled(st) = {}
  <2>1. Pursued(st) = {} /\ Standing' = {} /\ Reachable(st) = Untried(st)
    BY <1>1, <1>2, <1>10
  <2>2. \A t \in Servers :
          mTransactionState'[t] = IF t \notin Untried(st) THEN st[t] ELSE "TERMINATED"
    BY <1>0, <1>3, <1>4, <1>10, <2>1
  <2>3. Left' = {}
    BY <1>7, <1>8, <2>2
  <2>4. InPursuit' = Pursued(st) /\ Called' = CalledIn(st)
    BY <1>7, <1>8, <2>2 DEF Active
  <2> QED BY <1>10, <2>1, <2>3, <2>4
<1>11. CASE next = Nobody /\ ~(SearchNext(st) /\ Settled(st) = {})
  <2>1. \A t \in Servers : mTransactionState'[t] = st[t]
    BY <1>2, <1>3, <1>4, <1>11
  <2>2. Left' = left /\ InPursuit' = Pursued(st) /\ Called' = CalledIn(st)
    BY <1>7, <1>8, <2>1
  <2>3. ASSUME Pursued(st) = {}, Standing' = {} PROVE left = {}
    BY <1>1, <1>5, <1>6, <1>7, <1>11, <2>3
  <2> QED BY <1>11, <2>2, <2>3
<1> QED BY <1>9, <1>10, <1>11

\* The three outcomes of a search: a server is called, the search goes on as
\* before, or it ends with the verdict.
Tries(st, left) ==
  /\ ~mDispatchedFinalResponse /\ UNCHANGED <<mDispatchedFinalResponse, dispatched>>
  /\ Standing' = {}
  /\ \E c \in left : /\ Left' = {d \in left : d > c} /\ InPursuit' = {c}
                     /\ Called' = CalledIn(st) \cup {c}

Waits(st, left) ==
  /\ mDispatchedFinalResponse \/ Pursued(st) # {}
  /\ UNCHANGED <<mDispatchedFinalResponse, dispatched>>
  /\ Left' = left /\ InPursuit' = Pursued(st) /\ Called' = CalledIn(st)

Ends(st, left) ==
  /\ ~mDispatchedFinalResponse /\ mDispatchedFinalResponse' = TRUE
  /\ \E r \in {"failure", "408"} : dispatched' = Append(dispatched, r)
  /\ Pursued(st) = {} /\ InPursuit' = {} /\ Called' = CalledIn(st)
  /\ \/ Left' = {} /\ Standing' = {}
     \/ Left' = left /\ (Left' = {} \/ Standing' # {})

LEMMA SearchOutcome ==
  ASSUME TypeOK, NEW st, NEW timers, NEW next \in Nexts,
         MidInv(st, timers), SearchMid(st, timers), SearchOrDispatch(st, timers, next),
         NEW left, left = Untried(st) \ mIsCanceled'
  PROVE  Begun' /\ (Tries(st, left) \/ Waits(st, left) \/ Ends(st, left))
<1>0. Begun'
  <2>1. Root \in Transactions /\ Root \notin Reachable(st)
    BY Numbers DEF Reachable, Untried
  <2> QED BY <2>1, SearchCallsNext DEF SearchOrDispatch, MidInv, Begun
<1>1. startSequentialSearch(st, timers, next)
  BY DEF SearchOrDispatch
<1>2. /\ st \in [Transactions -> States] /\ timers \in SUBSET Timers /\ InOrder(st)
      /\ mIsCanceled' \subseteq Transactions
      /\ \A c \in Answered' : c \in Servers /\ st[c] \notin Unsent
  BY DEF MidInv
<1>3. mDispatchedFinalResponse => next = Nobody
  BY SearchKeepsSettled DEF MidInv
<1>4. /\ next # Nobody =>
           /\ next \in left /\ Left' = {c \in left : c > next}
           /\ Standing' = {} /\ InPursuit' = {next} /\ Called' = CalledIn(st) \cup {next}
      /\ next = Nobody =>
           /\ Called' = CalledIn(st) /\ InPursuit' = Pursued(st)
           /\ Left' = left \/ (Left' = {} /\ Pursued(st) = {} /\ Standing' = {})
           /\ Pursued(st) = {} => Left' = {} \/ Standing' # {}
  BY <1>1, <1>2, SearchMoves
<1>5. mIsRecursing' <=> Pursued(st) # {} \/ next # Nobody
  BY <1>1 DEF startSequentialSearch
<1>6. CASE next # Nobody
  <2>1. UNCHANGED <<mDispatchedFinalResponse, dispatched>>
    BY <1>5, <1>6 DEF SearchOrDispatch
  <2> QED BY <1>0, <1>3, <1>4, <1>6, <2>1 DEF Tries
<1>7. CASE next = Nobody /\ (mDispatchedFinalResponse \/ Pursued(st) # {})
  <2>1. UNCHANGED <<mDispatchedFinalResponse, dispatched>>
    BY <1>5, <1>7 DEF SearchOrDispatch
  <2>2. ASSUME mDispatchedFinalResponse, Standing' = {}, Pursued(st) = {} PROVE left = {}
    <3>1. Root \in mIsCanceled' \/
          \A c \in Untried(st) :
            c \in mIsCanceled' \/ \E d \in 1..(c - 1) : d \in Answered' \ mIsCanceled'
      BY <2>2 DEF MidInv
    <3>2. \A c \in left : Root \in mIsCanceled'
      BY <2>2, <3>1 DEF Standing
    <3>3. Root \in mIsCanceled' => left = {}
      BY DEF SearchMid, Untried
    <3> QED BY <3>2, <3>3
  <2>3. Left' = left
    BY <1>4, <1>7, <2>2
  <2> QED BY <1>0, <1>4, <1>7, <2>1, <2>3 DEF Waits
<1>8. CASE next = Nobody /\ ~mDispatchedFinalResponse /\ Pursued(st) = {}
  <2>1. Dispatch(findBestResponse)
    BY <1>5, <1>8 DEF SearchOrDispatch
  <2>2. \A c \in Servers : mpLastFinalResponse'[c] # "2xx"
    BY <1>8 DEF SearchMid
  <2>3. findBestResponse \in {"failure", "408"}
    BY <2>2 DEF findBestResponse
  <2>4. /\ mDispatchedFinalResponse' = TRUE
        /\ \E r \in {"failure", "408"} : dispatched' = Append(dispatched, r)
    BY <2>1, <2>3 DEF Dispatch
  <2> QED BY <1>0, <1>4, <1>8, <2>4 DEF Ends
<1> QED BY <1>6, <1>7, <1>8

\* The search is over: nobody is pursued, and nobody is left or an answer stands.
Ended == Begun /\ InPursuit = {} /\ (Left = {} \/ Standing # {})

\* The root recurses and its expiration can still come.
Running == mIsRecursing /\ <<"expires", Root>> \in mTimers

EndInv == Begun /\ ~Running => Ended

\* A step that stops the root has ended the search.
EndsWell == Running' \/ ~Running \/ Ended'

\* A search after which the root does not recurse is over, and so is one that
\* found nobody to wait for and nobody to call.
LEMMA SearchEnds ==
  ASSUME NEW st, NEW timers, NEW next \in Nexts,
         MidInv(st, timers), SearchMid(st, timers), SearchOrDispatch(st, timers, next)
  PROVE  /\ ~mIsRecursing' => Ended'
         /\ Pursued(st) = {} /\ Untried(st) \ mIsCanceled' = {} => Ended'
         /\ <<"expires", Root>> \in timers => EndsWell
<1> DEFINE left == Untried(st) \ mIsCanceled'
<1>1. startSequentialSearch(st, timers, next)
  BY DEF SearchOrDispatch
<1>2. /\ st \in [Transactions -> States] /\ timers \in SUBSET Timers /\ InOrder(st)
      /\ \A c \in Answered' : c \in Servers /\ st[c] \notin Unsent
  BY DEF MidInv
<1>3. /\ next # Nobody => next \in left
      /\ next = Nobody =>
           /\ InPursuit' = Pursued(st)
           /\ Pursued(st) = {} => Left' = {} \/ Standing' # {}
  BY <1>1, <1>2, SearchMoves
<1>4. mIsRecursing' <=> Pursued(st) # {} \/ next # Nobody
  BY <1>1 DEF startSequentialSearch
<1>5. Begun'
  <2>1. Root \in Transactions /\ Root \notin Reachable(st)
    BY Numbers DEF Reachable, Untried
  <2> QED BY <1>1, <1>2, <2>1, SearchCallsNext DEF MidInv, Begun
<1>6. ~mIsRecursing' => Ended'
  BY <1>3, <1>4, <1>5 DEF Ended
<1>7. Pursued(st) = {} /\ left = {} => Ended'
  BY <1>3, <1>5 DEF Ended
<1>8. <<"expires", Root>> \in timers => <<"expires", Root>> \in mTimers'
  BY <1>1 DEF startSequentialSearch, Arm
<1> QED BY <1>6, <1>7, <1>8 DEF EndsWell, Running

SearchVars ==
  <<Begun, Left, Called, InPursuit, Standing, mDispatchedFinalResponse, dispatched,
    forwarded>>

\* A search that no new answer precedes is a step of the serial search: the
\* next call, a verdict, the end of a pursuit or nothing.
LEMMA SearchRefines ==
  ASSUME TreeInv, NEW st, NEW left, Tries(st, left) \/ Waits(st, left) \/ Ends(st, left),
         left = Left, Pursued(st) \subseteq InPursuit, CalledIn(st) = Called,
         Standing' = Standing, Begun, Begun', UNCHANGED forwarded
  PROVE  Search!Next \/ UNCHANGED SearchVars
<1>1. Left \subseteq Servers
  BY DEF Left, Untried
<1>2. CASE Tries(st, left)
  <2>1. PICK c \in Left : /\ Left' = {d \in Left : d > c} /\ InPursuit' = {c}
                          /\ Called' = Called \cup {c}
    BY <1>2 DEF Tries
  <2>2. Search!Call(c)
    BY <1>2, <2>1 DEF Tries, Search!Call, Search!Try, Search!After
  <2> QED BY <1>1, <2>2 DEF Search!Next
<1>3. CASE Waits(st, left)
  <2>1. InPursuit' = InPursuit
    <3>1. CASE mDispatchedFinalResponse
      BY <1>3, <3>1 DEF Waits, TreeInv, SettledAtFinal
    <3>2. CASE Pursued(st) # {}
      BY <1>3, <3>2 DEF Waits, TreeInv, OneServerAtATime
    <3> QED BY <1>3, <3>1, <3>2 DEF Waits
  <2> QED BY <1>3, <2>1 DEF Waits, SearchVars
<1>4. CASE Ends(st, left)
  <2>1. PICK r \in {"failure", "408"} : dispatched' = Append(dispatched, r)
    BY <1>4 DEF Ends
  <2>2. Search!Exhaust(r)
    BY <1>4, <2>1 DEF Ends, Search!Exhaust, Search!Verdict, Search!Stop
  <2> QED BY <2>2 DEF Search!Next
<1> QED BY <1>2, <1>3, <1>4

LEMMA SendRefines ==
  ASSUME IInv, SearchInv, NEW n \in Transactions, NEW next \in Nexts, Send(n, next)
  PROVE  SearchInv' /\ EndInv' /\ Search!Next
<1> DEFINE st == [t \in Transactions |->
               IF t = Root THEN "CONFIRMED"
               ELSE IF t <= n THEN "LOCALLY_INIITATED" ELSE "UNKNOWN"]
           named == {c \in Servers : c <= n}
<1>1. /\ mTransactionState[Root] = "LOCALLY_INIITATED"
      /\ mIsCanceled' = {} /\ Answered' = {} /\ mIsCanceled = {} /\ Answered = {}
      /\ ~mDispatchedFinalResponse'
      /\ UNCHANGED <<mDispatchedFinalResponse, dispatched, forwarded, mpLastFinalResponse>>
      /\ \A c \in Servers : mTransactionState[c] = "UNKNOWN"
  BY DEF Send, IInv, TreeInv, RootInv, Answered
<1>2. /\ st \in [Transactions -> States] /\ st[Root] = "CONFIRMED"
      /\ \A c \in Servers : st[c] = IF c \in named THEN "LOCALLY_INIITATED" ELSE "UNKNOWN"
  BY Numbers DEF States
<1>3. /\ next \in Reachable(st) \cup {Nobody} /\ mTransactionState' = FirstSend(st, next)
      /\ Arm(next, {<<"expires", Root>>})
  BY DEF Send
<1> HIDE DEF st
<1>4. Reachable(st) = named
  <2>1. Settled(st) = {}
    BY <1>1, <1>2 DEF Settled, Pursued, Active
  <2>2. Untried(st) = named
    BY <1>2 DEF Untried
  <2> QED BY <2>1, <2>2 DEF Reachable
<1>5. /\ mTransactionState'[Root] = "CONFIRMED"
      /\ \A c \in Servers :
           mTransactionState'[c] = IF c \notin named \/ c > next THEN st[c]
                                   ELSE IF c = next THEN "CALLING" ELSE "TERMINATED"
  BY <1>2, <1>3, <1>4, Numbers DEF FirstSend
<1>6. SearchInv'
  <2>1. CanceledTogether(mTransactionState)' /\ AnswersAreCalled' /\ SuccessIsTold'
    BY <1>1 DEF CanceledTogether, AnswersAreCalled, SuccessIsTold, SearchInv, Answered
  <2>2. TimersAreSent(mTransactionState)'
    <3> SUFFICES ASSUME NEW c \in Servers, <<"expires", c>> \in mTimers'
                 PROVE  mTransactionState'[c] \notin Unsent
      BY DEF TimersAreSent
    <3>1. c = next
      BY <1>3, Numbers DEF Arm
    <3>2. c \in named /\ ~(c > next)
      BY <1>3, <1>4, <3>1, Numbers DEF Nexts
    <3> QED BY <1>5, <3>1, <3>2 DEF Unsent
  <2> QED BY <2>1, <2>2 DEF SearchInv
<1>7. ~Begun /\ Begun'
  BY <1>1, <1>5 DEF Begun
<1>8. /\ Left = {} /\ Called = {} /\ InPursuit = {} /\ Standing = {} /\ Standing' = {}
  BY <1>1 DEF Left, Untried, Called, Sent, InPursuit, Active, Standing
<1>9. /\ Left' = {c \in Servers : mTransactionState'[c] = "LOCALLY_INIITATED"}
      /\ InPursuit' = {c \in Servers : mTransactionState'[c] \in Active}
      /\ Called' = {c \in Servers : mTransactionState'[c] \in Active \cup {"COMPLETE"}}
  BY <1>1 DEF Left, Untried, InPursuit, Called, Sent
<1>10. \A c \in Servers : c \in Int /\ ~(c > c)
  BY Numbers
<1>11. CASE next \in named
  <2>1. Left' = {d \in named : d > next} /\ InPursuit' = {next} /\ Called' = {next}
    BY <1>2, <1>5, <1>9, <1>10, <1>11 DEF Active
  <2>2. Search!Begin(named)
    BY <1>1, <1>7, <1>8, <1>11, <2>1 DEF Search!Begin, Search!Try, Search!After
  <2>3. next # Nobody
    BY <1>11, Numbers
  <2>4. Running'
    BY <1>3, <2>3 DEF Send, Arm, Running
  <2> QED BY <1>6, <2>2, <2>4 DEF Search!Next, EndInv
<1>12. CASE next \notin named
  <2>1. \A c \in named : ~(c > next) /\ c # next
    BY <1>3, <1>4, <1>12, MaxSrvRecordsAssumption DEF Nobody, Servers
  <2>2. Left' = {} /\ InPursuit' = {} /\ Called' = {}
    BY <1>2, <1>5, <1>9, <2>1 DEF Active
  <2>3. Search!Begin(named)
    BY <1>1, <1>7, <1>8, <2>2 DEF Search!Begin
  <2> QED BY <1>6, <1>7, <2>2, <2>3 DEF Search!Next, EndInv, Ended
<1> QED BY <1>11, <1>12

LEMMA ProvisionalRefines ==
  ASSUME IInv, SearchInv, NEW c \in Servers, Provisional(c)
  PROVE  SearchInv' /\ (Search!Next \/ UNCHANGED SearchVars)
<1>1. /\ mTransactionState[Root] = "CONFIRMED"
      /\ c \in Called
  BY RequestIsOut DEF IInv, TreeInv, Provisional, Called
<1>2. /\ \A d \in Transactions : d # c => mTransactionState'[d] = mTransactionState[d]
      /\ mTransactionState'[c] =
           IF mTransactionState[c] = "CALLING" THEN "PROCEEDING" ELSE mTransactionState[c]
      /\ mTransactionState[c] \in Active \cup {"COMPLETE"}
      /\ UNCHANGED <<mIsCanceled, mDispatchedFinalResponse, dispatched, forwarded, mTimers,
                     mpLastFinalResponse>>
  BY Numbers DEF IInv, TypeOK, Provisional, Sent
<1>3. Answered' = Answered \cup {c}
  BY DEF Provisional, Answered
<1>4. SearchInv'
  <2> DEFINE st == mTransactionState'
             timers == mTimers'
  <2>1. \A t \in Transactions : st[t] # mTransactionState[t] =>
           t \in Called /\ t \in CalledIn(st)
    BY <1>1, <1>2 DEF CalledIn, Active
  <2>2. \A d \in Servers : <<"expires", d>> \in timers => <<"expires", d>> \in mTimers
    BY <1>2
  <2> HIDE DEF st, timers
  <2>3. mIsCanceled' \subseteq Transactions
    BY <1>2 DEF IInv, TypeOK
  <2>4. SearchMid(st, timers)
    BY <1>1, <1>2, <1>3, <2>1, <2>2, <2>3, MidSearch
  <2>5. mTransactionState' = st /\ mTimers' = timers
    BY DEF st, timers
  <2> QED BY <1>2, <2>4, <2>5, MidStays
<1>5. Left' = Left /\ Called' = Called /\ InPursuit' = InPursuit
  BY <1>2, Numbers DEF Left, Untried, Called, Sent, InPursuit, Active
<1>6. Begun /\ Begun'
  BY <1>1, <1>2, Numbers DEF Begun
<1>7. CASE c \in mIsCanceled
  <2>1. Standing' = Standing
    BY <1>2, <1>3, <1>7 DEF Standing
  <2> QED BY <1>2, <1>4, <1>5, <1>6, <2>1 DEF SearchVars
<1>8. CASE c \notin mIsCanceled
  <2>1. Standing' = Standing \cup {c}
    BY <1>2, <1>3, <1>8 DEF Standing
  <2>2. Search!Hear(c)
    BY <1>1, <1>2, <1>5, <1>6, <2>1 DEF Search!Hear
  <2> QED BY <1>4, <2>2 DEF Search!Next
<1> QED BY <1>7, <1>8

LEMMA FinalOkRefines ==
  ASSUME IInv, SearchInv, NEW c \in Servers, FinalOk(c)
  PROVE  SearchInv' /\ Search!Next
<1>1. /\ mTransactionState[Root] = "CONFIRMED" /\ c \in Called
      /\ mTransactionState[c] \in Active \cup {"COMPLETE"}
  BY RequestIsOut DEF IInv, TreeInv, FinalOk, Called, Sent
<1>2. /\ mTransactionState' = Completed(c)
      /\ mIsCanceled' = mIsCanceled \cup Children
      /\ mDispatchedFinalResponse' = TRUE /\ dispatched' = Append(dispatched, "2xx")
      /\ UNCHANGED <<mTimers, forwarded>>
  BY DEF FinalOk, cancel, Dispatch
<1>3. /\ mTransactionState'[c] = "COMPLETE"
      /\ \A d \in Transactions : d # c => mTransactionState'[d] = mTransactionState[d]
  BY <1>2, Changes DEF IInv
<1>4. Answered' \subseteq Answered \cup {c}
  <2>1. /\ mpLastFinalResponse' = [mpLastFinalResponse EXCEPT ![c] = "2xx"]
        /\ UNCHANGED mpLastProvisionalResponse
    BY DEF FinalOk
  <2> QED BY <2>1 DEF Answered, IInv, TypeOK
<1>5. /\ Answered \subseteq Children /\ c \in Children /\ Answered \subseteq Called
      /\ \A d \in Servers : mTransactionState'[d] # "UNKNOWN" => d \in Children
  BY <1>1, <1>3, Numbers
  DEF SearchInv, AnswersAreCalled, Called, Sent, Active, Children, Answered
<1>6. SearchInv'
  <2>1. CanceledTogether(mTransactionState)'
    BY <1>2, <1>5 DEF CanceledTogether
  <2>2. TimersAreSent(mTransactionState)'
    BY <1>2, <1>3, Numbers DEF SearchInv, TimersAreSent, Unsent
  <2>3. AnswersAreCalled'
    BY <1>1, <1>3, <1>4, <1>5, Numbers DEF AnswersAreCalled, Called, Sent
  <2>4. SuccessIsTold'
    BY <1>2 DEF SuccessIsTold
  <2> QED BY <2>1, <2>2, <2>3, <2>4 DEF SearchInv
<1>7. Left' = {} /\ InPursuit' = {} /\ Standing' = {}
  BY <1>2, <1>4, <1>5 DEF Left, Untried, InPursuit, Active, Standing
<1>8. Called' = Called
  BY <1>1, <1>3, Numbers DEF Called, Sent
<1>9. Begun' = Begun
  BY <1>3, Numbers DEF Begun
<1>10. Search!Succeed
  BY <1>1, <1>2, <1>7, <1>8, <1>9 DEF Search!Succeed, Search!Stop, Search!Verdict
<1> QED BY <1>6, <1>10 DEF Search!Next

LEMMA NewFinalRefines ==
  ASSUME IInv, SearchInv, NEW c \in Servers, NEW code \in Finals, NewFinal(c, code)
  PROVE  SearchInv' /\ Search!Next
<1>1. /\ UNCHANGED <<mTransactionState, mIsCanceled, mDispatchedFinalResponse, mTimers,
                     mpLastProvisionalResponse, mpLastFinalResponse, dispatched>>
      /\ forwarded' = forwarded + 1
      /\ mpLastFinalResponse[c] # None
  BY DEF NewFinal
<1>2. UNCHANGED <<Answered, Left, Called, InPursuit, Standing, Begun>>
  BY <1>1 DEF Answered, Left, Untried, Called, Sent, InPursuit, Standing, Begun
<1>3. SearchInv'
  BY <1>1, <1>2
  DEF SearchInv, CanceledTogether, TimersAreSent, AnswersAreCalled, SuccessIsTold
<1>4. c \in Called
  BY <1>1 DEF SearchInv, AnswersAreCalled, Answered
<1>5. Search!Forward
  BY <1>1, <1>2, <1>4 DEF Search!Forward
<1> QED BY <1>3, <1>5 DEF Search!Next

LEMMA FinalFailureRefines ==
  ASSUME IInv, SearchInv, NEW c \in Servers, NEW code \in {"487", "failure"},
         NEW next \in Nexts, FinalFailure(c, code, next)
  PROVE  SearchInv' /\ EndsWell /\ (Search!Next \/ UNCHANGED SearchVars)
<1> DEFINE left == Untried(Completed(c)) \ mIsCanceled'
<1>1. /\ mTransactionState[Root] = "CONFIRMED" /\ c \in Called
      /\ mTransactionState[c] \in Active \cup {"COMPLETE"}
      /\ UNCHANGED <<mIsInvite, mIsCanceled, mpLastProvisionalResponse, mpCancel, appCancel,
                     forwarded>>
      /\ mpLastFinalResponse' = [mpLastFinalResponse EXCEPT ![c] = code]
  BY RequestIsOut DEF IInv, TreeInv, FinalFailure, Called, Sent
<1>2. Answered' = Answered \cup {c}
  BY <1>1, NoneAssumption DEF Answered, IInv, TypeOK
<1>3. /\ \A d \in Transactions : d # c => Completed(c)[d] = mTransactionState[d]
      /\ Completed(c)[c] = "COMPLETE" /\ Completed(c) \in [Transactions -> States]
  BY Changes, ChangeTypes DEF IInv
<1>4. SearchMid(Completed(c), mTimers)
  <2>1. \A t \in Transactions : Completed(c)[t] # mTransactionState[t] =>
          t \in Called /\ t \in CalledIn(Completed(c))
    BY <1>1, <1>3 DEF CalledIn
  <2>2. \A d \in Servers :
          mpLastFinalResponse'[d] = "2xx" => mpLastFinalResponse[d] = "2xx"
    BY <1>1 DEF IInv, TypeOK
  <2>3. mIsCanceled' \subseteq Transactions
    BY <1>1 DEF IInv, TypeOK
  <2> QED BY <1>1, <1>2, <2>1, <2>2, <2>3, MidSearch
<1>5. /\ left = Left /\ CalledIn(Completed(c)) = Called
      /\ Pursued(Completed(c)) = InPursuit \ {c}
  BY <1>1, <1>3, Numbers DEF Left, Untried, CalledIn, Called, Sent, Pursued, InPursuit, Active
<1>6. Standing' = IF c \in mIsCanceled THEN Standing ELSE Standing \cup {c}
  BY <1>1, <1>2 DEF Standing
<1>7. CASE mDispatchedFinalResponse
  <2>1. /\ mTransactionState' = Completed(c)
        /\ UNCHANGED <<mDispatchedFinalResponse, dispatched, mTimers>>
    BY <1>7 DEF FinalFailure
  <2>2. SearchInv' /\ EndsWell
    <3>1. UNCHANGED <<mIsRecursing, mTimers>>
      BY <1>7 DEF FinalFailure
    <3>2. EndsWell
      BY <3>1 DEF EndsWell, Running
    <3> QED BY <1>4, <2>1, <3>2, MidStays
  <2>3. Left' = Left /\ Called' = Called /\ Begun /\ Begun'
    BY <1>1, <1>3, <1>5, <2>1, Numbers DEF Left, Untried, Called, CalledIn, Sent, Begun
  <2>4. InPursuit' = InPursuit
    BY <1>1, <1>3, <1>7, <2>1, Numbers DEF InPursuit, IInv, TreeInv, SettledAtFinal, Active
  <2>5. CASE c \in mIsCanceled
    BY <1>1, <1>6, <2>1, <2>2, <2>3, <2>4, <2>5 DEF SearchVars
  <2>6. CASE c \notin mIsCanceled
    <3>1. Search!Hear(c)
      BY <1>1, <1>6, <2>1, <2>3, <2>4, <2>6 DEF Search!Hear
    <3> QED BY <2>2, <3>1 DEF Search!Next
  <2> QED BY <2>5, <2>6
<1>8. CASE ~mDispatchedFinalResponse
  <2>1. SearchOrDispatch(Completed(c), mTimers, next)
    BY <1>8 DEF FinalFailure
  <2>2. MidInv(Completed(c), mTimers)
    BY <1>8, FinalFailureKeeps
  <2>3. SearchInv' /\ EndsWell
    <3>1. SearchInv'
      BY <1>4, <2>1, <2>2, SearchKeepsSearch DEF MidInv
    <3>2. <<"expires", Root>> \in mTimers => EndsWell
      BY <1>4, <2>1, <2>2, SearchEnds
    <3> QED BY <3>1, <3>2 DEF EndsWell, Running
  <2>4. /\ \/ Tries(Completed(c), left) \/ Waits(Completed(c), left)
           \/ Ends(Completed(c), left)
        /\ Begun'
    BY <1>4, <2>1, <2>2, SearchOutcome DEF IInv
  <2>5. Begun /\ Begun'
    BY <1>1, <2>4 DEF Begun
  <2>6. CASE c \in mIsCanceled
    BY <1>1, <1>5, <1>6, <2>3, <2>4, <2>5, <2>6, SearchRefines DEF IInv
  <2>7. CASE c \notin mIsCanceled
    <3>1. Standing' = Standing \cup {c}
      BY <1>6, <2>7
    <3>2. CASE Waits(Completed(c), left)
      <4>1. c \notin InPursuit /\ InPursuit' = InPursuit
        BY <1>5, <1>8, <3>2 DEF Waits, IInv, TreeInv, OneServerAtATime
      <4>2. Search!Hear(c)
        BY <1>1, <1>5, <2>5, <3>1, <3>2, <4>1 DEF Waits, Search!Hear
      <4> QED BY <2>3, <4>2 DEF Search!Next
    <3>3. CASE Ends(Completed(c), left)
      <4>1. PICK r \in {"failure", "408"} : dispatched' = Append(dispatched, r)
        BY <3>3 DEF Ends
      <4>2. Search!Fail(c, r)
        BY <1>1, <1>5, <2>5, <3>1, <3>3, <4>1 DEF Ends, Search!Fail, Search!Verdict
      <4> QED BY <2>3, <4>2 DEF Search!Next
    <3>4. CASE Tries(Completed(c), left)
      BY <3>1, <3>4 DEF Tries
    <3> QED BY <2>4, <3>2, <3>3, <3>4
  <2> QED BY <2>6, <2>7
<1> QED BY <1>7, <1>8

LEMMA ResendRefines ==
  ASSUME IInv, SearchInv, NEW c \in Servers, NEW ok \in BOOLEAN, NEW next \in Nexts,
         Resend(c, ok, next)
  PROVE  SearchInv' /\ EndsWell /\ (Search!Next \/ UNCHANGED SearchVars)
<1>1. /\ mTransactionState[Root] = "CONFIRMED"
      /\ UNCHANGED <<mIsCanceled, mpLastProvisionalResponse, mpLastFinalResponse, forwarded>>
  BY RequestIsOut DEF IInv, TreeInv, Resend
<1>2. UNCHANGED <<Answered, Standing>>
  BY <1>1 DEF Answered, Standing
<1>3. CASE Silent(c) /\ timesSent[c] < Limit(c) /\ ok
  <2>1. UNCHANGED <<mTransactionState, mTimers, mDispatchedFinalResponse, dispatched>>
    BY <1>3 DEF Resend
  <2>2. EndsWell
    BY <1>3 DEF Resend, EndsWell, Running
  <2> QED BY <1>1, <1>2, <2>1, <2>2
          DEF SearchInv, CanceledTogether, TimersAreSent, AnswersAreCalled, SuccessIsTold,
              SearchVars, Begun, Left, Untried, Called, Sent, InPursuit
<1>4. CASE ~(Silent(c) /\ timesSent[c] < Limit(c) /\ ok)
  <2> DEFINE st == GiveUp(c)
             timers == mTimers \ {<<"resend", c>>}
             left == Untried(st) \ mIsCanceled'
  <2>1. SearchOrDispatch(st, timers, next) /\ MidInv(st, timers)
    BY <1>4, ResendKeeps DEF Resend
  <2>2. /\ \A d \in Transactions : d # c => st[d] = mTransactionState[d]
        /\ st[c] = IF mTransactionState[c] = "CALLING" THEN "COMPLETE"
                   ELSE mTransactionState[c]
    BY Changes DEF IInv
  <2>3. \A t \in Transactions : st[t] # mTransactionState[t] =>
          t \in Called /\ t \in CalledIn(st)
    BY <2>2 DEF Called, CalledIn, Sent, Active
  <2>4. /\ left = Left /\ CalledIn(st) = Called /\ Pursued(st) \subseteq InPursuit
    BY <1>1, <2>2, Numbers
    DEF Left, Untried, CalledIn, Called, Sent, Pursued, InPursuit, Active
  <2>5. /\ \A d \in Servers : <<"expires", d>> \in timers => <<"expires", d>> \in mTimers
        /\ mIsCanceled' \subseteq Transactions
    BY <1>1 DEF IInv, TypeOK
  <2> HIDE DEF st, timers, left
  <2>6. SearchMid(st, timers)
    BY <1>1, <1>2, <2>3, <2>5, MidSearch
  <2>7. SearchInv'
    BY <2>1, <2>6, SearchKeepsSearch DEF MidInv
  <2>9. EndsWell
    <3>1. <<"expires", Root>> \in timers => EndsWell
      BY <2>1, <2>6, SearchEnds
    <3>2. <<"expires", Root>> \in mTimers => <<"expires", Root>> \in timers
      BY DEF timers
    <3> QED BY <3>1, <3>2 DEF EndsWell, Running
  <2>8. Begun' /\ (Tries(st, left) \/ Waits(st, left) \/ Ends(st, left))
    BY <2>1, <2>6, SearchOutcome DEF IInv, left
  <2> QED BY <1>1, <1>2, <2>4, <2>7, <2>8, <2>9, SearchRefines DEF IInv, Begun
<1> QED BY <1>3, <1>4

LEMMA ExpiresRefines ==
  ASSUME IInv, SearchInv, NEW c \in Servers, NEW next \in Nexts, Expires(c, next)
  PROVE  SearchInv' /\ EndsWell /\ (Search!Next \/ UNCHANGED SearchVars)
<1> DEFINE st == mTransactionState
           timers == mTimers \ {<<"expires", c>>}
           left == Untried(st) \ mIsCanceled'
           expired == c \notin Answered /\ st[c] \in Active \cup {"LOCALLY_INIITATED"}
           cs == IF expired THEN {c} ELSE {}
<1>1. /\ st[Root] = "CONFIRMED" /\ <<"expires", c>> \in mTimers
      /\ UNCHANGED <<mpLastProvisionalResponse, mpLastFinalResponse, forwarded>>
      /\ SearchOrDispatch(st, timers, next) /\ MidInv(st, timers)
      /\ mIsCanceled' = mIsCanceled \cup cs
  BY RequestIsOut, ExpiresKeeps DEF IInv, TreeInv, Expires, cancel
<1>2. /\ Answered' = Answered
      /\ cs \subseteq Servers \ Answered /\ \A d \in cs : st[d] \notin Unsent
  BY <1>1 DEF Answered, SearchInv, TimersAreSent
<1>3. /\ left = Left /\ CalledIn(st) = Called /\ Pursued(st) \subseteq InPursuit
      /\ Standing' = Standing
  BY <1>1, <1>2
  DEF Left, Untried, CalledIn, Called, Sent, Pursued, InPursuit, Standing, Unsent
<1>4. \A d \in Servers : <<"expires", d>> \in timers => <<"expires", d>> \in mTimers
  OBVIOUS
<1>5. mIsCanceled' \subseteq Transactions
  BY <1>1, <1>2, Numbers DEF IInv, TypeOK
<1> HIDE DEF timers, left, cs
<1>6. SearchMid(st, timers)
  BY <1>1, <1>2, <1>4, <1>5, MidSearch
<1>7. SearchInv'
  BY <1>1, <1>6, SearchKeepsSearch DEF MidInv
<1>8. Begun' /\ (Tries(st, left) \/ Waits(st, left) \/ Ends(st, left))
  BY <1>1, <1>6, SearchOutcome DEF IInv, left
<1>9. EndsWell
  <2>1. <<"expires", Root>> \in timers => EndsWell
    BY <1>1, <1>6, SearchEnds
  <2>2. <<"expires", Root>> \in mTimers => <<"expires", Root>> \in timers
    BY Numbers DEF timers
  <2> QED BY <2>1, <2>2 DEF EndsWell, Running
<1> QED BY <1>1, <1>3, <1>7, <1>8, <1>9, SearchRefines DEF IInv, Begun

LEMMA ExpiresRootRefines ==
  ASSUME IInv, SearchInv, NEW next \in Nexts, ExpiresRoot(next)
  PROVE  SearchInv' /\ EndsWell /\ (Search!Next \/ UNCHANGED SearchVars)
<1> DEFINE st == mTransactionState
           timers == mTimers \ {<<"expires", Root>>}
           left == Untried(st) \ mIsCanceled'
           ends == mIsRecursing /\ Root \notin mIsCanceled
           cs == IF ends THEN Children \cup {Root} ELSE {}
<1>1. /\ st[Root] = "CONFIRMED"
      /\ UNCHANGED <<mpLastProvisionalResponse, mpLastFinalResponse, forwarded>>
      /\ SearchOrDispatch(st, timers, next) /\ MidInv(st, timers)
      /\ mIsCanceled' = mIsCanceled \cup cs
  BY RequestIsOut, ExpiresRootKeeps DEF IInv, TreeInv, RootInv, ExpiresRoot, cancel
<1>2. Answered' = Answered /\ CalledIn(st) = Called
  BY <1>1 DEF Answered, CalledIn, Called, Sent
<1>3. /\ \A d \in Servers : <<"expires", d>> \in timers => <<"expires", d>> \in mTimers
      /\ cs = {} \/ (cs = Children \cup {Root})
      /\ cs \subseteq Transactions
  BY Numbers DEF Children
<1>4. mIsCanceled' \subseteq Transactions
  BY <1>1, <1>3 DEF IInv, TypeOK
<1> HIDE DEF timers, left, cs
<1>5. SearchMid(st, timers)
  BY <1>1, <1>2, <1>3, <1>4, MidSearch
<1>6. SearchInv'
  BY <1>1, <1>4, <1>5, SearchKeepsSearch DEF MidInv
<1>7. Begun' /\ (Tries(st, left) \/ Waits(st, left) \/ Ends(st, left))
  BY <1>1, <1>5, SearchOutcome DEF IInv, left
<1>8. Pursued(st) = {} /\ left = {} => EndsWell
  <2>1. Pursued(st) = {} /\ left = {} => Ended'
    BY <1>1, <1>5, SearchEnds DEF left
  <2> QED BY <2>1 DEF EndsWell
<1>10. CASE cs = {}
  <2>1. left = Left /\ Pursued(st) \subseteq InPursuit /\ Standing' = Standing
    BY <1>1, <1>2, <1>10 DEF left, Left, Pursued, InPursuit, Standing
  <2>2. CASE ~mIsRecursing
    BY <1>1, <1>2, <1>6, <1>7, <2>1, <2>2, SearchRefines DEF IInv, Begun, EndsWell, Running
  <2>3. CASE mIsRecursing
    <3>1. Root \in mIsCanceled
      BY <1>10, <2>3 DEF cs
    <3>2. \A c \in Servers : st[c] # "UNKNOWN" => c \in mIsCanceled'
      BY <1>1, <3>1 DEF SearchInv, CanceledTogether
    <3>3. Pursued(st) = {} /\ left = {}
      BY <3>2 DEF Pursued, Active, left, Untried
    <3> QED BY <1>1, <1>2, <1>6, <1>7, <1>8, <2>1, <3>3, SearchRefines DEF IInv, Begun
  <2> QED BY <2>2, <2>3
<1>9. CASE cs = Children \cup {Root}
  <2>1. left = {} /\ Pursued(st) = {} /\ Standing' = {}
    <3>1. Called \subseteq Children /\ Untried(st) \subseteq Children
      BY DEF Called, Sent, Active, Children, Untried
    <3>2. Pursued(st) \subseteq Called \ mIsCanceled'
      BY DEF Pursued, Called, Sent
    <3>3. Children \subseteq mIsCanceled'
      BY <1>1, <1>9
    <3> QED BY <1>2, <3>1, <3>2, <3>3 DEF left, Standing, SearchInv, AnswersAreCalled
  <2>2. Begun /\ Begun'
    BY <1>1, <1>7 DEF Begun
  <2>3. CASE Tries(st, left)
    BY <2>1, <2>3 DEF Tries
  <2>4. CASE Waits(st, left)
    <3>1. Search!Abandon
      BY <1>1, <1>2, <2>1, <2>2, <2>4 DEF Waits, Search!Abandon, Search!Stop
    <3> QED BY <1>6, <1>8, <2>1, <3>1 DEF Search!Next
  <2>5. CASE Ends(st, left)
    <3>1. PICK r \in {"failure", "408"} : dispatched' = Append(dispatched, r)
      BY <2>5 DEF Ends
    <3>2. Search!Exhaust(r)
      BY <1>1, <1>2, <2>1, <2>2, <2>5, <3>1 DEF Ends, Search!Exhaust, Search!Stop, Search!Verdict
    <3> QED BY <1>6, <1>8, <2>1, <3>2 DEF Search!Next
  <2> QED BY <1>6, <1>7, <1>8, <2>1, <2>3, <2>4, <2>5
<1> QED BY <1>3, <1>9, <1>10

LEMMA AppCancelRootRefines ==
  ASSUME IInv, SearchInv, AppCancelRoot
  PROVE  SearchInv' /\ (Search!Next \/ UNCHANGED SearchVars)
<1> DEFINE cs == IF Root \in mIsCanceled THEN {} ELSE Children \cup {Root}
<1>1. /\ mTransactionState[Root] = "CONFIRMED" /\ mIsCanceled' = mIsCanceled \cup cs
      /\ UNCHANGED <<mTransactionState, mTimers, mDispatchedFinalResponse, dispatched,
                     forwarded, mpLastProvisionalResponse, mpLastFinalResponse>>
  BY DEF AppCancelRoot, cancel
<1>2. UNCHANGED <<Answered, Called, Begun>>
  BY <1>1 DEF Answered, Called, Sent, Begun
<1>3. cs = {} \/ cs = Children \cup {Root}
  OBVIOUS
<1> HIDE DEF cs
<1>4. SearchInv'
  <2>1. CanceledTogether(mTransactionState)'
    BY <1>1, <1>3 DEF SearchInv, CanceledTogether, Children
  <2>2. TimersAreSent(mTransactionState)' /\ AnswersAreCalled' /\ SuccessIsTold'
    BY <1>1, <1>2 DEF SearchInv, TimersAreSent, AnswersAreCalled, SuccessIsTold
  <2> QED BY <2>1, <2>2 DEF SearchInv
<1>5. CASE cs = {}
  <2>1. UNCHANGED <<Left, InPursuit, Standing>>
    BY <1>1, <1>2, <1>5 DEF Left, Untried, InPursuit, Standing
  <2> QED BY <1>1, <1>2, <1>4, <2>1 DEF SearchVars
<1>6. CASE cs = Children \cup {Root}
  <2>1. Called \subseteq Children /\ Untried(mTransactionState) \subseteq Children
    BY DEF Called, Sent, Active, Children, Untried
  <2>2. Left' = {} /\ InPursuit' = {} /\ Standing' = {}
    BY <1>1, <1>2, <1>6, <2>1
    DEF Left, Untried, InPursuit, Called, Sent, Standing, SearchInv, AnswersAreCalled
  <2>3. Search!Abandon
    BY <1>1, <1>2, <2>2 DEF Search!Abandon, Search!Stop
  <2> QED BY <1>4, <2>3 DEF Search!Next
<1> QED BY <1>3, <1>5, <1>6

LEMMA AppCancelChildRefines ==
  ASSUME IInv, SearchInv, NEW c \in Servers, NEW ok \in BOOLEAN, AppCancelChild(c, ok)
  PROVE  SearchInv' /\ UNCHANGED SearchVars
<1>1. /\ UNCHANGED <<mTransactionState, mIsCanceled, mDispatchedFinalResponse, dispatched,
                     forwarded, mpLastProvisionalResponse, mpLastFinalResponse>>
      /\ \A d \in Servers : <<"expires", d>> \in mTimers' => <<"expires", d>> \in mTimers
  BY DEF AppCancelChild
<1>2. UNCHANGED SearchVars /\ UNCHANGED Answered
  BY <1>1 DEF SearchVars, Answered, Begun, Left, Untried, Called, Sent, InPursuit, Standing
<1>3. UNCHANGED Called
  BY <1>2 DEF SearchVars
<1>4. SearchInv'
  BY <1>1, <1>2, <1>3
  DEF SearchInv, CanceledTogether, TimersAreSent, AnswersAreCalled, SuccessIsTold
<1> QED BY <1>2, <1>4

LEMMA CancelResendRefines ==
  ASSUME IInv, SearchInv, NEW c \in Servers, NEW ok \in BOOLEAN, CancelResend(c, ok)
  PROVE  SearchInv' /\ (Search!Next \/ UNCHANGED SearchVars)
<1> DEFINE st == mTransactionState'
           timers == mTimers'
<1>1. /\ UNCHANGED <<mIsCanceled, mDispatchedFinalResponse, dispatched, forwarded,
                     mpLastProvisionalResponse, mpLastFinalResponse>>
      /\ \A d \in Servers : <<"expires", d>> \in timers => <<"expires", d>> \in mTimers
      /\ st \in {mTransactionState, GiveUp(c)}
  BY DEF CancelResend
<1>2. UNCHANGED <<Answered, Standing>>
  BY <1>1 DEF Answered, Standing
<1>3. /\ \A d \in Transactions : d # c => st[d] = mTransactionState[d]
      /\ \/ st[c] = mTransactionState[c]
         \/ mTransactionState[c] = "CALLING" /\ st[c] = "COMPLETE"
  BY <1>1, Changes DEF IInv
<1>4. mTransactionState' = st /\ mTimers' = timers
  OBVIOUS
<1> HIDE DEF st, timers
<1>5. SearchInv'
  <2>1. \A t \in Transactions : st[t] # mTransactionState[t] =>
           t \in Called /\ t \in CalledIn(st)
    BY <1>3 DEF Called, CalledIn, Sent, Active
  <2>2. mIsCanceled' \subseteq Transactions
    BY <1>1 DEF IInv, TypeOK
  <2>3. SearchMid(st, timers)
    BY <1>1, <1>2, <2>1, <2>2, MidSearch
  <2> QED BY <1>1, <1>4, <2>3, MidStays
<1>6. /\ Left' = Left /\ Called' = Called /\ Begun' = Begun
      /\ InPursuit' \subseteq InPursuit
  BY <1>1, <1>3, <1>4, Numbers DEF Left, Untried, Called, Sent, Begun, InPursuit, Active
<1>7. InPursuit' = InPursuit \/ InPursuit' = {}
  BY <1>6 DEF IInv, TreeInv, OneServerAtATime
<1>8. InPursuit' = {} => Search!GiveUp
  BY <1>1, <1>2, <1>6 DEF Search!GiveUp
<1> QED BY <1>1, <1>2, <1>5, <1>6, <1>7, <1>8 DEF SearchVars, Search!Next

LEMMA CancelExpiresRefines ==
  ASSUME IInv, SearchInv, NEW c \in Servers, CancelExpires(c)
  PROVE  SearchInv' /\ (Search!Next \/ UNCHANGED SearchVars)
<1> DEFINE cs == IF c \notin Answered /\ mTransactionState[c] \in Active THEN {c} ELSE {}
<1>1. /\ UNCHANGED <<mTransactionState, mDispatchedFinalResponse, dispatched, forwarded,
                     mpLastProvisionalResponse, mpLastFinalResponse>>
      /\ mIsCanceled' = mIsCanceled \cup cs
      /\ \A d \in Servers : <<"expires", d>> \in mTimers' => <<"expires", d>> \in mTimers
  BY DEF CancelExpires, cancel
<1>2. /\ cs \subseteq Servers \ Answered
      /\ \A d \in cs : mTransactionState[d] \in Active
  OBVIOUS
<1> HIDE DEF cs
<1>3. UNCHANGED <<Answered, Called, Begun>>
  BY <1>1 DEF Answered, Called, Sent, Begun
<1>4. \A d \in cs : d # Root /\ mTransactionState[d] # "LOCALLY_INIITATED"
  BY <1>2, Numbers DEF Active
<1>5. SearchInv'
  <2>1. CanceledTogether(mTransactionState)'
    BY <1>1, <1>4 DEF SearchInv, CanceledTogether
  <2>2. TimersAreSent(mTransactionState)' /\ AnswersAreCalled' /\ SuccessIsTold'
    BY <1>1, <1>3 DEF SearchInv, TimersAreSent, AnswersAreCalled, SuccessIsTold
  <2> QED BY <2>1, <2>2 DEF SearchInv
<1>6. Left' = Left /\ Standing' = Standing /\ InPursuit' \subseteq InPursuit
  BY <1>1, <1>2, <1>3, <1>4 DEF Left, Untried, Standing, InPursuit
<1>7. InPursuit' = InPursuit \/ InPursuit' = {}
  BY <1>6 DEF IInv, TreeInv, OneServerAtATime
<1>8. InPursuit' = {} => Search!GiveUp
  BY <1>1, <1>3, <1>6 DEF Search!GiveUp
<1> QED BY <1>1, <1>3, <1>5, <1>6, <1>7, <1>8 DEF SearchVars, Search!Next

\* The steps that neither search nor touch the root's flag and timer.
LEMMA QuietEndsWell ==
  ASSUME \/ \E c \in Servers : Provisional(c) \/ FinalOk(c) \/ CancelTimer(c)
         \/ \E c \in Servers, code \in Finals : NewFinal(c, code)
         \/ AppCancel
  PROVE  EndsWell
<1>1. mIsRecursing' = mIsRecursing
  BY DEF Provisional, FinalOk, CancelTimer, CancelResend, CancelExpires, NewFinal, AppCancel,
         AppCancelRoot, AppCancelChild
<1>2. <<"expires", Root>> \in mTimers => <<"expires", Root>> \in mTimers'
  BY DEF Provisional, FinalOk, CancelTimer, CancelResend, CancelExpires, NewFinal, AppCancel,
         AppCancelRoot, AppCancelChild
<1> QED BY <1>1, <1>2 DEF EndsWell, Running

\* A serial search that is over stays so.
LEMMA EndedStays ==
  ASSUME Ended, Search!Next \/ UNCHANGED SearchVars
  PROVE  Ended'
<1> USE DEF Ended
<1>1. CASE UNCHANGED SearchVars
  BY <1>1 DEF SearchVars
<1>2. CASE \E named \in SUBSET Servers : Search!Begin(named)
  BY <1>2 DEF Search!Begin
<1>3. CASE \E c \in Servers : Search!Call(c)
  BY <1>3 DEF Search!Call, Search!Try
<1>4. CASE \E c \in Servers : Search!Hear(c)
  BY <1>4 DEF Search!Hear
<1>5. CASE Search!GiveUp \/ Search!Abandon \/ Search!Succeed
  BY <1>5 DEF Search!GiveUp, Search!Abandon, Search!Succeed, Search!Stop
<1>6. CASE Search!Forward
  BY <1>6 DEF Search!Forward
<1>7. CASE \E response \in {"failure", "408"} : Search!Exhaust(response)
  BY <1>7 DEF Search!Exhaust, Search!Stop
<1>8. CASE \E response \in {"failure", "408"}, c \in Servers : Search!Fail(c, response)
  BY <1>8 DEF Search!Fail
<1> QED BY <1>1, <1>2, <1>3, <1>4, <1>5, <1>6, <1>7, <1>8 DEF Search!Next

LEMMA InitSearch == Init => SearchInv /\ EndInv /\ Search!Init
<1> SUFFICES ASSUME Init PROVE SearchInv /\ EndInv /\ Search!Init
  OBVIOUS
<1>1. /\ Answered = {} /\ mIsCanceled = {} /\ mTimers = {}
      /\ ~mDispatchedFinalResponse /\ mDispatchedFinalResponse = FALSE
      /\ dispatched = <<>> /\ forwarded = 0
      /\ mTransactionState[Root] = "LOCALLY_INIITATED"
      /\ \A c \in Servers : mTransactionState[c] = "UNKNOWN" /\ mpLastFinalResponse[c] # "2xx"
  BY Numbers, NoneAssumption DEF Init, Answered
<1>2. SearchInv
  BY <1>1 DEF SearchInv, CanceledTogether, TimersAreSent, AnswersAreCalled, SuccessIsTold
<1>3. Begun = FALSE /\ Left = {} /\ Called = {} /\ InPursuit = {} /\ Standing = {}
  BY <1>1 DEF Begun, Left, Untried, Called, Sent, InPursuit, Active, Standing
<1> QED BY <1>1, <1>2, <1>3 DEF Search!Init, EndInv

LEMMA SearchStep ==
  IInv /\ SearchInv /\ [Next]_vars => SearchInv' /\ [Search!Next]_(Search!vars)
<1> SUFFICES ASSUME IInv, SearchInv, [Next]_vars
             PROVE  SearchInv' /\ (Search!Next \/ UNCHANGED SearchVars)
  BY DEF SearchVars, Search!vars
<1>1. CASE UNCHANGED vars
  <2>1. UNCHANGED <<Answered, Called, SearchVars>>
    BY <1>1
    DEF vars, SearchVars, Answered, Begun, Left, Untried, Called, Sent, InPursuit, Standing
  <2> QED BY <1>1, <2>1
          DEF vars, SearchInv, CanceledTogether, TimersAreSent, AnswersAreCalled, SuccessIsTold
<1>2. CASE \E n \in Transactions, next \in Nexts : Send(n, next)
  BY <1>2, SendRefines
<1>3. CASE \E c \in Servers : Respond(c)
  BY <1>3, ProvisionalRefines, FinalOkRefines, NewFinalRefines, FinalFailureRefines DEF Respond
<1>4. CASE \E c \in Servers : ResendTimer(c) \/ ExpiresTimer(c)
  BY <1>4, ResendRefines, ExpiresRefines DEF ResendTimer, ExpiresTimer
<1>5. CASE RootTimer
  BY <1>5, ExpiresRootRefines DEF RootTimer
<1>6. CASE AppCancel
  BY <1>6, AppCancelRootRefines, AppCancelChildRefines DEF AppCancel
<1>7. CASE \E c \in Servers : CancelTimer(c)
  BY <1>7, CancelResendRefines, CancelExpiresRefines DEF CancelTimer
<1> QED BY <1>1, <1>2, <1>3, <1>4, <1>5, <1>6, <1>7 DEF Next

LEMMA EndStep ==
  IInv /\ SearchInv /\ EndInv /\ [Next]_vars => EndInv'
<1> SUFFICES ASSUME IInv, SearchInv, EndInv, [Next]_vars PROVE EndInv'
  OBVIOUS
<1>1. Search!Next \/ UNCHANGED SearchVars
  BY SearchStep DEF SearchVars, Search!vars
<1>2. CASE \E n \in Transactions, next \in Nexts : Send(n, next)
  BY <1>2, SendRefines
<1>3. CASE EndsWell /\ (Begun' => Begun)
  <2>1. CASE Running \/ ~Begun
    BY <1>3, <2>1 DEF EndInv, EndsWell
  <2>2. CASE Begun /\ ~Running
    BY <1>1, <2>2, EndedStays DEF EndInv
  <2> QED BY <2>1, <2>2
<1>4. CASE UNCHANGED vars
  <2>1. UNCHANGED <<Begun, Running>>
    BY <1>4 DEF vars, Begun, Running
  <2> QED BY <1>3, <2>1 DEF EndsWell
<1>5. ASSUME Begun' /\ ~Begun, ~\E n \in Transactions, next \in Nexts : Send(n, next),
             ~UNCHANGED vars
      PROVE  FALSE
  <2>1. mTransactionState[Root] = "LOCALLY_INIITATED" /\ mTimers = {} /\ Answered = {}
    BY <1>5 DEF Begun, IInv, TreeInv, RootInv
  <2>2. \A c \in Servers : mTransactionState[c] = "UNKNOWN" /\ mpLastFinalResponse[c] = None
    BY <2>1 DEF IInv, TreeInv, RootInv, Answered
  <2> QED BY <1>5, <2>1, <2>2
          DEF Next, Respond, Provisional, FinalOk, NewFinal, FinalFailure, Sent, Active,
              ResendTimer, Resend, ExpiresTimer, Expires, RootTimer, ExpiresRoot, AppCancel,
              AppCancelRoot, AppCancelChild, CancelTimer, CancelResend, CancelExpires
<1>6. CASE \E c \in Servers : Respond(c)
  <2>1. EndsWell
    BY <1>6, QuietEndsWell, FinalFailureRefines DEF Respond
  <2> QED BY <1>2, <1>3, <1>4, <1>5, <2>1
<1>7. CASE \E c \in Servers : ResendTimer(c) \/ ExpiresTimer(c)
  <2>1. EndsWell
    BY <1>7, ResendRefines, ExpiresRefines DEF ResendTimer, ExpiresTimer
  <2> QED BY <1>2, <1>3, <1>4, <1>5, <2>1
<1>8. CASE RootTimer
  <2>1. EndsWell
    BY <1>8, ExpiresRootRefines DEF RootTimer
  <2> QED BY <1>2, <1>3, <1>4, <1>5, <2>1
<1>9. CASE AppCancel \/ \E c \in Servers : CancelTimer(c)
  <2>1. EndsWell
    BY <1>9, QuietEndsWell
  <2> QED BY <1>2, <1>3, <1>4, <1>5, <2>1
<1> QED BY <1>2, <1>4, <1>6, <1>7, <1>8, <1>9 DEF Next

\* A pursuit is one that the expiration of the request will end: the root is
\* recursing, and its timer is still to fire.
THEOREM Bounded == Spec => []PursuitIsBounded
<1>1. Spec => [](IInv /\ SearchInv /\ EndInv)
  BY InvInit, InvStep, InitSearch, SearchStep, EndStep, PTL DEF Spec
<1>2. IInv /\ EndInv => PursuitIsBounded
  <2> SUFFICES ASSUME IInv, EndInv, NEW c \in InPursuit
               PROVE  mIsRecursing /\ <<"expires", Root>> \in mTimers
    BY DEF PursuitIsBounded
  <2>1. Begun
    BY DEF InPursuit, Active, IInv, TreeInv, RootInv, Begun
  <2> QED BY <2>1 DEF EndInv, Ended, Running
<1> QED BY <1>1, <1>2, PTL

\* Whatever responses, timers and cancels cross, and whichever sends fail, the
\* tree of the client's transactions implements the serial search: no server is
\* called twice, out of order, past an answer that stands or after the verdict,
\* a failure is told once at most, and not before the search has come to its
\* end, and what servers say after their answer is passed on beside that.
THEOREM ImplementsSearch == Spec => SearchSpec
<1>1. Spec => [](IInv /\ SearchInv)
  BY InvInit, InvStep, InitSearch, SearchStep, PTL DEF Spec
<1> QED BY <1>1, InitSearch, SearchStep, PTL DEF Spec, SearchSpec, Search!Spec
=============================================================================
