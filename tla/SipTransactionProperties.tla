---------------------- MODULE SipTransactionProperties ----------------------
(* What the client transaction tree promises its application and its servers *)
EXTENDS SipTransaction

InPursuit == {c \in Servers \ mIsCanceled : mTransactionState[c] \in Active}
Started(c) == mTransactionState[c] = "LOCALLY_INIITATED"
                /\ mTransactionState'[c] = "CALLING"

\* The servers of a request are tried serially: whatever timers, responses and
\* cancels cross, no two are pursued at the same time (startSequentialSearch).
OneServerAtATime == \A c, d \in InPursuit : c = d

\* While a server is pursued the root is recursing and its own timer runs: else
\* the expiration of the request would be over, or would not cancel that server
\* (handleExpiresEvent tests mIsRecursing of the root).
PursuitIsBounded ==
  InPursuit # {} => mIsRecursing /\ <<"expires", Root>> \in mTimers

\* A server that is pursued and silent has the timer that gives it up: no
\* handler drops the timer without starting the next server.
SilenceIsTimed ==
  \A c \in InPursuit \ Answered :
    <<"resend", c>> \in mTimers /\ <<"expires", c>> \in mTimers

\* When the root has dispatched a final response no server is pursued any more:
\* the search is over or was canceled (handleChildIncoming).
SettledAtFinal == mDispatchedFinalResponse => InPursuit = {}

\* The tree tells at most one failure, and none after a success, although
\* failures, resend exhaustion and expirations each may end the search.  Further
\* finals of servers that have answered come beside it (forwarded).
OneFailure == \A i \in DOMAIN dispatched : dispatched[i] # "2xx" => i = 1

\* A canceled server that rings has been sent a CANCEL, whether it rang before
\* or after it was canceled (cancel, handleIncoming).
RingingIsCanceled ==
  mIsInvite => \A c \in Servers \cap mIsCanceled :
                 mTransactionState[c] = "PROCEEDING" => c \in mpCancel

\* The stack sends a CANCEL only to a server it heard a provisional response
\* from and that it gave up (the comment in cancel()); the application's own
\* CANCEL is another matter.
CancelAfterProvisional ==
  \A c \in mpCancel : c = appCancel \/ c \in mpLastProvisionalResponse \cap mIsCanceled

\* After a final response was dispatched no other server is called.
NoServerAfterFinal ==
  [][\A c \in Servers : Started(c) => ~mDispatchedFinalResponse]_vars

\* No server is called while an earlier one has answered and was not given up:
\* a caller is never connected to two servers at once (recurseDnsSrvChildren).
NoServerAfterAnswer ==
  [][\A c \in Servers : Started(c) =>
       \A d \in 1..(c - 1) : d \in Answered' => d \in mIsCanceled']_vars

\* What the search has left to call, has called, and has heard and not given up
Left     == Untried(mTransactionState) \ mIsCanceled
Called   == {c \in Servers : Sent(c)}
Standing == Answered \ mIsCanceled
Begun    == mTransactionState[Root] = "CONFIRMED"

\* To the application the tree is a serial search: each server is called at
\* most once and in order, none after the verdict or while an answer stands; the
\* tree tells at most one failure, and none while a server is left to try,
\* unless somebody has answered or the search was abandoned.  What servers
\* that have answered finally say later is passed through and changes nothing.
Search == INSTANCE SerialSearch WITH
  begun <- Begun, untried <- Left, called <- Called, pursued <- InPursuit,
  holding <- Standing, over <- mDispatchedFinalResponse, finals <- dispatched,
  further <- forwarded
SearchSpec == Search!Spec

\* Servers that stay silent give way: unless somebody answers, the application
\* cancels, or the whole request expires, every server is tried.
SilentServersGiveWay ==
  mTransactionState[Root] = "CONFIRMED" ~>
    \/ \A c \in Servers : mTransactionState[c] # "LOCALLY_INIITATED"
    \/ Answered # {} \/ appCancel # None \/ <<"expires", Root>> \notin mTimers

\* If the timer of the request fires, the tree gives the application a final
\* response, whatever the servers do.
AppHearsFinal ==
  WF_vars(RootTimer) =>
    (mTransactionState[Root] = "CONFIRMED" ~> dispatched # <<>>)
-----------------------------------------------------------------------------
(* What the comments say and the code does not do *)

\* "There is no server transaction, so cancel all of the children"
\* (SipUserAgent::send): after the application's CANCEL no server is called.
NoServerAfterCancel ==
  [][\A c \in Servers : Started(c) => appCancel = None]_vars
=============================================================================
