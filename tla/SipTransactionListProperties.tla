-------------------- MODULE SipTransactionListProperties --------------------
(***************************************************************************)
(* What the sharing of transactions between tasks must guarantee, and two   *)
(* promises of the comments in the code that it does not keep.              *)
(***************************************************************************)
EXTENDS SipTransactionList

\* The transactions a task works on with the list mutex free: the tree it has
\* locked and the child it has not linked yet.
Held(k) == IF pc[k] \in Owning THEN Tree(target[k]) \cup {child[k]} ELSE {}

\* Every transaction in the list is marked busy exactly while some task works
\* on it: no tree is left locked by nobody, and none is worked on unlocked
\* (markBusy, doMarkBusy, linkChild, markAvailable).
BusyIffHeld ==
  \A t \in mTransactions : mIsBusy[t] <=> \E k \in Tasks : t \in Held(k)

\* Two tasks never work on the same transaction tree, whichever of its members
\* each of them matched (findTransactionFor, waitUntilAvailable).
OneHolder ==
  \A k, l \in Tasks : k # l => Held(k) \cap Held(l) \subseteq {None}

\* A transaction a task works on is not collected under it: it stays in the
\* list and allocated, without the mutex (removeOldTransactions).
HeldInList ==
  \A k \in Tasks : Held(k) \subseteq (mTransactions \cap allocated) \cup {None}

\* A tree is collected whole or not at all: "or we end up with incomplete
\* transaction trees (i.e. deleted branches)" (removeOldTransactions, touch).
TreesWhole ==
  \A t, u \in allocated :
    topParent[t] = topParent[u] => (t \in mTransactions <=> u \in mTransactions)

\* Waiting tasks are queued on the topmost parent of a tree in the list, where
\* the release looks for them.  The destructor logs an error when a "non parent
\* has waiting events" (notifyWhenAvailable, signalNextAvailable).
WaitersOnTopmost ==
  \A t \in Transactions :
    mWaitingList[t] # <<>> => t \in mTransactions /\ topParent[t] = t

\* A task that waits can always still be woken: its event is queued on a
\* transaction in the list, is being signalled, or is signalled; collecting
\* the transaction loses nobody (signalAllAvailable).
WaiterReachable ==
  \A k \in Tasks : pc[k] = "waiting" =>
    \/ event[k] \in mSignalSem
    \/ \E t \in mTransactions : event[k] \in Range(mWaitingList[t])
    \/ \E l \in Tasks : \/ event[k] \in toSignal[l]
                        \/ pc[l] \in {"set", "post"} /\ event[l] = event[k]
-----------------------------------------------------------------------------
(* What the list promises *)

\* The trees of the transactions in the list, and those a task works on.
Trees == {Tree(t) : t \in mTransactions}
HeldTrees(k) == (IF pc[k] \in Owning THEN {Tree(target[k])} ELSE {})
                  \cup (IF pc[k] = "link" THEN {Tree(child[k])} ELSE {})

\* However lookups, waits, releases, new children and the collection interleave,
\* the tasks see a forest of trees that one task at a time takes and gives back:
\* the list implements TransactionTrees.
Forest == INSTANCE TransactionTrees WITH
  trees <- Trees, held <- [k \in Tasks |-> HeldTrees(k)]
TreesSpec == Forest!Spec
-----------------------------------------------------------------------------
(* Liveness *)

\* As long as no wait times out, every task that waits for a transaction is
\* woken: each release hands the tree to the first in the queue, who wakes the
\* next (markAvailable, signalNextAvailable).
WaitersAreWoken ==
  [](\A k \in Tasks : ~late[k]) =>
    \A k \in Tasks : pc[k] = "waiting" ~> pc[k] # "waiting"

\* A task that waits for a transaction that has been collected is told so at
\* once, not when its thirty seconds are over (removeOldTransactions).
CollectedIsReported ==
  \A k \in Tasks :
    /\ pc[k] = "waiting"
    /\ target[k] \notin mTransactions
    ~> pc[k] = "none"
-----------------------------------------------------------------------------
(* Promises that the code does not keep *)

\* "We set an event to be signaled when a transaction is released": when a
\* transaction is free, a task that waits for it has been signalled, or some
\* other task is on its way to take it.
NoStrandedWaiter ==
  \A k \in Tasks :
    /\ pc[k] = "waiting" /\ event[k] \notin mSignalSem
    /\ target[k] \in mTransactions /\ ~mIsBusy[target[k]]
    /\ mListMutex = None
    => \E l \in Tasks :
         /\ target[l] \in Tree(target[k])
         /\ \/ pc[l] \in {"check", "after"} \cup Gives
            \/ pc[l] = "waiting" /\ event[l] \in mSignalSem

\* "An external mutex must be used to serialize access": of the two sides that
\* signal an event, the one that comes second deletes it, and neither touches
\* it once it is deleted.
EventsLive ==
  \A k \in Tasks :
    pc[k] \in Gives \cup {"set", "post"} => event[k] \in liveEvents
=============================================================================
