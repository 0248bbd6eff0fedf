------------------------- MODULE SipTransactionList -------------------------
(***************************************************************************)
(* How the tasks of a SipUserAgent share its transactions:                  *)
(* SipTransactionList (src/net/SipTransactionList.cpp) with the busy flag,  *)
(* the waiting list and the garbage collection of SipTransaction.           *)
(*                                                                         *)
(* A task that handles a message looks its transaction up under the list    *)
(* mutex, marks the whole transaction tree busy, works on it with the mutex *)
(* free, and marks it available again.  A task that finds it busy queues an *)
(* OsEvent on the topmost parent and waits at most thirty times one second; *)
(* then it pretends that the transaction does not exist.  The task that     *)
(* runs the user agent's own queue also collects old transactions.          *)
(*                                                                         *)
(* All transactions of the model have one hash (they belong to one call),   *)
(* so a lookup may match any of them.  A transaction is an address: it is   *)
(* allocated, deleted and, once no task holds the pointer, allocated again. *)
(***************************************************************************)
EXTENDS OsEvent, Naturals, Sequences, Functions

CONSTANTS
  Tasks,             \* application tasks, socket readers, the user agent
  UserAgent,         \* the SipUserAgent task, the only one that collects
  Transactions,      \* addresses the heap can give to a SipTransaction
  None,              \* no task, no transaction, no event
  OldAge             \* ticks without a touch that make a transaction old

ASSUME UserAgentAssumption == UserAgent \in Tasks
ASSUME NoneAssumption      == None \notin Tasks \cup Transactions \cup Events
ASSUME OldAgeAssumption    == OldAge \in Nat \ {0}

VARIABLES
  mTransactions,     \* the list
  allocated,         \* the transactions that are not deleted
  topParent,         \* getTopMostParent(), the transaction itself if none
  initiated,         \* those in state TRANSACTION_LOCALLY_INIITATED
  mIsBusy,           \* the busy flag of each transaction
  age,               \* ticks since mTimeStamp, at most OldAge
  mWaitingList,      \* the events queued on each transaction
  mListMutex,        \* the task that holds the list mutex, or None
  pc,                \* where each task is
  target,            \* the SipTransaction pointer each task works with
  child,             \* the new child a task is about to link
  event,             \* the event a task waits on, or is signalling
  late,              \* the wait has timed out at least once (waitTime > 1)
  gaveUp,            \* the last wait did not return OS_SUCCESS
  toSignal,          \* events a task still signals while it holds the mutex
  toDelete           \* transactionsToBeDeleted

listVars == <<mTransactions, allocated, topParent, initiated, mIsBusy, age,
              mWaitingList>>
taskVars == <<target, child, event, late, gaveUp, toSignal, toDelete>>
vars     == <<listVars, mListMutex, pc, taskVars, eventVars>>

Owning  == {"own", "link"}
Signals == {"test", "set", "post"}
Gives   == {"giveTest", "giveSet", "givePost"}
PC == {"idle", "none", "check", "waiting", "after", "delete"}
        \cup Owning \cup Signals \cup Gives

TypeOK ==
  /\ mTransactions \subseteq Transactions
  /\ allocated \subseteq Transactions
  /\ topParent \in [Transactions -> Transactions]
  /\ initiated \subseteq Transactions
  /\ mIsBusy \in [Transactions -> BOOLEAN]
  /\ age \in [Transactions -> 0..OldAge]
  /\ mWaitingList \in [Transactions -> Seq(Events)]
  /\ mListMutex \in Tasks \cup {None}
  /\ pc \in [Tasks -> PC]
  /\ target \in [Tasks -> Transactions \cup {None}]
  /\ child \in [Tasks -> Transactions \cup {None}]
  /\ event \in [Tasks -> Events \cup {None}]
  /\ late \in [Tasks -> BOOLEAN]
  /\ gaveUp \in [Tasks -> BOOLEAN]
  /\ toSignal \in [Tasks -> SUBSET Events]
  /\ toDelete \in [Tasks -> SUBSET Transactions]
  /\ EventTypeOK

Init ==
  /\ mTransactions = {} /\ allocated = {} /\ initiated = {}
  /\ topParent = [t \in Transactions |-> t]
  /\ mIsBusy = [t \in Transactions |-> FALSE]
  /\ age = [t \in Transactions |-> 0]
  /\ mWaitingList = [t \in Transactions |-> <<>>]
  /\ mListMutex = None
  /\ pc = [k \in Tasks |-> "idle"]
  /\ target = [k \in Tasks |-> None]
  /\ child = [k \in Tasks |-> None]
  /\ event = [k \in Tasks |-> None]
  /\ late = [k \in Tasks |-> FALSE]
  /\ gaveUp = [k \in Tasks |-> FALSE]
  /\ toSignal = [k \in Tasks |-> {}]
  /\ toDelete = [k \in Tasks |-> {}]
  /\ EventInit
-----------------------------------------------------------------------------
(* Transactions and their trees *)

Tree(t) == {u \in allocated : topParent[u] = topParent[t]}

BugSetBusyAlone(t, flag) ==
  mIsBusy' = [u \in Transactions |->
                IF u \in (IF flag THEN {t} ELSE Tree(t)) THEN flag ELSE mIsBusy[u]]

\* doMarkBusy from the topmost parent down
SetBusy(t, flag) ==
  mIsBusy' = [u \in Transactions |-> IF u \in Tree(t) THEN flag ELSE mIsBusy[u]]

BugTouchAlone(t) == age' = [age EXCEPT ![t] = 0]

\* touch(): one time stamp for the whole tree
Touch(t) ==
  age' = [u \in Transactions |-> IF u \in Tree(t) THEN 0 ELSE age[u]]

BugCollectableBusy(t) == age[t] = OldAge

\* what removeOldTransactions collects
Collectable(t) == age[t] = OldAge /\ ~mIsBusy[t]

BugMatchableInitiated(t) == t \in mTransactions

\* a transaction that never sent its request is not matched by a message
Matchable(t) == t \in mTransactions \ initiated

BugNotifyFirst(t, e) ==
  mWaitingList' = [mWaitingList EXCEPT ![topParent[t]] = <<e>> \o @]

\* notifyWhenAvailable: the queue of the topmost parent
NotifyWhenAvailable(t, e) ==
  mWaitingList' = [mWaitingList EXCEPT ![topParent[t]] = Append(@, e)]

BugNoneWaiting(ts) == {}

\* signalAllAvailable: everyone who waits for one of these
AllWaiting(ts) == UNION {Range(mWaitingList[t]) : t \in ts}

BugAddUntouched(t) ==
  /\ t \in Transactions \ allocated
  /\ \A k \in Tasks : target[k] # t
  /\ allocated' = allocated \cup {t}
  /\ mTransactions' = mTransactions \cup {t}
  /\ initiated' = initiated \cup {t}
  /\ topParent' = [topParent EXCEPT ![t] = t]
  /\ mIsBusy' = [mIsBusy EXCEPT ![t] = TRUE]
  /\ age' = [age EXCEPT ![t] = OldAge + 1]
  /\ mWaitingList' = [mWaitingList EXCEPT ![t] = <<>>]

\* new SipTransaction, marked busy before it is put in the list.  The heap
\* does not give an address again while a task still holds it.
AddTransaction(t) ==
  /\ t \in Transactions \ allocated
  /\ \A k \in Tasks : target[k] # t
  /\ allocated' = allocated \cup {t}
  /\ mTransactions' = mTransactions \cup {t}
  /\ initiated' = initiated \cup {t}
  /\ topParent' = [topParent EXCEPT ![t] = t]
  /\ mIsBusy' = [mIsBusy EXCEPT ![t] = TRUE]
  /\ age' = [age EXCEPT ![t] = 0]
  /\ mWaitingList' = [mWaitingList EXCEPT ![t] = <<>>]

Goto(k, label) == pc' = [pc EXCEPT ![k] = label]

\* the locals of waitUntilAvailable go out of scope
Leave(k, label) ==
  /\ Goto(k, label)
  /\ target' = [target EXCEPT ![k] = None]
  /\ event' = [event EXCEPT ![k] = None]
  /\ late' = [late EXCEPT ![k] = FALSE]
  /\ gaveUp' = [gaveUp EXCEPT ![k] = FALSE]
  /\ UNCHANGED <<child, toSignal, toDelete>>
-----------------------------------------------------------------------------
(* findTransactionFor and the creation of transactions *)

\* a message matches t: take it, or go and wait for it.  Only a transaction
\* that has sent its request is matched.
Found(k, t) ==
  /\ pc[k] = "idle" /\ mListMutex = None
  /\ Matchable(t)
  /\ target' = [target EXCEPT ![k] = t]
  /\ \/ /\ ~mIsBusy[t]
        /\ SetBusy(t, TRUE)
        /\ Goto(k, "own")
     \/ /\ mIsBusy[t]
        /\ Goto(k, "check")
        /\ UNCHANGED mIsBusy
  /\ UNCHANGED <<mTransactions, allocated, topParent, initiated, age,
       mWaitingList, mListMutex, child, event, late, gaveUp, toSignal,
       toDelete, eventVars>>

\* the message matches nothing
NotFound(k) ==
  /\ pc[k] = "idle" /\ mListMutex = None
  /\ Goto(k, "none")
  /\ UNCHANGED <<listVars, mListMutex, taskVars, eventVars>>

\* a request without a transaction gets a new one
NewTransaction(k, t) ==
  /\ pc[k] = "none" /\ mListMutex = None
  /\ AddTransaction(t)
  /\ target' = [target EXCEPT ![k] = t]
  /\ Goto(k, "own")
  /\ UNCHANGED <<mListMutex, child, event, late, gaveUp, toSignal, toDelete,
       eventVars>>

\* a response, or a timer event, without a transaction is dropped
DropMessage(k) ==
  /\ pc[k] = "none"
  /\ Goto(k, "idle")
  /\ UNCHANGED <<listVars, mListMutex, taskVars, eventVars>>

\* the owner sends, or first handles, the request of a member of its tree
SendRequest(k, t) ==
  /\ pc[k] = "own"
  /\ t \in Tree(target[k]) \cap initiated
  /\ initiated' = initiated \ {t}
  /\ UNCHANGED <<mTransactions, allocated, topParent, mIsBusy, age,
       mWaitingList, mListMutex, pc, taskVars, eventVars>>

\* the owner makes a child: it is in the list before it is linked
NewChild(k, t) ==
  /\ pc[k] = "own" /\ mListMutex = None
  /\ AddTransaction(t)
  /\ child' = [child EXCEPT ![k] = t]
  /\ Goto(k, "link")
  /\ UNCHANGED <<mListMutex, target, event, late, gaveUp, toSignal, toDelete,
       eventVars>>

LinkChild(k) ==
  /\ pc[k] = "link"
  /\ topParent' = [topParent EXCEPT ![child[k]] = topParent[target[k]]]
  /\ mIsBusy' = [mIsBusy EXCEPT ![child[k]] = mIsBusy[target[k]]]
  /\ child' = [child EXCEPT ![k] = None]
  /\ Goto(k, "own")
  /\ UNCHANGED <<mTransactions, allocated, initiated, age, mWaitingList,
       mListMutex, target, event, late, gaveUp, toSignal, toDelete, eventVars>>
-----------------------------------------------------------------------------
(* waitUntilAvailable *)

\* the transaction is gone, or free, or an event is queued for its release
CheckAvailable(k) ==
  LET t == target[k] IN
  /\ pc[k] = "check" /\ mListMutex = None
  /\ \/ /\ t \notin mTransactions
        /\ Leave(k, "none")
        /\ UNCHANGED <<mIsBusy, mWaitingList, eventVars>>
     \/ /\ t \in mTransactions /\ ~mIsBusy[t]
        /\ SetBusy(t, TRUE)
        /\ Goto(k, "own")
        /\ event' = [event EXCEPT ![k] = None]
        /\ late' = [late EXCEPT ![k] = FALSE]
        /\ UNCHANGED <<target, child, gaveUp, toSignal, toDelete, mWaitingList,
             eventVars>>
     \/ /\ t \in mTransactions /\ mIsBusy[t]
        /\ \E e \in Events :
             /\ NewEvent(e)
             /\ NotifyWhenAvailable(t, e)
             /\ event' = [event EXCEPT ![k] = e]
        /\ late' = [late EXCEPT ![k] = FALSE]
        /\ Goto(k, "waiting")
        /\ UNCHANGED <<mIsBusy, target, child, gaveUp, toSignal, toDelete>>
  /\ UNCHANGED <<mTransactions, allocated, topParent, initiated, age, mListMutex>>

\* the event is signalled
Wake(k) ==
  /\ pc[k] = "waiting"
  /\ TakeSem(event[k])
  /\ gaveUp' = [gaveUp EXCEPT ![k] = FALSE]
  /\ Goto(k, "giveTest")
  /\ UNCHANGED <<listVars, mListMutex, target, child, event, late, toSignal,
       toDelete>>

\* one second passes without a signal; the task waits again
WaitTimeout(k) ==
  /\ pc[k] = "waiting" /\ event[k] \notin mSignalSem /\ ~late[k]
  /\ late' = [late EXCEPT ![k] = TRUE]
  /\ UNCHANGED <<listVars, mListMutex, pc, target, child, event, gaveUp,
       toSignal, toDelete, eventVars>>

\* the thirtieth second passes without a signal
WaitGiveUp(k) ==
  /\ pc[k] = "waiting" /\ event[k] \notin mSignalSem /\ late[k]
  /\ gaveUp' = [gaveUp EXCEPT ![k] = TRUE]
  /\ Goto(k, "giveTest")
  /\ UNCHANGED <<listVars, mListMutex, target, child, event, late, toSignal,
       toDelete, eventVars>>

\* waitEvent->signal(-1), without the mutex: whoever signals second deletes
GiveTest(k) ==
  /\ pc[k] = "giveTest"
  /\ \/ /\ AlreadySignaled(event[k])
        /\ DeleteEvent(event[k])
        /\ Goto(k, "after")
     \/ /\ ~AlreadySignaled(event[k])
        /\ Goto(k, "giveSet")
        /\ UNCHANGED eventVars
  /\ UNCHANGED <<listVars, mListMutex, taskVars>>

GiveSet(k) ==
  /\ pc[k] = "giveSet"
  /\ SetSignaled(event[k])
  /\ Goto(k, "givePost")
  /\ UNCHANGED <<listVars, mListMutex, taskVars>>

GivePost(k) ==
  /\ pc[k] = "givePost"
  /\ PostSem(event[k])
  /\ Goto(k, "after")
  /\ UNCHANGED <<listVars, mListMutex, taskVars>>

\* a wait of more than a second dumps the transaction tree to the log; then
\* the task looks at the transaction again, unless it gave up
AfterWait(k) ==
  /\ pc[k] = "after"
  /\ \/ /\ gaveUp[k]
        /\ Leave(k, "none")
     \/ /\ ~gaveUp[k]
        /\ Goto(k, "check")
        /\ event' = [event EXCEPT ![k] = None]
        /\ UNCHANGED <<target, child, late, gaveUp, toSignal, toDelete>>
  /\ UNCHANGED <<listVars, mListMutex, eventVars>>

\* dumpTransactionTree() is about to read the transaction, without the mutex
DumpsTree(k) == pc[k] = "after" /\ late[k]
-----------------------------------------------------------------------------
(* markAvailable, and the signals sent with the mutex held *)

\* touch, mark the tree available and take the first event of the queue.  (The
\* error logged for a transaction that is not busy is out of reach: BusyIffHeld.)
MarkAvailable(k) ==
  LET t == target[k]
      top == topParent[t]
  IN
  /\ pc[k] = "own" /\ mListMutex = None
  /\ Touch(t)
  /\ SetBusy(t, FALSE)
  /\ target' = [target EXCEPT ![k] = None]
  /\ \/ /\ mWaitingList[top] = <<>>
        /\ Goto(k, "idle")
        /\ UNCHANGED <<mWaitingList, toSignal, mListMutex>>
     \/ /\ mWaitingList[top] # <<>>
        /\ mWaitingList' = [mWaitingList EXCEPT ![top] = Tail(@)]
        /\ toSignal' = [toSignal EXCEPT ![k] = {Head(mWaitingList[top])}]
        /\ mListMutex' = k
        /\ Goto(k, "test")
  /\ UNCHANGED <<mTransactions, allocated, topParent, initiated, child, event,
       late, gaveUp, toDelete, eventVars>>

\* waitingEvent->signal(1): an event whose waiter gave up is deleted
SignalTest(k, e) ==
  /\ pc[k] = "test" /\ e \in toSignal[k]
  /\ toSignal' = [toSignal EXCEPT ![k] = @ \ {e}]
  /\ \/ /\ AlreadySignaled(e)
        /\ DeleteEvent(e)
        /\ UNCHANGED <<pc, event>>
     \/ /\ ~AlreadySignaled(e)
        /\ event' = [event EXCEPT ![k] = e]
        /\ Goto(k, "set")
        /\ UNCHANGED eventVars
  /\ UNCHANGED <<listVars, mListMutex, target, child, late, gaveUp, toDelete>>

SignalSet(k) ==
  /\ pc[k] = "set"
  /\ SetSignaled(event[k])
  /\ Goto(k, "post")
  /\ UNCHANGED <<listVars, mListMutex, taskVars>>

SignalPost(k) ==
  /\ pc[k] = "post"
  /\ PostSem(event[k])
  /\ event' = [event EXCEPT ![k] = None]
  /\ Goto(k, "test")
  /\ UNCHANGED <<listVars, mListMutex, target, child, late, gaveUp, toSignal,
       toDelete>>

SignalDone(k) ==
  /\ pc[k] = "test" /\ toSignal[k] = {}
  /\ mListMutex' = None
  /\ Goto(k, IF toDelete[k] = {} THEN "idle" ELSE "delete")
  /\ UNCHANGED <<listVars, taskVars, eventVars>>
-----------------------------------------------------------------------------
(* removeOldTransactions *)

\* with the mutex held, the old transactions leave the list and everyone who
\* waits for one of them is signalled
RemoveOldTransactions(k) ==
  LET old  == {t \in mTransactions : Collectable(t)}
      tops == {topParent[t] : t \in old}
  IN
  /\ k = UserAgent /\ pc[k] = "idle" /\ mListMutex = None
  /\ old # {}
  /\ mTransactions' = mTransactions \ old
  /\ toDelete' = [toDelete EXCEPT ![k] = old]
  /\ toSignal' = [toSignal EXCEPT ![k] = AllWaiting(tops)]
  /\ mWaitingList' = [t \in Transactions |->
                        IF t \in tops THEN <<>> ELSE mWaitingList[t]]
  /\ mListMutex' = k
  /\ Goto(k, "test")
  /\ UNCHANGED <<allocated, topParent, initiated, mIsBusy, age, target, child,
       event, late, gaveUp, eventVars>>

\* and then, with the mutex free, they are deleted
DeleteTransactions(k) ==
  /\ pc[k] = "delete"
  /\ allocated' = allocated \ toDelete[k]
  /\ initiated' = initiated \ toDelete[k]
  /\ topParent' = [t \in Transactions |->
                     IF t \in toDelete[k] THEN t ELSE topParent[t]]
  /\ age' = [t \in Transactions |-> IF t \in toDelete[k] THEN 0 ELSE age[t]]
  /\ toDelete' = [toDelete EXCEPT ![k] = {}]
  /\ Goto(k, "idle")
  /\ UNCHANGED <<mTransactions, mIsBusy, mWaitingList, mListMutex, target,
       child, event, late, gaveUp, toSignal, eventVars>>

\* the clock advances
Tick ==
  /\ \E t \in mTransactions : age[t] < OldAge
  /\ age' = [t \in Transactions |->
               IF t \in allocated /\ age[t] < OldAge THEN age[t] + 1 ELSE age[t]]
  /\ UNCHANGED <<mTransactions, allocated, topParent, initiated, mIsBusy,
       mWaitingList, mListMutex, pc, taskVars, eventVars>>
-----------------------------------------------------------------------------
Signal(k) ==
  \/ \E e \in Events : SignalTest(k, e)
  \/ SignalSet(k) \/ SignalPost(k) \/ SignalDone(k)

\* what a task does once it has started to handle a message
Work(k) ==
  \/ DropMessage(k) \/ LinkChild(k) \/ MarkAvailable(k)
  \/ CheckAvailable(k) \/ Wake(k)
  \/ GiveTest(k) \/ GiveSet(k) \/ GivePost(k) \/ AfterWait(k)
  \/ Signal(k) \/ DeleteTransactions(k)

Next ==
  \/ \E k \in Tasks :
       \/ \E t \in Transactions :
            \/ Found(k, t) \/ NewTransaction(k, t)
            \/ SendRequest(k, t) \/ NewChild(k, t)
       \/ NotFound(k) \/ WaitTimeout(k) \/ WaitGiveUp(k)
       \/ RemoveOldTransactions(k)
       \/ Work(k)
  \/ Tick

Spec == Init /\ [][Next]_vars

\* a task that handles a message is scheduled until it is done with it; the
\* mutex is a queue, so a task that wants it infinitely often gets it.  No
\* fairness is assumed of messages, of timeouts or of the clock.
FairSpec == Spec /\ \A k \in Tasks : SF_vars(Work(k))
=============================================================================
