------------------ MODULE SipTransactionListWaitersProofs ------------------
(***************************************************************************)
(* Proofs, for any number of tasks, transactions and events, that a task    *)
(* that waits for a transaction is queued where the release and the         *)
(* collection look for it, and that neither of them loses it; and that two  *)
(* promises the code breaks are kept as long as no wait is given up.        *)
(***************************************************************************)
EXTENDS SipTransactionListProofs, SequenceTheorems
-----------------------------------------------------------------------------
(* Where the waiters are queued *)

\* A child that is not linked yet was never matched: nobody waits for it.
UnlinkedInv ==
  \A k \in Tasks : pc[k] = "link" =>
    /\ child[k] \in initiated /\ mWaitingList[child[k]] = <<>>
    /\ \A l \in Tasks : target[l] # child[k]

TopInv == WaitersOnTopmost /\ UnlinkedInv

LEMMA TopInit == Init => TopInv
  BY DEF Init, TopInv, WaitersOnTopmost, UnlinkedInv

\* a step that touches neither the list nor its queues
LEMMA TopQuiet ==
  ASSUME IInv, TopInv,
         UNCHANGED <<mTransactions, topParent, initiated, mWaitingList, child>>,
         \A l \in Tasks : /\ pc'[l] = "link" <=> pc[l] = "link"
                          /\ target'[l] = target[l] \/ target'[l] = None
  PROVE  TopInv'
<1>1. WaitersOnTopmost'
  BY DEF TopInv, WaitersOnTopmost
<1>2. \A k \in Tasks : pc[k] = "link" => child[k] # None
  BY NoneAssumption DEF IInv, TypeInv, PointerInv
<1>3. UnlinkedInv'
  BY <1>2 DEF TopInv, UnlinkedInv
<1> QED BY <1>1, <1>3 DEF TopInv

\* a queue that a step empties, or takes an event from, stays where it is
LEMMA TopFewer ==
  ASSUME IInv, TopInv, UNCHANGED <<topParent, initiated, child>>,
         \A t \in Transactions :
           mWaitingList'[t] # <<>> =>
             mWaitingList[t] # <<>> /\ (t \in mTransactions => t \in mTransactions'),
         \A l \in Tasks : /\ pc'[l] = "link" <=> pc[l] = "link"
                          /\ target'[l] = target[l] \/ target'[l] = None
  PROVE  TopInv'
<1>1. WaitersOnTopmost'
  BY DEF TopInv, WaitersOnTopmost
<1>2. \A k \in Tasks : pc[k] = "link" => child[k] # None /\ child[k] \in Transactions
  BY NoneAssumption DEF IInv, TypeInv, PointerInv
<1>3. UnlinkedInv'
  BY <1>2 DEF TopInv, UnlinkedInv
<1> QED BY <1>1, <1>3 DEF TopInv

\* a child that is not linked is no member of another task's tree
LEMMA ChildAlone ==
  ASSUME IInv, NEW k \in Tasks, pc[k] = "link"
  PROVE  /\ child[k] \in mTransactions /\ child[k] \in allocated
         /\ child[k] \in Transactions
         /\ topParent[child[k]] = child[k]
         /\ \A u \in allocated : topParent[u] = child[k] => u = child[k]
  BY DEF IInv, SafeInv, HolderInv, ListInv, TypeInv, TypeOK

\* a new transaction has an empty queue, as has its address before
LEMMA TopAdd ==
  ASSUME IInv, TopInv, NEW t \in Transactions, AddTransaction(t)
  PROVE  /\ mWaitingList' = mWaitingList
         /\ WaitersOnTopmost'
         /\ \A k \in Tasks : pc[k] = "link" =>
              /\ child[k] # t /\ child[k] \in initiated'
              /\ mWaitingList'[child[k]] = <<>>
<1>1. t \notin mTransactions /\ t \notin allocated
  BY DEF AddTransaction, IInv, SafeInv, ListInv
<1>2. mWaitingList[t] = <<>>
  BY <1>1 DEF TopInv, WaitersOnTopmost
<1>3. mWaitingList' = mWaitingList
  BY <1>2 DEF AddTransaction, IInv, TypeInv, TypeOK
<1>4. WaitersOnTopmost'
  BY <1>2, <1>3 DEF AddTransaction, TopInv, WaitersOnTopmost, IInv, TypeInv, TypeOK
<1>5. \A k \in Tasks : pc[k] = "link" =>
        child[k] # t /\ child[k] \in initiated' /\ mWaitingList'[child[k]] = <<>>
  BY <1>1, <1>3, ChildAlone DEF AddTransaction, TopInv, UnlinkedInv
<1> QED BY <1>3, <1>4, <1>5

LEMMA TopStep == IInv /\ TopInv /\ [Next]_vars => TopInv'
<1> SUFFICES ASSUME IInv, TopInv, [Next]_vars PROVE TopInv'
  OBVIOUS
<1> USE DEF Goto
<1>0. TypeInv /\ TypeOK
  BY DEF IInv, TypeInv
<1>1. ASSUME NEW k \in Tasks, NEW t \in Transactions, Found(k, t)
      PROVE  TopInv'
  <2>1. /\ UNCHANGED <<mTransactions, topParent, initiated, mWaitingList, child>>
        /\ target' = [target EXCEPT ![k] = t] /\ t \notin initiated
        /\ \A l \in Tasks : pc'[l] = "link" <=> pc[l] = "link"
    BY <1>0, <1>1 DEF Found, Matchable, TypeOK
  <2>2. WaitersOnTopmost'
    BY <2>1 DEF TopInv, WaitersOnTopmost
  <2>3. UnlinkedInv'
    BY <1>0, <2>1 DEF TopInv, UnlinkedInv, TypeOK
  <2> QED BY <2>2, <2>3 DEF TopInv
<1>2. ASSUME NEW k \in Tasks, NEW t \in Transactions, NewTransaction(k, t)
      PROVE  TopInv'
  <2>1. /\ AddTransaction(t) /\ child' = child
        /\ target' = [target EXCEPT ![k] = t]
        /\ \A l \in Tasks : pc'[l] = "link" <=> pc[l] = "link"
    BY <1>0, <1>2 DEF NewTransaction, TypeOK
  <2>2. UnlinkedInv'
    BY <1>0, <2>1, TopAdd DEF TopInv, UnlinkedInv, TypeOK
  <2> QED BY <2>1, <2>2, TopAdd DEF TopInv
<1>3. ASSUME NEW k \in Tasks, NEW t \in Transactions, SendRequest(k, t)
      PROVE  TopInv'
  <2>1. /\ UNCHANGED <<mTransactions, topParent, mWaitingList, child, target, pc>>
        /\ initiated' = initiated \ {t} /\ t \in Tree(target[k]) /\ pc[k] = "own"
    BY <1>3 DEF SendRequest, taskVars
  <2>2. \A l \in Tasks : pc[l] = "link" => child[l] # t
    <3> SUFFICES ASSUME NEW l \in Tasks, pc[l] = "link", child[l] = t PROVE FALSE
      OBVIOUS
    <3>1. topParent[t] = t /\ topParent[target[k]] = t
      BY <2>1, ChildAlone DEF Tree
    <3>2. target[k] \in allocated
      BY <2>1 DEF IInv, SafeInv, HolderInv, ListInv, Owning
    <3>3. target[k] = child[l]
      BY <3>1, <3>2, ChildAlone
    <3> QED BY <3>3 DEF TopInv, UnlinkedInv
  <2>3. WaitersOnTopmost'
    BY <2>1 DEF TopInv, WaitersOnTopmost
  <2>4. UnlinkedInv'
    BY <2>1, <2>2 DEF TopInv, UnlinkedInv
  <2> QED BY <2>3, <2>4 DEF TopInv
<1>4. ASSUME NEW k \in Tasks, NEW t \in Transactions, NewChild(k, t)
      PROVE  TopInv'
  <2>1. /\ AddTransaction(t) /\ target' = target
        /\ child' = [child EXCEPT ![k] = t] /\ pc' = [pc EXCEPT ![k] = "link"]
    BY <1>4 DEF NewChild
  <2>2. t \in initiated' /\ mWaitingList'[t] = <<>> /\ \A l \in Tasks : target[l] # t
    BY <1>0, <2>1 DEF AddTransaction, TypeOK
  <2>3. UnlinkedInv'
    BY <1>0, <2>1, <2>2, TopAdd DEF TopInv, UnlinkedInv, TypeOK
  <2> QED BY <2>1, <2>3, TopAdd DEF TopInv
<1>5. ASSUME NEW k \in Tasks, LinkChild(k)
      PROVE  TopInv'
  <2>1. /\ UNCHANGED <<mTransactions, initiated, mWaitingList, target>>
        /\ pc[k] = "link"
        /\ topParent' = [topParent EXCEPT ![child[k]] = topParent[target[k]]]
        /\ child' = [child EXCEPT ![k] = None] /\ pc' = [pc EXCEPT ![k] = "own"]
    BY <1>5 DEF LinkChild
  <2>2. mWaitingList[child[k]] = <<>>
    BY <2>1 DEF TopInv, UnlinkedInv
  <2>3. WaitersOnTopmost'
    BY <1>0, <2>1, <2>2 DEF TopInv, WaitersOnTopmost, TypeOK
  <2>4. UnlinkedInv'
    BY <1>0, <2>1 DEF TopInv, UnlinkedInv, TypeOK
  <2> QED BY <2>3, <2>4 DEF TopInv
<1>6. ASSUME NEW k \in Tasks,
             \/ NotFound(k) \/ DropMessage(k) \/ WaitTimeout(k)
             \/ WaitGiveUp(k) \/ Wake(k)
             \/ GiveTest(k) \/ GiveSet(k) \/ GivePost(k)
      PROVE  TopInv'
  <2>1. /\ UNCHANGED <<mTransactions, topParent, initiated, mWaitingList, child, target>>
        /\ \A l \in Tasks : pc'[l] = "link" <=> pc[l] = "link"
    BY <1>0, <1>6 DEF NotFound, DropMessage, WaitTimeout, WaitGiveUp, Wake, GiveTest,
         GiveSet, GivePost, listVars, taskVars, TypeOK
  <2> QED BY <2>1, TopQuiet
<1>7. ASSUME NEW k \in Tasks, AfterWait(k)
      PROVE  TopInv'
  <2>1. /\ UNCHANGED <<mTransactions, topParent, initiated, mWaitingList, child>>
        /\ \A l \in Tasks : /\ pc'[l] = "link" <=> pc[l] = "link"
                            /\ target'[l] = target[l] \/ target'[l] = None
    BY <1>0, <1>7 DEF AfterWait, Leave, listVars, TypeOK
  <2> QED BY <2>1, TopQuiet
<1>8. ASSUME NEW k \in Tasks, CheckAvailable(k)
      PROVE  TopInv'
  <2> DEFINE t == target[k]
  <2>0. /\ UNCHANGED <<mTransactions, topParent, initiated>> /\ pc[k] = "check"
        /\ t \in Transactions
    BY <1>0, <1>8 DEF CheckAvailable, TypeInv, PointerInv
  <2>1. CASE t \notin mTransactions \/ ~mIsBusy[t]
    <3>1. /\ UNCHANGED <<mWaitingList, child>>
          /\ \A l \in Tasks : /\ pc'[l] = "link" <=> pc[l] = "link"
                              /\ target'[l] = target[l] \/ target'[l] = None
      BY <1>0, <1>8, <2>1 DEF CheckAvailable, Leave, TypeOK
    <3> QED BY <2>0, <3>1, TopQuiet
  <2>2. CASE t \in mTransactions /\ mIsBusy[t]
    <3>1. PICK e \in Events : mWaitingList' =
              [mWaitingList EXCEPT ![topParent[t]] = Append(mWaitingList[topParent[t]], e)]
      BY <1>8, <2>2 DEF CheckAvailable, NotifyWhenAvailable
    <3>2. /\ UNCHANGED <<child, target>>
          /\ \A l \in Tasks : pc'[l] = "link" <=> pc[l] = "link"
      BY <1>0, <1>8, <2>2 DEF CheckAvailable, TypeOK
    <3>3. /\ topParent[t] \in mTransactions /\ topParent[topParent[t]] = topParent[t]
          /\ t \in allocated
      BY <2>2 DEF IInv, SafeInv, TreeInv, ListInv
    <3>4. WaitersOnTopmost'
      BY <1>0, <2>0, <3>1, <3>3 DEF TopInv, WaitersOnTopmost, TypeOK
    <3>5. \A l \in Tasks : pc[l] = "link" => child[l] # topParent[t]
      BY <3>3, ChildAlone DEF TopInv, UnlinkedInv
    <3>6. UnlinkedInv'
      BY <1>0, <2>0, <3>1, <3>2, <3>5, ChildAlone DEF TopInv, UnlinkedInv, TypeOK
    <3> QED BY <3>4, <3>6 DEF TopInv
  <2> QED BY <2>1, <2>2
<1>9. ASSUME NEW k \in Tasks, MarkAvailable(k)
      PROVE  TopInv'
  <2> DEFINE top == topParent[target[k]]
  <2>1. /\ UNCHANGED <<mTransactions, topParent, initiated, child>>
        /\ \A l \in Tasks : /\ pc'[l] = "link" <=> pc[l] = "link"
                            /\ target'[l] = target[l] \/ target'[l] = None
    BY <1>0, <1>9 DEF MarkAvailable, TypeOK
  <2>2. \A t \in Transactions : mWaitingList'[t] # <<>> => mWaitingList[t] # <<>>
    BY <1>0, <1>9 DEF MarkAvailable, TypeOK
  <2> QED BY <2>1, <2>2, TopFewer
<1>10. ASSUME NEW k \in Tasks,
             \/ \E e \in Events : SignalTest(k, e)
             \/ SignalSet(k) \/ SignalPost(k) \/ SignalDone(k)
      PROVE  TopInv'
  <2>1. /\ UNCHANGED <<mTransactions, topParent, initiated, mWaitingList, child, target>>
        /\ \A l \in Tasks : pc'[l] = "link" <=> pc[l] = "link"
    BY <1>0, <1>10 DEF SignalTest, SignalSet, SignalPost, SignalDone, listVars, taskVars, TypeOK
  <2> QED BY <2>1, TopQuiet
<1>11. ASSUME NEW k \in Tasks, RemoveOldTransactions(k)
      PROVE  TopInv'
  <2> DEFINE old  == {t \in mTransactions : Collectable(t)}
             tops == {topParent[t] : t \in old}
  <2>1. /\ UNCHANGED <<topParent, initiated, child, target>>
        /\ mTransactions' = mTransactions \ old
        /\ mWaitingList' = [t \in Transactions |-> IF t \in tops THEN <<>> ELSE mWaitingList[t]]
        /\ \A l \in Tasks : pc'[l] = "link" <=> pc[l] = "link"
    BY <1>0, <1>11 DEF RemoveOldTransactions, TypeOK
  <2>2. \A t \in Transactions : mWaitingList'[t] # <<>> =>
          mWaitingList[t] # <<>> /\ (t \in mTransactions => t \in mTransactions')
    BY <2>1 DEF TopInv, WaitersOnTopmost
  <2> QED BY <2>1, <2>2, TopFewer
<1>12. ASSUME NEW k \in Tasks, DeleteTransactions(k)
      PROVE  TopInv'
  <2>1. /\ UNCHANGED <<mTransactions, mWaitingList, child, target>>
        /\ initiated' = initiated \ toDelete[k]
        /\ topParent' = [t \in Transactions |-> IF t \in toDelete[k] THEN t ELSE topParent[t]]
        /\ \A l \in Tasks : pc'[l] = "link" <=> pc[l] = "link"
    BY <1>0, <1>12 DEF DeleteTransactions, TypeOK
  <2>2. toDelete[k] \cap mTransactions = {}
    BY DEF IInv, SafeInv, ListInv
  <2>3. WaitersOnTopmost'
    BY <2>1 DEF TopInv, WaitersOnTopmost
  <2>4. UnlinkedInv'
    BY <2>1, <2>2, ChildAlone DEF TopInv, UnlinkedInv
  <2> QED BY <2>3, <2>4 DEF TopInv
<1>13. CASE Tick
  BY <1>13, TopQuiet DEF Tick, taskVars
<1>14. CASE UNCHANGED vars
  BY <1>14, TopQuiet DEF vars, listVars, taskVars
<1> QED
  BY <1>1, <1>2, <1>3, <1>4, <1>5, <1>6, <1>7, <1>8, <1>9, <1>10, <1>11, <1>12, <1>13, <1>14
  DEF Next, Work, Signal

LEMMA TopSpec == Spec => [](IInv /\ TopInv)
<1>1. Init => IInv /\ TopInv
  BY TypeInit, SafeInit, TopInit DEF IInv
<1>2. IInv /\ TopInv /\ [Next]_vars => (IInv /\ TopInv)'
  BY TypeStep, SafeStep, TopStep DEF IInv
<1> QED BY <1>1, <1>2, PTL DEF Spec

\* Who waits is queued on the topmost parent of a tree in the list.
THEOREM QueuedOnTopmost == Spec => []WaitersOnTopmost
<1>1. TopInv => WaitersOnTopmost
  BY DEF TopInv
<1> QED BY <1>1, TopSpec, PTL
-----------------------------------------------------------------------------
(* Which events are queued, signalled and waited for *)

\* The tasks whose event is theirs: they wait or are about to signal it.
Active == {"waiting", "giveTest", "giveSet"}

Queued(t) == Range(mWaitingList[t])
Injective(s) == \A i, j \in DOMAIN s : s[i] = s[j] => i = j

\* The events a task is still going to signal.
Pending(l) == {e \in Events : e \in toSignal[l] \/ (pc[l] = "set" /\ e = event[l])}

\* Who signals has the mutex.
MutexInv ==
  \A l \in Tasks :
    /\ pc[l] \in Signals <=> mListMutex = l
    /\ pc[l] \notin Signals => toSignal[l] = {}

\* No event is queued twice, and a queued event is not deleted.
QueueInv ==
  /\ \A t \in Transactions : Injective(mWaitingList[t]) /\ Queued(t) \subseteq liveEvents
  /\ \A t, u \in Transactions : t # u => Queued(t) \cap Queued(u) = {}

\* Nor is one that is taken off its queue to be signalled.
PendingInv ==
  \A l \in Tasks :
    /\ Pending(l) \subseteq liveEvents
    /\ pc[l] = "set" => event[l] \notin toSignal[l]
    /\ \A t \in Transactions : Queued(t) \cap Pending(l) = {}

\* Each waiter has an event of its own, which is not signalled twice: who
\* comes second deletes it only when both sides are done with it.
WaiterInv ==
  \A k \in Tasks : pc[k] \in Active =>
    /\ event[k] \in liveEvents
    /\ \A m \in Tasks : m # k /\ pc[m] \in Active => event[m] # event[k]
    /\ event[k] \in mIsSignaled =>
         /\ \A t \in Transactions : event[k] \notin Queued(t)
         /\ \A l \in Tasks : event[k] \notin Pending(l)

SigInv == MutexInv /\ QueueInv /\ PendingInv /\ WaiterInv
WaitInv == SigInv /\ WaiterReachable

\* how the queues grow and shrink
LEMMA AppendQueue ==
  ASSUME NEW s \in Seq(Events), NEW e \in Events, e \notin Range(s), Injective(s)
  PROVE  Range(Append(s, e)) = Range(s) \cup {e} /\ Injective(Append(s, e))
<1>1. /\ DOMAIN Append(s, e) = 1..(Len(s) + 1) /\ DOMAIN s = 1..Len(s) /\ Len(s) \in Nat
      /\ \A i \in 1..Len(s) : Append(s, e)[i] = s[i]
      /\ Append(s, e)[Len(s) + 1] = e
  OBVIOUS
<1>2. Range(Append(s, e)) = Range(s) \cup {e}
  BY <1>1 DEF Range
<1>3. Injective(Append(s, e))
  BY <1>1 DEF Range, Injective
<1> QED BY <1>2, <1>3

LEMMA TailQueue ==
  ASSUME NEW s \in Seq(Events), s # <<>>, Injective(s)
  PROVE  /\ Head(s) \in Range(s) /\ Head(s) \in Events
         /\ Range(Tail(s)) = Range(s) \ {Head(s)} /\ Injective(Tail(s))
<1>1. /\ DOMAIN s = 1..Len(s) /\ Len(s) \in Nat \ {0}
      /\ DOMAIN Tail(s) = 1..(Len(s) - 1) /\ Head(s) = s[1]
      /\ \A i \in 1..(Len(s) - 1) : Tail(s)[i] = s[i + 1]
  OBVIOUS
<1>2. Injective(Tail(s))
  BY <1>1 DEF Injective
<1>3. Range(Tail(s)) \subseteq Range(s) \ {Head(s)}
  BY <1>1 DEF Range, Injective
<1>4. Range(s) \ {Head(s)} \subseteq Range(Tail(s))
  <2> SUFFICES ASSUME NEW i \in 1..Len(s), s[i] # s[1] PROVE s[i] \in Range(Tail(s))
    BY <1>1 DEF Range
  <2>1. i - 1 \in 1..(Len(s) - 1) /\ Tail(s)[i - 1] = s[i]
    BY <1>1
  <2> QED BY <1>1, <2>1 DEF Range
<1>5. Head(s) \in Range(s) /\ Head(s) \in Events
  BY <1>1 DEF Range
<1> QED BY <1>2, <1>3, <1>4, <1>5

LEMMA QueuedEvents ==
  ASSUME TypeOK, NEW t \in Transactions
  PROVE  mWaitingList[t] \in Seq(Events) /\ Queued(t) \subseteq Events
  BY DEF TypeOK, Queued, Range

LEMMA WaitInit == Init => WaitInv
<1> SUFFICES ASSUME Init PROVE WaitInv
  OBVIOUS
<1>1. \A t \in Transactions : mWaitingList[t] = <<>> /\ Queued(t) = {}
  BY DEF Init, Queued, Range
<1>2. MutexInv /\ PendingInv /\ WaiterInv /\ WaiterReachable
  BY <1>1, NoneAssumption
  DEF Init, MutexInv, PendingInv, WaiterInv, WaiterReachable, Signals, Active, Pending
<1>3. QueueInv
  BY <1>1 DEF QueueInv, Injective
<1> QED BY <1>2, <1>3 DEF WaitInv, SigInv

\* a step in which no event is queued, signalled or deleted
LEMMA SigQuiet ==
  ASSUME SigInv,
         UNCHANGED <<mWaitingList, toSignal, mListMutex, liveEvents, mIsSignaled>>,
         \A l \in Tasks :
           /\ pc'[l] \in Signals <=> pc[l] \in Signals
           /\ pc'[l] = "set" <=> pc[l] = "set"
           /\ pc'[l] = "set" => event'[l] = event[l]
           /\ pc'[l] \in Active => pc[l] \in Active /\ event'[l] = event[l]
  PROVE  SigInv'
<1>1. /\ \A t \in Transactions : Queued(t)' = Queued(t)
      /\ \A l \in Tasks : Pending(l)' = Pending(l)
  BY DEF Queued, Pending
<1>2. MutexInv'
  BY DEF SigInv, MutexInv
<1>3. QueueInv'
  BY <1>1 DEF SigInv, QueueInv
<1>4. PendingInv'
  BY <1>1 DEF SigInv, PendingInv
<1>5. WaiterInv'
  BY <1>1 DEF SigInv, WaiterInv
<1> QED BY <1>2, <1>3, <1>4, <1>5 DEF SigInv

\* a step that takes no event from where it will be signalled
LEMMA ReachQuiet ==
  ASSUME WaiterReachable, mTransactions \subseteq mTransactions',
         UNCHANGED <<mWaitingList, toSignal>>,
         \A l \in Tasks :
           /\ pc[l] \in {"set", "post"} => pc'[l] \in {"set", "post"} /\ event'[l] = event[l]
           /\ pc'[l] = "waiting" =>
                /\ pc[l] = "waiting" /\ event'[l] = event[l]
                /\ event[l] \in mSignalSem => event[l] \in mSignalSem'
  PROVE  WaiterReachable'
  BY DEF WaiterReachable

LEMMA Quiet ==
  ASSUME WaitInv, mTransactions \subseteq mTransactions',
         UNCHANGED <<mWaitingList, toSignal, mListMutex, liveEvents, mIsSignaled>>,
         mSignalSem \subseteq mSignalSem', pc \in [Tasks -> PC],
         NEW k \in Tasks, NEW label, pc' = [pc EXCEPT ![k] = label],
         \A l \in Tasks \ {k} : event'[l] = event[l],
         label \notin Signals \cup {"waiting"}, pc[k] \notin Signals,
         label \in Active => pc[k] \in Active /\ event'[k] = event[k]
  PROVE  WaitInv'
<1>1. \A l \in Tasks :
        /\ pc'[l] \in Signals <=> pc[l] \in Signals
        /\ pc'[l] = "set" <=> pc[l] = "set"
        /\ pc'[l] = "set" => event'[l] = event[l]
        /\ pc'[l] \in Active => pc[l] \in Active /\ event'[l] = event[l]
        /\ pc[l] \in {"set", "post"} => pc'[l] \in {"set", "post"} /\ event'[l] = event[l]
        /\ pc'[l] = "waiting" => pc[l] = "waiting" /\ event'[l] = event[l]
  BY DEF Signals, Active
<1>2. SigInv'
  BY <1>1, SigQuiet DEF WaitInv
<1>3. WaiterReachable'
  BY <1>1, ReachQuiet DEF WaitInv
<1> QED BY <1>2, <1>3 DEF WaitInv

\* a step that leaves every task where it is
LEMMA SamePlaces ==
  ASSUME WaitInv, UNCHANGED <<mTransactions, mWaitingList, toSignal, mListMutex, pc, event,
                              eventVars>>
  PROVE  WaitInv'
<1>1. SigInv'
  BY SigQuiet DEF WaitInv, eventVars
<1>2. WaiterReachable'
  BY ReachQuiet DEF WaitInv, eventVars
<1> QED BY <1>1, <1>2 DEF WaitInv

\* the event is taken off its semaphore: no other task waits for it
LEMMA WakeStep ==
  ASSUME TypeInv, WaitInv, NEW k \in Tasks, Wake(k)
  PROVE  WaitInv'
<1>1. /\ pc[k] = "waiting" /\ pc' = [pc EXCEPT ![k] = "giveTest"]
      /\ mSignalSem' = mSignalSem \ {event[k]}
      /\ UNCHANGED <<mTransactions, mWaitingList, toSignal, mListMutex, liveEvents,
                     mIsSignaled, event>>
  BY DEF Wake, TakeSem, Goto, listVars
<1>2. \A l \in Tasks :
        /\ pc'[l] \in Signals <=> pc[l] \in Signals
        /\ pc'[l] = "set" <=> pc[l] = "set"
        /\ pc'[l] \in Active => pc[l] \in Active
        /\ pc[l] \in {"set", "post"} => pc'[l] \in {"set", "post"}
        /\ pc'[l] = "waiting" => pc[l] = "waiting" /\ l # k
  BY <1>1 DEF Signals, Active, TypeInv, TypeOK
<1>3. SigInv'
  BY <1>1, <1>2, SigQuiet DEF WaitInv
<1>4. \A l \in Tasks : pc'[l] = "waiting" => event[l] # event[k]
  BY <1>1, <1>2 DEF WaitInv, SigInv, WaiterInv, Active
<1>5. WaiterReachable'
  BY <1>1, <1>2, <1>4, ReachQuiet DEF WaitInv
<1> QED BY <1>3, <1>5 DEF WaitInv

\* the waiter comes second and deletes its event, which is nowhere any more
LEMMA GiveDeleteStep ==
  ASSUME TypeInv, WaitInv, NEW k \in Tasks, GiveTest(k), AlreadySignaled(event[k])
  PROVE  WaitInv'
<1> DEFINE e == event[k]
<1>1. /\ pc[k] = "giveTest" /\ pc' = [pc EXCEPT ![k] = "after"] /\ e \in mIsSignaled
      /\ liveEvents' = liveEvents \ {e} /\ mIsSignaled' = mIsSignaled \ {e}
      /\ mSignalSem' = mSignalSem \ {e}
      /\ UNCHANGED <<mTransactions, mWaitingList, toSignal, mListMutex, event>>
  BY DEF GiveTest, AlreadySignaled, DeleteEvent, Goto, listVars, taskVars
<1>2. \A l \in Tasks :
        /\ pc'[l] \in Signals <=> pc[l] \in Signals
        /\ pc'[l] = "set" <=> pc[l] = "set"
        /\ pc'[l] \in Active => pc[l] \in Active /\ l # k
        /\ pc[l] \in {"set", "post"} => pc'[l] \in {"set", "post"}
        /\ pc'[l] = "waiting" => pc[l] = "waiting"
  BY <1>1 DEF Signals, Active, TypeInv, TypeOK
<1>3. /\ \A t \in Transactions : e \notin Queued(t)
      /\ \A l \in Tasks : e \notin Pending(l)
      /\ \A l \in Tasks : pc'[l] \in Active => event[l] # e
  BY <1>1, <1>2 DEF WaitInv, SigInv, WaiterInv, Active
<1>4. /\ \A t \in Transactions : Queued(t)' = Queued(t)
      /\ \A l \in Tasks : Pending(l)' = Pending(l)
  BY <1>1, <1>2 DEF Queued, Pending
<1>5. MutexInv'
  BY <1>1, <1>2 DEF WaitInv, SigInv, MutexInv
<1>6. QueueInv'
  BY <1>1, <1>3, <1>4 DEF WaitInv, SigInv, QueueInv
<1>7. PendingInv'
  BY <1>1, <1>2, <1>3, <1>4 DEF WaitInv, SigInv, PendingInv
<1>8. WaiterInv'
  BY <1>1, <1>2, <1>3, <1>4 DEF WaitInv, SigInv, WaiterInv
<1>9. \A l \in Tasks : pc'[l] = "waiting" => event[l] # e
  BY <1>3 DEF Active
<1>10. WaiterReachable'
  BY <1>1, <1>2, <1>9, ReachQuiet DEF WaitInv
<1> QED BY <1>5, <1>6, <1>7, <1>8, <1>10 DEF WaitInv, SigInv

\* the waiter sets the flag of its own event and of no other
LEMMA GiveSetStep ==
  ASSUME TypeInv, WaitInv, NEW k \in Tasks, GiveSet(k)
  PROVE  WaitInv'
<1>1. /\ pc[k] = "giveSet" /\ pc' = [pc EXCEPT ![k] = "givePost"]
      /\ mIsSignaled' = mIsSignaled \cup {event[k]}
      /\ UNCHANGED <<mTransactions, mWaitingList, toSignal, mListMutex, event, liveEvents,
                     mSignalSem>>
  BY DEF GiveSet, SetSignaled, Goto, listVars, taskVars
<1>2. \A l \in Tasks :
        /\ pc'[l] \in Signals <=> pc[l] \in Signals
        /\ pc'[l] = "set" <=> pc[l] = "set"
        /\ pc'[l] \in Active => pc[l] \in Active /\ l # k
        /\ pc[l] \in {"set", "post"} => pc'[l] \in {"set", "post"}
        /\ pc'[l] = "waiting" => pc[l] = "waiting"
  BY <1>1 DEF Signals, Active, TypeInv, TypeOK
<1>3. \A l \in Tasks : pc'[l] \in Active => event[l] # event[k]
  BY <1>1, <1>2 DEF WaitInv, SigInv, WaiterInv, Active
<1>4. /\ \A t \in Transactions : Queued(t)' = Queued(t)
      /\ \A l \in Tasks : Pending(l)' = Pending(l)
  BY <1>1, <1>2 DEF Queued, Pending
<1>5. MutexInv'
  BY <1>1, <1>2 DEF WaitInv, SigInv, MutexInv
<1>6. QueueInv' /\ PendingInv'
  BY <1>1, <1>2, <1>4 DEF WaitInv, SigInv, QueueInv, PendingInv
<1>7. WaiterInv'
  BY <1>1, <1>2, <1>3, <1>4 DEF WaitInv, SigInv, WaiterInv
<1>8. WaiterReachable'
  BY <1>1, <1>2, ReachQuiet DEF WaitInv
<1> QED BY <1>5, <1>6, <1>7, <1>8 DEF WaitInv, SigInv

\* while the mutex is free nobody signals
LEMMA NoPending ==
  ASSUME TypeOK, WaitInv, NEW k \in Tasks, mListMutex \in {None, k}
  PROVE  \A l \in Tasks : l # k \/ mListMutex = None =>
           pc[l] \notin Signals /\ toSignal[l] = {} /\ Pending(l) = {}
<1>1. None \notin Tasks
  BY NoneAssumption
<1>2. \A l \in Tasks : l # k \/ mListMutex = None => pc[l] \notin Signals
  BY <1>1 DEF WaitInv, SigInv, MutexInv
<1> QED BY <1>2 DEF WaitInv, SigInv, MutexInv, Pending, Signals

\* a new event is queued: it was in nobody's hands
LEMMA QueueStep ==
  ASSUME TypeInv, WaitInv, NEW k \in Tasks, NEW top \in mTransactions, NEW e \in Events,
         pc[k] = "check", mListMutex = None, NewEvent(e),
         mWaitingList' = [mWaitingList EXCEPT ![top] = Append(mWaitingList[top], e)],
         pc' = [pc EXCEPT ![k] = "waiting"], event' = [event EXCEPT ![k] = e],
         UNCHANGED <<mTransactions, toSignal, mListMutex>>
  PROVE  WaitInv'
<1> USE DEF TypeInv
<1>0. top \in Transactions /\ mWaitingList[top] \in Seq(Events)
  BY DEF TypeOK
<1>1. /\ e \notin liveEvents /\ liveEvents' = liveEvents \cup {e}
      /\ mIsSignaled' = mIsSignaled \ {e} /\ mSignalSem' = mSignalSem \ {e}
  BY DEF NewEvent
<1>2. \A t \in Transactions : e \notin Queued(t)
  BY <1>1 DEF WaitInv, SigInv, QueueInv
<1>3. /\ \A t \in Transactions \ {top} :
           Queued(t)' = Queued(t) /\ mWaitingList'[t] = mWaitingList[t]
      /\ Queued(top)' = Queued(top) \cup {e}
      /\ Injective(mWaitingList'[top])
  <2>1. Range(Append(mWaitingList[top], e)) = Queued(top) \cup {e}
        /\ Injective(Append(mWaitingList[top], e))
    BY <1>0, <1>2, AppendQueue DEF Queued, WaitInv, SigInv, QueueInv
  <2>2. /\ mWaitingList'[top] = Append(mWaitingList[top], e)
        /\ \A t \in Transactions \ {top} : mWaitingList'[t] = mWaitingList[t]
    BY <1>0 DEF TypeOK
  <2> QED BY <2>1, <2>2 DEF Queued
<1>4. \A l \in Tasks :
        /\ pc'[l] \in Signals <=> pc[l] \in Signals
        /\ pc[l] \notin Signals /\ pc'[l] \notin Signals /\ toSignal'[l] = {}
        /\ l # k => pc'[l] = pc[l] /\ event'[l] = event[l]
        /\ pc'[k] = "waiting" /\ event'[k] = e
  BY NoPending DEF TypeOK, Signals
<1>5. \A l \in Tasks : Pending(l)' = {}
  BY <1>4 DEF Pending, Signals
<1>6. MutexInv'
  BY <1>4 DEF WaitInv, SigInv, MutexInv
<1>7. QueueInv'
  <2>1. \A t \in Transactions : Injective(mWaitingList'[t]) /\ Queued(t)' \subseteq liveEvents'
    BY <1>1, <1>3 DEF WaitInv, SigInv, QueueInv
  <2>2. \A t, u \in Transactions : t # u => Queued(t)' \cap Queued(u)' = {}
    BY <1>2, <1>3 DEF WaitInv, SigInv, QueueInv
  <2> QED BY <2>1, <2>2 DEF QueueInv
<1>8. PendingInv'
  BY <1>4, <1>5 DEF PendingInv, Signals
<1>9. WaiterInv'
  <2>1. \A l \in Tasks : l # k /\ pc'[l] \in Active => event'[l] # e /\ event'[l] \in liveEvents
    BY <1>1, <1>4 DEF WaitInv, SigInv, WaiterInv
  <2> QED BY <2>1, <1>1, <1>3, <1>4, <1>5 DEF WaitInv, SigInv, WaiterInv
<1>10. WaiterReachable'
  <2> SUFFICES ASSUME NEW l \in Tasks, pc'[l] = "waiting"
               PROVE  \/ event'[l] \in mSignalSem'
                      \/ \E t \in mTransactions : event'[l] \in Queued(t)'
    BY DEF WaiterReachable, Queued
  <2>1. CASE l = k
    BY <2>1, <1>3, <1>4
  <2>2. CASE l # k
    <3>1. pc[l] = "waiting" /\ event'[l] = event[l] /\ event[l] \in liveEvents
      BY <2>2, <1>4 DEF WaitInv, SigInv, WaiterInv, Active
    <3>2. \/ event[l] \in mSignalSem
          \/ \E t \in mTransactions : event[l] \in Queued(t)
      BY <3>1, NoPending DEF WaitInv, WaiterReachable, Queued, Signals
    <3>3. CASE event[l] \in mSignalSem
      BY <3>1, <3>3, <1>1
    <3>4. ASSUME NEW t \in mTransactions, event[l] \in Queued(t)
          PROVE  event[l] \in Queued(t)'
      <4>1. t \in Transactions
        BY DEF TypeOK
      <4>2. CASE t = top
        BY <3>4, <4>2, <1>3
      <4>3. CASE t # top
        <5>1. Queued(t)' = Queued(t)
          BY <4>1, <4>3, <1>3
        <5> QED BY <3>4, <5>1
      <4> QED BY <4>2, <4>3
    <3> QED BY <3>1, <3>2, <3>3, <3>4
  <2> QED BY <2>1, <2>2
<1> QED BY <1>6, <1>7, <1>8, <1>9, <1>10 DEF WaitInv, SigInv

\* the event of a waiter that gave up is deleted: nobody waits for it
LEMMA SignalDeleteStep ==
  ASSUME TypeInv, WaitInv, NEW k \in Tasks, NEW e \in Events, SignalTest(k, e), AlreadySignaled(e)
  PROVE  WaitInv'
<1> USE DEF TypeInv
<1>1. /\ pc[k] = "test" /\ e \in toSignal[k] /\ e \in mIsSignaled
      /\ toSignal' = [toSignal EXCEPT ![k] = toSignal[k] \ {e}]
      /\ liveEvents' = liveEvents \ {e} /\ mIsSignaled' = mIsSignaled \ {e}
      /\ mSignalSem' = mSignalSem \ {e}
      /\ UNCHANGED <<mTransactions, mWaitingList, mListMutex, event, pc>>
  BY DEF SignalTest, AlreadySignaled, DeleteEvent, listVars
<1>2. e \in Pending(k)
  BY <1>1 DEF Pending
<1>3. \A l \in Tasks : pc[l] \in Active => event[l] # e
  BY <1>1, <1>2 DEF WaitInv, SigInv, WaiterInv
<1>4. \A l \in Tasks : l # k => pc[l] \notin Signals /\ Pending(l) = {} /\ toSignal'[l] = toSignal[l]
  BY <1>1, NoPending DEF WaitInv, SigInv, MutexInv, Signals, TypeOK
<1>5. /\ \A t \in Transactions : Queued(t)' = Queued(t) /\ e \notin Queued(t)
      /\ \A l \in Tasks : Pending(l)' = Pending(l) \ {e}
  BY <1>1, <1>2, <1>4 DEF Queued, Pending, WaitInv, SigInv, PendingInv, TypeOK
<1>6. MutexInv'
  BY <1>1, <1>4 DEF WaitInv, SigInv, MutexInv, Signals, TypeOK
<1>7. QueueInv'
  BY <1>1, <1>5 DEF WaitInv, SigInv, QueueInv
<1>8. PendingInv'
  <2>1. \A l \in Tasks : pc[l] = "set" => event[l] \notin toSignal'[l]
    BY <1>1, <1>4 DEF WaitInv, SigInv, PendingInv, TypeOK
  <2> QED BY <2>1, <1>1, <1>5 DEF WaitInv, SigInv, PendingInv
<1>9. WaiterInv'
  BY <1>1, <1>3, <1>5 DEF WaitInv, SigInv, WaiterInv
<1>10. WaiterReachable'
  <2>1. \A l \in Tasks : pc[l] = "waiting" => event[l] # e
    BY <1>3 DEF Active
  <2> QED BY <2>1, <1>1 DEF WaitInv, WaiterReachable, TypeOK
<1> QED BY <1>6, <1>7, <1>8, <1>9, <1>10 DEF WaitInv, SigInv

\* the event is about to be signalled
LEMMA SignalChooseStep ==
  ASSUME TypeInv, WaitInv, NEW k \in Tasks, NEW e \in Events, SignalTest(k, e), ~AlreadySignaled(e)
  PROVE  WaitInv'
<1> USE DEF TypeInv
<1>1. /\ pc[k] = "test" /\ e \in toSignal[k] /\ pc' = [pc EXCEPT ![k] = "set"]
      /\ toSignal' = [toSignal EXCEPT ![k] = toSignal[k] \ {e}]
      /\ event' = [event EXCEPT ![k] = e]
      /\ UNCHANGED <<mTransactions, mWaitingList, mListMutex, liveEvents, mIsSignaled, mSignalSem>>
  BY DEF SignalTest, AlreadySignaled, Goto, listVars, eventVars
<1>2. /\ pc'[k] = "set" /\ event'[k] = e /\ toSignal'[k] = toSignal[k] \ {e}
      /\ \A l \in Tasks : l # k =>
           pc'[l] = pc[l] /\ event'[l] = event[l] /\ toSignal'[l] = toSignal[l]
  BY <1>1 DEF TypeOK
<1>3. /\ \A t \in Transactions : Queued(t)' = Queued(t)
      /\ \A l \in Tasks : Pending(l)' = Pending(l)
  <2>1. Pending(k)' = Pending(k)
    BY <1>1, <1>2 DEF Pending, TypeOK
  <2>2. \A l \in Tasks : l # k => Pending(l)' = Pending(l)
    BY <1>2 DEF Pending
  <2>3. \A t \in Transactions : Queued(t)' = Queued(t)
    BY <1>1 DEF Queued
  <2> QED BY <2>1, <2>2, <2>3
<1>4. MutexInv'
  BY <1>1, <1>2 DEF WaitInv, SigInv, MutexInv, Signals
<1>5. QueueInv'
  BY <1>1, <1>3 DEF WaitInv, SigInv, QueueInv
<1>6. PendingInv'
  BY <1>1, <1>2, <1>3 DEF WaitInv, SigInv, PendingInv
<1>7. WaiterInv'
  <2>1. \A l \in Tasks : pc'[l] \in Active => pc[l] \in Active /\ event'[l] = event[l]
    BY <1>2 DEF Active
  <2> QED BY <2>1, <1>1, <1>3 DEF WaitInv, SigInv, WaiterInv
<1>8. WaiterReachable'
  <2> SUFFICES ASSUME NEW l \in Tasks, pc'[l] = "waiting" PROVE
          \/ event'[l] \in mSignalSem'
          \/ \E t \in mTransactions' : event'[l] \in Range(mWaitingList'[t])
          \/ \E m \in Tasks : \/ event'[l] \in toSignal'[m]
                              \/ pc'[m] \in {"set", "post"} /\ event'[m] = event'[l]
    BY DEF WaiterReachable
  <2>1. pc[l] = "waiting" /\ event'[l] = event[l]
    BY <1>2
  <2>2. \/ event[l] \in mSignalSem
        \/ \E t \in mTransactions : event[l] \in Range(mWaitingList[t])
        \/ \E m \in Tasks : \/ event[l] \in toSignal[m]
                            \/ pc[m] \in {"set", "post"} /\ event[m] = event[l]
    BY <2>1 DEF WaitInv, WaiterReachable
  <2>3. ASSUME NEW m \in Tasks, event[l] \in toSignal[m]
        PROVE  event[l] \in toSignal'[m] \/ (pc'[k] = "set" /\ event'[k] = event[l])
    BY <2>3, <1>2
  <2>4. ASSUME NEW m \in Tasks, pc[m] \in {"set", "post"}, event[m] = event[l]
        PROVE  pc'[m] \in {"set", "post"} /\ event'[m] = event[l]
    BY <2>4, <1>1, <1>2
  <2> QED BY <2>1, <2>2, <2>3, <2>4, <1>1
<1> QED BY <1>4, <1>5, <1>6, <1>7, <1>8 DEF WaitInv, SigInv

\* the flag is set: the event is off every queue
LEMMA SignalSetStep ==
  ASSUME TypeInv, WaitInv, NEW k \in Tasks, SignalSet(k)
  PROVE  WaitInv'
<1> USE DEF TypeInv
<1> DEFINE e == event[k]
<1>1. /\ pc[k] = "set" /\ pc' = [pc EXCEPT ![k] = "post"]
      /\ mIsSignaled' = mIsSignaled \cup {e} /\ e \in Events
      /\ UNCHANGED <<mTransactions, mWaitingList, toSignal, mListMutex, event, liveEvents,
                     mSignalSem>>
  BY DEF SignalSet, SetSignaled, Goto, listVars, taskVars, PointerInv
<1>2. \A l \in Tasks :
        /\ pc'[l] \in Signals <=> pc[l] \in Signals
        /\ pc'[l] = "set" <=> pc[l] = "set" /\ l # k
        /\ pc'[l] \in Active <=> pc[l] \in Active
        /\ pc[l] \in {"set", "post"} => pc'[l] \in {"set", "post"}
        /\ pc'[l] = "waiting" => pc[l] = "waiting"
  BY <1>1 DEF Signals, Active, TypeOK
<1>3. e \in Pending(k) /\ e \notin toSignal[k]
  BY <1>1 DEF Pending, WaitInv, SigInv, PendingInv
<1>4. \A l \in Tasks : l # k => Pending(l) = {}
  BY <1>1, NoPending DEF WaitInv, SigInv, MutexInv, Signals
<1>5. /\ \A t \in Transactions : Queued(t)' = Queued(t) /\ e \notin Queued(t)
      /\ \A l \in Tasks : Pending(l)' = Pending(l) \ {e}
  BY <1>1, <1>2, <1>3, <1>4 DEF Queued, Pending, WaitInv, SigInv, PendingInv
<1>6. MutexInv'
  BY <1>1, <1>2 DEF WaitInv, SigInv, MutexInv
<1>7. QueueInv'
  BY <1>1, <1>5 DEF WaitInv, SigInv, QueueInv
<1>8. PendingInv'
  BY <1>1, <1>2, <1>5 DEF WaitInv, SigInv, PendingInv
<1>9. WaiterInv'
  BY <1>1, <1>2, <1>5 DEF WaitInv, SigInv, WaiterInv
<1>10. WaiterReachable'
  BY <1>1, <1>2, ReachQuiet DEF WaitInv
<1> QED BY <1>6, <1>7, <1>8, <1>9, <1>10 DEF WaitInv, SigInv

\* the semaphore is posted: whoever waits for the event is woken
LEMMA SignalPostStep ==
  ASSUME TypeInv, WaitInv, NEW k \in Tasks, SignalPost(k)
  PROVE  WaitInv'
<1> USE DEF TypeInv
<1>1. /\ pc[k] = "post" /\ pc' = [pc EXCEPT ![k] = "test"]
      /\ event' = [event EXCEPT ![k] = None] /\ mSignalSem' = mSignalSem \cup {event[k]}
      /\ UNCHANGED <<mTransactions, mWaitingList, toSignal, mListMutex, liveEvents, mIsSignaled>>
  BY DEF SignalPost, PostSem, Goto, listVars
<1>2. \A l \in Tasks :
        /\ pc'[l] \in Signals <=> pc[l] \in Signals
        /\ pc'[l] = "set" <=> pc[l] = "set"
        /\ pc'[l] = "set" => event'[l] = event[l]
        /\ pc'[l] \in Active => pc[l] \in Active /\ event'[l] = event[l]
        /\ l # k => pc'[l] = pc[l] /\ event'[l] = event[l]
  BY <1>1 DEF Signals, Active, TypeOK
<1>3. SigInv'
  BY <1>1, <1>2, SigQuiet DEF WaitInv
<1>4. pc'[k] = "test"
  BY <1>1 DEF TypeOK
<1>5. WaiterReachable'
  BY <1>1, <1>2, <1>4 DEF WaitInv, WaiterReachable
<1> QED BY <1>3, <1>5 DEF WaitInv

\* every event was signalled, and the mutex is given back
LEMMA SignalDoneStep ==
  ASSUME TypeInv, WaitInv, NEW k \in Tasks, SignalDone(k)
  PROVE  WaitInv'
<1> USE DEF TypeInv
<1>1. /\ pc[k] = "test" /\ toSignal[k] = {} /\ mListMutex' = None
      /\ pc' = [pc EXCEPT ![k] = "idle"] \/ pc' = [pc EXCEPT ![k] = "delete"]
      /\ UNCHANGED <<mTransactions, mWaitingList, toSignal, event, liveEvents, mIsSignaled,
                     mSignalSem>>
  BY DEF SignalDone, Goto, listVars, taskVars, eventVars
<1>2. /\ pc'[k] \in {"idle", "delete"}
      /\ \A l \in Tasks : l # k => pc'[l] = pc[l]
  BY <1>1 DEF TypeOK
<1>3. mListMutex = k
  BY <1>1 DEF WaitInv, SigInv, MutexInv, Signals
<1>4. MutexInv'
  BY <1>1, <1>2, <1>3, NoneAssumption DEF WaitInv, SigInv, MutexInv, Signals
<1>5. /\ \A t \in Transactions : Queued(t)' = Queued(t)
      /\ \A l \in Tasks : Pending(l)' = Pending(l)
  BY <1>1, <1>2 DEF Queued, Pending
<1>6. QueueInv' /\ PendingInv'
  BY <1>1, <1>2, <1>5 DEF WaitInv, SigInv, QueueInv, PendingInv
<1>7. WaiterInv'
  BY <1>1, <1>2, <1>5 DEF WaitInv, SigInv, WaiterInv, Active
<1>8. WaiterReachable'
  BY <1>1, <1>2, ReachQuiet DEF WaitInv
<1> QED BY <1>4, <1>6, <1>7, <1>8 DEF WaitInv, SigInv

\* events are taken off their queues by a task that has the mutex and is going
\* to signal them
LEMMA HandStep ==
  ASSUME TypeInv, WaitInv, NEW k \in Tasks, NEW es \in SUBSET Events,
         mListMutex = None, mListMutex' = k, pc[k] \in {"own", "idle"},
         pc' = [pc EXCEPT ![k] = "test"], toSignal' = [toSignal EXCEPT ![k] = es],
         UNCHANGED <<event, liveEvents, mIsSignaled, mSignalSem>>,
         \A e \in es : \E t \in Transactions : e \in Queued(t),
         \A t \in Transactions : /\ Injective(mWaitingList'[t])
                                 /\ Queued(t)' \subseteq Queued(t) \ es,
         \A t \in mTransactions : /\ Queued(t) \subseteq Queued(t)' \cup es
                                  /\ t \in mTransactions' \/ Queued(t) \subseteq es
  PROVE  WaitInv'
<1> USE DEF TypeInv
<1>1. \A l \in Tasks : pc[l] \notin Signals /\ toSignal[l] = {} /\ Pending(l) = {}
  BY NoPending
<1>2. /\ pc'[k] = "test" /\ toSignal'[k] = es
      /\ \A l \in Tasks : l # k => pc'[l] = pc[l] /\ toSignal'[l] = {}
  BY <1>1 DEF TypeOK
<1>3. Pending(k)' = es /\ \A l \in Tasks : l # k => Pending(l)' = {}
  BY <1>1, <1>2 DEF Pending, Signals
<1>4. MutexInv'
  BY <1>1, <1>2 DEF MutexInv, Signals
<1>5. QueueInv'
  BY DEF WaitInv, SigInv, QueueInv
<1>6. PendingInv'
  <2>1. es \subseteq liveEvents
    BY DEF WaitInv, SigInv, QueueInv
  <2>2. \A l \in Tasks : pc'[l] # "set"
    BY <1>1, <1>2 DEF Signals
  <2> QED BY <2>1, <2>2, <1>3 DEF PendingInv
<1>7. WaiterInv'
  <2>1. \A l \in Tasks : pc'[l] \in Active => pc[l] \in Active
    BY <1>2 DEF Active
  <2> SUFFICES ASSUME NEW l \in Tasks, pc'[l] \in Active, event[l] \in mIsSignaled
               PROVE  /\ \A t \in Transactions : event[l] \notin Queued(t)'
                      /\ \A m \in Tasks : event[l] \notin Pending(m)'
    BY <2>1 DEF WaitInv, SigInv, WaiterInv
  <2>2. \A t \in Transactions : event[l] \notin Queued(t)
    BY <2>1 DEF WaitInv, SigInv, WaiterInv
  <2> QED BY <2>2, <1>3
<1>8. WaiterReachable'
  <2> SUFFICES ASSUME NEW l \in Tasks, pc'[l] = "waiting", event[l] \notin mSignalSem
               PROVE  \/ \E t \in mTransactions' : event[l] \in Queued(t)'
                      \/ event[l] \in toSignal'[k]
    BY DEF WaiterReachable, Queued
  <2>1. pc[l] = "waiting"
    BY <1>2
  <2>2. PICK t \in mTransactions : event[l] \in Queued(t)
    BY <2>1, <1>1 DEF WaitInv, WaiterReachable, Queued, Signals
  <2> QED BY <2>2, <1>2
<1> QED BY <1>4, <1>5, <1>6, <1>7, <1>8 DEF WaitInv, SigInv

\* the release takes the first event of the topmost parent's queue
LEMMA ReleaseHandStep ==
  ASSUME IInv, WaitInv, NEW k \in Tasks, MarkAvailable(k),
         mWaitingList[topParent[target[k]]] # <<>>
  PROVE  WaitInv'
<1>0. TypeInv /\ TypeOK
  BY DEF IInv, TypeInv
<1>1. PICK top \in Transactions : top = topParent[target[k]]
  BY <1>0 DEF MarkAvailable, IInv, SafeInv, HolderInv, Owning, TypeOK
<1> DEFINE s == mWaitingList[top]
<1>2. /\ pc[k] = "own" /\ mListMutex = None /\ mListMutex' = k
      /\ pc' = [pc EXCEPT ![k] = "test"]
      /\ toSignal' = [toSignal EXCEPT ![k] = {Head(s)}]
      /\ mWaitingList' = [mWaitingList EXCEPT ![top] = Tail(s)]
      /\ UNCHANGED <<mTransactions, event, liveEvents, mIsSignaled, mSignalSem>>
  BY <1>1 DEF MarkAvailable, Goto, eventVars
<1>3. /\ Head(s) \in Queued(top) /\ Head(s) \in Events
      /\ Range(Tail(s)) = Queued(top) \ {Head(s)} /\ Injective(Tail(s))
  BY <1>0, <1>1, QueuedEvents, TailQueue DEF Queued, WaitInv, SigInv, QueueInv
<1>4. /\ mWaitingList'[top] = Tail(s)
      /\ \A t \in Transactions \ {top} : mWaitingList'[t] = mWaitingList[t]
  BY <1>0, <1>2, <1>1 DEF TypeOK
<1>5. /\ Queued(top)' = Queued(top) \ {Head(s)}
      /\ \A t \in Transactions \ {top} : Queued(t)' = Queued(t)
  <2>1. Range(mWaitingList'[top]) = Range(mWaitingList[top]) \ {Head(s)}
    BY <1>3, <1>4 DEF Queued
  <2>2. \A t \in Transactions \ {top} : Range(mWaitingList'[t]) = Range(mWaitingList[t])
    BY <1>4
  <2> QED BY <2>1, <2>2 DEF Queued
<1>6. \A t \in Transactions \ {top} : Head(s) \notin Queued(t)
  BY <1>1, <1>3 DEF WaitInv, SigInv, QueueInv
<1>7. \A t \in Transactions : Injective(mWaitingList'[t])
  BY <1>3, <1>4 DEF WaitInv, SigInv, QueueInv
<1> DEFINE es == {Head(s)}
<1>8. \A t \in Transactions : /\ Queued(t)' \subseteq Queued(t) \ es
                              /\ Queued(t) \subseteq Queued(t)' \cup es
  <2> SUFFICES ASSUME NEW t \in Transactions
               PROVE  /\ Queued(t)' \subseteq Queued(t) \ es
                      /\ Queued(t) \subseteq Queued(t)' \cup es
    OBVIOUS
  <2>1. CASE t = top
    BY <2>1, <1>5
  <2>2. CASE t # top
    <3>1. Queued(t)' = Queued(t) /\ Head(s) \notin Queued(t)
      BY <2>2, <1>5, <1>6
    <3> QED BY <3>1
  <2> QED BY <2>1, <2>2
<1>9. \A t \in mTransactions : /\ Queued(t) \subseteq Queued(t)' \cup es
                               /\ t \in mTransactions' \/ Queued(t) \subseteq es
  BY <1>0, <1>2, <1>8 DEF TypeOK
<1>10. es \in SUBSET Events /\ \A e \in es : \E t \in Transactions : e \in Queued(t)
  BY <1>1, <1>3
<1>11. /\ pc[k] \in {"own", "idle"} /\ toSignal' = [toSignal EXCEPT ![k] = es]
       /\ \A t \in Transactions : /\ Injective(mWaitingList'[t])
                                  /\ Queued(t)' \subseteq Queued(t) \ es
  BY <1>2, <1>7, <1>8
<1> HIDE DEF es, s
<1> QED BY <1>0, <1>2, <1>9, <1>10, <1>11, HandStep

\* the collection takes all events of the trees it collects
LEMMA CollectHandStep ==
  ASSUME IInv, TopInv, WaitInv, NEW k \in Tasks, RemoveOldTransactions(k)
  PROVE  WaitInv'
<1> DEFINE old  == {t \in mTransactions : Collectable(t)}
           tops == {topParent[t] : t \in old}
           es   == AllWaiting(tops)
<1>0. TypeInv /\ TypeOK
  BY DEF IInv, TypeInv
<1>1. /\ pc[k] = "idle" /\ mListMutex = None /\ mListMutex' = k
      /\ pc' = [pc EXCEPT ![k] = "test"]
      /\ toSignal' = [toSignal EXCEPT ![k] = es]
      /\ mWaitingList' = [t \in Transactions |-> IF t \in tops THEN <<>> ELSE mWaitingList[t]]
      /\ mTransactions' = mTransactions \ old
      /\ UNCHANGED <<event, liveEvents, mIsSignaled, mSignalSem>>
  BY DEF RemoveOldTransactions, Goto, eventVars
<1>2. tops \subseteq Transactions /\ mTransactions \subseteq Transactions
  BY <1>0 DEF TypeOK
<1>3. es = UNION {Queued(t) : t \in tops}
  BY DEF AllWaiting, Queued
<1>4. es \subseteq Events
  BY <1>0, <1>2, <1>3, QueuedEvents
<1>5. \A t \in Transactions :
        /\ t \in tops => mWaitingList'[t] = <<>> /\ Queued(t) \subseteq es
        /\ t \notin tops => mWaitingList'[t] = mWaitingList[t] /\ Queued(t) \cap es = {}
  <2>1. \A t \in Transactions : t \notin tops => Queued(t) \cap es = {}
    BY <1>2, <1>3 DEF WaitInv, SigInv, QueueInv
  <2> QED BY <2>1, <1>1, <1>3
<1>6. \A t \in Transactions :
        /\ Injective(mWaitingList'[t])
        /\ Queued(t)' \subseteq Queued(t) \ es
        /\ Queued(t) \subseteq Queued(t)' \cup es
  <2> SUFFICES ASSUME NEW t \in Transactions
               PROVE  /\ Injective(mWaitingList'[t])
                      /\ Queued(t)' \subseteq Queued(t) \ es
                      /\ Queued(t) \subseteq Queued(t)' \cup es
    OBVIOUS
  <2>1. CASE t \in tops
    <3>1. Range(<<>>) = {} /\ Injective(<<>>)
      BY DEF Range, Injective
    <3> QED BY <2>1, <3>1, <1>5 DEF Queued
  <2>2. CASE t \notin tops
    <3>1. Injective(mWaitingList[t])
      BY DEF WaitInv, SigInv, QueueInv
    <3> QED BY <2>2, <3>1, <1>5 DEF Queued
  <2> QED BY <2>1, <2>2
<1>7. \A t \in mTransactions : t \in mTransactions' \/ Queued(t) \subseteq es
  <2> SUFFICES ASSUME NEW t \in old PROVE Queued(t) \subseteq es
    BY <1>1
  <2>1. CASE mWaitingList[t] = <<>>
    BY <2>1 DEF Queued, Range
  <2>2. CASE mWaitingList[t] # <<>>
    <3>1. topParent[t] = t
      BY <1>2, <2>2 DEF TopInv, WaitersOnTopmost
    <3> QED BY <1>2, <1>5, <3>1
  <2> QED BY <2>1, <2>2
<1>8. \A e \in es : \E t \in Transactions : e \in Queued(t)
  BY <1>2, <1>3
<1>9. \A t \in mTransactions : Queued(t) \subseteq Queued(t)' \cup es
  BY <1>2, <1>6
<1> HIDE DEF es
<1> QED BY <1>0, <1>1, <1>4, <1>6, <1>7, <1>8, <1>9, HandStep

\* the task finds the transaction gone, free, or busy
LEMMA CheckStep ==
  ASSUME IInv, TopInv, WaitInv, NEW k \in Tasks, CheckAvailable(k)
  PROVE  WaitInv'
<1> DEFINE t == target[k]
<1>0. TypeInv /\ TypeOK
  BY DEF IInv, TypeInv
<1>1. /\ pc[k] = "check" /\ mListMutex = None /\ UNCHANGED <<mTransactions, mListMutex>>
  BY DEF CheckAvailable
<1>2. CASE t \notin mTransactions \/ ~mIsBusy[t]
  <2>1. /\ pc' = [pc EXCEPT ![k] = "none"] \/ pc' = [pc EXCEPT ![k] = "own"]
        /\ event' = [event EXCEPT ![k] = None]
        /\ UNCHANGED <<mWaitingList, toSignal, liveEvents, mIsSignaled, mSignalSem>>
    BY <1>2 DEF CheckAvailable, Leave, Goto, eventVars
  <2>2. \A l \in Tasks \ {k} : event'[l] = event[l]
    BY <1>0, <2>1 DEF TypeOK
  <2> QED BY <1>0, <1>1, <2>1, <2>2, Quiet DEF TypeOK, Signals, Active
<1>3. CASE t \in mTransactions /\ mIsBusy[t]
  <2>1. PICK e \in Events :
          /\ NewEvent(e)
          /\ mWaitingList' =
               [mWaitingList EXCEPT ![topParent[t]] = Append(mWaitingList[topParent[t]], e)]
          /\ event' = [event EXCEPT ![k] = e]
    BY <1>3 DEF CheckAvailable, NotifyWhenAvailable
  <2>2. pc' = [pc EXCEPT ![k] = "waiting"] /\ UNCHANGED toSignal
    BY <1>3 DEF CheckAvailable, Goto
  <2>3. topParent[t] \in mTransactions
    BY <1>3 DEF IInv, SafeInv, TreeInv, ListInv
  <2> QED BY <1>0, <1>1, <2>1, <2>2, <2>3, QueueStep
<1> QED BY <1>2, <1>3

LEMMA WaitStep == IInv /\ TopInv /\ WaitInv /\ [Next]_vars => WaitInv'
<1> SUFFICES ASSUME IInv, TopInv, WaitInv, [Next]_vars PROVE WaitInv'
  OBVIOUS
<1>0. TypeInv /\ TypeOK
  BY DEF IInv, TypeInv
<1>1. ASSUME NEW k \in Tasks, NEW t \in Transactions, NewTransaction(k, t) \/ NewChild(k, t)
      PROVE  WaitInv'
  <2>1. /\ AddTransaction(t) /\ pc[k] \in {"none", "own"}
        /\ pc' = [pc EXCEPT ![k] = "own"] \/ pc' = [pc EXCEPT ![k] = "link"]
        /\ mTransactions' = mTransactions \cup {t}
        /\ UNCHANGED <<mListMutex, toSignal, event, liveEvents, mIsSignaled, mSignalSem>>
    BY <1>1 DEF NewTransaction, NewChild, AddTransaction, Goto, eventVars
  <2>2. mWaitingList' = mWaitingList
    BY <2>1, TopAdd
  <2> QED BY <1>0, <2>1, <2>2, Quiet DEF TypeOK, Signals, Active
<1>2. ASSUME NEW k \in Tasks,
             \/ \E t \in Transactions : Found(k, t)
             \/ NotFound(k) \/ DropMessage(k) \/ LinkChild(k) \/ DeleteTransactions(k)
      PROVE  WaitInv'
  <2>1. /\ pc[k] \in {"idle", "none", "link", "delete"}
        /\ \E label \in {"own", "check", "none", "idle"} : pc' = [pc EXCEPT ![k] = label]
        /\ UNCHANGED <<mTransactions, mWaitingList, mListMutex, toSignal, event, liveEvents,
                       mIsSignaled, mSignalSem>>
    BY <1>2 DEF Found, NotFound, DropMessage, LinkChild, DeleteTransactions, Goto,
         listVars, taskVars, eventVars
  <2>2. PICK label \in {"own", "check", "none", "idle"} : pc' = [pc EXCEPT ![k] = label]
    BY <2>1
  <2> QED BY <1>0, <2>1, <2>2, Quiet DEF TypeOK, Signals, Active
<1>3. ASSUME NEW k \in Tasks, AfterWait(k)
      PROVE  WaitInv'
  <2>1. /\ pc[k] = "after"
        /\ pc' = [pc EXCEPT ![k] = "none"] \/ pc' = [pc EXCEPT ![k] = "check"]
        /\ event' = [event EXCEPT ![k] = None]
        /\ UNCHANGED <<mTransactions, mWaitingList, mListMutex, toSignal, liveEvents,
                       mIsSignaled, mSignalSem>>
    BY <1>3 DEF AfterWait, Leave, Goto, listVars, eventVars
  <2>2. \A l \in Tasks \ {k} : event'[l] = event[l]
    BY <1>0, <2>1 DEF TypeOK
  <2> QED BY <1>0, <2>1, <2>2, Quiet DEF TypeOK, Signals, Active
<1>4. ASSUME NEW k \in Tasks, WaitGiveUp(k)
      PROVE  WaitInv'
  <2>1. /\ pc[k] = "waiting" /\ pc' = [pc EXCEPT ![k] = "giveTest"]
        /\ UNCHANGED <<mTransactions, mWaitingList, mListMutex, toSignal, event, liveEvents,
                       mIsSignaled, mSignalSem>>
    BY <1>4 DEF WaitGiveUp, Goto, listVars, eventVars
  <2> QED BY <1>0, <2>1, Quiet DEF TypeOK, Signals, Active
<1>5. ASSUME NEW k \in Tasks, GiveTest(k)
      PROVE  WaitInv'
  <2>1. CASE AlreadySignaled(event[k])
    BY <1>0, <1>5, <2>1, GiveDeleteStep
  <2>2. CASE ~AlreadySignaled(event[k])
    <3>1. /\ pc[k] = "giveTest" /\ pc' = [pc EXCEPT ![k] = "giveSet"]
          /\ UNCHANGED <<mTransactions, mWaitingList, mListMutex, toSignal, event, liveEvents,
                         mIsSignaled, mSignalSem>>
      BY <1>5, <2>2 DEF GiveTest, Goto, listVars, taskVars, eventVars
    <3> QED BY <1>0, <3>1, Quiet DEF TypeOK, Signals, Active
  <2> QED BY <2>1, <2>2
<1>6. ASSUME NEW k \in Tasks, GivePost(k)
      PROVE  WaitInv'
  <2>1. /\ pc[k] = "givePost" /\ pc' = [pc EXCEPT ![k] = "after"]
        /\ mSignalSem' = mSignalSem \cup {event[k]}
        /\ UNCHANGED <<mTransactions, mWaitingList, mListMutex, toSignal, event, liveEvents,
                       mIsSignaled>>
    BY <1>6 DEF GivePost, PostSem, Goto, listVars, taskVars
  <2> QED BY <1>0, <2>1, Quiet DEF TypeOK, Signals, Active
<1>7. ASSUME NEW k \in Tasks, MarkAvailable(k)
      PROVE  WaitInv'
  <2>1. CASE mWaitingList[topParent[target[k]]] = <<>>
    <3>1. /\ pc[k] = "own" /\ pc' = [pc EXCEPT ![k] = "idle"]
          /\ UNCHANGED <<mTransactions, mWaitingList, mListMutex, toSignal, event, liveEvents,
                         mIsSignaled, mSignalSem>>
      BY <1>7, <2>1 DEF MarkAvailable, Goto, eventVars
    <3> QED BY <1>0, <3>1, Quiet DEF TypeOK, Signals, Active
  <2>2. CASE mWaitingList[topParent[target[k]]] # <<>>
    BY <1>7, <2>2, ReleaseHandStep
  <2> QED BY <2>1, <2>2
<1>8. ASSUME NEW k \in Tasks, NEW e \in Events, SignalTest(k, e)
      PROVE  WaitInv'
  BY <1>0, <1>8, SignalDeleteStep, SignalChooseStep
<1>9. ASSUME NEW k \in Tasks,
             \/ (\E t \in Transactions : SendRequest(k, t)) \/ WaitTimeout(k)
      PROVE  WaitInv'
  <2>1. UNCHANGED <<mTransactions, mWaitingList, toSignal, mListMutex, pc, event, eventVars>>
    BY <1>9 DEF SendRequest, WaitTimeout, listVars, taskVars
  <2> QED BY <2>1, SamePlaces
<1>10. CASE Tick \/ UNCHANGED vars
  <2>1. UNCHANGED <<mTransactions, mWaitingList, toSignal, mListMutex, pc, event, eventVars>>
    BY <1>10 DEF Tick, vars, listVars, taskVars
  <2> QED BY <2>1, SamePlaces
<1>11. ASSUME NEW k \in Tasks,
              \/ Wake(k) \/ GiveSet(k) \/ SignalSet(k) \/ SignalPost(k) \/ SignalDone(k)
       PROVE  WaitInv'
  BY <1>0, <1>11, WakeStep, GiveSetStep, SignalSetStep, SignalPostStep, SignalDoneStep
<1> QED
  BY <1>1, <1>2, <1>3, <1>4, <1>5, <1>6, <1>7, <1>8, <1>9, <1>10, <1>11, CheckStep,
     CollectHandStep DEF Next, Work, Signal

LEMMA WaitSpec == Spec => []WaitInv
<1>1. Init => WaitInv
  BY WaitInit
<1>2. IInv /\ TopInv /\ WaitInv /\ [Next]_vars => WaitInv'
  BY WaitStep
<1> QED BY <1>1, <1>2, TopSpec, PTL DEF Spec

\* Who waits can be woken: neither the release nor the collection of a tree
\* loses the event of a task that waits for it.
THEOREM WaitersReachable == Spec => []WaiterReachable
<1>1. WaitInv => WaiterReachable
  BY DEF WaitInv
<1> QED BY <1>1, WaitSpec, PTL
-----------------------------------------------------------------------------
(* Who waits for a collected transaction *)

\* An event is queued on the tree of the transaction that its task waits for.
PlaceInv ==
  \A k \in Tasks, t \in Transactions :
    pc[k] = "waiting" /\ event[k] \in Queued(t) => target[k] \in Tree(t)

\* no step parts the members of a tree in which somebody waits
LEMMA TreesKept ==
  ASSUME IInv, TopInv, [Next]_vars, NEW t \in Transactions, mWaitingList[t] # <<>>,
         NEW l \in Tasks, target[l] \in Tree(t)
  PROVE  target[l] \in Tree(t)'
<1> DEFINE x == target[l]
<1>1. /\ t \in mTransactions /\ topParent[t] = t
      /\ x \in allocated /\ topParent[x] = t /\ t \in allocated
  BY DEF TopInv, WaitersOnTopmost, Tree, IInv, SafeInv, ListInv
<1>2. CASE UNCHANGED <<allocated, topParent>>
  BY <1>2 DEF Tree
<1>3. ASSUME NEW k \in Tasks, NEW u \in Transactions, NewTransaction(k, u) \/ NewChild(k, u)
      PROVE  x \in Tree(t)'
  <2>1. /\ u \notin allocated /\ allocated' = allocated \cup {u}
        /\ topParent' = [topParent EXCEPT ![u] = u]
    BY <1>3 DEF NewTransaction, NewChild, AddTransaction
  <2>2. topParent'[x] = topParent[x] /\ topParent'[t] = topParent[t]
    BY <1>1, <2>1 DEF IInv, TypeInv, TypeOK
  <2> QED BY <1>1, <2>1, <2>2 DEF Tree
<1>4. ASSUME NEW k \in Tasks, LinkChild(k)
      PROVE  x \in Tree(t)'
  <2>1. child[k] # x /\ child[k] # t
    BY <1>4 DEF LinkChild, TopInv, UnlinkedInv
  <2>2. /\ topParent' = [topParent EXCEPT ![child[k]] = topParent[target[k]]]
        /\ allocated' = allocated
    BY <1>4 DEF LinkChild
  <2>3. topParent'[x] = topParent[x] /\ topParent'[t] = topParent[t]
    BY <1>1, <2>1, <2>2 DEF IInv, TypeInv, TypeOK
  <2> QED BY <1>1, <2>2, <2>3 DEF Tree
<1>5. ASSUME NEW k \in Tasks, DeleteTransactions(k)
      PROVE  x \in Tree(t)'
  <2>1. x \in mTransactions /\ toDelete[k] \cap mTransactions = {}
    BY <1>1 DEF IInv, SafeInv, TreeInv, ListInv
  <2>2. /\ allocated' = allocated \ toDelete[k]
        /\ topParent' = [u \in Transactions |-> IF u \in toDelete[k] THEN u ELSE topParent[u]]
    BY <1>5 DEF DeleteTransactions
  <2>3. x \in Transactions /\ x \notin toDelete[k] /\ t \notin toDelete[k]
    BY <1>1, <2>1 DEF IInv, TypeInv, TypeOK
  <2>4. topParent'[x] = topParent[x] /\ topParent'[t] = topParent[t] /\ x \in allocated'
    BY <1>1, <2>2, <2>3
  <2> QED BY <1>1, <2>4 DEF Tree
<1>6. ASSUME NEW k \in Tasks, \E u \in Transactions : Found(k, u) \/ SendRequest(k, u)
      PROVE  UNCHANGED <<allocated, topParent>>
  BY <1>6 DEF Found, SendRequest
<1>7. ASSUME NEW k \in Tasks,
             NotFound(k) \/ DropMessage(k) \/ WaitTimeout(k) \/ WaitGiveUp(k) \/ Wake(k)
               \/ GiveTest(k) \/ GiveSet(k) \/ GivePost(k) \/ AfterWait(k)
      PROVE  UNCHANGED <<allocated, topParent>>
  BY <1>7 DEF NotFound, DropMessage, WaitTimeout, WaitGiveUp, Wake, GiveTest, GiveSet, GivePost,
     AfterWait, listVars
<1>8. ASSUME NEW k \in Tasks, Signal(k)
      PROVE  UNCHANGED <<allocated, topParent>>
  BY <1>8 DEF Signal, SignalTest, SignalSet, SignalPost, SignalDone, listVars
<1>9. ASSUME NEW k \in Tasks, CheckAvailable(k) \/ MarkAvailable(k) \/ RemoveOldTransactions(k)
      PROVE  UNCHANGED <<allocated, topParent>>
  BY <1>9 DEF CheckAvailable, MarkAvailable, RemoveOldTransactions
<1>10. Tick \/ UNCHANGED vars => UNCHANGED <<allocated, topParent>>
  BY DEF Tick, vars, listVars
<1> QED
  BY <1>2, <1>3, <1>4, <1>5, <1>6, <1>7, <1>8, <1>9, <1>10 DEF Next, Work

\* a step that queues no event
LEMMA PlaceQuiet ==
  ASSUME IInv, TopInv, PlaceInv, [Next]_vars,
         \A t \in Transactions : Queued(t)' \subseteq Queued(t),
         \A l \in Tasks : pc'[l] = "waiting" =>
           pc[l] = "waiting" /\ event'[l] = event[l] /\ target'[l] = target[l]
  PROVE  PlaceInv'
<1> SUFFICES ASSUME NEW l \in Tasks, NEW t \in Transactions,
                    pc'[l] = "waiting", event'[l] \in Queued(t)'
             PROVE  target'[l] \in Tree(t)'
  BY DEF PlaceInv
<1>1. event[l] \in Queued(t) /\ target[l] \in Tree(t)
  BY DEF PlaceInv
<1>2. mWaitingList[t] # <<>>
  BY <1>1 DEF Queued, Range
<1> QED BY <1>1, <1>2, TreesKept

\* What a step that queues an event does.
Enqueues(k, e) ==
  /\ CheckAvailable(k)
  /\ pc[k] = "check" /\ mListMutex = None
  /\ target[k] \in mTransactions /\ mIsBusy[target[k]]
  /\ NewEvent(e)
  /\ mWaitingList' = [mWaitingList EXCEPT ![topParent[target[k]]] =
                        Append(mWaitingList[topParent[target[k]]], e)]
  /\ event' = [event EXCEPT ![k] = e] /\ pc' = [pc EXCEPT ![k] = "waiting"]
  /\ UNCHANGED <<mTransactions, allocated, topParent, mIsBusy, target, toSignal, mListMutex>>

\* The others only take events off the queues, and make nobody wait.
Serves ==
  /\ \A t \in Transactions : Queued(t)' \subseteq Queued(t)
  /\ \A l \in Tasks : pc'[l] = "waiting" =>
       pc[l] = "waiting" /\ event'[l] = event[l] /\ target'[l] = target[l]

\* a look that finds the transaction free or gone, the release and the collection
LEMMA ServesUnlessChecks ==
  ASSUME IInv, TopInv, WaitInv, [Next]_vars, NEW k \in Tasks,
         \/ MarkAvailable(k) \/ RemoveOldTransactions(k)
         \/ CheckAvailable(k) /\ (target[k] \notin mTransactions \/ ~mIsBusy[target[k]])
  PROVE  Serves
<1>0. TypeInv /\ TypeOK
  BY DEF IInv, TypeInv
<1>1. ASSUME CheckAvailable(k),
             target[k] \notin mTransactions \/ ~mIsBusy[target[k]]
      PROVE  Serves
  <2>1. /\ pc' = [pc EXCEPT ![k] = "none"] \/ pc' = [pc EXCEPT ![k] = "own"]
        /\ event' = [event EXCEPT ![k] = None]
        /\ target' = target \/ target' = [target EXCEPT ![k] = None]
        /\ mWaitingList' = mWaitingList
    BY <1>1 DEF CheckAvailable, Leave, Goto
  <2> QED BY <1>0, <2>1 DEF Serves, Queued, TypeOK
<1>2. ASSUME MarkAvailable(k)
      PROVE  Serves
  <2> DEFINE top == topParent[target[k]]
  <2>1. /\ pc' = [pc EXCEPT ![k] = "idle"] \/ pc' = [pc EXCEPT ![k] = "test"]
        /\ target' = [target EXCEPT ![k] = None] /\ event' = event
        /\ \/ mWaitingList' = mWaitingList
           \/ /\ mWaitingList[top] # <<>>
              /\ mWaitingList' = [mWaitingList EXCEPT ![top] = Tail(mWaitingList[top])]
    BY <1>2 DEF MarkAvailable, Goto
  <2>2. top \in Transactions
    BY <1>0, <1>2 DEF MarkAvailable, IInv, SafeInv, HolderInv, Owning, TypeOK
  <2>3. \A t \in Transactions : Queued(t)' \subseteq Queued(t)
    <3>1. CASE mWaitingList' = mWaitingList
      BY <3>1 DEF Queued
    <3>2. CASE /\ mWaitingList[top] # <<>>
               /\ mWaitingList' = [mWaitingList EXCEPT ![top] = Tail(mWaitingList[top])]
      <4>1. Range(Tail(mWaitingList[top])) \subseteq Queued(top)
        BY <1>0, <2>2, <3>2, QueuedEvents, TailQueue DEF Queued, WaitInv, SigInv, QueueInv
      <4>2. /\ mWaitingList'[top] = Tail(mWaitingList[top])
            /\ \A t \in Transactions \ {top} : mWaitingList'[t] = mWaitingList[t]
        BY <1>0, <2>2, <3>2 DEF TypeOK
      <4> HIDE DEF top
      <4> QED BY <4>1, <4>2 DEF Queued
    <3> QED BY <2>1, <3>1, <3>2
  <2> QED BY <1>0, <2>1, <2>3 DEF Serves, TypeOK
<1>3. ASSUME RemoveOldTransactions(k)
      PROVE  Serves
  <2>1. PICK tops : mWaitingList' = [t \in Transactions |-> IF t \in tops THEN <<>> ELSE mWaitingList[t]]
    BY <1>3 DEF RemoveOldTransactions
  <2>2. pc' = [pc EXCEPT ![k] = "test"] /\ UNCHANGED <<event, target>>
    BY <1>3 DEF RemoveOldTransactions, Goto
  <2>3. Range(<<>>) = {}
    BY DEF Range
  <2>4. \A t \in Transactions : Queued(t)' \subseteq Queued(t)
    BY <2>1, <2>3 DEF Queued
  <2> QED BY <1>0, <2>2, <2>4 DEF Serves, TypeOK
<1> QED BY <1>1, <1>2, <1>3

LEMMA EnqueuesOrServes ==
  ASSUME IInv, TopInv, WaitInv, [Next]_vars
  PROVE  Serves \/ \E k \in Tasks, e \in Events : Enqueues(k, e)
<1>0. TypeInv /\ TypeOK
  BY DEF IInv, TypeInv
<1>1. ASSUME NEW k \in Tasks, CheckAvailable(k), target[k] \in mTransactions, mIsBusy[target[k]]
      PROVE  \E e \in Events : Enqueues(k, e)
  BY <1>1 DEF CheckAvailable, Enqueues, NotifyWhenAvailable, Goto
<1>2. ASSUME NEW k \in Tasks, CheckAvailable(k),
             target[k] \notin mTransactions \/ ~mIsBusy[target[k]]
      PROVE  Serves
  BY <1>2, ServesUnlessChecks
<1>3. ASSUME NEW k \in Tasks, NEW t \in Transactions, NewTransaction(k, t) \/ NewChild(k, t)
      PROVE  Serves
  <2>1. /\ AddTransaction(t) /\ event' = event
        /\ pc' = [pc EXCEPT ![k] = "own"] \/ pc' = [pc EXCEPT ![k] = "link"]
        /\ target' = target \/ (pc' = [pc EXCEPT ![k] = "own"] /\ target' = [target EXCEPT ![k] = t])
    BY <1>3 DEF NewTransaction, NewChild, Goto
  <2>2. mWaitingList' = mWaitingList
    BY <2>1, TopAdd
  <2> QED BY <1>0, <2>1, <2>2 DEF Serves, Queued, TypeOK
<1>4. ASSUME NEW k \in Tasks, MarkAvailable(k) \/ RemoveOldTransactions(k)
      PROVE  Serves
  BY <1>4, ServesUnlessChecks
<1>6. ASSUME UNCHANGED mWaitingList, NEW k \in Tasks, NEW label \in PC, label # "waiting",
             pc' = [pc EXCEPT ![k] = label],
             \A l \in Tasks : l # k => event'[l] = event[l] /\ target'[l] = target[l]
      PROVE  Serves
  BY <1>0, <1>6 DEF Serves, Queued, TypeOK
<1>7. ASSUME NEW k \in Tasks, NotFound(k) \/ DropMessage(k) \/ LinkChild(k) \/ Wake(k)
                \/ WaitGiveUp(k) \/ GiveSet(k) \/ GivePost(k) \/ SignalSet(k) \/ DeleteTransactions(k)
      PROVE  Serves
  <2>1. /\ UNCHANGED <<mWaitingList, event, target>>
        /\ \E label \in PC \ {"waiting"} : pc' = [pc EXCEPT ![k] = label]
    BY <1>7 DEF NotFound, DropMessage, LinkChild, Wake, WaitGiveUp, GiveSet, GivePost, SignalSet,
       DeleteTransactions, Goto, listVars, taskVars, PC, Owning, Signals, Gives
  <2> QED BY <1>6, <2>1
<1>8. ASSUME NEW k \in Tasks, (\E t \in Transactions : Found(k, t)) \/ GiveTest(k) \/ AfterWait(k)
                \/ SignalPost(k) \/ SignalDone(k)
      PROVE  Serves
  <2>1. /\ UNCHANGED mWaitingList
        /\ event' = event \/ event' = [event EXCEPT ![k] = None]
        /\ target' = target \/ \E t : target' = [target EXCEPT ![k] = t]
        /\ \E label \in PC \ {"waiting"} : pc' = [pc EXCEPT ![k] = label]
    BY <1>8 DEF Found, GiveTest, AfterWait, SignalPost, SignalDone, Leave, Goto, listVars,
       taskVars, PC, Owning, Signals, Gives
  <2> QED BY <1>0, <1>6, <2>1 DEF TypeOK
<1>9. ASSUME NEW k \in Tasks, NEW e \in Events, SignalTest(k, e)
      PROVE  Serves
  <2>1. /\ UNCHANGED <<mWaitingList, target>> /\ pc[k] = "test"
        /\ \/ UNCHANGED <<pc, event>>
           \/ event' = [event EXCEPT ![k] = e] /\ pc' = [pc EXCEPT ![k] = "set"]
    BY <1>9 DEF SignalTest, Goto, listVars
  <2> QED BY <1>0, <2>1 DEF Serves, Queued, TypeOK
<1>10. ASSUME UNCHANGED <<mWaitingList, pc, event, target>>
       PROVE  Serves
  BY <1>10 DEF Serves, Queued
<1> QED
  BY <1>1, <1>2, <1>3, <1>4, <1>7, <1>8, <1>9, <1>10
  DEF Next, Work, Signal, SendRequest, WaitTimeout, Tick, vars, listVars, taskVars

LEMMA PlaceStep == IInv /\ TopInv /\ WaitInv /\ PlaceInv /\ [Next]_vars => PlaceInv'
<1> SUFFICES ASSUME IInv, TopInv, WaitInv, PlaceInv, [Next]_vars PROVE PlaceInv'
  OBVIOUS
<1>1. CASE Serves
  BY <1>1, PlaceQuiet DEF Serves
<1>2. ASSUME NEW k \in Tasks, NEW e \in Events, Enqueues(k, e)
      PROVE  PlaceInv'
  <2>0. PICK top \in mTransactions : top = topParent[target[k]]
    BY <1>2 DEF Enqueues, IInv, SafeInv, TreeInv, ListInv
  <2>1. /\ \A t \in Transactions : Tree(t)' = Tree(t)
        /\ \A t \in Transactions : e \notin Queued(t)
        /\ target[k] \in Tree(top) /\ mTransactions \subseteq Transactions
    BY <1>2, <2>0 DEF Enqueues, Tree, NewEvent, WaitInv, SigInv, QueueInv, IInv, TypeInv, TypeOK,
       SafeInv, TreeInv, ListInv
  <2>2. /\ pc'[k] = "waiting" /\ event'[k] = e /\ target' = target
        /\ \A l \in Tasks \ {k} : pc'[l] = pc[l] /\ event'[l] = event[l]
    BY <1>2 DEF Enqueues, IInv, TypeInv, TypeOK
  <2>3. /\ \A t \in Transactions \ {top} : Queued(t)' = Queued(t)
        /\ Queued(top)' = Queued(top) \cup {e}
    <3>1. mWaitingList \in [Transactions -> Seq(Events)] /\ top \in Transactions
      BY <2>1 DEF IInv, TypeInv, TypeOK
    <3>2. Range(Append(mWaitingList[top], e)) = Queued(top) \cup {e}
      BY <2>1, <3>1, AppendQueue DEF Queued, WaitInv, SigInv, QueueInv
    <3>3. /\ mWaitingList'[top] = Append(mWaitingList[top], e)
          /\ \A t \in Transactions \ {top} : mWaitingList'[t] = mWaitingList[t]
      BY <1>2, <2>0, <3>1 DEF Enqueues
    <3>4. Range(mWaitingList'[top]) = Queued(top) \cup {e}
      BY <3>2, <3>3
    <3>5. \A t \in Transactions \ {top} : Range(mWaitingList'[t]) = Range(mWaitingList[t])
      BY <3>3
    <3> QED BY <3>4, <3>5 DEF Queued
  <2>4. \A l \in Tasks \ {k} : pc[l] = "waiting" => event[l] # e
    BY <1>2 DEF Enqueues, NewEvent, WaitInv, SigInv, WaiterInv, Active
  <2> SUFFICES ASSUME NEW l \in Tasks, NEW t \in Transactions,
                      pc'[l] = "waiting", event'[l] \in Queued(t)'
               PROVE  target[l] \in Tree(t)
    BY <2>1, <2>2 DEF PlaceInv
  <2>5. CASE l = k
    <3>1. t = top
      BY <2>1, <2>2, <2>3, <2>5
    <3> QED BY <2>1, <2>5, <3>1
  <2>6. CASE l # k
    <3>1. pc[l] = "waiting" /\ event'[l] = event[l] /\ event[l] # e
      BY <2>2, <2>4, <2>6
    <3>2. event[l] \in Queued(t)
      <4>1. CASE t = top
        BY <2>3, <3>1, <4>1
      <4>2. CASE t # top
        <5>1. Queued(t)' = Queued(t)
          BY <2>3, <4>2
        <5> QED BY <3>1, <5>1
      <4> QED BY <4>1, <4>2
    <3> QED BY <3>1, <3>2 DEF PlaceInv
  <2> QED BY <2>5, <2>6
<1> QED BY <1>1, <1>2, EnqueuesOrServes

LEMMA PlaceSpec == Spec => [](IInv /\ TopInv /\ WaitInv /\ PlaceInv)
<1>1. Init => PlaceInv
  BY DEF Init, PlaceInv
<1>2. IInv /\ TopInv /\ WaitInv /\ PlaceInv /\ [Next]_vars => PlaceInv'
  BY PlaceStep
<1> QED BY <1>1, <1>2, TopSpec, WaitSpec, PTL DEF Spec

\* Whoever waits for a transaction that is not in the list any more has been
\* signalled, or is in the hands of the task that does: nobody sleeps on it
\* until a time-out (removeOldTransactions, signalAllAvailable).
CollectedSignalled ==
  \A k \in Tasks : pc[k] = "waiting" /\ target[k] \notin mTransactions =>
    \/ event[k] \in mSignalSem
    \/ \E l \in Tasks : \/ event[k] \in toSignal[l]
                        \/ pc[l] \in {"set", "post"} /\ event[l] = event[k]

THEOREM NobodySleepsOnCollected == Spec => []CollectedSignalled
<1>1. IInv /\ TopInv /\ WaitInv /\ PlaceInv => CollectedSignalled
  <2> SUFFICES ASSUME IInv, WaitInv, PlaceInv, NEW k \in Tasks, pc[k] = "waiting",
                      NEW t \in mTransactions, event[k] \in Queued(t)
               PROVE  target[k] \in mTransactions
    BY DEF CollectedSignalled, WaitInv, WaiterReachable, Queued
  <2>1. t \in Transactions /\ t \in allocated /\ target[k] \in Tree(t)
    BY DEF IInv, TypeInv, TypeOK, SafeInv, ListInv, PlaceInv
  <2> QED BY <2>1 DEF Tree, IInv, SafeInv, TreeInv
<1> QED BY <1>1, PlaceSpec, PTL
-----------------------------------------------------------------------------
(* As long as no wait reaches its last second *)

\* No task has given a wait up.
Patient == \A k \in Tasks : ~gaveUp[k]

Awaited(e) == \E k \in Tasks : pc[k] = "waiting" /\ event[k] = e

\* Then the waiter is always the second to signal its event, ...
SecondInv ==
  /\ mSignalSem \subseteq mIsSignaled
  /\ \A k \in Tasks : /\ pc[k] \notin {"giveSet", "givePost"}
                      /\ pc[k] = "giveTest" => event[k] \in mIsSignaled

\* ... nobody has left an event behind, and none is signalled twice, ...
AwaitedInv ==
  /\ \A t \in Transactions : \A e \in Queued(t) : e \notin mIsSignaled /\ Awaited(e)
  /\ \A l \in Tasks : \A e \in Pending(l) : e \notin mIsSignaled /\ Awaited(e)
  /\ \A l \in Tasks : pc[l] = "post" =>
       event[l] \in (mIsSignaled \cap liveEvents) \ mSignalSem /\ Awaited(event[l])

\* ... and a tree that is free while somebody is queued on it has an heir: a
\* task whose event was taken off the queue and that has not looked again.
Heir(l, t) ==
  /\ target[l] \in Tree(t)
  /\ \/ pc[l] \in {"check", "after", "giveTest"}
     \/ pc[l] = "waiting" /\ \A u \in Transactions : event[l] \notin Queued(u)
HandInv ==
  \A t \in Transactions : mWaitingList[t] # <<>> /\ ~mIsBusy[t] => \E l \in Tasks : Heir(l, t)

TurnInv == SecondInv /\ AwaitedInv

\* a step that queues, signals and wakes nobody
LEMMA TurnQuiet ==
  ASSUME TurnInv,
         UNCHANGED <<mWaitingList, toSignal, liveEvents, mIsSignaled, mSignalSem>>,
         \A l \in Tasks :
           /\ pc'[l] \notin {"giveSet", "givePost"}
           /\ pc[l] = "waiting" => pc'[l] = "waiting" /\ event'[l] = event[l]
           /\ pc'[l] \in {"giveTest", "set", "post"} => pc'[l] = pc[l] /\ event'[l] = event[l]
  PROVE  TurnInv'
<1>1. \A e \in Events : Awaited(e) => Awaited(e)'
  BY DEF Awaited
<1>2. \A t \in Transactions : Queued(t)' = Queued(t)
  BY DEF Queued
<1>3. \A l \in Tasks : Pending(l)' \subseteq Pending(l)
  BY DEF Pending
<1>4. \A e : Awaited(e) => Awaited(e)'
  BY DEF Awaited
<1>5. SecondInv'
  BY DEF TurnInv, SecondInv
<1>6. AwaitedInv'
  BY <1>2, <1>3, <1>4 DEF TurnInv, AwaitedInv
<1> QED BY <1>5, <1>6 DEF TurnInv

\* the waiter is woken: its event was signalled and is in nobody's hands
LEMMA TurnWake ==
  ASSUME TypeInv, WaitInv, TurnInv, NEW k \in Tasks, Wake(k)
  PROVE  TurnInv'
<1>1. /\ pc[k] = "waiting" /\ event[k] \in mSignalSem
      /\ pc' = [pc EXCEPT ![k] = "giveTest"] /\ mSignalSem' = mSignalSem \ {event[k]}
      /\ UNCHANGED <<mWaitingList, toSignal, event, liveEvents, mIsSignaled>>
  BY DEF Wake, TakeSem, Goto, listVars
<1>2. pc'[k] = "giveTest" /\ \A l \in Tasks \ {k} : pc'[l] = pc[l]
  BY <1>1 DEF TypeInv, TypeOK
<1>3. /\ \A t \in Transactions : Queued(t)' = Queued(t)
      /\ \A l \in Tasks : Pending(l)' = Pending(l)
  BY <1>1, <1>2 DEF Queued, Pending
<1>4. \A e : Awaited(e) /\ e # event[k] => Awaited(e)'
  BY <1>1, <1>2 DEF Awaited
<1>5. SecondInv'
  BY <1>1, <1>2 DEF TurnInv, SecondInv
<1>6. event[k] \in mIsSignaled
  BY <1>1 DEF TurnInv, SecondInv
<1>7. \A l \in Tasks : pc'[l] = "post" => pc[l] = "post" /\ event[l] # event[k]
  BY <1>1, <1>2 DEF TurnInv, AwaitedInv
<1>8. AwaitedInv'
  BY <1>1, <1>3, <1>4, <1>6, <1>7 DEF TurnInv, AwaitedInv
<1> QED BY <1>5, <1>8 DEF TurnInv

\* the waiter deletes its event, which is nobody else's
LEMMA TurnGive ==
  ASSUME TypeInv, WaitInv, TurnInv, NEW k \in Tasks, GiveTest(k)
  PROVE  TurnInv' /\ pc' = [pc EXCEPT ![k] = "after"]
<1> DEFINE e == event[k]
<1>1. pc[k] = "giveTest" /\ AlreadySignaled(e)
  BY DEF GiveTest, TurnInv, SecondInv, AlreadySignaled
<1>2. /\ pc' = [pc EXCEPT ![k] = "after"]
      /\ liveEvents' = liveEvents \ {e} /\ mIsSignaled' = mIsSignaled \ {e}
      /\ mSignalSem' = mSignalSem \ {e}
      /\ UNCHANGED <<mWaitingList, toSignal, event>>
  BY <1>1 DEF GiveTest, DeleteEvent, Goto, listVars, taskVars
<1>3. pc'[k] = "after" /\ \A l \in Tasks \ {k} : pc'[l] = pc[l]
  BY <1>2 DEF TypeInv, TypeOK
<1>4. /\ \A t \in Transactions : Queued(t)' = Queued(t)
      /\ \A l \in Tasks : Pending(l)' = Pending(l)
  BY <1>1, <1>2, <1>3 DEF Queued, Pending
<1>5. \A x : Awaited(x) => Awaited(x)' /\ x # e
  BY <1>1, <1>2, <1>3 DEF Awaited, WaitInv, SigInv, WaiterInv, Active
<1>6. \A l \in Tasks \ {k} : pc[l] = "giveTest" => event[l] # e
  BY <1>1 DEF WaitInv, SigInv, WaiterInv, Active
<1>7. SecondInv'
  BY <1>2, <1>3, <1>6 DEF TurnInv, SecondInv
<1>8. \A l \in Tasks : pc'[l] = "post" => pc[l] = "post"
  BY <1>3
<1>9. AwaitedInv'
  BY <1>2, <1>4, <1>5, <1>8 DEF TurnInv, AwaitedInv
<1> QED BY <1>2, <1>7, <1>9 DEF TurnInv

\* a new event is not signalled, and its task waits for it
LEMMA TurnQueue ==
  ASSUME TypeInv, SafeInv, WaitInv, TurnInv, NEW k \in Tasks, NEW e \in Events, Enqueues(k, e)
  PROVE  TurnInv'
<1>0. PICK top \in mTransactions : top = topParent[target[k]]
  BY DEF Enqueues, SafeInv, TreeInv, ListInv
<1>1. /\ e \notin liveEvents /\ liveEvents' = liveEvents \cup {e} /\ pc[k] = "check"
      /\ mIsSignaled' = mIsSignaled \ {e} /\ mSignalSem' = mSignalSem \ {e}
      /\ top \in Transactions /\ mWaitingList \in [Transactions -> Seq(Events)]
  BY DEF Enqueues, NewEvent, TypeInv, TypeOK
<1>2. /\ pc'[k] = "waiting" /\ event'[k] = e
      /\ \A l \in Tasks \ {k} : pc'[l] = pc[l] /\ event'[l] = event[l]
  BY DEF Enqueues, TypeInv, TypeOK
<1>3. \A l \in Tasks : pc[l] \notin Signals /\ pc'[l] \notin Signals /\ Pending(l)' = {}
  BY <1>2, NoPending DEF Enqueues, TypeInv, Pending, Signals
<1>4. \A t \in Transactions : Queued(t)' \subseteq Queued(t) \cup {e}
  <2>1. e \notin Queued(top) /\ Injective(mWaitingList[top])
    BY <1>1 DEF WaitInv, SigInv, QueueInv
  <2>2. Range(Append(mWaitingList[top], e)) = Queued(top) \cup {e}
    BY <1>1, <2>1, AppendQueue DEF Queued
  <2>3. Range(mWaitingList'[top]) = Queued(top) \cup {e}
    BY <1>0, <1>1, <2>2 DEF Enqueues
  <2>4. \A t \in Transactions \ {top} : Range(mWaitingList'[t]) = Range(mWaitingList[t])
    BY <1>0, <1>1 DEF Enqueues
  <2> QED BY <2>3, <2>4 DEF Queued
<1>5. \A x : Awaited(x) => Awaited(x)'
  BY <1>1, <1>2 DEF Awaited
<1>6. Awaited(e)'
  BY <1>2 DEF Awaited
<1>7. \A l \in Tasks \ {k} : pc[l] = "giveTest" => event[l] # e
  BY <1>1 DEF WaitInv, SigInv, WaiterInv, Active
<1>8. SecondInv'
  BY <1>1, <1>2, <1>7 DEF TurnInv, SecondInv
<1>9. AwaitedInv'
  BY <1>1, <1>3, <1>4, <1>5, <1>6 DEF TurnInv, AwaitedInv, Signals
<1> QED BY <1>8, <1>9 DEF TurnInv

\* events are handed from the queues to the task that is going to signal them
LEMMA TurnHand ==
  ASSUME TypeInv, WaitInv, TurnInv, NEW k \in Tasks, NEW es,
         mListMutex = None, pc[k] \in {"own", "idle"},
         pc' = [pc EXCEPT ![k] = "test"], toSignal' = [toSignal EXCEPT ![k] = es],
         UNCHANGED <<event, liveEvents, mIsSignaled, mSignalSem>>,
         \A e \in es : \E t \in Transactions : e \in Queued(t),
         \A t \in Transactions : Queued(t)' \subseteq Queued(t)
  PROVE  TurnInv'
<1>1. \A l \in Tasks : pc[l] \notin Signals /\ toSignal[l] = {}
  BY NoPending DEF TypeInv
<1>2. /\ pc'[k] = "test" /\ toSignal'[k] = es
      /\ \A l \in Tasks \ {k} : pc'[l] = pc[l] /\ toSignal'[l] = {}
  BY <1>1 DEF TypeInv, TypeOK
<1>3. /\ \A l \in Tasks : Pending(l)' \subseteq es
      /\ \A l \in Tasks : pc'[l] # "post"
  BY <1>1, <1>2 DEF Pending, Signals
<1>4. \A x : Awaited(x) => Awaited(x)'
  BY <1>2 DEF Awaited
<1>5. SecondInv'
  BY <1>2 DEF TurnInv, SecondInv
<1>6. AwaitedInv'
  BY <1>3, <1>4 DEF TurnInv, AwaitedInv
<1> QED BY <1>5, <1>6 DEF TurnInv

\* the release, the collection and what they signal
LEMMA TurnSignal ==
  ASSUME TypeInv, WaitInv, TurnInv, NEW k \in Tasks, Signal(k)
  PROVE  TurnInv' /\ \A l \in Tasks : pc'[l] # pc[l] => pc[l] \in Signals
<1> USE DEF TypeInv
<1>0. k \in Tasks /\ (pc[k] \in Signals => \A l \in Tasks \ {k} : pc[l] \notin Signals /\ Pending(l) = {})
  BY NoPending DEF WaitInv, SigInv, MutexInv
<1>1. ASSUME NEW e \in Events, SignalTest(k, e)
      PROVE  TurnInv' /\ \A l \in Tasks \ {k} : pc'[l] = pc[l]
  <2>1. /\ pc[k] = "test" /\ e \in toSignal[k] /\ e \in Pending(k)
        /\ ~AlreadySignaled(e)
    BY <1>1 DEF SignalTest, Pending, TurnInv, AwaitedInv, AlreadySignaled
  <2>2. /\ toSignal' = [toSignal EXCEPT ![k] = toSignal[k] \ {e}]
        /\ pc' = [pc EXCEPT ![k] = "set"] /\ event' = [event EXCEPT ![k] = e]
        /\ UNCHANGED <<mWaitingList, liveEvents, mIsSignaled, mSignalSem>>
    BY <1>1, <2>1 DEF SignalTest, Goto, listVars, eventVars
  <2>3. /\ pc'[k] = "set" /\ event'[k] = e /\ toSignal'[k] = toSignal[k] \ {e}
        /\ \A l \in Tasks \ {k} : pc'[l] = pc[l] /\ event'[l] = event[l] /\ toSignal'[l] = toSignal[l]
    BY <2>2 DEF TypeOK
  <2>4. /\ \A t \in Transactions : Queued(t)' = Queued(t)
        /\ \A l \in Tasks : Pending(l)' \subseteq Pending(l)
    BY <2>1, <2>2, <2>3 DEF Queued, Pending
  <2>5. \A x : Awaited(x) => Awaited(x)'
    BY <2>1, <2>3 DEF Awaited
  <2>6. SecondInv'
    BY <2>2, <2>3 DEF TurnInv, SecondInv
  <2>7. \A l \in Tasks : pc'[l] = "post" => pc[l] = "post" /\ event'[l] = event[l]
    BY <2>3
  <2>8. AwaitedInv'
    BY <2>2, <2>4, <2>5, <2>7 DEF TurnInv, AwaitedInv
  <2> QED BY <2>3, <2>6, <2>8 DEF TurnInv
<1>2. ASSUME SignalSet(k)
      PROVE  TurnInv' /\ \A l \in Tasks \ {k} : pc'[l] = pc[l]
  <2> DEFINE e == event[k]
  <2>1. /\ pc[k] = "set" /\ pc' = [pc EXCEPT ![k] = "post"] /\ e \in Events
        /\ mIsSignaled' = mIsSignaled \cup {e}
        /\ UNCHANGED <<mWaitingList, toSignal, event, liveEvents, mSignalSem>>
    BY <1>2 DEF SignalSet, SetSignaled, Goto, listVars, taskVars, PointerInv
  <2>2. pc'[k] = "post" /\ \A l \in Tasks \ {k} : pc'[l] = pc[l]
    BY <2>1 DEF TypeOK
  <2>3. e \in Pending(k) /\ e \notin toSignal[k] /\ e \in liveEvents
    BY <2>1 DEF Pending, WaitInv, SigInv, PendingInv
  <2>4. e \notin mSignalSem /\ Awaited(e)
    BY <2>3 DEF TurnInv, AwaitedInv, SecondInv
  <2>5. /\ \A t \in Transactions : Queued(t)' = Queued(t) /\ e \notin Queued(t)
        /\ \A l \in Tasks : Pending(l)' \subseteq Pending(l) \ {e}
    BY <1>0, <2>1, <2>2, <2>3 DEF Queued, Pending, WaitInv, SigInv, PendingInv, Signals
  <2>6. \A x : Awaited(x) => Awaited(x)'
    BY <2>1, <2>2 DEF Awaited
  <2>7. SecondInv'
    BY <2>1, <2>2 DEF TurnInv, SecondInv
  <2>8. \A l \in Tasks \ {k} : pc'[l] # "post"
    BY <1>0, <2>1, <2>2 DEF Signals
  <2>9. AwaitedInv'
    BY <2>1, <2>3, <2>4, <2>5, <2>6, <2>8 DEF TurnInv, AwaitedInv
  <2> QED BY <2>2, <2>7, <2>9 DEF TurnInv
<1>3. ASSUME SignalPost(k)
      PROVE  TurnInv' /\ \A l \in Tasks \ {k} : pc'[l] = pc[l]
  <2>1. /\ pc[k] = "post" /\ pc' = [pc EXCEPT ![k] = "test"]
        /\ event' = [event EXCEPT ![k] = None] /\ mSignalSem' = mSignalSem \cup {event[k]}
        /\ UNCHANGED <<mWaitingList, toSignal, liveEvents, mIsSignaled>>
    BY <1>3 DEF SignalPost, PostSem, Goto, listVars
  <2>2. /\ pc'[k] = "test"
        /\ \A l \in Tasks \ {k} : pc'[l] = pc[l] /\ event'[l] = event[l]
    BY <2>1 DEF TypeOK
  <2>3. /\ \A t \in Transactions : Queued(t)' = Queued(t)
        /\ \A l \in Tasks : Pending(l)' = Pending(l)
    BY <2>1, <2>2 DEF Queued, Pending
  <2>4. \A x : Awaited(x) => Awaited(x)'
    BY <2>1, <2>2 DEF Awaited
  <2>5. SecondInv'
    BY <2>1, <2>2 DEF TurnInv, SecondInv, AwaitedInv
  <2>6. \A l \in Tasks : pc'[l] # "post"
    BY <1>0, <2>1, <2>2 DEF Signals
  <2>7. AwaitedInv'
    BY <2>1, <2>3, <2>4, <2>6 DEF TurnInv, AwaitedInv
  <2> QED BY <2>2, <2>5, <2>7 DEF TurnInv
<1>4. ASSUME SignalDone(k)
      PROVE  TurnInv' /\ \A l \in Tasks \ {k} : pc'[l] = pc[l]
  <2>1. /\ pc[k] = "test"
        /\ pc' = [pc EXCEPT ![k] = "idle"] \/ pc' = [pc EXCEPT ![k] = "delete"]
        /\ UNCHANGED <<mWaitingList, toSignal, event, liveEvents, mIsSignaled, mSignalSem>>
    BY <1>4 DEF SignalDone, Goto, listVars, taskVars, eventVars
  <2>2. /\ pc[k] = "test" /\ pc'[k] \in {"idle", "delete"}
        /\ \A l \in Tasks \ {k} : pc'[l] = pc[l]
    BY <1>4, <2>1 DEF SignalDone, TypeOK
  <2>3. \A l \in Tasks : pc[l] \notin {"giveSet", "givePost"}
    BY DEF TurnInv, SecondInv
  <2> QED BY <2>1, <2>2, <2>3, TurnQuiet
<1>5. pc[k] \in Signals
  BY DEF Signal, SignalTest, SignalSet, SignalPost, SignalDone, Signals
<1> QED BY <1>1, <1>2, <1>3, <1>4, <1>5 DEF Signal

LEMMA TurnStep ==
  IInv /\ TopInv /\ WaitInv /\ TurnInv /\ Patient /\ Patient' /\ [Next]_vars => TurnInv'
<1> SUFFICES ASSUME IInv, TopInv, WaitInv, TurnInv, Patient, Patient', [Next]_vars
             PROVE  TurnInv'
  OBVIOUS
<1>0. TypeInv /\ TypeOK /\ SafeInv
  BY DEF IInv, TypeInv
<1>1. \A l \in Tasks : pc[l] \notin {"giveSet", "givePost"}
  BY DEF TurnInv, SecondInv
<1>2. ASSUME NEW k \in Tasks, NEW label \in PC \ ({"giveTest", "giveSet", "givePost"} \cup Signals),
             pc[k] # "waiting", pc' = [pc EXCEPT ![k] = label],
             \A l \in Tasks \ {k} : event'[l] = event[l],
             UNCHANGED <<mWaitingList, toSignal, liveEvents, mIsSignaled, mSignalSem>>
      PROVE  TurnInv'
  <2>1. pc'[k] = label /\ \A l \in Tasks \ {k} : pc'[l] = pc[l] /\ event'[l] = event[l]
    BY <1>0, <1>2 DEF TypeOK
  <2> QED BY <1>1, <1>2, <2>1, TurnQuiet DEF Signals
<1>3. ASSUME NEW k \in Tasks, NEW t \in Transactions, NewTransaction(k, t) \/ NewChild(k, t)
      PROVE  TurnInv'
  <2>1. /\ AddTransaction(t) /\ pc[k] \in {"none", "own"}
        /\ pc' = [pc EXCEPT ![k] = "own"] \/ pc' = [pc EXCEPT ![k] = "link"]
        /\ UNCHANGED <<toSignal, event, liveEvents, mIsSignaled, mSignalSem>>
    BY <1>3 DEF NewTransaction, NewChild, Goto, eventVars
  <2>2. mWaitingList' = mWaitingList
    BY <2>1, TopAdd
  <2> QED BY <1>2, <2>1, <2>2 DEF PC, Owning, Signals
<1>4. ASSUME NEW k \in Tasks,
             \/ \E t \in Transactions : Found(k, t)
             \/ NotFound(k) \/ DropMessage(k) \/ LinkChild(k) \/ DeleteTransactions(k) \/ AfterWait(k)
      PROVE  TurnInv'
  <2>1. /\ pc[k] \in {"idle", "none", "link", "delete", "after"}
        /\ \E label \in {"own", "check", "none", "idle"} : pc' = [pc EXCEPT ![k] = label]
        /\ event' = event \/ event' = [event EXCEPT ![k] = None]
        /\ UNCHANGED <<mWaitingList, toSignal, liveEvents, mIsSignaled, mSignalSem>>
    BY <1>4 DEF Found, NotFound, DropMessage, LinkChild, DeleteTransactions, AfterWait, Leave, Goto,
       listVars, taskVars, eventVars
  <2>2. \A l \in Tasks \ {k} : event'[l] = event[l]
    BY <1>0, <2>1 DEF TypeOK
  <2> QED BY <1>2, <2>1, <2>2 DEF PC, Owning, Signals
<1>5. ASSUME NEW k \in Tasks, CheckAvailable(k)
      PROVE  TurnInv'
  <2>1. CASE target[k] \in mTransactions /\ mIsBusy[target[k]]
    <3>1. \E e \in Events : Enqueues(k, e)
      BY <1>5, <2>1 DEF CheckAvailable, Enqueues, NotifyWhenAvailable, Goto
    <3> QED BY <1>0, <3>1, TurnQueue
  <2>2. CASE target[k] \notin mTransactions \/ ~mIsBusy[target[k]]
    <3>1. /\ pc[k] = "check" /\ event' = [event EXCEPT ![k] = None]
          /\ pc' = [pc EXCEPT ![k] = "none"] \/ pc' = [pc EXCEPT ![k] = "own"]
          /\ UNCHANGED <<mWaitingList, toSignal, liveEvents, mIsSignaled, mSignalSem>>
      BY <1>5, <2>2 DEF CheckAvailable, Leave, Goto, eventVars
    <3>2. \A l \in Tasks \ {k} : event'[l] = event[l]
      BY <1>0, <3>1 DEF TypeOK
    <3> QED BY <1>2, <3>1, <3>2 DEF PC, Owning, Signals
  <2> QED BY <2>1, <2>2
<1>6. ASSUME NEW k \in Tasks, MarkAvailable(k)
      PROVE  TurnInv'
  <2>1. PICK top \in Transactions : top = topParent[target[k]]
    BY <1>0, <1>6 DEF MarkAvailable, SafeInv, HolderInv, Owning, TypeOK
  <2>2. CASE mWaitingList[top] = <<>>
    <3>1. /\ pc[k] = "own" /\ pc' = [pc EXCEPT ![k] = "idle"]
          /\ UNCHANGED <<mWaitingList, toSignal, event, liveEvents, mIsSignaled, mSignalSem>>
      BY <1>6, <2>1, <2>2 DEF MarkAvailable, Goto, eventVars
    <3> QED BY <1>2, <3>1 DEF PC, Owning, Signals
  <2>3. CASE mWaitingList[top] # <<>>
    <3>1. /\ pc[k] = "own" /\ mListMutex = None /\ pc' = [pc EXCEPT ![k] = "test"]
          /\ toSignal' = [toSignal EXCEPT ![k] = {Head(mWaitingList[top])}]
          /\ UNCHANGED <<event, liveEvents, mIsSignaled, mSignalSem>>
      BY <1>6, <2>1, <2>3 DEF MarkAvailable, Goto, eventVars
    <3>2. \A e \in {Head(mWaitingList[top])} : \E t \in Transactions : e \in Queued(t)
      BY <1>0, <2>3, QueuedEvents, TailQueue DEF Queued, WaitInv, SigInv, QueueInv
    <3>3. \A t \in Transactions : Queued(t)' \subseteq Queued(t)
      BY <1>6, ServesUnlessChecks DEF Serves
    <3> DEFINE es == {Head(mWaitingList[top])}
    <3>4. toSignal' = [toSignal EXCEPT ![k] = es] /\ \A e \in es : \E t \in Transactions : e \in Queued(t)
      BY <3>1, <3>2
    <3> HIDE DEF es
    <3> QED BY <1>0, <3>1, <3>3, <3>4, TurnHand
  <2> QED BY <2>2, <2>3
<1>7. ASSUME NEW k \in Tasks, RemoveOldTransactions(k)
      PROVE  TurnInv'
  <2> DEFINE tops == {topParent[t] : t \in {u \in mTransactions : Collectable(u)}}
  <2>1. toSignal' = [toSignal EXCEPT ![k] = AllWaiting(tops)]
    BY <1>7 DEF RemoveOldTransactions
  <2>2. /\ pc[k] = "idle" /\ mListMutex = None /\ pc' = [pc EXCEPT ![k] = "test"]
        /\ UNCHANGED <<event, liveEvents, mIsSignaled, mSignalSem>>
    BY <1>7 DEF RemoveOldTransactions, Goto, eventVars
  <2>3. \A e \in AllWaiting(tops) : \E t \in Transactions : e \in Queued(t)
    <3>1. tops \subseteq Transactions
      BY <1>0 DEF TypeOK
    <3> QED BY <3>1 DEF AllWaiting, Queued
  <2> HIDE DEF tops
  <2>4. \A t \in Transactions : Queued(t)' \subseteq Queued(t)
    BY <1>7, ServesUnlessChecks DEF Serves
  <2> QED BY <1>0, <2>1, <2>2, <2>3, <2>4, TurnHand
<1>8. CASE UNCHANGED <<mWaitingList, toSignal, pc, event, eventVars>>
  BY <1>1, <1>8, TurnQuiet DEF eventVars
<1>9. ASSUME NEW k \in Tasks, WaitGiveUp(k)
      PROVE  FALSE
  BY <1>0, <1>9 DEF WaitGiveUp, Patient, TypeOK
<1>10. ASSUME NEW k \in Tasks, GiveSet(k) \/ GivePost(k)
       PROVE  FALSE
  BY <1>1, <1>10 DEF GiveSet, GivePost
<1> QED
  BY <1>0, <1>3, <1>4, <1>5, <1>6, <1>7, <1>8, <1>9, <1>10, TurnWake, TurnGive, TurnSignal
  DEF Next, Work, SendRequest, WaitTimeout, Tick, vars, listVars, taskVars
-----------------------------------------------------------------------------
(* The heirs *)

Seeking == {"check", "after", "giveTest", "waiting"}

\* the heirs of a tree stay its heirs
LEMMA HeirsStay ==
  ASSUME IInv, TopInv, HandInv, [Next]_vars,
         NEW t \in Transactions, mWaitingList[t] # <<>>, ~mIsBusy[t],
         \A u \in Transactions : Queued(u)' \subseteq Queued(u),
         \A l \in Tasks : Heir(l, t) =>
           /\ target'[l] = target[l]
           /\ \/ pc'[l] \in {"check", "after", "giveTest"}
              \/ pc[l] = "waiting" /\ pc'[l] = "waiting" /\ event'[l] = event[l]
  PROVE  \E l \in Tasks : Heir(l, t)'
<1>1. PICK l \in Tasks : Heir(l, t)
  BY DEF HandInv
<1>2. target'[l] \in Tree(t)'
  BY <1>1, TreesKept DEF Heir
<1> QED BY <1>1, <1>2 DEF Heir

\* a step of a task that is no heir, and that makes no tree free
LEMMA HandOthers ==
  ASSUME IInv, TopInv, HandInv, [Next]_vars, Serves,
         \A t \in Transactions : ~mIsBusy'[t] => ~mIsBusy[t],
         \A t \in Transactions : mWaitingList'[t] # <<>> => mWaitingList[t] # <<>>,
         \A l \in Tasks : pc[l] \in Seeking =>
           pc'[l] = pc[l] /\ target'[l] = target[l] /\ event'[l] = event[l]
  PROVE  HandInv'
<1> SUFFICES ASSUME NEW t \in Transactions, mWaitingList'[t] # <<>>, ~mIsBusy'[t]
             PROVE  \E l \in Tasks : Heir(l, t)'
  BY DEF HandInv
<1> QED BY HeirsStay DEF Serves, Heir, Seeking

\* the heir wakes, deletes its event and goes to look again
LEMMA HandSeeks ==
  ASSUME IInv, TopInv, WaitInv, HandInv, TurnInv, Patient, [Next]_vars, Serves, NEW k \in Tasks,
         Wake(k) \/ GiveTest(k) \/ AfterWait(k)
  PROVE  HandInv'
<1>1. /\ UNCHANGED <<mWaitingList, mIsBusy>> /\ target'[k] = target[k]
      /\ pc'[k] \in {"check", "after", "giveTest"}
      /\ \A l \in Tasks \ {k} : pc'[l] = pc[l] /\ target'[l] = target[l] /\ event'[l] = event[l]
  <2>1. CASE Wake(k)
    BY <2>1 DEF Wake, Goto, listVars, IInv, TypeInv, TypeOK
  <2>2. CASE GiveTest(k)
    BY <2>2, TurnGive DEF GiveTest, listVars, taskVars, IInv, TypeInv, TypeOK
  <2>3. CASE AfterWait(k)
    BY <2>3 DEF AfterWait, Goto, Patient, listVars, IInv, TypeInv, TypeOK
  <2> QED BY <2>1, <2>2, <2>3
<1> SUFFICES ASSUME NEW t \in Transactions, mWaitingList'[t] # <<>>, ~mIsBusy'[t]
             PROVE  \E l \in Tasks : Heir(l, t)'
  BY DEF HandInv
<1> QED BY <1>1, HeirsStay DEF Serves, Heir

\* the heir takes the tree, or somebody else has it
LEMMA HandChecks ==
  ASSUME IInv, TopInv, WaitInv, HandInv, [Next]_vars, NEW k \in Tasks, CheckAvailable(k)
  PROVE  HandInv'
<1> DEFINE x == target[k]
<1>0. TypeOK /\ x \in Transactions /\ pc[k] = "check"
  BY DEF CheckAvailable, IInv, TypeInv, PointerInv
<1>1. \A l \in Tasks \ {k} : pc'[l] = pc[l] /\ target'[l] = target[l] /\ event'[l] = event[l]
  BY <1>0 DEF CheckAvailable, Leave, Goto, TypeOK
<1>2. UNCHANGED <<topParent, allocated, mTransactions>>
  BY DEF CheckAvailable
<1> SUFFICES ASSUME NEW t \in Transactions, mWaitingList'[t] # <<>>, ~mIsBusy'[t]
             PROVE  \E l \in Tasks : Heir(l, t)'
  BY DEF HandInv
<1>3. CASE x \notin mTransactions \/ ~mIsBusy[x]
  <2>1. Serves /\ mWaitingList' = mWaitingList
    BY <1>3, ServesUnlessChecks DEF CheckAvailable, Leave
  <2>2. t \in mTransactions /\ topParent[t] = t /\ t \in allocated
    BY <2>1 DEF TopInv, WaitersOnTopmost, IInv, SafeInv, ListInv
  <2>3. ~Heir(k, t)
    <3>1. SUFFICES ASSUME x \in Tree(t) PROVE FALSE
      BY DEF Heir
    <3>2. x \in mTransactions /\ t \in Tree(x)
      BY <2>2, <3>1 DEF Tree, IInv, SafeInv, TreeInv
    <3>3. mIsBusy'[t]
      BY <1>3, <3>2 DEF CheckAvailable, SetBusy
    <3> QED BY <3>3
  <2>4. ~mIsBusy[t]
    BY <1>3 DEF CheckAvailable, SetBusy
  <2> QED BY <1>1, <2>1, <2>3, <2>4, HeirsStay DEF Serves, Heir
<1>4. CASE x \in mTransactions /\ mIsBusy[x]
  <2>1. PICK e \in Events : Enqueues(k, e)
    BY <1>4 DEF CheckAvailable, Enqueues, NotifyWhenAvailable, Goto
  <2>2. PICK top \in mTransactions : top = topParent[x]
    BY <1>4 DEF IInv, SafeInv, TreeInv, ListInv
  <2>3. mIsBusy[top] /\ topParent[top] = top
    BY <1>4, <2>2 DEF IInv, SafeInv, AgreeInv, TreeInv, ListInv
  <2>4. t # top /\ ~mIsBusy[t]
    BY <2>1, <2>3 DEF Enqueues
  <2>5. /\ mWaitingList'[t] = mWaitingList[t]
        /\ \A u \in Transactions \ {top} : Range(mWaitingList'[u]) = Range(mWaitingList[u])
        /\ mWaitingList'[top] = Append(mWaitingList[top], e)
    BY <1>0, <2>1, <2>2, <2>4 DEF Enqueues, TypeOK
  <2>6. PICK l \in Tasks : Heir(l, t)
    BY <2>4, <2>5 DEF HandInv
  <2>7. topParent[t] = t
    BY <2>5 DEF TopInv, WaitersOnTopmost
  <2>8. l # k
    BY <2>2, <2>4, <2>6, <2>7 DEF Heir, Tree
  <2>9. target'[l] \in Tree(t)'
    BY <1>1, <2>5, <2>6, <2>8, TreesKept DEF Heir
  <2>10. ASSUME pc[l] = "waiting", \A u \in Transactions : event[l] \notin Queued(u)
         PROVE  \A u \in Transactions : event[l] \notin Queued(u)'
    <3>1. event[l] # e
      BY <2>1, <2>10 DEF Enqueues, NewEvent, WaitInv, SigInv, WaiterInv, Active
    <3>2. /\ e \notin Queued(top) /\ Injective(mWaitingList[top])
          /\ top \in Transactions /\ mWaitingList[top] \in Seq(Events)
      BY <1>0, <2>1 DEF Enqueues, NewEvent, WaitInv, SigInv, QueueInv, TypeOK
    <3>3. Range(mWaitingList'[top]) = Queued(top) \cup {e}
      BY <2>5, <3>2, AppendQueue DEF Queued
    <3> QED BY <2>5, <2>10, <3>1, <3>3 DEF Queued
  <2> QED BY <1>1, <2>6, <2>8, <2>9, <2>10 DEF Heir
<1> QED BY <1>3, <1>4

\* the release makes the first in the queue its heir
LEMMA HandReleases ==
  ASSUME IInv, TopInv, WaitInv, PlaceInv, TurnInv, HandInv, [Next]_vars, Serves,
         NEW k \in Tasks, MarkAvailable(k)
  PROVE  HandInv'
<1>0. TypeOK /\ pc[k] = "own"
  BY DEF MarkAvailable, IInv, TypeInv
<1>1. PICK top \in Transactions : top = topParent[target[k]]
  BY <1>0 DEF MarkAvailable, IInv, SafeInv, HolderInv, Owning, TypeOK
<1>2. /\ \A l \in Tasks \ {k} : pc'[l] = pc[l] /\ target'[l] = target[l] /\ event'[l] = event[l]
      /\ \/ mWaitingList' = mWaitingList /\ mWaitingList[top] = <<>>
         \/ /\ mWaitingList[top] # <<>>
            /\ mWaitingList' = [mWaitingList EXCEPT ![top] = Tail(mWaitingList[top])]
  BY <1>0, <1>1 DEF MarkAvailable, Goto, TypeOK
<1> SUFFICES ASSUME NEW t \in Transactions, mWaitingList'[t] # <<>>, ~mIsBusy'[t]
             PROVE  \E l \in Tasks : Heir(l, t)'
  BY DEF HandInv
<1>3. CASE t = top
  <2> DEFINE s == mWaitingList[top]
             e == Head(s)
  <2>1. s # <<>> /\ mWaitingList' = [mWaitingList EXCEPT ![top] = Tail(s)]
    BY <1>2, <1>3
  <2>2. e \in Queued(top) /\ e \in Events /\ Range(Tail(s)) = Queued(top) \ {e}
    BY <1>0, <2>1, QueuedEvents, TailQueue DEF Queued, WaitInv, SigInv, QueueInv
  <2>3. PICK l \in Tasks : pc[l] = "waiting" /\ event[l] = e
    BY <2>2 DEF TurnInv, AwaitedInv, Awaited
  <2>4. l # k /\ target[l] \in Tree(top)
    BY <1>0, <2>2, <2>3 DEF PlaceInv
  <2>5. target[l] \in Tree(top)'
    BY <2>1, <2>4, TreesKept
  <2>6. \A u \in Transactions : e \notin Range(mWaitingList'[u])
    <3>1. \A u \in Transactions \ {top} : mWaitingList'[u] = mWaitingList[u]
      BY <1>0, <2>1 DEF TypeOK
    <3>2. mWaitingList'[top] = Tail(s)
      BY <1>0, <2>1 DEF TypeOK
    <3>3. \A u \in Transactions \ {top} : e \notin Queued(u)
      BY <2>2 DEF WaitInv, SigInv, QueueInv
    <3> HIDE DEF s, e
    <3> QED BY <2>2, <3>1, <3>2, <3>3 DEF Queued
  <2> HIDE DEF s, e
  <2>7. Heir(l, top)'
    BY <1>2, <2>3, <2>4, <2>5, <2>6 DEF Heir, Queued
  <2> QED BY <1>3, <2>7
<1>4. CASE t # top
  <2>1. mWaitingList[t] # <<>>
    BY <1>0, <1>2, <1>4 DEF TypeOK
  <2>2. topParent[t] = t
    BY <2>1 DEF TopInv, WaitersOnTopmost
  <2>3. ~mIsBusy[t]
    BY <1>1, <1>4, <2>2 DEF MarkAvailable, SetBusy, Tree
  <2>4. ~Heir(k, t)
    BY <1>0 DEF Heir
  <2> QED BY <1>2, <2>1, <2>3, <2>4, HeirsStay DEF Serves, Heir
<1> QED BY <1>3, <1>4

LEMMA HeirStep ==
  IInv /\ TopInv /\ WaitInv /\ PlaceInv /\ TurnInv /\ HandInv /\ Patient /\ Patient' /\ [Next]_vars
    => HandInv'
<1> SUFFICES ASSUME IInv, TopInv, WaitInv, PlaceInv, TurnInv, HandInv, Patient, Patient', [Next]_vars
             PROVE  HandInv'
  OBVIOUS
<1>0. TypeInv /\ TypeOK
  BY DEF IInv, TypeInv
<1>1. CASE \E k \in Tasks : CheckAvailable(k)
  BY <1>1, HandChecks
<1>2. CASE \E k \in Tasks : MarkAvailable(k)
  <2>1. PICK k \in Tasks : MarkAvailable(k)
    BY <1>2
  <2>2. Serves
    BY <2>1, ServesUnlessChecks
  <2> QED BY <2>1, <2>2, HandReleases
<1>3. ASSUME \A k \in Tasks : ~CheckAvailable(k)
      PROVE  Serves
  BY <1>3, EnqueuesOrServes DEF Enqueues
<1>4. CASE \E k \in Tasks : Wake(k) \/ GiveTest(k) \/ AfterWait(k)
  <2>1. PICK k \in Tasks : Wake(k) \/ GiveTest(k) \/ AfterWait(k)
    BY <1>4
  <2>2. CASE Serves
    BY <2>1, <2>2, HandSeeks
  <2> QED BY <1>1, <1>3, <2>2
<1>5. ASSUME Serves, NEW k \in Tasks, pc[k] \notin Seeking,
             \A t \in Transactions : ~mIsBusy'[t] => ~mIsBusy[t],
             \A t \in Transactions : mWaitingList'[t] # <<>> => mWaitingList[t] # <<>>,
             \A l \in Tasks \ {k} : pc'[l] = pc[l] /\ target'[l] = target[l] /\ event'[l] = event[l]
      PROVE  HandInv'
  <2>1. \A l \in Tasks : pc[l] \in Seeking =>
          pc'[l] = pc[l] /\ target'[l] = target[l] /\ event'[l] = event[l]
    BY <1>5
  <2> QED BY <1>5, <2>1, HandOthers
<1>6. ASSUME Serves, NEW k \in Tasks, \E t \in Transactions : NewTransaction(k, t) \/ NewChild(k, t)
      PROVE  HandInv'
  <2>1. PICK t \in Transactions :
          /\ AddTransaction(t) /\ pc[k] \notin Seeking /\ event' = event
          /\ pc' = [pc EXCEPT ![k] = "own"] \/ pc' = [pc EXCEPT ![k] = "link"]
          /\ target' = target \/ target' = [target EXCEPT ![k] = t]
    BY <1>6 DEF NewTransaction, NewChild, Goto, Seeking
  <2>2. /\ mWaitingList' = mWaitingList
        /\ \A u \in Transactions : ~mIsBusy'[u] => ~mIsBusy[u]
    <3>1. mWaitingList' = mWaitingList
      BY <2>1, TopAdd
    <3>2. mIsBusy' = [mIsBusy EXCEPT ![t] = TRUE]
      BY <2>1 DEF AddTransaction
    <3>3. \A u \in Transactions : ~mIsBusy'[u] => ~mIsBusy[u]
      BY <1>0, <3>2 DEF TypeOK
    <3> QED BY <3>1, <3>3
  <2>3. \A l \in Tasks \ {k} : pc'[l] = pc[l] /\ target'[l] = target[l] /\ event'[l] = event[l]
    BY <1>0, <2>1 DEF TypeOK
  <2> QED BY <1>5, <1>6, <2>1, <2>2, <2>3
<1>7. ASSUME Serves, NEW k \in Tasks, \E t \in Transactions : Found(k, t)
      PROVE  HandInv'
  <2>1. /\ mWaitingList' = mWaitingList /\ event' = event /\ pc[k] \notin Seeking
        /\ \A t \in Transactions : ~mIsBusy'[t] => ~mIsBusy[t]
    BY <1>7 DEF Found, SetBusy, Seeking
  <2>2. \A l \in Tasks \ {k} : pc'[l] = pc[l] /\ target'[l] = target[l] /\ event'[l] = event[l]
    BY <1>0, <1>7 DEF Found, Goto, TypeOK
  <2> QED BY <1>5, <1>7, <2>1, <2>2
<1>8. ASSUME Serves, NEW k \in Tasks, LinkChild(k)
      PROVE  HandInv'
  <2>1. mIsBusy[target[k]] /\ pc[k] = "link"
    BY <1>8 DEF LinkChild, IInv, SafeInv, HolderInv, Owning
  <2>2. /\ mWaitingList' = mWaitingList /\ event' = event /\ target' = target
        /\ \A t \in Transactions : ~mIsBusy'[t] => ~mIsBusy[t]
    BY <1>0, <1>8, <2>1 DEF LinkChild, TypeOK
  <2>3. \A l \in Tasks \ {k} : pc'[l] = pc[l]
    BY <1>0, <1>8 DEF LinkChild, Goto, TypeOK
  <2> QED BY <1>5, <1>8, <2>1, <2>2, <2>3 DEF Seeking
<1>9. ASSUME Serves, NEW k \in Tasks, RemoveOldTransactions(k)
      PROVE  HandInv'
  <2>1. /\ UNCHANGED <<mIsBusy, event, target>> /\ pc[k] \notin Seeking
        /\ \A t \in Transactions : mWaitingList'[t] # <<>> => mWaitingList[t] # <<>>
    BY <1>9 DEF RemoveOldTransactions, Seeking
  <2>2. \A l \in Tasks \ {k} : pc'[l] = pc[l]
    BY <1>0, <1>9 DEF RemoveOldTransactions, Goto, TypeOK
  <2> QED BY <1>5, <1>9, <2>1, <2>2
<1>10. ASSUME Serves, NEW k \in Tasks,
              NotFound(k) \/ DropMessage(k) \/ DeleteTransactions(k) \/ Signal(k)
       PROVE  HandInv'
  <2>1. UNCHANGED <<mWaitingList, mIsBusy, target>> /\ pc[k] \notin Seeking
    BY <1>10 DEF NotFound, DropMessage, DeleteTransactions, Signal, SignalTest, SignalSet,
       SignalPost, SignalDone, listVars, taskVars, Seeking
  <2>2. \A l \in Tasks \ {k} : pc'[l] = pc[l] /\ event'[l] = event[l]
    BY <1>0, <1>10 DEF NotFound, DropMessage, DeleteTransactions, Signal, SignalTest, SignalSet,
       SignalPost, SignalDone, Goto, taskVars, TypeOK
  <2> QED BY <1>5, <1>10, <2>1, <2>2
<1>11. ASSUME Serves, UNCHANGED <<mWaitingList, mIsBusy, pc, target, event>>
       PROVE  HandInv'
  BY <1>11, HandOthers
<1>12. \A k \in Tasks : ~WaitGiveUp(k) /\ ~GiveSet(k) /\ ~GivePost(k)
  BY <1>0 DEF WaitGiveUp, GiveSet, GivePost, Patient, TurnInv, SecondInv, TypeOK
<1>13. CASE \A k \in Tasks : ~CheckAvailable(k)
  <2>1. Serves
    BY <1>3, <1>13
  <2>2. ASSUME NEW k \in Tasks, Work(k)
        PROVE  HandInv'
    BY <1>2, <1>4, <1>8, <1>10, <1>12, <1>13, <2>1, <2>2 DEF Work
  <2>3. ASSUME Tick \/ UNCHANGED vars \/ \E k \in Tasks : WaitTimeout(k) \/ \E t \in Transactions : SendRequest(k, t)
        PROVE  HandInv'
    BY <1>11, <2>1, <2>3 DEF SendRequest, WaitTimeout, Tick, vars, listVars, taskVars
  <2> QED BY <1>6, <1>7, <1>9, <1>10, <1>12, <2>1, <2>2, <2>3 DEF Next
<1> QED BY <1>1, <1>13
-----------------------------------------------------------------------------
(* Nobody is stranded, no event is lost *)

LEMMA PatientSpec ==
  Spec /\ []Patient => [](IInv /\ TopInv /\ WaitInv /\ PlaceInv /\ TurnInv /\ HandInv)
<1>1. Init => TurnInv /\ HandInv
  <2>1. ASSUME Init PROVE \A t \in Transactions : Queued(t) = {}
    BY <2>1 DEF Init, Queued, Range
  <2> QED BY <2>1 DEF Init, EventInit, TurnInv, SecondInv, AwaitedInv, HandInv, Pending, Signals
<1>2. IInv /\ TopInv /\ WaitInv /\ PlaceInv /\ TurnInv /\ HandInv /\ Patient /\ Patient'
        /\ [Next]_vars => TurnInv' /\ HandInv'
  BY TurnStep, HeirStep
<1> QED BY <1>1, <1>2, PlaceSpec, PTL DEF Spec


\* As long as no task gives a wait up after its thirty seconds, a task that
\* waits for a free transaction has been signalled, or somebody is on the way
\* to take the transaction: it takes a wait that was given up to strand the
\* others in the queue (waitUntilAvailable, signalNextAvailable).
THEOREM NobodyStranded == Spec /\ []Patient => []NoStrandedWaiter
<1>1. IInv /\ TopInv /\ WaitInv /\ PlaceInv /\ TurnInv /\ HandInv => NoStrandedWaiter
  <2> SUFFICES ASSUME IInv, TopInv, WaitInv, PlaceInv, TurnInv, HandInv,
                      NEW k \in Tasks, pc[k] = "waiting", event[k] \notin mSignalSem,
                      target[k] \in mTransactions, ~mIsBusy[target[k]], mListMutex = None
               PROVE  \E l \in Tasks : /\ target[l] \in Tree(target[k])
                                        /\ \/ pc[l] \in {"check", "after"} \cup Gives
                                           \/ pc[l] = "waiting" /\ event[l] \in mSignalSem
    BY DEF NoStrandedWaiter
  <2>0. TypeInv /\ TypeOK
    BY DEF IInv, TypeInv
  <2>1. ASSUME NEW l \in Tasks, pc[l] = "waiting", event[l] \notin mSignalSem
        PROVE  \E t \in mTransactions : event[l] \in Queued(t)
    <3>1. \A m \in Tasks : pc[m] \notin Signals /\ toSignal[m] = {}
      BY <2>0, NoPending
    <3> QED BY <2>1, <3>1 DEF WaitInv, WaiterReachable, Queued, Signals
  <2>2. PICK t \in mTransactions : event[k] \in Queued(t)
    BY <2>1
  <2>3. t \in Transactions /\ t \in allocated /\ target[k] \in Tree(t) /\ mWaitingList[t] # <<>>
    <3>1. t \in Transactions /\ t \in allocated
      BY <2>0 DEF IInv, SafeInv, ListInv, TypeOK
    <3>2. Range(<<>>) = {}
      BY DEF Range
    <3> QED BY <2>2, <3>1, <3>2 DEF PlaceInv, Queued
  <2>4. ~mIsBusy[t] /\ Tree(target[k]) = Tree(t)
    BY <2>3 DEF Tree, IInv, SafeInv, AgreeInv
  <2>5. PICK l \in Tasks : Heir(l, t)
    BY <2>3, <2>4 DEF HandInv
  <2>6. pc[l] = "waiting" /\ (\A u \in Transactions : event[l] \notin Queued(u))
          => event[l] \in mSignalSem
    BY <2>0, <2>1 DEF TypeOK
  <2> QED BY <2>4, <2>5, <2>6 DEF Heir, Gives
<1> QED BY <1>1, PatientSpec, PTL

\* As long as no task gives a wait up, an event is not deleted while a task
\* still signals it or gives it back: the two sides of a wait never meet in
\* OsProtectedEvent::signal (waitUntilAvailable, signalNextAvailable).
THEOREM EventsKept == Spec /\ []Patient => []EventsLive
<1>1. IInv /\ WaitInv /\ TurnInv => EventsLive
  <2> SUFFICES ASSUME IInv, WaitInv, TurnInv, NEW k \in Tasks, pc[k] \in Gives \cup {"set", "post"}
               PROVE  event[k] \in liveEvents
    BY DEF EventsLive
  <2>1. CASE pc[k] = "set"
    <3>1. event[k] \in Pending(k)
      BY <2>1 DEF Pending, IInv, TypeInv, PointerInv
    <3> QED BY <3>1 DEF WaitInv, SigInv, PendingInv
  <2>2. CASE pc[k] = "post"
    BY <2>2 DEF TurnInv, AwaitedInv
  <2>3. CASE pc[k] \in Gives
    BY <2>3 DEF Gives, Active, TurnInv, SecondInv, WaitInv, SigInv, WaiterInv
  <2> QED BY <2>1, <2>2, <2>3
<1> QED BY <1>1, PatientSpec, PTL
=============================================================================
