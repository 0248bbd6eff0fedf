---------------------- MODULE SipTransactionListProofs ----------------------
(***************************************************************************)
(* Proofs, for any number of tasks, transactions and events, that the list  *)
(* keeps its transactions safe: the tasks exclude each other from a tree,   *)
(* the busy flag tells the truth, and nothing is collected under a task.    *)
(***************************************************************************)
EXTENDS SipTransactionListProperties, TLAPS
-----------------------------------------------------------------------------
(* Type correctness *)

\* The pointers a task uses are set where it uses them.
PointerInv ==
  \A k \in Tasks :
    /\ pc[k] \in {"waiting", "set", "post"} \cup Gives => event[k] \in Events
    /\ pc[k] \in {"check", "waiting", "after"} \cup Gives \cup Owning =>
         target[k] \in Transactions
    /\ pc[k] = "link" => child[k] \in Transactions

TypeInv == TypeOK /\ PointerInv

\* the operators that change the list keep its types
LEMMA TreeTypes ==
  ASSUME TypeOK, NEW t \in Transactions
  PROVE  /\ \A flag \in BOOLEAN :
              SetBusy(t, flag) => mIsBusy' \in [Transactions -> BOOLEAN]
         /\ Touch(t) => age' \in [Transactions -> 0..OldAge]
         /\ topParent[t] \in Transactions
<1>1. ASSUME NEW flag \in BOOLEAN, SetBusy(t, flag)
      PROVE  mIsBusy' \in [Transactions -> BOOLEAN]
  BY <1>1 DEF TypeOK, SetBusy
<1>2. ASSUME Touch(t)
      PROVE  age' \in [Transactions -> 0..OldAge]
  BY <1>2, OldAgeAssumption DEF TypeOK, Touch
<1>3. topParent[t] \in Transactions
  BY DEF TypeOK
<1> QED BY <1>1, <1>2, <1>3

LEMMA AddTypes ==
  ASSUME TypeOK, NEW t \in Transactions, AddTransaction(t)
  PROVE  /\ allocated' \subseteq Transactions
         /\ mTransactions' \subseteq Transactions
         /\ initiated' \subseteq Transactions
         /\ topParent' \in [Transactions -> Transactions]
         /\ mIsBusy' \in [Transactions -> BOOLEAN]
         /\ age' \in [Transactions -> 0..OldAge]
         /\ mWaitingList' \in [Transactions -> Seq(Events)]
  BY OldAgeAssumption DEF TypeOK, AddTransaction

\* events stay events whatever is done to them
LEMMA EventTypes ==
  ASSUME EventTypeOK, NEW e \in Events,
         \/ NewEvent(e) \/ DeleteEvent(e) \/ SetSignaled(e) \/ PostSem(e)
         \/ TakeSem(e) \/ UNCHANGED eventVars
  PROVE  EventTypeOK'
  BY DEF EventTypeOK, NewEvent, DeleteEvent, SetSignaled, PostSem, TakeSem,
         eventVars

\* the locals a task leaves behind
LEMMA LeaveTypes ==
  ASSUME TypeInv, NEW k \in Tasks, Leave(k, "none")
  PROVE  /\ pc' \in [Tasks -> PC] /\ PointerInv'
         /\ target' \in [Tasks -> Transactions \cup {None}]
         /\ child' \in [Tasks -> Transactions \cup {None}]
         /\ event' \in [Tasks -> Events \cup {None}]
         /\ late' \in [Tasks -> BOOLEAN] /\ gaveUp' \in [Tasks -> BOOLEAN]
         /\ toSignal' \in [Tasks -> SUBSET Events]
         /\ toDelete' \in [Tasks -> SUBSET Transactions]
<1>1. /\ pc' = [pc EXCEPT ![k] = "none"] /\ pc' \in [Tasks -> PC]
      /\ target' = [target EXCEPT ![k] = None]
      /\ event' = [event EXCEPT ![k] = None]
      /\ child' = child
  BY DEF Leave, Goto, TypeInv, TypeOK, PC
<1>2. PointerInv'
  BY <1>1 DEF TypeInv, TypeOK, PointerInv, Gives, Owning
<1> QED BY <1>1, <1>2 DEF Leave, TypeInv, TypeOK

LEMMA TypeInit == Init => TypeInv
  BY OldAgeAssumption
  DEF Init, TypeInv, TypeOK, PointerInv, EventInit, EventTypeOK, PC, Owning, Gives

LEMMA TypeStep == TypeInv /\ [Next]_vars => TypeInv'
<1> SUFFICES ASSUME TypeInv, [Next]_vars PROVE TypeInv'
  OBVIOUS
<1> USE DEF TypeInv, TypeOK, PointerInv, PC, Owning, Gives, Signals, Goto
<1>1. ASSUME NEW k \in Tasks, NEW t \in Transactions, Found(k, t)
      PROVE  TypeInv'
  <2>1. mIsBusy' \in [Transactions -> BOOLEAN]
    BY <1>1, TreeTypes DEF Found
  <2>2. UNCHANGED eventVars /\ EventTypeOK'
    BY <1>1 DEF Found, eventVars, EventTypeOK
  <2>3. /\ pc' \in [Tasks -> PC] /\ target' \in [Tasks -> Transactions \cup {None}]
        /\ pc' = [pc EXCEPT ![k] = "own"] \/ pc' = [pc EXCEPT ![k] = "check"]
    BY <1>1 DEF Found
  <2> QED BY <1>1, <2>1, <2>2, <2>3 DEF Found, eventVars
<1>2. ASSUME NEW k \in Tasks, NEW t \in Transactions, NewTransaction(k, t)
      PROVE  TypeInv'
  BY <1>2, AddTypes DEF NewTransaction, eventVars, EventTypeOK
<1>3. ASSUME NEW k \in Tasks, NEW t \in Transactions, SendRequest(k, t)
      PROVE  TypeInv'
  BY <1>3 DEF SendRequest, taskVars, eventVars, EventTypeOK
<1>4. ASSUME NEW k \in Tasks, NEW t \in Transactions, NewChild(k, t)
      PROVE  TypeInv'
  BY <1>4, AddTypes DEF NewChild, eventVars, EventTypeOK
<1>5. ASSUME NEW k \in Tasks, LinkChild(k)
      PROVE  TypeInv'
  BY <1>5 DEF LinkChild, eventVars, EventTypeOK
<1>6. ASSUME NEW k \in Tasks, NotFound(k) \/ DropMessage(k)
      PROVE  TypeInv'
  BY <1>6, ZenonT(80) DEF NotFound, DropMessage, listVars, taskVars, eventVars, EventTypeOK
<1>7. ASSUME NEW k \in Tasks, WaitTimeout(k) \/ WaitGiveUp(k)
      PROVE  TypeInv'
  BY <1>7, ZenonT(80) DEF WaitTimeout, WaitGiveUp, listVars, eventVars, EventTypeOK
<1>8. ASSUME NEW k \in Tasks, CheckAvailable(k)
      PROVE  TypeInv'
  <2> DEFINE t == target[k]
  <2>1. CASE t \notin mTransactions
    BY <1>8, <2>1, LeaveTypes DEF CheckAvailable, eventVars, EventTypeOK
  <2>2. CASE t \in mTransactions /\ ~mIsBusy[t]
    <3>1. mIsBusy' \in [Transactions -> BOOLEAN]
      BY <1>8, <2>2, TreeTypes DEF CheckAvailable
    <3>2. UNCHANGED eventVars /\ EventTypeOK'
      BY <1>8, <2>2 DEF CheckAvailable, eventVars, EventTypeOK
    <3>3. /\ pc' = [pc EXCEPT ![k] = "own"]
          /\ event' = [event EXCEPT ![k] = None] /\ late' = [late EXCEPT ![k] = FALSE]
          /\ target \in [Tasks -> Transactions \cup {None}] /\ t \in Transactions
          /\ UNCHANGED <<target, child, gaveUp, toSignal, toDelete, mWaitingList>>
          /\ UNCHANGED <<mTransactions, allocated, topParent, initiated, age, mListMutex>>
      BY <1>8, <2>2 DEF CheckAvailable
    <3>4. PointerInv'
      BY <3>3
    <3>5. TypeOK'
      BY <3>1, <3>2, <3>3
    <3> QED BY <3>4, <3>5
  <2>3. CASE t \in mTransactions /\ mIsBusy[t]
    <3>1. PICK e \in Events : /\ NewEvent(e)
                             /\ NotifyWhenAvailable(t, e)
                             /\ event' = [event EXCEPT ![k] = e]
      BY <1>8, <2>3 DEF CheckAvailable
    <3>2. EventTypeOK'
      BY <3>1, EventTypes
    <3>3. mWaitingList' \in [Transactions -> Seq(Events)]
      BY <2>3, <3>1 DEF NotifyWhenAvailable
    <3>4. /\ pc' = [pc EXCEPT ![k] = "waiting"] /\ late' = [late EXCEPT ![k] = FALSE]
          /\ t \in Transactions /\ UNCHANGED <<mIsBusy, target, child, gaveUp, toSignal, toDelete>>
          /\ UNCHANGED <<mTransactions, allocated, topParent, initiated, age, mListMutex>>
      BY <1>8, <2>3 DEF CheckAvailable
    <3>5. PointerInv'
      BY <3>1, <3>4
    <3>6. TypeOK'
      BY <3>1, <3>2, <3>3, <3>4
    <3> QED BY <3>5, <3>6
  <2> QED BY <2>1, <2>2, <2>3
<1>9. ASSUME NEW k \in Tasks, Wake(k)
      PROVE  TypeInv'
  BY <1>9, EventTypes DEF Wake, listVars
<1>10. ASSUME NEW k \in Tasks, GiveTest(k) \/ GiveSet(k) \/ GivePost(k)
       PROVE  TypeInv'
  BY <1>10, EventTypes DEF GiveTest, GiveSet, GivePost, listVars, taskVars
<1>11. ASSUME NEW k \in Tasks, AfterWait(k)
       PROVE  TypeInv'
  <2>1. CASE gaveUp[k]
    BY <1>11, <2>1, LeaveTypes DEF AfterWait, listVars, eventVars, EventTypeOK
  <2>2. CASE ~gaveUp[k]
    BY <1>11, <2>2, ZenonT(80) DEF AfterWait, listVars, eventVars, EventTypeOK
  <2> QED BY <2>1, <2>2
<1>12. ASSUME NEW k \in Tasks, MarkAvailable(k)
       PROVE  TypeInv'
  <2> DEFINE top == topParent[target[k]]
  <2>1. /\ age' \in [Transactions -> 0..OldAge]
        /\ mIsBusy' \in [Transactions -> BOOLEAN]
        /\ top \in Transactions
    BY <1>12, TreeTypes DEF MarkAvailable
  <2>2. EventTypeOK'
    BY <1>12 DEF MarkAvailable, eventVars, EventTypeOK
  <2>3. CASE mWaitingList[top] = <<>>
    BY <1>12, <2>1, <2>2, <2>3, ZenonT(80) DEF MarkAvailable
  <2>4. CASE mWaitingList[top] # <<>>
    <3>1. Head(mWaitingList[top]) \in Events /\ Tail(mWaitingList[top]) \in Seq(Events)
      BY <2>1, <2>4
    <3>a. /\ toSignal' = [toSignal EXCEPT ![k] = {Head(mWaitingList[top])}]
          /\ mWaitingList' = [mWaitingList EXCEPT ![top] = Tail(mWaitingList[top])]
      BY <1>12, <2>4 DEF MarkAvailable
    <3>b. toSignal' \in [Tasks -> SUBSET Events]
      BY <3>a, <3>1
    <3>2. /\ toSignal' \in [Tasks -> SUBSET Events]
          /\ mWaitingList' \in [Transactions -> Seq(Events)]
      BY <3>a, <3>b, <3>1, <2>1
    <3>3. /\ pc' = [pc EXCEPT ![k] = "test"]
          /\ target' = [target EXCEPT ![k] = None]
          /\ mListMutex' = k
      BY <1>12, <2>4 DEF MarkAvailable
    <3> QED BY <1>12, <2>1, <2>2, <3>2, <3>3 DEF MarkAvailable
  <2> QED BY <2>3, <2>4
<1>13. ASSUME NEW k \in Tasks, NEW e \in Events, SignalTest(k, e)
       PROVE  TypeInv'
  <2>1. /\ toSignal' = [toSignal EXCEPT ![k] = toSignal[k] \ {e}]
        /\ UNCHANGED <<listVars, mListMutex, target, child, late, gaveUp, toDelete>>
    BY <1>13 DEF SignalTest
  <2>2. CASE DeleteEvent(e) /\ UNCHANGED <<pc, event>>
    BY <2>1, <2>2, EventTypes DEF listVars
  <2>3. CASE /\ event' = [event EXCEPT ![k] = e] /\ pc' = [pc EXCEPT ![k] = "set"]
             /\ UNCHANGED eventVars
    BY <2>1, <2>3, EventTypes DEF listVars
  <2> QED
    BY <1>13, <2>2, <2>3 DEF SignalTest
<1>14. ASSUME NEW k \in Tasks, SignalSet(k) \/ SignalPost(k) \/ SignalDone(k)
       PROVE  TypeInv'
  <2>1. CASE SignalSet(k)
    BY <2>1, EventTypes DEF SignalSet, listVars, taskVars
  <2>2. CASE SignalPost(k)
    BY <2>2, EventTypes DEF SignalPost, listVars
  <2>3. CASE SignalDone(k)
    BY <2>3 DEF SignalDone, listVars, taskVars, eventVars, EventTypeOK
  <2> QED BY <1>14, <2>1, <2>2, <2>3
<1>15. ASSUME NEW k \in Tasks, RemoveOldTransactions(k)
       PROVE  TypeInv'
  <2> DEFINE old  == {t \in mTransactions : Collectable(t)}
             tops == {topParent[t] : t \in old}
  <2>1. tops \subseteq Transactions /\ old \subseteq Transactions
    OBVIOUS
  <2>2. AllWaiting(tops) \subseteq Events
    <3>1. \A t \in Transactions : Range(mWaitingList[t]) \subseteq Events
      BY DEF Range
    <3> QED BY <2>1, <3>1 DEF AllWaiting
  <2>3. EventTypeOK'
    BY <1>15 DEF RemoveOldTransactions, eventVars, EventTypeOK
  <2>4. mWaitingList' \in [Transactions -> Seq(Events)]
    BY <1>15 DEF RemoveOldTransactions
  <2>5. /\ toSignal' \in [Tasks -> SUBSET Events]
        /\ toDelete' \in [Tasks -> SUBSET Transactions]
    BY <1>15, <2>1, <2>2 DEF RemoveOldTransactions
  <2> QED BY <1>15, <2>3, <2>4, <2>5 DEF RemoveOldTransactions
<1>16. ASSUME NEW k \in Tasks, DeleteTransactions(k)
       PROVE  TypeInv'
  BY <1>16, OldAgeAssumption DEF DeleteTransactions, eventVars, EventTypeOK
<1>17. ASSUME Tick
       PROVE  TypeInv'
  BY <1>17, OldAgeAssumption DEF Tick, taskVars, eventVars, EventTypeOK
<1>18. ASSUME UNCHANGED vars
       PROVE  TypeInv'
  BY <1>18 DEF vars, listVars, taskVars, eventVars, EventTypeOK
<1> QED
  BY <1>1, <1>2, <1>3, <1>4, <1>5, <1>6, <1>7, <1>8, <1>9, <1>10, <1>11, <1>12,
     <1>13, <1>14, <1>15, <1>16, <1>17, <1>18
  DEF Next, Work, Signal
-----------------------------------------------------------------------------
(* The inductive invariant *)

\* Deleted memory is not in the list; what left the list is about to be deleted
\* by the task that collected it.
ListInv ==
  /\ mTransactions \subseteq allocated
  /\ \A k \in Tasks : k # UserAgent => toDelete[k] = {}
  /\ toDelete[UserAgent] = allocated \ mTransactions
  /\ \A k \in Tasks : pc[k] \notin Signals \cup {"delete"} => toDelete[k] = {}

\* The topmost parent is its own topmost parent, is allocated, and is in the
\* list exactly when the transaction is.
TreeInv ==
  \A t \in allocated :
    /\ topParent[t] \in allocated
    /\ topParent[topParent[t]] = topParent[t]
    /\ t \in mTransactions <=> topParent[t] \in mTransactions

\* The flags of a tree agree, and so do its time stamps while nobody holds it.
AgreeInv ==
  \A t \in mTransactions :
    /\ mIsBusy[t] = mIsBusy[topParent[t]]
    /\ ~mIsBusy[t] => age[t] = age[topParent[t]]

\* What a task holds is busy and in the list; a child that is not linked yet is
\* a tree of its own.
HolderInv ==
  \A k \in Tasks :
    /\ pc[k] \in Owning =>
         target[k] \in mTransactions /\ mIsBusy[target[k]]
    /\ pc[k] # "link" => child[k] = None
    /\ pc[k] = "link" =>
         /\ child[k] \in mTransactions /\ mIsBusy[child[k]]
         /\ \A u \in allocated : topParent[u] = child[k] <=> u = child[k]
         /\ topParent[target[k]] # child[k]

\* No two tasks hold trees with the same topmost parent.
ExclusiveInv ==
  \A k, l \in Tasks :
    k # l /\ pc[k] \in Owning /\ pc[l] \in Owning =>
      /\ topParent[target[k]] # topParent[target[l]]
      /\ pc[k] = "link" => child[k] # topParent[target[l]]
      /\ pc[k] = "link" /\ pc[l] = "link" => child[k] # child[l]

\* A busy tree has a holder.
BusyInv ==
  \A t \in mTransactions : mIsBusy[t] => \E k \in Tasks : t \in Held(k)

SafeInv == ListInv /\ TreeInv /\ AgreeInv /\ HolderInv /\ ExclusiveInv /\ BusyInv

IInv == TypeInv /\ SafeInv

LEMMA SafeInit == Init => SafeInv
<1> SUFFICES ASSUME Init PROVE SafeInv
  OBVIOUS
<1> USE DEF Init
<1>1. ListInv
  BY UserAgentAssumption DEF ListInv
<1>2. TreeInv /\ AgreeInv /\ BusyInv
  BY DEF TreeInv, AgreeInv, BusyInv
<1>3. HolderInv /\ ExclusiveInv
  BY DEF HolderInv, ExclusiveInv, Owning
<1> QED BY <1>1, <1>2, <1>3 DEF SafeInv

\* the exclusion of two holders, one pair at a time
LEMMA ExclusiveAt ==
  ASSUME SafeInv, NEW l \in Tasks, NEW m \in Tasks, l # m,
         pc[l] \in Owning, pc[m] \in Owning
  PROVE  /\ topParent[target[l]] # topParent[target[m]]
         /\ pc[l] = "link" => child[l] # topParent[target[m]]
         /\ pc[l] = "link" /\ pc[m] = "link" => child[l] # child[m]
  BY DEF SafeInv, ExclusiveInv

\* a step that changes neither the list nor who holds what
LEMMA QuietStep ==
  ASSUME TypeInv, SafeInv,
         UNCHANGED <<mTransactions, allocated, topParent, mIsBusy, age, child,
                     toDelete>>,
         \A l \in Tasks :
           /\ pc'[l] \in Owning <=> pc[l] \in Owning
           /\ pc'[l] = "link" <=> pc[l] = "link"
           /\ pc[l] \in Owning => target'[l] = target[l]
           /\ pc'[l] \notin Signals \cup {"delete"} => toDelete[l] = {}
  PROVE  SafeInv'
<1>1. ListInv' /\ TreeInv' /\ AgreeInv'
  BY DEF SafeInv, ListInv, TreeInv, AgreeInv
<1>2. HolderInv'
  BY DEF SafeInv, HolderInv, Owning
<1>3. ExclusiveInv'
  BY DEF SafeInv, ExclusiveInv
<1>4. \A l \in Tasks : Held(l)' = Held(l)
  BY DEF Held, Tree
<1>5. BusyInv'
  BY <1>4 DEF SafeInv, BusyInv
<1> QED BY <1>1, <1>2, <1>3, <1>5 DEF SafeInv

\* a holder's tree is marked busy at its topmost parent, so it is not free
LEMMA FreeIsNotHeld ==
  ASSUME SafeInv, NEW t \in mTransactions, ~mIsBusy[t],
         NEW l \in Tasks, pc[l] \in Owning
  PROVE  /\ topParent[target[l]] # topParent[t]
         /\ pc[l] = "link" => child[l] # topParent[t]
<1>1. ~mIsBusy[topParent[t]]
  BY DEF SafeInv, AgreeInv
<1>2. target[l] \in mTransactions /\ mIsBusy[topParent[target[l]]]
  BY DEF SafeInv, HolderInv, AgreeInv
<1>3. pc[l] = "link" => mIsBusy[child[l]]
  BY DEF SafeInv, HolderInv
<1> QED BY <1>1, <1>2, <1>3

\* findTransactionFor and waitUntilAvailable take a tree that is free
LEMMA TakeStep ==
  ASSUME TypeInv, SafeInv, NEW k \in Tasks, NEW t \in mTransactions,
         ~mIsBusy[t], SetBusy(t, TRUE),
         pc[k] \in {"idle", "check"},
         pc' = [pc EXCEPT ![k] = "own"],
         target' = [target EXCEPT ![k] = t],
         UNCHANGED <<mTransactions, allocated, topParent, age, child, toDelete>>
  PROVE  SafeInv'
<1> USE DEF TypeInv, TypeOK, Owning
<1>1. /\ pc'[k] = "own" /\ target'[k] = t
      /\ \A l \in Tasks : l # k => pc'[l] = pc[l] /\ target'[l] = target[l]
  OBVIOUS
<1>2. /\ \A u \in Transactions : mIsBusy[u] => mIsBusy'[u]
      /\ \A u \in Tree(t) : mIsBusy'[u]
      /\ \A u \in Transactions : mIsBusy'[u] => mIsBusy[u] \/ u \in Tree(t)
  BY DEF SetBusy, Tree
<1>3. ListInv' /\ TreeInv'
  BY <1>1 DEF SafeInv, ListInv, TreeInv, Signals
<1>4. AgreeInv'
  <2>1. \A u \in mTransactions : u \in Tree(t) <=> topParent[u] \in Tree(t)
    BY DEF SafeInv, ListInv, TreeInv, Tree
  <2> QED BY <2>1, <1>2 DEF SafeInv, AgreeInv, ListInv, TreeInv, SetBusy
<1>5. t \in Tree(t)
  BY DEF SafeInv, ListInv, Tree
<1>6. HolderInv'
  BY <1>1, <1>2, <1>5 DEF SafeInv, HolderInv, ListInv
<1>7. ExclusiveInv'
  BY <1>1, FreeIsNotHeld DEF SafeInv, ExclusiveInv
<1>8. \A l \in Tasks : Held(l) \subseteq Held(l)'
  BY <1>1 DEF Held, Tree
<1>9. Tree(t) \subseteq Held(k)'
  BY <1>1 DEF Held, Tree
<1>10. BusyInv'
  BY <1>2, <1>8, <1>9 DEF SafeInv, BusyInv
<1> QED BY <1>3, <1>4, <1>6, <1>7, <1>10 DEF SafeInv

\* a new transaction is a tree of its own and belongs to its creator only
LEMMA AddFacts ==
  ASSUME TypeInv, SafeInv, NEW t \in Transactions, AddTransaction(t)
  PROVE  /\ t \notin allocated
         /\ allocated' = allocated \cup {t}
         /\ mTransactions' = mTransactions \cup {t}
         /\ topParent'[t] = t /\ mIsBusy'[t] /\ age'[t] = 0
         /\ \A u \in Transactions \ {t} :
              /\ topParent'[u] = topParent[u] /\ mIsBusy'[u] = mIsBusy[u]
              /\ age'[u] = age[u]
         /\ \A u \in allocated : topParent[u] # t
         /\ \A u \in mTransactions : u # t /\ topParent[u] # t
  BY DEF AddTransaction, TypeInv, TypeOK, SafeInv, TreeInv, ListInv

LEMMA AddListStep ==
  ASSUME TypeInv, SafeInv, NEW t \in Transactions, AddTransaction(t),
         NEW k \in Tasks, NEW label \in Owning,
         pc[k] \in {"none", "own"}, pc' = [pc EXCEPT ![k] = label],
         UNCHANGED toDelete
  PROVE  ListInv' /\ TreeInv' /\ AgreeInv'
<1>0. /\ t \notin allocated
      /\ allocated' = allocated \cup {t}
      /\ mTransactions' = mTransactions \cup {t}
      /\ topParent'[t] = t /\ mIsBusy'[t] /\ age'[t] = 0
      /\ \A u \in Transactions \ {t} :
           /\ topParent'[u] = topParent[u] /\ mIsBusy'[u] = mIsBusy[u]
           /\ age'[u] = age[u]
      /\ \A u \in allocated : topParent[u] # t
      /\ \A u \in mTransactions : u # t /\ topParent[u] # t
  BY AddFacts
<1>1. ListInv'
  BY <1>0 DEF SafeInv, ListInv, TypeInv, TypeOK, Owning, Signals
<1>a. \A u \in allocated : u \in Transactions \ {t} /\ topParent[u] \in Transactions \ {t}
  BY <1>0 DEF TypeInv, TypeOK
<1>2. TreeInv'
  <2>1. ASSUME NEW u \in allocated
        PROVE  /\ topParent'[u] \in allocated'
               /\ topParent'[topParent'[u]] = topParent'[u]
               /\ u \in mTransactions' <=> topParent'[u] \in mTransactions'
    BY <1>0, <1>a DEF SafeInv, TreeInv
  <2> QED BY <2>1, <1>0 DEF TreeInv
<1>3. AgreeInv'
  <2>1. ASSUME NEW u \in mTransactions
        PROVE  /\ mIsBusy'[u] = mIsBusy'[topParent'[u]]
               /\ ~mIsBusy'[u] => age'[u] = age'[topParent'[u]]
    BY <1>0, <1>a DEF SafeInv, AgreeInv, ListInv
  <2> QED BY <2>1, <1>0 DEF AgreeInv
<1> QED BY <1>1, <1>2, <1>3

LEMMA NewTransactionStep ==
  ASSUME TypeInv, SafeInv, NEW k \in Tasks, NEW t \in Transactions,
         NewTransaction(k, t)
  PROVE  SafeInv'
<1> USE DEF TypeInv, TypeOK, Owning
<1>1. /\ AddTransaction(t) /\ pc[k] = "none" /\ UNCHANGED <<child, toDelete>>
      /\ pc' = [pc EXCEPT ![k] = "own"] /\ target' = [target EXCEPT ![k] = t]
  BY DEF NewTransaction, Goto
<1>2. /\ pc'[k] = "own" /\ target'[k] = t
      /\ \A l \in Tasks : l # k => pc'[l] = pc[l] /\ target'[l] = target[l]
  BY <1>1
<1>0. /\ t \notin allocated
      /\ allocated' = allocated \cup {t}
      /\ mTransactions' = mTransactions \cup {t}
      /\ topParent'[t] = t /\ mIsBusy'[t] /\ age'[t] = 0
      /\ \A u \in Transactions \ {t} :
           /\ topParent'[u] = topParent[u] /\ mIsBusy'[u] = mIsBusy[u]
           /\ age'[u] = age[u]
      /\ \A u \in allocated : topParent[u] # t
      /\ \A u \in mTransactions : u # t /\ topParent[u] # t
  BY <1>1, AddFacts
<1>3. ListInv' /\ TreeInv' /\ AgreeInv'
  BY <1>1, AddListStep
<1>4. HolderInv'
  <2>1. \A l \in Tasks : pc[l] \in Owning =>
          target[l] \in mTransactions /\ target[l] # t
    BY <1>1, <1>0 DEF SafeInv, HolderInv
  <2>2. \A l \in Tasks : pc[l] = "link" =>
          child[l] \in mTransactions /\ child[l] # t
    BY <1>1, <1>0 DEF SafeInv, HolderInv
  <2> QED BY <1>1, <1>2, <2>1, <2>2, <1>0, SMTT(60) DEF SafeInv, HolderInv
<1>5. ExclusiveInv'
  <2> SUFFICES ASSUME NEW l \in Tasks, NEW m \in Tasks, l # m,
                      pc'[l] \in Owning, pc'[m] \in Owning
               PROVE  /\ topParent'[target'[l]] # topParent'[target'[m]]
                      /\ pc'[l] = "link" => child'[l] # topParent'[target'[m]]
                      /\ pc'[l] = "link" /\ pc'[m] = "link" =>
                           child'[l] # child'[m]
    BY DEF ExclusiveInv
  <2>1. \A i \in Tasks : pc[i] \in Owning =>
          /\ topParent'[target[i]] = topParent[target[i]]
          /\ topParent[target[i]] # t
    BY <1>1, <1>0, SMTT(60) DEF SafeInv, HolderInv
  <2>2. \A i \in Tasks : pc[i] = "link" => child[i] # t
    BY <1>1, <1>0 DEF SafeInv, HolderInv
  <2>3. CASE l = k
    <3>1. m # k /\ pc[m] \in Owning /\ target'[m] = target[m]
      BY <2>3, <1>2
    <3>2. topParent'[target'[l]] = t /\ pc'[l] # "link"
      BY <2>3, <1>0, <1>2
    <3> QED BY <2>1, <3>1, <3>2
  <2>4. CASE m = k
    <3>1. /\ l # k /\ pc[l] \in Owning /\ pc'[l] = pc[l]
          /\ target'[l] = target[l] /\ child'[l] = child[l]
      BY <2>4, <1>1, <1>2
    <3>2. topParent'[target'[m]] = t /\ pc'[m] # "link"
      BY <2>4, <1>0, <1>2
    <3> QED BY <2>1, <2>2, <3>1, <3>2
  <2>5. CASE l # k /\ m # k
    <3>1. /\ pc'[l] = pc[l] /\ pc'[m] = pc[m] /\ UNCHANGED child
          /\ target'[l] = target[l] /\ target'[m] = target[m]
      BY <2>5, <1>1, <1>2
    <3> QED BY <2>1, <2>5, <3>1, ExclusiveAt
  <2> QED BY <2>3, <2>4, <2>5
<1>6. BusyInv'
  <2>1. \A l \in Tasks : Held(l) \subseteq Held(l)'
    BY <1>1, <1>2, <1>0 DEF Held, Tree, SafeInv, HolderInv
  <2>2. t \in Held(k)'
    BY <1>1, <1>2, <1>0 DEF Held, Tree
  <2>3. ASSUME NEW u \in mTransactions', mIsBusy'[u]
        PROVE  \E l \in Tasks : u \in Held(l)'
    <3>1. CASE u = t
      BY <3>1, <2>2
    <3>2. CASE u # t
      <4>1. u \in mTransactions /\ mIsBusy[u]
        BY <2>3, <3>2, <1>0
      <4> QED BY <4>1, <2>1 DEF SafeInv, BusyInv
    <3> QED BY <3>1, <3>2
  <2> QED BY <2>3 DEF BusyInv
<1> QED BY <1>3, <1>4, <1>5, <1>6 DEF SafeInv

LEMMA NewChildStep ==
  ASSUME TypeInv, SafeInv, NEW k \in Tasks, NEW t \in Transactions,
         NewChild(k, t)
  PROVE  SafeInv'
<1> USE DEF TypeInv, TypeOK, Owning
<1>1. /\ AddTransaction(t) /\ pc[k] = "own" /\ UNCHANGED <<target, toDelete>>
      /\ pc' = [pc EXCEPT ![k] = "link"] /\ child' = [child EXCEPT ![k] = t]
  BY DEF NewChild, Goto
<1>2. /\ pc'[k] = "link" /\ child'[k] = t
      /\ \A l \in Tasks : l # k => pc'[l] = pc[l] /\ child'[l] = child[l]
  BY <1>1
<1>0. /\ t \notin allocated
      /\ allocated' = allocated \cup {t}
      /\ mTransactions' = mTransactions \cup {t}
      /\ topParent'[t] = t /\ mIsBusy'[t] /\ age'[t] = 0
      /\ \A u \in Transactions \ {t} :
           /\ topParent'[u] = topParent[u] /\ mIsBusy'[u] = mIsBusy[u]
           /\ age'[u] = age[u]
      /\ \A u \in allocated : topParent[u] # t
      /\ \A u \in mTransactions : u # t /\ topParent[u] # t
  BY <1>1, AddFacts
<1>3. ListInv' /\ TreeInv' /\ AgreeInv'
  BY <1>1, AddListStep
<1>a. \A l \in Tasks : pc[l] \in Owning =>
        /\ target[l] \in mTransactions /\ target[l] # t
        /\ topParent'[target[l]] = topParent[target[l]]
        /\ topParent[target[l]] # t
  BY <1>1, <1>0 DEF SafeInv, HolderInv
<1>b. \A l \in Tasks : pc[l] = "link" =>
        child[l] \in mTransactions /\ child[l] # t
  BY <1>1, <1>0 DEF SafeInv, HolderInv
<1>4. HolderInv'
  BY <1>1, <1>2, <1>a, <1>b, <1>0, SMTT(60) DEF SafeInv, HolderInv
<1>5. ExclusiveInv'
  <2> SUFFICES ASSUME NEW l \in Tasks, NEW m \in Tasks, l # m,
                      pc'[l] \in Owning, pc'[m] \in Owning
               PROVE  /\ topParent'[target'[l]] # topParent'[target'[m]]
                      /\ pc'[l] = "link" => child'[l] # topParent'[target'[m]]
                      /\ pc'[l] = "link" /\ pc'[m] = "link" =>
                           child'[l] # child'[m]
    BY DEF ExclusiveInv
  <2>1. CASE l = k
    BY <2>1, <1>1, <1>2, <1>a, <1>b DEF SafeInv, ExclusiveInv
  <2>2. CASE m = k
    BY <2>2, <1>1, <1>2, <1>a, <1>b DEF SafeInv, ExclusiveInv
  <2>3. CASE l # k /\ m # k
    BY <2>3, <1>1, <1>2, <1>a, <1>b, SMTT(60) DEF SafeInv, ExclusiveInv
  <2> QED BY <2>1, <2>2, <2>3
<1>6. BusyInv'
  <2>1. \A l \in Tasks, u \in mTransactions : u \in Held(l) => u \in Held(l)'
    BY <1>1, <1>2, <1>a, <1>0, NoneAssumption DEF Held, Tree, SafeInv, HolderInv
  <2>2. t \in Held(k)'
    BY <1>1, <1>2, <1>0 DEF Held, Tree
  <2>3. ASSUME NEW u \in mTransactions', mIsBusy'[u]
        PROVE  \E l \in Tasks : u \in Held(l)'
    <3>1. CASE u = t
      BY <3>1, <2>2
    <3>2. CASE u # t
      <4>1. u \in mTransactions /\ mIsBusy[u]
        BY <2>3, <3>2, <1>0
      <4> QED BY <4>1, <2>1 DEF SafeInv, BusyInv
    <3> QED BY <3>1, <3>2
  <2> QED BY <2>3 DEF BusyInv
<1> QED BY <1>3, <1>4, <1>5, <1>6 DEF SafeInv

\* linking a child moves it, alone, under the parent's topmost parent
LEMMA LinkStep ==
  ASSUME TypeInv, SafeInv, NEW k \in Tasks, LinkChild(k)
  PROVE  SafeInv'
<1> USE DEF TypeInv, TypeOK, PointerInv, Owning
<1> DEFINE c == child[k]
           t == target[k]
           top == topParent[t]
<1>1. /\ pc[k] = "link" /\ c \in mTransactions /\ t \in mTransactions
      /\ c \in Transactions /\ t \in Transactions
      /\ topParent[c] = c /\ top # c /\ mIsBusy[t] /\ mIsBusy[c]
      /\ c \in allocated /\ t \in allocated
      /\ \A u \in allocated : topParent[u] = c => u = c
      /\ top \in mTransactions /\ topParent[top] = top /\ mIsBusy[top]
      /\ top \in Transactions
  BY DEF LinkChild, SafeInv, HolderInv, ListInv, TreeInv, AgreeInv
<1>2. /\ UNCHANGED <<mTransactions, allocated, mIsBusy, age, target, toDelete>>
      /\ topParent'[c] = top
      /\ \A u \in Transactions \ {c} : topParent'[u] = topParent[u]
      /\ pc'[k] = "own" /\ child'[k] = None
      /\ \A l \in Tasks : l # k => pc'[l] = pc[l] /\ child'[l] = child[l]
  BY <1>1 DEF LinkChild, Goto
<1>3. ListInv' /\ TreeInv' /\ AgreeInv'
  <2>1. ListInv'
    BY <1>1, <1>2 DEF SafeInv, ListInv, Signals
  <2>2. ASSUME NEW u \in allocated
        PROVE  /\ topParent'[u] \in allocated
               /\ topParent'[topParent'[u]] = topParent'[u]
               /\ u \in mTransactions <=> topParent'[u] \in mTransactions
    <3>1. CASE u = c
      BY <3>1, <1>1, <1>2 DEF SafeInv, ListInv
    <3>2. CASE u # c
      <4>1. /\ topParent'[u] = topParent[u] /\ topParent[u] # c
            /\ topParent[u] \in allocated
        BY <3>2, <1>1, <1>2 DEF SafeInv, TreeInv
      <4> QED BY <4>1, <1>1, <1>2 DEF SafeInv, TreeInv
    <3> QED BY <3>1, <3>2
  <2>3. ASSUME NEW u \in mTransactions
        PROVE  /\ mIsBusy[u] = mIsBusy[topParent'[u]]
               /\ ~mIsBusy[u] => age[u] = age[topParent'[u]]
    <3>1. CASE u = c
      BY <3>1, <1>1, <1>2
    <3>2. CASE u # c
      BY <3>2, <1>1, <1>2 DEF SafeInv, AgreeInv
    <3> QED BY <3>1, <3>2
  <2> QED BY <1>2, <2>1, <2>2, <2>3 DEF TreeInv, AgreeInv
<1>4. \A l \in Tasks : l # k /\ pc[l] \in Owning =>
        /\ target[l] \in mTransactions /\ target[l] # c
        /\ topParent'[target[l]] = topParent[target[l]]
        /\ pc[l] = "link" => child[l] # c /\ child[l] # top
  BY <1>1, <1>2 DEF SafeInv, HolderInv, ExclusiveInv
<1>5. HolderInv'
  <2>1. ASSUME NEW l \in Tasks, l # k, pc[l] = "link", NEW u \in allocated
        PROVE  topParent'[u] = child[l] <=> u = child[l]
    <3>1. child[l] # c /\ child[l] # top
      BY <2>1, <1>4 DEF Owning
    <3>2. topParent[u] = child[l] <=> u = child[l]
      BY <2>1 DEF SafeInv, HolderInv
    <3>3. u \in Transactions
      BY <2>1 DEF TypeInv, TypeOK
    <3>4. CASE u = c
      BY <3>1, <3>4, <1>2
    <3>5. CASE u # c
      BY <3>2, <3>3, <3>5, <1>2
    <3> QED BY <3>4, <3>5
  <2>2. CASE pc[k] = "link"
    <3> SUFFICES ASSUME NEW l \in Tasks, l # k
                 PROVE  /\ pc[l] \in Owning =>
                             target[l] \in mTransactions /\ mIsBusy[target[l]]
                        /\ pc[l] # "link" => child[l] = None
                        /\ pc[l] = "link" =>
                             /\ child[l] \in mTransactions /\ mIsBusy[child[l]]
                             /\ topParent'[target[l]] # child[l]
      BY <1>1, <1>2, <2>1, SMTT(60) DEF HolderInv
    <3>1. pc[l] \in Owning => target[l] \in mTransactions /\ mIsBusy[target[l]]
      BY DEF SafeInv, HolderInv
    <3>2. pc[l] # "link" => child[l] = None
      BY DEF SafeInv, HolderInv
    <3>3. ASSUME pc[l] = "link"
          PROVE  /\ child[l] \in mTransactions /\ mIsBusy[child[l]]
                 /\ topParent[target[l]] # child[l]
      BY <3>3 DEF SafeInv, HolderInv
    <3>4. pc[l] = "link" => topParent'[target[l]] = topParent[target[l]]
      BY <1>4 DEF Owning
    <3> QED BY <3>1, <3>2, <3>3, <3>4
  <2> QED BY <1>1, <2>2
<1>6. ExclusiveInv'
  <2> SUFFICES ASSUME NEW l \in Tasks, NEW m \in Tasks, l # m,
                      pc'[l] \in Owning, pc'[m] \in Owning
               PROVE  /\ topParent'[target'[l]] # topParent'[target'[m]]
                      /\ pc'[l] = "link" => child'[l] # topParent'[target'[m]]
                      /\ pc'[l] = "link" /\ pc'[m] = "link" =>
                           child'[l] # child'[m]
    BY DEF ExclusiveInv
  <2>1. topParent'[t] = top
    BY <1>1, <1>2
  <2>2. CASE l = k
    <3>1. pc[k] \in Owning /\ pc[m] \in Owning /\ pc'[m] = pc[m] /\ m # k
      BY <2>2, <1>1, <1>2
    <3>2. topParent'[target'[m]] = topParent[target[m]]
      BY <3>1, <1>2, <1>4
    <3>3. topParent[target[m]] # top
      BY <3>1, ExclusiveAt
    <3> QED BY <2>1, <2>2, <3>2, <3>3, <1>2
  <2>3. CASE m = k
    <3>1. pc[k] \in Owning /\ pc[l] \in Owning /\ pc'[l] = pc[l] /\ l # k
      BY <2>3, <1>1, <1>2
    <3>2. /\ topParent'[target'[l]] = topParent[target[l]]
          /\ child'[l] = child[l]
          /\ pc[l] = "link" => child[l] # top
      BY <3>1, <1>2, <1>4
    <3>3. topParent[target[l]] # top
      BY <3>1, ExclusiveAt
    <3> QED BY <2>1, <2>3, <3>2, <3>1, <3>3, <1>2
  <2>4. CASE l # k /\ m # k
    <3>1. /\ pc'[l] = pc[l] /\ pc'[m] = pc[m]
          /\ child'[l] = child[l] /\ child'[m] = child[m]
          /\ target'[l] = target[l] /\ target'[m] = target[m]
      BY <2>4, <1>2
    <3>2. /\ topParent'[target[l]] = topParent[target[l]]
          /\ topParent'[target[m]] = topParent[target[m]]
      BY <2>4, <3>1, <1>4
    <3> QED BY <3>1, <3>2, ExclusiveAt
  <2> QED BY <2>2, <2>3, <2>4
<1>7. BusyInv'
  <2>1. ASSUME NEW l \in Tasks, NEW u \in mTransactions, u \in Held(l)
        PROVE  u \in Held(l)'
    <3>1. CASE l = k
      <4>1. u \in Tree(t) \/ u = c
        BY <2>1, <3>1, <1>1 DEF Held
      <4>2. u \in allocated /\ topParent'[u] = topParent'[t]
        BY <4>1, <1>1, <1>2 DEF Tree
      <4> QED BY <3>1, <4>2, <1>2 DEF Held, Tree
    <3>2. CASE l # k
      <4>1. /\ pc'[l] = pc[l] /\ child'[l] = child[l] /\ target'[l] = target[l]
            /\ pc[l] \in Owning
        BY <2>1, <3>2, <1>2 DEF Held
      <4>2. CASE u = child[l]
        BY <4>1, <4>2 DEF Held
      <4>3. CASE u # child[l]
        <5>1. u \in Tree(target[l])
          BY <2>1, <4>1, <4>3 DEF Held
        <5>2. topParent'[target[l]] = topParent[target[l]]
          BY <3>2, <4>1, <1>4
        <5>3. topParent[u] # c
          BY <3>2, <4>1, <5>1, <1>1, ExclusiveAt DEF Tree
        <5>4. topParent'[u] = topParent[u]
          BY <5>1, <5>3, <1>1, <1>2 DEF Tree
        <5> QED BY <4>1, <5>1, <5>2, <5>4, <1>2 DEF Held, Tree
      <4> QED BY <4>2, <4>3
    <3> QED BY <3>1, <3>2
  <2> QED BY <1>2, <2>1 DEF SafeInv, BusyInv
<1> QED BY <1>3, <1>5, <1>6, <1>7 DEF SafeInv

\* a release leaves the tree free, with one time stamp
LEMMA ReleaseStep ==
  ASSUME TypeInv, SafeInv, NEW k \in Tasks, MarkAvailable(k)
  PROVE  SafeInv'
<1> USE DEF TypeInv, TypeOK, PointerInv, Owning
<1> DEFINE t == target[k]
<1>1. /\ pc[k] = "own" /\ t \in mTransactions /\ t \in Transactions
      /\ UNCHANGED <<mTransactions, allocated, topParent, child, toDelete>>
      /\ pc'[k] \in {"idle", "test"} /\ toDelete[k] = {} /\ child[k] = None
      /\ \A l \in Tasks : l # k => pc'[l] = pc[l] /\ target'[l] = target[l]
  <2>1. pc[k] = "own" /\ pc'[k] \in {"idle", "test"}
    BY DEF MarkAvailable, Goto
  <2>2. /\ UNCHANGED <<mTransactions, allocated, topParent, child, toDelete>>
        /\ \A l \in Tasks : l # k => pc'[l] = pc[l] /\ target'[l] = target[l]
    BY DEF MarkAvailable, Goto
  <2>3. t \in mTransactions /\ toDelete[k] = {} /\ child[k] = None
    BY <2>1 DEF SafeInv, HolderInv, ListInv, Signals
  <2> QED BY <2>1, <2>2, <2>3
<1>2. /\ \A u \in Tree(t) : mIsBusy'[u] = FALSE /\ age'[u] = 0
      /\ \A u \in Transactions \ Tree(t) :
           mIsBusy'[u] = mIsBusy[u] /\ age'[u] = age[u]
  BY DEF MarkAvailable, SetBusy, Touch, Tree
<1>3. \A u \in mTransactions : u \in Tree(t) <=> topParent[u] \in Tree(t)
  BY DEF SafeInv, ListInv, TreeInv, Tree
<1>4. ListInv' /\ TreeInv' /\ AgreeInv'
  <2>1. ListInv' /\ TreeInv'
    BY <1>1 DEF SafeInv, ListInv, TreeInv, Signals
  <2>2. AgreeInv'
    <3>1. ASSUME NEW u \in mTransactions
          PROVE  /\ mIsBusy'[u] = mIsBusy'[topParent[u]]
                 /\ ~mIsBusy'[u] => age'[u] = age'[topParent[u]]
      <4>1. u \in Transactions /\ topParent[u] \in Transactions
        OBVIOUS
      <4>2. CASE u \in Tree(t)
        BY <4>1, <4>2, <1>2, <1>3
      <4>3. CASE u \notin Tree(t)
        BY <4>1, <4>3, <1>2, <1>3 DEF SafeInv, AgreeInv
      <4> QED BY <4>2, <4>3
    <3> QED BY <3>1, <1>1 DEF AgreeInv
  <2> QED BY <2>1, <2>2
<1>5. \A l \in Tasks : l # k /\ pc[l] \in Owning =>
        /\ target[l] \in mTransactions /\ target[l] \notin Tree(t)
        /\ pc[l] = "link" => child[l] \notin Tree(t)
  <2> SUFFICES ASSUME NEW l \in Tasks, l # k, pc[l] \in Owning
               PROVE  /\ target[l] \in mTransactions /\ target[l] \notin Tree(t)
                      /\ pc[l] = "link" => child[l] \notin Tree(t)
    OBVIOUS
  <2>1. target[l] \in mTransactions /\ topParent[target[l]] # topParent[t]
    BY <1>1 DEF SafeInv, HolderInv, ExclusiveInv
  <2>2. pc[l] = "link" => /\ topParent[child[l]] = child[l]
                          /\ child[l] # topParent[t]
    BY <1>1 DEF SafeInv, HolderInv, ExclusiveInv, ListInv
  <2> QED BY <2>1, <2>2 DEF Tree
<1>6. HolderInv'
  BY <1>1, <1>2, <1>5 DEF SafeInv, HolderInv
<1>7. ExclusiveInv'
  <2>1. \A l \in Tasks : pc'[l] \in Owning =>
          l # k /\ pc[l] \in Owning /\ pc'[l] = pc[l] /\ target'[l] = target[l]
    BY <1>1
  <2>2. ASSUME NEW l \in Tasks, NEW m \in Tasks, l # m,
               pc'[l] \in Owning, pc'[m] \in Owning
        PROVE  /\ topParent[target'[l]] # topParent[target'[m]]
               /\ pc'[l] = "link" => child[l] # topParent[target'[m]]
               /\ pc'[l] = "link" /\ pc'[m] = "link" => child[l] # child[m]
    BY <2>1, <2>2, ExclusiveAt
  <2> QED BY <2>2, <1>1 DEF ExclusiveInv
<1>8. BusyInv'
  <2>1. ASSUME NEW u \in mTransactions, mIsBusy'[u]
        PROVE  \E l \in Tasks : u \in Held(l)'
    <3>1. u \notin Tree(t) /\ mIsBusy[u]
      BY <2>1, <1>2
    <3>2. PICK l \in Tasks : u \in Held(l)
      BY <3>1 DEF SafeInv, BusyInv
    <3>3. l # k
      BY <3>1, <3>2, <1>1, NoneAssumption DEF Held
    <3>4. u \in Held(l)'
      BY <3>2, <3>3, <1>1 DEF Held, Tree
    <3> QED BY <3>4
  <2> QED BY <1>1, <2>1 DEF BusyInv
<1> QED BY <1>4, <1>6, <1>7, <1>8 DEF SafeInv

\* the collector takes whole trees that nobody holds
LEMMA CollectStep ==
  ASSUME TypeInv, SafeInv, NEW k \in Tasks, RemoveOldTransactions(k)
  PROVE  SafeInv'
<1> USE DEF TypeInv, TypeOK, PointerInv
<1> DEFINE old == {t \in mTransactions : Collectable(t)}
<1>1. /\ k = UserAgent /\ pc[k] = "idle" /\ pc'[k] = "test"
      /\ mTransactions' = mTransactions \ old /\ toDelete' = [toDelete EXCEPT ![k] = old]
      /\ UNCHANGED <<allocated, topParent, mIsBusy, age, target, child>>
      /\ \A l \in Tasks : l # k => pc'[l] = pc[l]
  BY DEF RemoveOldTransactions, Goto
<1>2. \A t \in mTransactions :
        /\ topParent[t] \in mTransactions
        /\ t \in old <=> topParent[t] \in old
  BY DEF SafeInv, ListInv, TreeInv, AgreeInv, Collectable
<1>3. \A t \in mTransactions : mIsBusy[t] => t \notin old
  BY DEF Collectable
<1>4. ListInv'
  <2>1. toDelete[k] = {}
    BY <1>1 DEF SafeInv, ListInv, Signals
  <2>2. allocated = mTransactions
    BY <1>1, <2>1 DEF SafeInv, ListInv
  <2>3. toDelete'[UserAgent] = allocated' \ mTransactions'
    BY <1>1, <2>2
  <2> QED BY <1>1, <2>3 DEF SafeInv, ListInv, Signals
<1>5. TreeInv' /\ AgreeInv'
  BY <1>1, <1>2 DEF SafeInv, ListInv, TreeInv, AgreeInv
<1>6. HolderInv'
  BY <1>1, <1>3 DEF SafeInv, HolderInv, Owning
<1>7. \A l \in Tasks : pc'[l] \in Owning <=> pc[l] \in Owning
  BY <1>1 DEF Owning
<1>8. ExclusiveInv'
  <2>1. ASSUME NEW l \in Tasks, NEW m \in Tasks, l # m,
               pc'[l] \in Owning, pc'[m] \in Owning
        PROVE  /\ topParent[target[l]] # topParent[target[m]]
               /\ pc'[l] = "link" => child[l] # topParent[target[m]]
               /\ pc'[l] = "link" /\ pc'[m] = "link" => child[l] # child[m]
    <3>1. /\ pc[l] \in Owning /\ pc[m] \in Owning
          /\ pc'[l] = pc[l] /\ pc'[m] = pc[m]
      BY <2>1, <1>1, <1>7 DEF Owning
    <3> QED BY <3>1, <2>1, ExclusiveAt
  <2> QED BY <2>1, <1>1 DEF ExclusiveInv
<1>9. BusyInv'
  <2>1. \A l \in Tasks : Held(l)' = Held(l)
    BY <1>1, <1>7 DEF Held, Tree
  <2> QED BY <1>1, <2>1 DEF SafeInv, BusyInv
<1> QED BY <1>4, <1>5, <1>6, <1>8, <1>9 DEF SafeInv

\* what is deleted has left the list, with its whole tree
LEMMA DeleteStep ==
  ASSUME TypeInv, SafeInv, NEW k \in Tasks, DeleteTransactions(k)
  PROVE  SafeInv'
<1> USE DEF TypeInv, TypeOK, PointerInv
<1>1. /\ pc[k] = "delete" /\ pc'[k] = "idle"
      /\ \A l \in Tasks : l # k => pc'[l] = pc[l]
      /\ UNCHANGED <<mTransactions, mIsBusy, target, child>>
      /\ allocated' = allocated \ toDelete[k]
      /\ toDelete' = [toDelete EXCEPT ![k] = {}]
      /\ \A t \in Transactions \ toDelete[k] :
           topParent'[t] = topParent[t] /\ age'[t] = age[t]
  BY DEF DeleteTransactions, Goto
<1>2. CASE k # UserAgent
  <2>1. toDelete[k] = {}
    BY <1>2 DEF SafeInv, ListInv
  <2>2. UNCHANGED <<allocated, toDelete>>
    BY <2>1, <1>1
  <2>3. UNCHANGED <<topParent, age>>
    BY <2>1 DEF DeleteTransactions
  <2> QED BY <2>1, <2>2, <2>3, <1>1, QuietStep DEF Owning, SafeInv, ListInv
<1>3. CASE k = UserAgent
  <2>1. allocated' = mTransactions /\ mTransactions \subseteq Transactions \ toDelete[k]
    BY <1>1, <1>3 DEF SafeInv, ListInv
  <2>2. \A t \in mTransactions : topParent[t] \in mTransactions
    BY DEF SafeInv, ListInv, TreeInv
  <2>3. \A t \in mTransactions : topParent'[t] = topParent[t] /\ age'[t] = age[t]
    BY <1>1, <2>1
  <2>4. ListInv'
    BY <1>1, <1>3, <2>1 DEF SafeInv, ListInv
  <2>5. TreeInv' /\ AgreeInv'
    BY <1>1, <2>1, <2>2, <2>3 DEF SafeInv, ListInv, TreeInv, AgreeInv
  <2>6. HolderInv'
    BY <1>1, <2>1, <2>3 DEF SafeInv, HolderInv, ListInv, Owning
  <2>7. ExclusiveInv'
    <3>1. ASSUME NEW l \in Tasks, pc'[l] \in Owning
          PROVE  /\ pc'[l] = pc[l] /\ pc[l] \in Owning
                 /\ topParent'[target[l]] = topParent[target[l]]
      BY <3>1, <1>1, <2>3 DEF Owning, SafeInv, HolderInv
    <3>2. ASSUME NEW l \in Tasks, NEW m \in Tasks, l # m,
                 pc'[l] \in Owning, pc'[m] \in Owning
          PROVE  /\ topParent'[target[l]] # topParent'[target[m]]
                 /\ pc'[l] = "link" => child[l] # topParent'[target[m]]
                 /\ pc'[l] = "link" /\ pc'[m] = "link" => child[l] # child[m]
      BY <3>1, <3>2, ExclusiveAt
    <3> QED BY <3>2, <1>1 DEF ExclusiveInv
  <2>8. BusyInv'
    <3>1. ASSUME NEW l \in Tasks, NEW t \in mTransactions, t \in Held(l)
          PROVE  t \in Held(l)'
      <4>1. pc[l] \in Owning /\ pc'[l] = pc[l] /\ target[l] \in mTransactions
        BY <3>1, <1>1 DEF Held, Owning, SafeInv, HolderInv
      <4> QED BY <3>1, <4>1, <1>1, <2>1, <2>3 DEF Held, Tree
    <3> QED BY <1>1, <3>1 DEF SafeInv, BusyInv
  <2> QED BY <2>4, <2>5, <2>6, <2>7, <2>8 DEF SafeInv
<1> QED BY <1>2, <1>3

\* time passes for all transactions alike
LEMMA TickStep ==
  ASSUME TypeInv, SafeInv, Tick
  PROVE  SafeInv'
<1> USE DEF TypeInv, TypeOK
<1>1. /\ UNCHANGED <<mTransactions, allocated, topParent, mIsBusy, pc, target,
                     child, toDelete>>
      /\ \A t \in allocated :
           age'[t] = IF age[t] < OldAge THEN age[t] + 1 ELSE age[t]
  BY DEF Tick, taskVars
<1>2. AgreeInv'
  BY <1>1 DEF SafeInv, ListInv, TreeInv, AgreeInv
<1>3. ListInv' /\ TreeInv' /\ HolderInv' /\ ExclusiveInv'
  BY <1>1 DEF SafeInv, ListInv, TreeInv, HolderInv, ExclusiveInv
<1>4. BusyInv'
  BY <1>1 DEF SafeInv, BusyInv, Held, Tree
<1> QED BY <1>2, <1>3, <1>4 DEF SafeInv
-----------------------------------------------------------------------------
(* The theorems *)

LEMMA SafeStep == IInv /\ [Next]_vars => SafeInv'
<1> SUFFICES ASSUME TypeInv, SafeInv, [Next]_vars PROVE SafeInv'
  BY DEF IInv
<1> USE DEF Goto
<1>1. ASSUME NEW k \in Tasks, NEW t \in Transactions, Found(k, t)
      PROVE  SafeInv'
  <2>1. CASE mIsBusy[t]
    <3>1. pc[k] = "idle" /\ pc' = [pc EXCEPT ![k] = "check"]
      BY <1>1, <2>1 DEF Found
    <3>2. target' = [target EXCEPT ![k] = t]
      BY <1>1 DEF Found
    <3>3. UNCHANGED <<mTransactions, allocated, topParent, mIsBusy, age, child,
                      toDelete>>
      BY <1>1, <2>1 DEF Found
    <3> QED BY <3>1, <3>2, <3>3, QuietStep
            DEF TypeInv, TypeOK, Owning, Signals, SafeInv, ListInv
  <2>2. CASE ~mIsBusy[t]
    BY <1>1, <2>2, TakeStep DEF Found, Matchable
  <2> QED BY <2>1, <2>2
<1>2. ASSUME NEW k \in Tasks, CheckAvailable(k)
      PROVE  SafeInv'
  <2> DEFINE t == target[k]
  <2>1. CASE t \in mTransactions /\ ~mIsBusy[t]
    <3>1. target' = [target EXCEPT ![k] = t]
      BY <1>2, <2>1 DEF CheckAvailable, TypeInv, TypeOK
    <3> QED BY <1>2, <2>1, <3>1, TakeStep DEF CheckAvailable
  <2>2. CASE ~(t \in mTransactions /\ ~mIsBusy[t])
    <3>1. /\ UNCHANGED <<mTransactions, allocated, topParent, mIsBusy, age, child,
                         toDelete>>
          /\ pc[k] = "check"
          /\ \E label \in {"none", "waiting"} : pc' = [pc EXCEPT ![k] = label]
          /\ \A l \in Tasks : l # k => target'[l] = target[l]
      BY <1>2, <2>2 DEF CheckAvailable, Leave, TypeInv, TypeOK
    <3> QED BY <3>1, QuietStep
            DEF TypeInv, TypeOK, Owning, Signals, SafeInv, ListInv
  <2> QED BY <2>1, <2>2
<1>3. ASSUME NEW k \in Tasks, NEW t \in Transactions,
             NewTransaction(k, t) \/ NewChild(k, t)
      PROVE  SafeInv'
  BY <1>3, NewTransactionStep, NewChildStep
<1>4. ASSUME NEW k \in Tasks,
             \/ LinkChild(k) \/ MarkAvailable(k) \/ RemoveOldTransactions(k)
             \/ DeleteTransactions(k)
      PROVE  SafeInv'
  BY <1>4, LinkStep, ReleaseStep, CollectStep, DeleteStep
<1>5. ASSUME NEW k \in Tasks, NEW t \in Transactions, SendRequest(k, t)
      PROVE  SafeInv'
  BY <1>5, QuietStep DEF SendRequest, taskVars, SafeInv, ListInv
<1>6. ASSUME NEW k \in Tasks,
             \/ NotFound(k) \/ DropMessage(k) \/ WaitTimeout(k)
             \/ WaitGiveUp(k) \/ Wake(k)
             \/ GiveTest(k) \/ GiveSet(k) \/ GivePost(k)
      PROVE  SafeInv'
  <2>1. /\ UNCHANGED <<mTransactions, allocated, topParent, mIsBusy, age, child,
                       target, toDelete>>
        /\ pc[k] \in {"idle", "none", "waiting"} \cup Gives
        /\ \E label \in {"idle", "none", "waiting", "after"} \cup Gives :
             pc' = [pc EXCEPT ![k] = label]
    BY <1>6 DEF NotFound, DropMessage, WaitTimeout, WaitGiveUp, Wake, GiveTest,
         GiveSet, GivePost, listVars, taskVars, TypeInv, TypeOK, Gives
  <2> QED BY <2>1, QuietStep
          DEF TypeInv, TypeOK, Owning, Signals, Gives, SafeInv, ListInv
<1>7. ASSUME NEW k \in Tasks, AfterWait(k)
      PROVE  SafeInv'
  <2>1. /\ UNCHANGED <<mTransactions, allocated, topParent, mIsBusy, age, child,
                       toDelete>>
        /\ pc[k] = "after"
        /\ \E label \in {"none", "check"} : pc' = [pc EXCEPT ![k] = label]
        /\ \A l \in Tasks : l # k => target'[l] = target[l]
    BY <1>7 DEF AfterWait, Leave, listVars, TypeInv, TypeOK
  <2> QED BY <2>1, QuietStep
          DEF TypeInv, TypeOK, Owning, Signals, SafeInv, ListInv
<1>8. ASSUME NEW k \in Tasks,
             \/ \E e \in Events : SignalTest(k, e)
             \/ SignalSet(k) \/ SignalPost(k) \/ SignalDone(k)
      PROVE  SafeInv'
  <2>1. /\ UNCHANGED <<mTransactions, allocated, topParent, mIsBusy, age, child,
                       target, toDelete>>
        /\ pc[k] \in Signals
        /\ \E label \in Signals \cup {"idle", "delete"} :
             /\ pc' = [pc EXCEPT ![k] = label]
             /\ label = "idle" => toDelete[k] = {}
    BY <1>8 DEF SignalTest, SignalSet, SignalPost, SignalDone, listVars,
         taskVars, TypeInv, TypeOK, Signals
  <2> QED BY <2>1, QuietStep
          DEF TypeInv, TypeOK, Owning, Signals, SafeInv, ListInv
<1>9. ASSUME UNCHANGED vars
      PROVE  SafeInv'
  BY <1>9, QuietStep DEF vars, listVars, taskVars, SafeInv, ListInv
<1>10. CASE Tick
  BY <1>10, TickStep
<1> QED
  BY <1>1, <1>2, <1>3, <1>4, <1>5, <1>6, <1>7, <1>8, <1>9, <1>10
  DEF Next, Work, Signal

LEMMA SafeSpec == Spec => []IInv
<1>1. Init => IInv
  BY TypeInit, SafeInit DEF IInv
<1>2. IInv /\ [Next]_vars => IInv'
  BY TypeStep, SafeStep DEF IInv
<1> QED BY <1>1, <1>2, PTL DEF Spec

\* Every variable keeps its type.
THEOREM TypeCorrect == Spec => []TypeOK
<1>1. IInv => TypeOK
  BY DEF IInv, TypeInv
<1> QED BY <1>1, SafeSpec, PTL

\* A transaction in the list is busy exactly while a task works on it, for any
\* number of tasks that match, wait, give up, create, link and collect.
THEOREM BusyIsHeld == Spec => []BusyIffHeld
<1>1. IInv => BusyIffHeld
  <2> SUFFICES ASSUME SafeInv, TypeInv, NEW t \in mTransactions, NEW k \in Tasks,
                      t \in Held(k)
               PROVE  mIsBusy[t]
    BY DEF IInv, SafeInv, BusyInv, BusyIffHeld
  <2>1. CASE t = child[k]
    <3>1. t # None
      BY NoneAssumption DEF TypeInv, TypeOK
    <3>2. pc[k] = "link"
      BY <2>1, <3>1 DEF SafeInv, HolderInv
    <3> QED BY <2>1, <3>2 DEF SafeInv, HolderInv
  <2>2. CASE t \in Tree(target[k])
    <3>1. pc[k] \in Owning
      BY DEF Held
    <3>2. target[k] \in mTransactions /\ mIsBusy[target[k]]
      BY <3>1 DEF SafeInv, HolderInv
    <3> QED BY <2>2, <3>2 DEF SafeInv, AgreeInv, Tree
  <2> QED BY <2>1, <2>2 DEF Held
<1> QED BY <1>1, SafeSpec, PTL

\* Two tasks never work on the same transaction.
THEOREM MutualExclusion == Spec => []OneHolder
<1>1. IInv => OneHolder
  <2> SUFFICES ASSUME SafeInv, TypeInv, NEW k \in Tasks, NEW l \in Tasks, k # l,
                      NEW t, t \in Held(k), t \in Held(l), t # None
               PROVE  FALSE
    BY DEF IInv, OneHolder
  <2>1. pc[k] \in Owning /\ pc[l] \in Owning
    BY DEF Held
  <2>2. /\ topParent[target[k]] # topParent[target[l]]
        /\ pc[k] = "link" => child[k] # topParent[target[l]]
        /\ pc[l] = "link" => child[l] # topParent[target[k]]
        /\ pc[k] = "link" /\ pc[l] = "link" => child[k] # child[l]
    BY <2>1, ExclusiveAt
  <2>3. ASSUME NEW m \in Tasks, t = child[m]
        PROVE  pc[m] = "link" /\ topParent[t] = child[m]
    BY <2>3 DEF SafeInv, HolderInv, ListInv
  <2>4. \A m \in Tasks : t \in Held(m) =>
          \/ topParent[t] = topParent[target[m]]
          \/ pc[m] = "link" /\ topParent[t] = child[m]
    BY <2>3 DEF Held, Tree
  <2> QED BY <2>2, <2>4
<1> QED BY <1>1, SafeSpec, PTL

\* What a task works on stays in the list: it is not collected under the task.
THEOREM HeldIsNotCollected == Spec => []HeldInList
<1>1. IInv => HeldInList
  <2> SUFFICES ASSUME SafeInv, TypeInv, NEW k \in Tasks, NEW t \in Held(k), t # None
               PROVE  t \in mTransactions /\ t \in allocated
    BY DEF IInv, HeldInList
  <2>1. pc[k] \in Owning /\ target[k] \in mTransactions
    BY DEF Held, SafeInv, HolderInv
  <2>2. CASE t = child[k]
    BY <2>2 DEF SafeInv, HolderInv, ListInv
  <2>3. CASE t \in Tree(target[k])
    BY <2>1, <2>3 DEF SafeInv, ListInv, TreeInv, Tree
  <2> QED BY <2>2, <2>3 DEF Held
<1> QED BY <1>1, SafeSpec, PTL

\* A transaction tree is collected whole.
THEOREM TreesAreCollectedWhole == Spec => []TreesWhole
<1>1. IInv => TreesWhole
  BY DEF IInv, SafeInv, TreeInv, TreesWhole
<1> QED BY <1>1, SafeSpec, PTL
-----------------------------------------------------------------------------
(* The list implements the abstract forest                                  *)

HeldMap == [k \in Tasks |-> HeldTrees(k)]

\* a transaction of the list has one tree, which is in the list with it
LEMMA TreeFacts ==
  ASSUME TypeInv, SafeInv, NEW t \in mTransactions
  PROVE  /\ t \in Tree(t) /\ Tree(t) \in Trees /\ Tree(t) \subseteq mTransactions
         /\ \A u \in mTransactions : Tree(u) = Tree(t) <=> topParent[u] = topParent[t]
<1>1. t \in allocated /\ \A u \in mTransactions : u \in allocated
  BY DEF SafeInv, ListInv
<1>2. t \in Tree(t) /\ \A u \in mTransactions : u \in Tree(u)
  BY <1>1 DEF Tree
<1>3. Tree(t) \subseteq mTransactions
  BY <1>1 DEF Tree, SafeInv, TreeInv
<1>4. \A u \in mTransactions : Tree(u) = Tree(t) <=> topParent[u] = topParent[t]
  BY <1>2 DEF Tree
<1> QED BY <1>2, <1>3, <1>4 DEF Trees

\* what a task holds are trees of the list
LEMMA HeldFacts ==
  ASSUME TypeInv, SafeInv, NEW k \in Tasks
  PROVE  /\ pc[k] = "own" => HeldTrees(k) = {Tree(target[k])}
         /\ pc[k] = "link" => /\ HeldTrees(k) = {Tree(target[k]), {child[k]}}
                              /\ Tree(child[k]) = {child[k]}
                              /\ child[k] \in mTransactions
         /\ pc[k] \notin Owning => HeldTrees(k) = {}
         /\ pc[k] \in Owning => target[k] \in mTransactions
         /\ pc[k] = "link" => pc[k] \in Owning
         /\ HeldMap[k] = HeldTrees(k)
<1>1. ASSUME pc[k] = "link"
      PROVE  Tree(child[k]) = {child[k]} /\ child[k] \in mTransactions
  <2>1. /\ child[k] \in mTransactions /\ child[k] \in allocated
        /\ \A u \in allocated : topParent[u] = child[k] <=> u = child[k]
    BY <1>1 DEF SafeInv, HolderInv, ListInv
  <2> QED BY <2>1 DEF Tree
<1>2. pc[k] \in Owning => target[k] \in mTransactions
  BY DEF SafeInv, HolderInv
<1> QED BY <1>1, <1>2 DEF HeldTrees, HeldMap, Owning

\* a step that changes neither the trees nor who holds them
LEMMA ForestQuiet ==
  ASSUME UNCHANGED <<mTransactions, allocated, topParent>>,
         \A l \in Tasks :
           /\ pc'[l] \in Owning <=> pc[l] \in Owning
           /\ pc'[l] = "link" <=> pc[l] = "link"
           /\ pc[l] \in Owning => target'[l] = target[l]
           /\ pc[l] = "link" => child'[l] = child[l]
  PROVE  UNCHANGED <<Trees, HeldMap>>
<1>1. \A t : Tree(t)' = Tree(t)
  BY DEF Tree
<1>2. Trees' = Trees
  BY <1>1 DEF Trees
<1>3. \A l \in Tasks : HeldTrees(l)' = HeldTrees(l)
  BY <1>1 DEF HeldTrees, Tree
<1> QED BY <1>2, <1>3 DEF HeldMap

\* a tree that is not busy is in nobody's hands
LEMMA FreeTree ==
  ASSUME TypeInv, SafeInv, NEW t \in mTransactions, ~mIsBusy[t], NEW l \in Tasks
  PROVE  Tree(t) \notin HeldMap[l]
<1>1. CASE pc[l] \notin Owning
  BY <1>1, HeldFacts
<1>2. CASE pc[l] \in Owning
  <2>1. target[l] \in mTransactions /\ topParent[target[l]] # topParent[t]
    BY <1>2, FreeIsNotHeld, HeldFacts
  <2>2. Tree(target[l]) # Tree(t)
    BY <2>1, TreeFacts
  <2>3. CASE pc[l] = "link"
    <3>1. child[l] \in mTransactions /\ mIsBusy[child[l]] /\ Tree(child[l]) = {child[l]}
      BY <2>3, HeldFacts DEF SafeInv, HolderInv
    <3>2. t \in Tree(t) /\ t # child[l]
      BY <3>1, TreeFacts
    <3> QED BY <2>2, <2>3, <3>1, <3>2, HeldFacts
  <2>4. CASE pc[l] = "own"
    BY <2>2, <2>4, HeldFacts
  <2> QED BY <1>2, <2>3, <2>4 DEF Owning
<1> QED BY <1>1, <1>2

\* findTransactionFor and waitUntilAvailable take a free tree
LEMMA ForestTake ==
  ASSUME TypeInv, SafeInv, NEW k \in Tasks, NEW t \in mTransactions, ~mIsBusy[t],
         pc[k] \in {"idle", "check"},
         pc' = [pc EXCEPT ![k] = "own"],
         target' = [target EXCEPT ![k] = t],
         UNCHANGED <<mTransactions, allocated, topParent, child>>
  PROVE  Forest!Next
<1>0. pc \in [Tasks -> PC] /\ target \in [Tasks -> Transactions \cup {None}]
  BY DEF TypeInv, TypeOK
<1>1. \A u : Tree(u)' = Tree(u)
  BY DEF Tree
<1>2. Trees' = Trees
  BY <1>1 DEF Trees
<1>3. HeldTrees(k) = {} /\ HeldMap[k] = {}
  BY HeldFacts DEF Owning
<1>4. Tree(t) \in Trees
  BY TreeFacts
<1>5. \A l \in Tasks : Tree(t) \notin HeldMap[l]
  BY FreeTree
<1>6. HeldMap' = [HeldMap EXCEPT ![k] = {Tree(t)}]
  <2>1. HeldTrees(k)' = {Tree(t)}
    BY <1>0, <1>1 DEF HeldTrees, Owning, Tree
  <2>2. \A l \in Tasks : l # k => HeldTrees(l)' = HeldTrees(l)
    BY <1>0, <1>1 DEF HeldTrees, Tree
  <2> QED BY <2>1, <2>2 DEF HeldMap
<1>7. Forest!Take(k, Tree(t))
  BY <1>2, <1>3, <1>4, <1>5, <1>6 DEF Forest!Take, Forest!Free, Forest!Holds, HeldMap
<1> QED BY <1>4, <1>7 DEF Forest!Next

\* a new transaction belongs to its creator
LEMMA ForestCreate ==
  ASSUME TypeInv, SafeInv, NEW k \in Tasks, NEW t \in Transactions,
         NewTransaction(k, t) \/ NewChild(k, t)
  PROVE  Forest!Next
<1>0. pc \in [Tasks -> PC] /\ target \in [Tasks -> Transactions \cup {None}]
      /\ child \in [Tasks -> Transactions \cup {None}]
  BY DEF TypeInv, TypeOK
<1>1. AddTransaction(t)
  BY DEF NewTransaction, NewChild
<1>2. /\ t \notin allocated
      /\ allocated' = allocated \cup {t}
      /\ mTransactions' = mTransactions \cup {t}
      /\ topParent'[t] = t
      /\ \A u \in Transactions \ {t} : topParent'[u] = topParent[u]
      /\ \A u \in allocated : topParent[u] # t
  BY <1>1, AddFacts
<1>3. allocated \subseteq Transactions \ {t} /\ mTransactions \subseteq allocated
  BY <1>2 DEF TypeInv, TypeOK, SafeInv, ListInv
<1>4. Tree(t)' = {t}
  BY <1>2, <1>3 DEF Tree
<1>5. ASSUME NEW u \in mTransactions PROVE Tree(u)' = Tree(u) /\ t \notin Tree(u)
  BY <1>2, <1>3 DEF Tree
<1>6. Trees' = Trees \cup {{t}} /\ \A tree \in Trees : t \notin tree
  <2>1. Trees' = {Tree(u)' : u \in mTransactions \cup {t}}
    BY <1>2 DEF Trees
  <2> QED BY <1>4, <1>5, <2>1 DEF Trees
<1>7. ASSUME NEW l \in Tasks, l # k PROVE HeldTrees(l)' = HeldTrees(l)
  <2>1. pc'[l] = pc[l] /\ target'[l] = target[l] /\ child'[l] = child[l]
    BY <1>0, <1>7 DEF NewTransaction, NewChild, Goto
  <2>2. /\ pc[l] \in Owning => Tree(target[l])' = Tree(target[l])
        /\ pc[l] = "link" => Tree(child[l])' = Tree(child[l])
    <3>1. /\ pc[l] \in Owning => target[l] \in mTransactions
          /\ pc[l] = "link" => child[l] \in mTransactions
      BY HeldFacts
    <3> QED BY <1>2, <1>3, <2>1, <3>1 DEF Tree
  <2> QED BY <2>1, <2>2 DEF HeldTrees
<1>8. /\ HeldTrees(k)' = HeldTrees(k) \cup {{t}}
      /\ \A tree, other \in HeldTrees(k) : tree = other
  <2>1. CASE NewTransaction(k, t)
    <3>1. HeldTrees(k) = {}
      BY <2>1, HeldFacts DEF NewTransaction, Owning
    <3>2. pc'[k] = "own" /\ target'[k] = t
      BY <1>0, <2>1 DEF NewTransaction, Goto
    <3>3. Tree(target[k])' = {t}
      BY <1>4, <3>2 DEF Tree
    <3>4. HeldTrees(k)' = {{t}}
      BY <3>2, <3>3 DEF HeldTrees, Owning
    <3> QED BY <3>1, <3>4
  <2>2. CASE NewChild(k, t)
    <3>1. HeldTrees(k) = {Tree(target[k])} /\ target[k] \in mTransactions
      BY <2>2, HeldFacts DEF NewChild, Owning
    <3>2. pc'[k] = "link" /\ target'[k] = target[k] /\ child'[k] = t
      BY <1>0, <2>2 DEF NewChild, Goto
    <3>3. Tree(child[k])' = {t} /\ Tree(target[k])' = Tree(target[k])
      BY <1>2, <1>3, <1>4, <3>1, <3>2 DEF Tree
    <3>4. HeldTrees(k)' = {Tree(target[k])} \cup {{t}}
      BY <3>2, <3>3 DEF HeldTrees, Owning
    <3> QED BY <3>1, <3>4
  <2> QED BY <2>1, <2>2
<1>9. HeldMap' = [HeldMap EXCEPT ![k] = HeldMap[k] \cup {{t}}]
  BY <1>7, <1>8 DEF HeldMap
<1>10. Forest!Create(k, t)
  BY <1>6, <1>8, <1>9 DEF Forest!Create, Forest!Holds, HeldMap
<1> QED BY <1>10 DEF Forest!Next

\* the linked child joins the tree of its parent
LEMMA ForestLink ==
  ASSUME TypeInv, SafeInv, NEW k \in Tasks, LinkChild(k)
  PROVE  Forest!Next
<1> DEFINE c == child[k]
           x == target[k]
           top == topParent[x]
<1>0. /\ pc \in [Tasks -> PC] /\ child \in [Tasks -> Transactions \cup {None}]
      /\ topParent \in [Transactions -> Transactions]
      /\ mTransactions \subseteq allocated /\ allocated \subseteq Transactions
  BY DEF TypeInv, TypeOK, SafeInv, ListInv
<1>1. /\ pc[k] = "link" /\ pc[k] \in Owning
      /\ c \in mTransactions /\ x \in mTransactions
      /\ HeldTrees(k) = {Tree(x), {c}} /\ Tree(c) = {c}
  BY HeldFacts DEF LinkChild
<1>2. /\ topParent[c] = c /\ top # c
      /\ \A u \in allocated : topParent[u] = c <=> u = c
  BY <1>0, <1>1 DEF SafeInv, HolderInv
<1>3. /\ UNCHANGED <<mTransactions, allocated, target>>
      /\ topParent'[c] = top
      /\ \A u \in Transactions \ {c} : topParent'[u] = topParent[u]
      /\ pc'[k] = "own"
      /\ \A l \in Tasks : l # k => pc'[l] = pc[l] /\ child'[l] = child[l]
  BY <1>0, <1>1 DEF LinkChild, Goto
<1>4. ASSUME NEW u \in mTransactions, u = c \/ topParent[u] = top
      PROVE  Tree(u)' = Tree(x) \cup {c}
  <2>1. topParent'[u] = top
    BY <1>0, <1>2, <1>3, <1>4
  <2>2. \A w \in allocated : topParent'[w] = top <=> w = c \/ topParent[w] = top
    BY <1>0, <1>2, <1>3
  <2> QED BY <1>0, <1>1, <1>3, <2>1, <2>2 DEF Tree
<1>5. ASSUME NEW u \in mTransactions, u # c, topParent[u] # top
      PROVE  Tree(u)' = Tree(u)
  <2>1. topParent'[u] = topParent[u] /\ topParent[u] # c
    BY <1>0, <1>2, <1>3, <1>5
  <2>2. \A w \in allocated :
          topParent'[w] = topParent[u] <=> topParent[w] = topParent[u]
    BY <1>0, <1>2, <1>3, <1>5, <2>1
  <2> QED BY <1>3, <2>1, <2>2 DEF Tree
<1>6. Trees' = (Trees \ {Tree(x), {c}}) \cup {Tree(x) \cup {c}}
  <2>1. Trees' = {Tree(u)' : u \in mTransactions}
    BY <1>3 DEF Trees
  <2>2. ASSUME NEW u \in mTransactions
        PROVE  Tree(u)' \in (Trees \ {Tree(x), {c}}) \cup {Tree(x) \cup {c}}
    <3>1. CASE u = c \/ topParent[u] = top
      BY <1>4, <3>1
    <3>2. CASE u # c /\ topParent[u] # top
      <4>1. /\ Tree(u)' = Tree(u) /\ Tree(u) \in Trees
            /\ Tree(u) # Tree(x) /\ u \in Tree(u)
        BY <1>1, <1>5, <3>2, TreeFacts
      <4> QED BY <3>2, <4>1
    <3> QED BY <3>1, <3>2
  <2>3. ASSUME NEW tree \in Trees, tree # Tree(x), tree # {c}
        PROVE  tree \in Trees'
    <3>1. PICK u \in mTransactions : tree = Tree(u)
      BY DEF Trees
    <3>2. u # c /\ topParent[u] # top
      BY <1>1, <2>3, <3>1, TreeFacts
    <3> QED BY <1>5, <2>1, <3>1, <3>2
  <2>4. Tree(x) \cup {c} \in Trees'
    BY <1>1, <1>4, <2>1
  <2> QED BY <2>1, <2>2, <2>3, <2>4
<1>7. HeldTrees(k)' = {Tree(x) \cup {c}}
  <2>1. Tree(target[k])' = Tree(x) \cup {c}
    <3>1. \A u : u = x => (Tree(target[k])' = Tree(u)')
      BY <1>3 DEF Tree
    <3>2. \A u \in mTransactions : topParent[u] = top => Tree(u)' = Tree(x) \cup {c}
      BY <1>4
    <3> QED BY <1>1, <3>1, <3>2
  <2> QED BY <1>3, <2>1 DEF HeldTrees, Owning
<1>8. ASSUME NEW l \in Tasks, l # k PROVE HeldTrees(l)' = HeldTrees(l)
  <2>1. pc'[l] = pc[l] /\ target'[l] = target[l] /\ child'[l] = child[l]
    BY <1>3, <1>8
  <2>2. pc[l] \in Owning => Tree(target[l])' = Tree(target[l])
    <3>1. SUFFICES ASSUME pc[l] \in Owning
                   PROVE  Tree(target[l])' = Tree(target[l])
      OBVIOUS
    <3>2. target[l] \in mTransactions
      BY <3>1, HeldFacts
    <3>3. topParent[target[l]] # top /\ target[l] # c
      BY <1>1, <1>2, <1>8, <3>1, ExclusiveAt
    <3>4. \A u \in mTransactions : u # c /\ topParent[u] # top => Tree(u)' = Tree(u)
      BY <1>5
    <3>5. \A u : u = target[l] => (Tree(target[l])' = Tree(u)')
      BY <2>1 DEF Tree
    <3> QED BY <3>2, <3>3, <3>4, <3>5
  <2>3. pc[l] = "link" => Tree(child[l])' = Tree(child[l])
    <3>1. SUFFICES ASSUME pc[l] = "link"
                   PROVE  Tree(child[l])' = Tree(child[l])
      OBVIOUS
    <3>2. pc[l] \in Owning /\ child[l] \in mTransactions
      BY <3>1, HeldFacts
    <3>3. topParent[child[l]] = child[l]
      BY <1>0, <3>1, <3>2 DEF SafeInv, HolderInv
    <3>4. child[l] # c /\ child[l] # top
      BY <1>1, <1>8, <3>1, <3>2, ExclusiveAt
    <3>5. \A u \in mTransactions : u # c /\ topParent[u] # top => Tree(u)' = Tree(u)
      BY <1>5
    <3>6. \A u : u = child[l] => (Tree(child[l])' = Tree(u)')
      BY <2>1 DEF Tree
    <3> QED BY <3>2, <3>3, <3>4, <3>5, <3>6
  <2> QED BY <2>1, <2>2, <2>3 DEF HeldTrees
<1>9. HeldMap' = [HeldMap EXCEPT ![k] = {Tree(x) \cup {c}}]
  BY <1>7, <1>8 DEF HeldMap
<1>10. Tree(x) # {c} /\ Tree(x) \in Trees
  <2>1. x \in Tree(x) /\ Tree(x) \in Trees
    BY <1>1, TreeFacts
  <2> QED BY <1>2, <2>1
<1>11. Forest!Link(k, Tree(x), c)
  BY <1>1, <1>6, <1>9, <1>10, HeldFacts DEF Forest!Link, Forest!Holds, HeldMap
<1>12. c \in Transactions
  BY <1>0, <1>1
<1> QED BY <1>10, <1>11, <1>12 DEF Forest!Next

\* a release gives the tree back
LEMMA ForestRelease ==
  ASSUME TypeInv, SafeInv, NEW k \in Tasks, MarkAvailable(k)
  PROVE  Forest!Next
<1>1. /\ pc[k] = "own" /\ HeldTrees(k) = {Tree(target[k])}
      /\ HeldMap[k] = HeldTrees(k) /\ target[k] \in mTransactions
  BY HeldFacts DEF MarkAvailable, Owning
<1>2. /\ UNCHANGED <<mTransactions, allocated, topParent, child>>
      /\ pc'[k] \in {"idle", "test"}
      /\ \A l \in Tasks : l # k => pc'[l] = pc[l] /\ target'[l] = target[l]
  BY DEF MarkAvailable, Goto, TypeInv, TypeOK
<1>3. \A u : Tree(u)' = Tree(u)
  BY <1>2 DEF Tree
<1>4. Trees' = Trees
  BY <1>2, <1>3 DEF Trees
<1>5. HeldMap' = [HeldMap EXCEPT ![k] = {}]
  <2>1. HeldTrees(k)' = {}
    BY <1>2 DEF HeldTrees, Owning
  <2>2. \A l \in Tasks : l # k => HeldTrees(l)' = HeldTrees(l)
    BY <1>2, <1>3 DEF HeldTrees, Tree
  <2> QED BY <2>1, <2>2 DEF HeldMap
<1>6. Forest!Release(k, Tree(target[k]))
  BY <1>1, <1>4, <1>5 DEF Forest!Release, Forest!Holds, HeldMap
<1>7. Tree(target[k]) \in Trees
  BY <1>1, TreeFacts
<1> QED BY <1>6, <1>7 DEF Forest!Next

\* what is collected are whole trees that are free
LEMMA ForestCollect ==
  ASSUME TypeInv, SafeInv, NEW k \in Tasks, RemoveOldTransactions(k)
  PROVE  Forest!Next
<1> DEFINE old   == {t \in mTransactions : Collectable(t)}
           trees == {Tree(t) : t \in old}
<1>1. /\ mTransactions' = mTransactions \ old
      /\ UNCHANGED <<allocated, topParent, target, child>>
      /\ pc[k] = "idle" /\ pc'[k] = "test"
      /\ \A l \in Tasks : l # k => pc'[l] = pc[l]
  BY DEF RemoveOldTransactions, Goto, TypeInv, TypeOK
<1>2. \A t \in mTransactions : t \in old <=> topParent[t] \in old
  BY DEF SafeInv, ListInv, TreeInv, AgreeInv, Collectable
<1>3. \A u : Tree(u)' = Tree(u)
  BY <1>1 DEF Tree
<1>4. Trees' = Trees \ trees
  <2>1. Trees' = {Tree(u) : u \in mTransactions \ old}
    BY <1>1, <1>3 DEF Trees
  <2>2. ASSUME NEW t \in old, NEW u \in mTransactions, Tree(u) = Tree(t)
        PROVE  u \in old
    <3>1. topParent[u] = topParent[t] /\ t \in mTransactions
      BY <2>2, TreeFacts
    <3> QED BY <1>2, <3>1
  <2> QED BY <2>1, <2>2 DEF Trees
<1>5. \A tree \in trees, l \in Tasks : tree \notin HeldMap[l]
  BY FreeTree DEF Collectable
<1>6. HeldMap' = HeldMap
  <2>1. \A l \in Tasks : /\ pc'[l] \in Owning <=> pc[l] \in Owning
                         /\ pc'[l] = "link" <=> pc[l] = "link"
    BY <1>1 DEF Owning
  <2>2. \A l \in Tasks : HeldTrees(l)' = HeldTrees(l)
    BY <1>1, <1>3, <2>1 DEF HeldTrees, Tree
  <2> QED BY <2>2 DEF HeldMap
<1>7. Forest!Collect(trees)
  BY <1>4, <1>5, <1>6 DEF Forest!Collect, Forest!Free, HeldMap
<1>8. trees \in SUBSET Trees
  BY DEF Trees
<1> QED BY <1>7, <1>8 DEF Forest!Next

\* what is deleted has left the forest before
LEMMA ForestDelete ==
  ASSUME TypeInv, SafeInv, NEW k \in Tasks, DeleteTransactions(k)
  PROVE  UNCHANGED <<Trees, HeldMap>>
<1>1. /\ allocated' = allocated \ toDelete[k]
      /\ topParent' = [t \in Transactions |->
                         IF t \in toDelete[k] THEN t ELSE topParent[t]]
      /\ UNCHANGED <<mTransactions, target, child>>
      /\ \A l \in Tasks : /\ pc'[l] \in Owning <=> pc[l] \in Owning
                          /\ pc'[l] = "link" <=> pc[l] = "link"
  BY DEF DeleteTransactions, Goto, TypeInv, TypeOK, Owning
<1>2. /\ toDelete[k] \subseteq allocated \ mTransactions
      /\ mTransactions \subseteq allocated /\ allocated \subseteq Transactions
  BY DEF SafeInv, ListInv, TypeInv, TypeOK
<1>3. ASSUME NEW t \in mTransactions PROVE Tree(t)' = Tree(t)
  <2>1. Tree(t) \subseteq mTransactions
    BY TreeFacts
  <2>2. /\ t \in Transactions /\ t \notin toDelete[k] /\ topParent'[t] = topParent[t]
    BY <1>1, <1>2
  <2>3. \A u \in allocated \ toDelete[k] : topParent'[u] = topParent[u]
    BY <1>1, <1>2
  <2>4. Tree(t)' = {u \in allocated' : topParent'[u] = topParent[t]}
    BY <2>2 DEF Tree
  <2>5. Tree(t)' = {u \in allocated \ toDelete[k] : topParent[u] = topParent[t]}
    BY <1>1, <2>3, <2>4
  <2> QED BY <1>2, <2>1, <2>5 DEF Tree
<1>4. Trees' = Trees
  BY <1>1, <1>3 DEF Trees
<1>5. ASSUME NEW l \in Tasks PROVE HeldTrees(l)' = HeldTrees(l)
  <2>1. /\ pc[l] \in Owning => target[l] \in mTransactions
        /\ pc[l] = "link" => child[l] \in mTransactions
    BY HeldFacts
  <2>2. /\ pc[l] \in Owning => Tree(target[l])' = Tree(target[l])
        /\ pc[l] = "link" => Tree(child[l])' = Tree(child[l])
    <3>1. \A u : /\ u = target[l] => (Tree(target[l])' = Tree(u)')
                 /\ u = child[l] => (Tree(child[l])' = Tree(u)')
      BY <1>1 DEF Tree
    <3>2. \A u \in mTransactions : Tree(u)' = Tree(u)
      BY <1>3
    <3> QED BY <2>1, <3>1, <3>2
  <2> QED BY <1>1, <2>2 DEF HeldTrees
<1> QED BY <1>4, <1>5 DEF HeldMap

LEMMA InitForest == Init => Forest!Init
<1> SUFFICES ASSUME Init PROVE Forest!Init
  OBVIOUS
<1>1. Trees = {}
  BY DEF Init, Trees
<1>2. \A k \in Tasks : HeldTrees(k) = {}
  BY DEF Init, HeldTrees, Owning
<1> QED BY <1>1, <1>2 DEF Forest!Init

LEMMA ForestStep == IInv /\ [Next]_vars => [Forest!Next]_(Forest!vars)
<1> SUFFICES ASSUME TypeInv, SafeInv, [Next]_vars
             PROVE  Forest!Next \/ UNCHANGED <<Trees, HeldMap>>
  BY DEF IInv, Forest!vars, HeldMap
<1> USE DEF Goto
<1>0. pc \in [Tasks -> PC] /\ target \in [Tasks -> Transactions \cup {None}]
  BY DEF TypeInv, TypeOK
<1>1. ASSUME NEW k \in Tasks, NEW t \in Transactions, Found(k, t)
      PROVE  Forest!Next \/ UNCHANGED <<Trees, HeldMap>>
  <2>1. CASE mIsBusy[t]
    <3>1. /\ UNCHANGED <<mTransactions, allocated, topParent, child>>
          /\ pc[k] = "idle" /\ pc' = [pc EXCEPT ![k] = "check"]
          /\ target' = [target EXCEPT ![k] = t]
      BY <1>1, <2>1 DEF Found
    <3> QED BY <1>0, <3>1, ForestQuiet DEF Owning
  <2>2. CASE ~mIsBusy[t]
    BY <1>1, <2>2, ForestTake DEF Found, Matchable
  <2> QED BY <2>1, <2>2
<1>2. ASSUME NEW k \in Tasks, CheckAvailable(k)
      PROVE  Forest!Next \/ UNCHANGED <<Trees, HeldMap>>
  <2> DEFINE t == target[k]
  <2>1. CASE t \in mTransactions /\ ~mIsBusy[t]
    <3>1. target' = [target EXCEPT ![k] = t]
      BY <1>0, <1>2, <2>1 DEF CheckAvailable
    <3> QED BY <1>2, <2>1, <3>1, ForestTake DEF CheckAvailable
  <2>2. CASE ~(t \in mTransactions /\ ~mIsBusy[t])
    <3>1. /\ UNCHANGED <<mTransactions, allocated, topParent, child>>
          /\ pc[k] = "check"
          /\ \E label \in {"none", "waiting"} : pc' = [pc EXCEPT ![k] = label]
          /\ \A l \in Tasks : l # k => target'[l] = target[l]
      BY <1>0, <1>2, <2>2 DEF CheckAvailable, Leave
    <3> QED BY <1>0, <3>1, ForestQuiet DEF Owning
  <2> QED BY <2>1, <2>2
<1>3. ASSUME NEW k \in Tasks, NEW t \in Transactions,
             NewTransaction(k, t) \/ NewChild(k, t)
      PROVE  Forest!Next
  BY <1>3, ForestCreate
<1>4. ASSUME NEW k \in Tasks, LinkChild(k) \/ MarkAvailable(k) \/ RemoveOldTransactions(k)
      PROVE  Forest!Next
  BY <1>4, ForestLink, ForestRelease, ForestCollect
<1>5. ASSUME NEW k \in Tasks, DeleteTransactions(k)
      PROVE  UNCHANGED <<Trees, HeldMap>>
  BY <1>5, ForestDelete
<1>6. ASSUME NEW k \in Tasks, NEW t \in Transactions, SendRequest(k, t)
      PROVE  UNCHANGED <<Trees, HeldMap>>
  BY <1>6, ForestQuiet DEF SendRequest, taskVars
<1>7. ASSUME NEW k \in Tasks,
             \/ NotFound(k) \/ DropMessage(k) \/ WaitTimeout(k)
             \/ WaitGiveUp(k) \/ Wake(k) \/ AfterWait(k)
             \/ GiveTest(k) \/ GiveSet(k) \/ GivePost(k)
      PROVE  UNCHANGED <<Trees, HeldMap>>
  <2>1. /\ UNCHANGED <<mTransactions, allocated, topParent, child>>
        /\ pc[k] \in {"idle", "none", "waiting", "after"} \cup Gives
        /\ \E label \in {"idle", "none", "waiting", "after", "check"} \cup Gives :
             pc' = [pc EXCEPT ![k] = label]
        /\ \A l \in Tasks : l # k => target'[l] = target[l]
    BY <1>0, <1>7 DEF NotFound, DropMessage, WaitTimeout, WaitGiveUp, Wake, AfterWait,
         Leave, GiveTest, GiveSet, GivePost, listVars, taskVars, Gives
  <2> QED BY <1>0, <2>1, ForestQuiet DEF Owning, Gives
<1>8. ASSUME NEW k \in Tasks, Signal(k)
      PROVE  UNCHANGED <<Trees, HeldMap>>
  <2>1. /\ UNCHANGED <<mTransactions, allocated, topParent, child, target>>
        /\ pc[k] \in Signals
        /\ \E label \in Signals \cup {"idle", "delete"} :
             pc' = [pc EXCEPT ![k] = label]
    BY <1>0, <1>8 DEF Signal, SignalTest, SignalSet, SignalPost, SignalDone,
         listVars, taskVars, Signals
  <2> QED BY <1>0, <2>1, ForestQuiet DEF Owning, Signals
<1>9. ASSUME UNCHANGED vars
      PROVE  UNCHANGED <<Trees, HeldMap>>
  BY <1>9, ForestQuiet DEF vars, listVars, taskVars
<1>10. ASSUME Tick
       PROVE  UNCHANGED <<Trees, HeldMap>>
  BY <1>10, ForestQuiet DEF Tick, taskVars
<1> QED
  BY <1>1, <1>2, <1>3, <1>4, <1>5, <1>6, <1>7, <1>8, <1>9, <1>10 DEF Next, Work

\* Under every interleaving of lookups, waits, releases, new children and the
\* collection, each tree of transactions is in the hands of one task at a time,
\* and it is collected as a whole while nobody has it: the list implements the
\* forest of TransactionTrees.
THEOREM ImplementsTrees == Spec => TreesSpec
  BY InitForest, ForestStep, SafeSpec, PTL DEF Spec, TreesSpec, Forest!Spec
=============================================================================
