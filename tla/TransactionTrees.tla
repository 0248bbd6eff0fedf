-------------------------- MODULE TransactionTrees --------------------------
(* What SipTransactionList promises the tasks of a SipUserAgent: a forest of  *)
(* transaction trees, each of them in the hands of at most one task.  A task  *)
(* makes new transactions and links them to the tree it has; nobody takes a   *)
(* tree from a task, and a tree that is collected goes as a whole while it is *)
(* in nobody's hands (SipTransactionList.cpp, removeOldTransactions: "or we   *)
(* end up with incomplete transaction trees").                                *)

CONSTANTS Tasks, Transactions

VARIABLES
  trees,   \* the trees, each the set of its transactions
  held     \* the trees each task works on
vars == <<trees, held>>

Free(tree) == \A k \in Tasks : tree \notin held[k]
Holds(k, set) == held' = [held EXCEPT ![k] = set]

Init == trees = {} /\ held = [k \in Tasks |-> {}]

\* A message matches a transaction of a tree that is free.
Take(k, tree) ==
  /\ held[k] = {} /\ tree \in trees /\ Free(tree)
  /\ Holds(k, {tree})
  /\ UNCHANGED trees

\* A new transaction is a tree of its own, in the hands of its creator, who
\* may work on one other tree, the one that it is made for.
Create(k, t) ==
  /\ \A tree, other \in held[k] : tree = other
  /\ \A tree \in trees : t \notin tree
  /\ trees' = trees \cup {{t}}
  /\ Holds(k, held[k] \cup {{t}})

\* The new transaction becomes a child in the other tree.
Link(k, tree, t) ==
  /\ held[k] = {tree, {t}} /\ tree # {t}
  /\ trees' = (trees \ {tree, {t}}) \cup {tree \cup {t}}
  /\ Holds(k, {tree \cup {t}})

\* The task is done with its message.
Release(k, tree) ==
  /\ held[k] = {tree}
  /\ Holds(k, {})
  /\ UNCHANGED trees

\* Some trees that are free are collected.
Collect(old) ==
  /\ \A tree \in old : Free(tree)
  /\ trees' = trees \ old
  /\ UNCHANGED held

Next ==
  \/ \E k \in Tasks, tree \in trees :
       \/ Take(k, tree) \/ Release(k, tree)
       \/ \E t \in Transactions : Link(k, tree, t)
  \/ \E k \in Tasks, t \in Transactions : Create(k, t)
  \/ \E old \in SUBSET trees : Collect(old)

Spec == Init /\ [][Next]_vars
=============================================================================
