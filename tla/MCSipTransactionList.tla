------------------------ MODULE MCSipTransactionList ------------------------
(* Small instances of SipTransactionList for TLC. *)
EXTENDS SipTransactionListProperties, TLC

\* the user agent's task is told apart from the others; the rest is symmetric
Symmetry == Permutations(Tasks \ {UserAgent}) \cup Permutations(Transactions)
              \cup Permutations(Events)
=============================================================================
