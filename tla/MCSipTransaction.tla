-------------------------- MODULE MCSipTransaction --------------------------
(* Small instances of SipTransaction for TLC. *)
EXTENDS SipTransactionProperties

=============================================================================
