-------------------------- MODULE MCTransactionLog ---------------------------
(* Instances of TransactionLog for TLC. *)
EXTENDS TransactionLog
=============================================================================
