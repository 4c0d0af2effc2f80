---------------------------- MODULE MCBybitWorker ----------------------------
(* Instances of BybitWorker for TLC. *)
EXTENDS BybitWorker, TLC

=============================================================================
