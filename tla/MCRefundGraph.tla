---------------------------- MODULE MCRefundGraph ----------------------------
(* Checked instances of RefundGraph. *)
EXTENDS RefundGraph, TLC

WorkerSymmetry == Permutations(Workers)
==============================================================================
