---------------------------- MODULE MCExecution ----------------------------
(* Execution on small instances. *)
EXTENDS Execution, TLC

Interchangeable == Permutations(Tokens)
=============================================================================
