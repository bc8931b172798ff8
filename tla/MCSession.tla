----------------------------- MODULE MCSession -----------------------------
(* Session on small instances. *)
EXTENDS Session, TLC

Interchangeable == Permutations(Tokens)
=============================================================================
