-------------------------------- MODULE MCJudge --------------------------------
(* Judge on a small wallet. *)
EXTENDS Judge
===============================================================================
