-------------------------------- MODULE Batch --------------------------------
(***************************************************************************)
(* What a decider hands to the tick: holdings to rotate out of, holdings   *)
(* to exit for their own sake, holdings to trim and tokens to buy.         *)
(* Session takes any such batch; Desk shows that the rotation decider      *)
(* produces nothing else.                                                  *)
(***************************************************************************)

\* Closes and trims are of holdings; a token is closed for one reason, and a
\* token that is closed is neither trimmed nor bought.  One that is trimmed may
\* be topped up in the same tick.
WellFormed(p, held) ==
    /\ p.rotateOut \cup p.exits \cup p.trims \subseteq held
    /\ p.rotateOut \cap p.exits = {}
    /\ (p.trims \cup p.buys) \cap (p.rotateOut \cup p.exits) = {}
=============================================================================
