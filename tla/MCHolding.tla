------------------------------- MODULE MCHolding -------------------------------
(* Holding of one dynamic token, with the floor steps that tell the stops     *)
(* apart.                                                                     *)
EXTENDS Holding, TLC

MCFloorSteps == {[peak |-> 25, floor |-> 12], [peak |-> 40, floor |-> 30],
                 [peak |-> 60, floor |-> 45], [peak |-> 80, floor |-> 60],
                 [peak |-> 120, floor |-> 90]}
===============================================================================
