------------------------------ MODULE ProfitLock ------------------------------
(***************************************************************************)
(* profit_lock.progressive_profit_lock, the hard stop and the partial take *)
(* of process_tick, as conditions on the average entry price, the best     *)
(* executable price seen and the price now.  Percentages are in            *)
(* thousandths; products are compared instead of quotients, so nothing is  *)
(* rounded.                                                                *)
(***************************************************************************)
EXTENDS Integers

CONSTANTS
    Activation,   \* profit_lock.activation_pct
    Breakeven,    \* profit_lock.breakeven_floor_pct
    FloorSteps,   \* profit_lock.floor_steps, as [peak, floor]
    TrailingFrom, \* profit_lock.trailing_activation_pct
    TrailingGap,  \* profit_lock.trailing_gap_pct
    PartialTake,  \* profit_lock.partial_take_pct
    StopLoss      \* risk.per_position_stop_pct

ASSUME LockConstants ==
    /\ {Activation, Breakeven, TrailingFrom, PartialTake} \subseteq Nat
    /\ TrailingGap \in 0..1000 /\ StopLoss \in 0..1000
    /\ FloorSteps \subseteq [peak : Nat, floor : Nat]

\* px is at least gain above avg.
Gained(avg, px, gain) == 1000 * px >= avg * (1000 + gain)

\* px is at most gain above avg.
FallenTo(avg, px, gain) == 1000 * px <= avg * (1000 + gain)

\* _configured_floor_pct: the floors that a peak has earned.
Floors(avg, peak) ==
    {Breakeven} \cup {s.floor : s \in {f \in FloorSteps : Gained(avg, peak, f.peak)}}

\* progressive_profit_lock returns a reason: the price has fallen to the best of
\* the floors, or to the trailing stop.
LockHit(avg, peak, px) ==
    /\ Gained(avg, peak, Activation)
    /\ \/ \E f \in Floors(avg, peak) : FallenTo(avg, px, f)
       \/ Gained(avg, peak, TrailingFrom) /\ FallenTo(peak, px, -TrailingGap)

HardStopHit(avg, px) == FallenTo(avg, px, -StopLoss)

\* A position that is stopped out at this price.
StopHit(avg, peak, px) == HardStopHit(avg, px) \/ LockHit(avg, peak, px)

\* A winner from which a part is sold, once.
PartialDue(avg, px) == Gained(avg, px, PartialTake)
===============================================================================
