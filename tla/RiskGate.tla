------------------------------- MODULE RiskGate -------------------------------
(***************************************************************************)
(* risk_gate.evaluate for a buy, with sizes.  Money is in thousandths of   *)
(* the equity, drawdowns and shares in thousandths.  The checks that read  *)
(* the session's counters are those of Session.EntryAllowed; here they are *)
(* one input.                                                              *)
(***************************************************************************)
EXTENDS Integers

CONSTANTS
    Kill,      \* risk.drawdown_kill_pct
    Cutoff,    \* risk.leaderboard_entry_cutoff_pct
    DqLine,    \* drawdown_dq_reference_pct less leaderboard_dq_buffer_pct
    MaxPos,    \* risk.max_position_pct
    MaxConc,   \* risk.max_concentration_pct
    MaxRisk,   \* risk.max_token_risk_score
    StopLoss,  \* risk.per_position_stop_pct
    GrossMax   \* decision.target_gross_exposure_pct

ASSUME GateConstants ==
    /\ {Kill, Cutoff, DqLine, MaxPos, MaxConc, MaxRisk} \subseteq Nat
    /\ {StopLoss, GrossMax} \subseteq Nat \ {0}

Least(a, b) == IF a <= b THEN a ELSE b
Most(a, b) == IF a >= b THEN a ELSE b

\* What is planned to be lost when everything bought is stopped out, in
\* millionths of the equity.
PlannedLoss == StopLoss * GrossMax

\* effective_dd: the worse of our drawdown and the judge's; -1 is unknown.
EffectiveDd(dd, judge) == Most(dd, judge)

\* Mutant of Budget: the judge's line is left out.
BudgetOwnMarks(dd, judge) == Least(PlannedLoss, 1000 * Most(0, Kill - dd))

\* The smaller of the two budget fractions, as a part of PlannedLoss.
Budget(dd, judge) ==
    Least(PlannedLoss,
          1000 * Most(0, Least(Kill - dd, DqLine - EffectiveDd(dd, judge))))

\* The size after the position cap and the drawdown budget.
Scaled(requested, cash, dd, judge) ==
    (Least(requested, (MaxPos * cash) \div 1000) * Budget(dd, judge)) \div PlannedLoss

\* evaluate: the approved size of a buy, 0 when it is blocked.  existing is
\* the position at its average price.
ApprovedSize(requested, cash, existing, risk, dd, judge, equity) ==
    IF dd >= Kill \/ EffectiveDd(dd, judge) >= Cutoff \/ risk > MaxRisk
    THEN 0
    ELSE Least(Scaled(requested, cash, dd, judge),
               Most(0, (MaxConc * equity) \div 1000 - existing))
=============================================================================
