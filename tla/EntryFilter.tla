----------------------------- MODULE EntryFilter -----------------------------
(***************************************************************************)
(* What RotationDecider thinks of one token: whether it may be entered,    *)
(* whether a holding is still healthy, and the exceptions that relax or    *)
(* enlarge an entry.  A token's view d is a record of what the snapshot    *)
(* and the signal say of it.  Scores, returns and percentages of change    *)
(* are in thousandths, route (round_trip_loss_pct) in tenths of a percent, *)
(* risk from 0 to 100, volume in millions of dollars, ages in ticks.  The  *)
(* numbers are those of config.yaml.                                       *)
(***************************************************************************)
EXTENDS Integers

CONSTANTS MinHold  \* held_exit.min_hold_seconds_downtrend, in ticks

\* float(d.get(key, default) or default): a zero counts as a missing value.
Missing(x, default) == IF x = 0 THEN default ELSE x

\* The route loses at most route and the token's risk score is at most risk.
CheapAndSafe(d, route, risk) ==
    Missing(d.route, 1000) <= route /\ Missing(d.risk, 100) <= risk

\* A controlled re-entry after a pullback.
PullbackException(d) ==
    /\ d.score >= 320 /\ d.quality >= 200
    /\ d.c1 \in -120..-30 /\ d.r6 \in -20..40 /\ d.c24 <= 240 /\ d.c7 <= 550
    /\ d.x402 >= 250 /\ d.cmc >= 800
    /\ CheapAndSafe(d, 20, 30)

\* A small probe before the 6h return turns green.
ScoutException(d) ==
    /\ d.score >= 280 /\ d.quality >= 650
    /\ d.r6 \in -20..60 /\ d.r24 >= 20
    /\ d.c1 <= 30 /\ d.c24 <= 180 /\ d.c7 <= 300
    /\ d.x402 >= 0 /\ d.cmc >= 250
    /\ CheapAndSafe(d, 20, 30) /\ d.volume >= 5

\* A liquid, confirmed trend whose volume change alone looks weak.
LiquidContinuation(d) ==
    /\ d.score >= 275 /\ d.quality >= 30
    /\ d.r6 \in 20..80 /\ d.r24 >= 40
    /\ d.c1 <= 30 /\ d.c24 <= 180 /\ d.c7 <= 450
    /\ d.x402 >= 250 /\ d.cmc >= 200
    /\ CheapAndSafe(d, 15, 30) /\ d.volume >= 10

\* The late-hot and near-high guards.
LateChase(d) ==
    \/ d.r6 \notin -5..80
    \/ d.c1 > 30 \/ d.c24 > 180 \/ d.c7 > 450
    \/ Missing(d.distHigh, -1000) > -5 /\ d.r6 > 0

WeakVolume(d) ==
    \/ d.volChange < -250
    \/ (d.c1 > 21 \/ d.c24 > 126) /\ d.volChange < -100

\* _entry_classification: the way a new entry is fresh enough, or "stale".
EntryKind(d, down) ==
    CASE ~ down -> IF d.quality >= 20 THEN "trend_up" ELSE "stale"
      [] d.quality < 30 -> "stale"
      [] PullbackException(d) -> "pullback"
      [] ScoutException(d) -> "scout"
      [] LateChase(d) -> "stale"
      [] ~ LiquidContinuation(d) /\ WeakVolume(d) -> "stale"
      [] OTHER -> "continuation"

Threshold(down) == IF down THEN 275 ELSE 300

\* EntryGate.confirmed: seen above the base score often enough, or at once.
Confirmed(d, down, streak) ==
    d.score >= 420 \/ (d.score > Threshold(down) /\ streak >= 2)

\* EntryGate.reject_reason is None, for a token that is not held.
EntryAllowed(d, down, streak) ==
    /\ d.validated
    /\ d.score > Threshold(down)
    /\ EntryKind(d, down) # "stale"
    /\ Confirmed(d, down, streak)

\* _held_exit_reason: a holding that has decayed, given its age and profit.
HealthExit(d, down, age, pnl) ==
    \/ /\ d.score < IF down THEN 240 ELSE 190
       /\ ~ (down /\ age < MinHold /\ d.score >= 180)
    \/ /\ down /\ d.score >= 240 /\ age >= MinHold
       /\ d.quality < 0 \/ d.r6 < -30 \/ (pnl <= -18 /\ d.r6 < -12)

\* _surviving_recovery_target: a holding healthy enough to be topped up.
Surviving(d, down, age, pnl) ==
    /\ d.validated /\ ~ HealthExit(d, down, age, pnl)
    /\ d.c1 <= 30 /\ d.c24 <= 180 /\ d.c7 <= 450
    /\ d.score >= 270 /\ d.r6 >= -5 /\ d.r24 >= 20
    /\ d.x402 >= 250 \/ (d.cmc >= 750 /\ d.quality >= 650)
    /\ d.cmc >= -50 /\ CheapAndSafe(d, 20, 30)

\* _high_conviction_target, for an agent that needs to catch up; the two
\* exceptions exist in a downtrend only.
HighConviction(d, down, catchup) ==
    /\ catchup
    /\ d.score >= 300 /\ d.x402 >= 250 /\ d.cmc >= 800 /\ d.quality >= 250
    /\ CheapAndSafe(d, 25, 50) /\ d.volume >= 5
    /\ ~ (down /\ (PullbackException(d) \/ ScoutException(d)))
=============================================================================
