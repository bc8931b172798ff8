------------------------------- MODULE Session -------------------------------
(***************************************************************************)
(* One portfolio session, tick after tick: agent.process_tick with the     *)
(* equity marks, the UTC day, the kill switch, the stops, the risk gate    *)
(* over a batch of decisions, the rotation pairing and the execution loop. *)
(*                                                                         *)
(* An attempt to trade ends in one of three ways (module Execution says    *)
(* how): it fills, it leaves the books alone, or its order stays           *)
(* unresolved and blocks the token until a later reconcile settles it.     *)
(* Quantities are units of a token, prices and cash small integers.        *)
(***************************************************************************)
EXTENDS Integers, FiniteSetsExt

CONSTANTS
    Tokens,       \* tradeable tokens
    Prices,       \* prices a token may have
    Slip,         \* how far a fill may fall short of the price
    InitialCash,  \* seeded cash
    MaxQty,       \* bound: units of one token held
    MaxEquity,    \* bound: what the portfolio may come to be worth
    KillNum, KillDen,  \* risk.drawdown_kill_pct as a fraction
    LossNum, LossDen,  \* risk.daily_loss_stop_pct as a fraction
    MaxEntries,   \* risk.max_trades_per_day
    Pace,         \* risk.min_seconds_between_trades, in ticks
    QuotesFail    \* whether an executable quote may fail

ASSUME SessionConstants ==
    /\ IsFiniteSet(Tokens)
    /\ Prices \subseteq Nat \ {0} /\ Prices # {} /\ Slip \in Nat /\ InitialCash \in Nat
    /\ MaxQty \in Nat /\ MaxEquity \in Nat
    /\ {KillNum, KillDen, LossNum, LossDen} \subseteq Nat \ {0}
    /\ MaxEntries \in Nat \ {0} /\ Pace \in Nat
    /\ QuotesFail \in BOOLEAN

VARIABLES
    cash,       \* state.cash_usd
    qty,        \* state.positions[t].qty; 0 is no position
    unresolved, \* the action of the token's unresolved order, or "none"
    peak,       \* state.peak_equity
    dayStart,   \* state.day_start_equity
    entries,    \* state.entries_today
    halted,     \* state.halted
    rested,     \* ticks since state.last_trade_ts, at most Pace
    real,       \* what one unit of a token can be sold for
    mark,       \* the prices of this tick
    quoted,     \* held tokens whose executable quote succeeded this tick
    equity,     \* process_tick's equity
    pc,         \* where the tick is
    todo,       \* tokens the current loop still has to visit
    pending,    \* approved decisions not yet executed, by action
    rotating,   \* rotation_close_tokens
    rotated     \* filled_rotation_closes

bookVars == <<cash, qty, unresolved>>
dayVars  == <<peak, dayStart, entries, halted, rested>>
tickVars == <<real, mark, quoted, equity, pc, todo, pending, rotating, rotated>>
vars     == <<bookVars, dayVars, tickVars>>

B == INSTANCE Batch

Held == {t \in Tokens : qty[t] > 0}

\* mark_equity's sum: cash and every position at its price.
WorthOf(c, q, price) == c + SumFunction([t \in Tokens |-> q[t] * price[t]])

Worth(price) == WorthOf(cash, qty, price)

Highest(a, b) == IF a >= b THEN a ELSE b

\* current_drawdown and daily_loss against their limits.
KillReached(eq) == peak > 0 /\ KillDen * (peak - eq) >= KillNum * peak
PauseReached(eq) == dayStart > 0 /\ LossDen * (dayStart - eq) >= LossNum * dayStart

NoDecisions == [close |-> {}, trim |-> {}, buy |-> {}]

\* Bound: no fill lifts the portfolio above MaxEquity at the lowest prices.
InBounds(c, q) == WorthOf(c, q, [t \in Tokens |-> Min(Prices)]) <= MaxEquity

-----------------------------------------------------------------------------
(* A trade and what it may come to. *)

\* Mutant of Tradable: a buy spends without looking at the balance.
TradableOnCredit(t, action, price) ==
    CASE action = "buy"   -> qty[t] < MaxQty
      [] action = "close" -> qty[t] > 0
      [] action = "trim"  -> qty[t] > 1

\* What a confirmed swap needs: cash for a buy, the position for a sale.
Tradable(t, action, price) ==
    CASE action = "buy"   -> cash >= price /\ qty[t] < MaxQty
      [] action = "close" -> qty[t] > 0
      [] action = "trim"  -> qty[t] > 1

\* The books after a fill; complete_order counts an entry for a buy.
Fill(t, action, price) ==
    /\ Tradable(t, action, price)
    /\ qty' = [qty EXCEPT ![t] = CASE action = "buy"   -> @ + 1
                                   [] action = "close" -> 0
                                   [] action = "trim"  -> @ - 1]
    /\ cash' = CASE action = "buy"   -> cash - price
                 [] action = "close" -> cash + qty[t] * price
                 [] action = "trim"  -> cash + price
    /\ entries' = IF action = "buy" THEN entries + 1 ELSE entries
    /\ InBounds(cash', qty')

FillPrices(t, action) ==
    IF action = "buy" THEN real[t]..(real[t] + Slip)
                      ELSE {p \in (real[t] - Slip)..real[t] : p > 0}

\* _exec_and_log; done is its return value.  It fills, stays unresolved, finds
\* the wallet without the position it was to sell, or leaves the books alone.
Attempt(t, action, done) ==
    \/ /\ done /\ unresolved[t] = "none"
       /\ \E price \in FillPrices(t, action) : Fill(t, action, price)
       /\ rested' = 0
       /\ UNCHANGED unresolved
    \/ /\ ~ done /\ unresolved[t] = "none"
       /\ \E price \in FillPrices(t, action) : Tradable(t, action, price)
       /\ unresolved' = [unresolved EXCEPT ![t] = action]
       /\ UNCHANGED <<cash, qty, entries, rested>>
    \/ /\ ~ done /\ unresolved[t] = "none" /\ action # "buy"
       /\ qty' = [qty EXCEPT ![t] = 0]
       /\ UNCHANGED <<cash, unresolved, entries, rested>>
    \/ /\ ~ done /\ UNCHANGED <<bookVars, entries, rested>>

-----------------------------------------------------------------------------
(* run_tick: reconcile what is unresolved, then mark. *)

StartTick ==
    /\ pc = "idle"
    /\ pc' = "reconcile"
    /\ todo' = {t \in Tokens : unresolved[t] # "none"}
    /\ UNCHANGED <<bookVars, dayVars, real, mark, quoted, equity, pending,
                   rotating, rotated>>

\* An order found filled is booked now, whatever day it was sent on.
ReconcileFilled(t) ==
    /\ pc = "reconcile" /\ t \in todo
    /\ \E price \in FillPrices(t, unresolved[t]) : Fill(t, unresolved[t], price)
    /\ unresolved' = [unresolved EXCEPT ![t] = "none"]
    /\ todo' = todo \ {t}
    /\ UNCHANGED <<peak, dayStart, halted, rested, real, mark, quoted, equity, pc,
                   pending, rotating, rotated>>

ReconcileFailed(t) ==
    /\ pc = "reconcile" /\ t \in todo
    /\ unresolved' = [unresolved EXCEPT ![t] = "none"]
    /\ todo' = todo \ {t}
    /\ UNCHANGED <<cash, qty, dayVars, real, mark, quoted, equity, pc, pending,
                   rotating, rotated>>

ReconcileUnknown(t) ==
    /\ pc = "reconcile" /\ t \in todo
    /\ todo' = todo \ {t}
    /\ UNCHANGED <<bookVars, dayVars, real, mark, quoted, equity, pc, pending,
                   rotating, rotated>>

\* Get the snapshot and the executable quotes of the held tokens; where one
\* fails the reference price stays.
FetchPrices ==
    /\ pc = "reconcile" /\ todo = {}
    /\ real' \in [Tokens -> Prices]
    /\ quoted' \in {Held} \cup IF QuotesFail THEN SUBSET Held ELSE {}
    /\ mark' \in [Tokens -> Prices]
    /\ \A t \in Tokens : t \in quoted' \/ ~ QuotesFail => mark'[t] = real'[t]
    /\ Worth(real') <= MaxEquity /\ Worth(mark') <= MaxEquity
    /\ pc' = "mark"
    /\ UNCHANGED <<bookVars, dayVars, equity, todo, pending, rotating, rotated>>

\* A market call that raises ends the tick; main()'s loop backs off.
FetchError ==
    /\ pc = "reconcile" /\ todo = {}
    /\ pc' = "idle"
    /\ UNCHANGED <<bookVars, dayVars, real, mark, quoted, equity, todo, pending,
                   rotating, rotated>>

-----------------------------------------------------------------------------
(* process_tick: mark, roll the day, kill switch, stops. *)

\* Mutant of MarkTick: the tick of a halted agent goes on.
MarkThroughHalt(newDay) ==
    /\ pc = "mark"
    /\ equity' = Worth(mark)
    /\ peak' = Highest(peak, Worth(mark))
    /\ dayStart' = IF newDay THEN Worth(mark) ELSE dayStart
    /\ entries' = IF newDay THEN 0 ELSE entries
    /\ halted' = (halted /\ ~ newDay)
    /\ rested' = IF rested < Pace THEN rested + 1 ELSE rested
    /\ pc' = IF KillReached(Worth(mark)) THEN "kill" ELSE "stops"
    /\ todo' = Held
    /\ UNCHANGED <<bookVars, real, mark, quoted, pending, rotating, rotated>>

\* mark_equity, roll_day, the halted return and the choice of the kill branch.
MarkTick(newDay) ==
    /\ pc = "mark"
    /\ equity' = Worth(mark)
    /\ peak' = Highest(peak, Worth(mark))
    /\ dayStart' = IF newDay THEN Worth(mark) ELSE dayStart
    /\ entries' = IF newDay THEN 0 ELSE entries
    /\ halted' = (halted /\ ~ newDay)
    /\ rested' = IF rested < Pace THEN rested + 1 ELSE rested
    /\ pc' = IF halted' THEN "idle"
             ELSE IF KillReached(Worth(mark)) THEN "kill" ELSE "stops"
    /\ todo' = IF halted' THEN {} ELSE Held
    /\ UNCHANGED <<bookVars, real, mark, quoted, pending, rotating, rotated>>

KillClose(t) ==
    /\ pc = "kill" /\ t \in todo
    /\ \E done \in BOOLEAN : Attempt(t, "close", done)
    /\ todo' = todo \ {t}
    /\ UNCHANGED <<peak, dayStart, halted, real, mark, quoted, equity, pc, pending,
                   rotating, rotated>>

\* The day is over for the agent, whatever the closes came to.
Halt ==
    /\ pc = "kill" /\ todo = {}
    /\ halted' = TRUE
    /\ peak' = Highest(peak, Worth(mark))
    /\ pc' = "idle"
    /\ UNCHANGED <<bookVars, dayStart, entries, rested, real, mark, quoted, equity,
                   todo, pending, rotating, rotated>>

\* A per-position stop or profit lock, a partial profit take, or neither; a
\* token without an executable quote is left alone.
StopToken(t) ==
    /\ pc = "stops" /\ t \in todo
    /\ todo' = todo \ {t}
    /\ \/ /\ t \in quoted
          /\ \E action \in {"close", "trim"}, done \in BOOLEAN : Attempt(t, action, done)
       \/ UNCHANGED <<bookVars, entries, rested>>
    /\ UNCHANGED <<peak, dayStart, halted, real, mark, quoted, equity, pc, pending,
                   rotating, rotated>>

\* Mutant of FinishStops: the equity of the tick's start is kept.
FinishStopsStale ==
    /\ pc = "stops" /\ todo = {}
    /\ pc' = "decide"
    /\ UNCHANGED <<bookVars, dayVars, real, mark, quoted, equity, todo, pending,
                   rotating, rotated>>

\* Refresh equity after any stops.
FinishStops ==
    /\ pc = "stops" /\ todo = {}
    /\ equity' = Worth(mark)
    /\ peak' = Highest(peak, Worth(mark))
    /\ pc' = "decide"
    /\ UNCHANGED <<bookVars, dayStart, entries, halted, rested, real, mark, quoted,
                   todo, pending, rotating, rotated>>

-----------------------------------------------------------------------------
(* Decide, gate the batch, pair rotations, execute. *)

\* Mutant of EntryAllowed: one entry more than the limit.
EntryOffByOne ==
    /\ ~ KillReached(equity) /\ ~ PauseReached(equity)
    /\ entries <= MaxEntries
    /\ rested >= Pace

\* The checks of risk_gate.evaluate on a buy that read the session's state;
\* those on the decision itself are the decider's choice below.
EntryAllowed ==
    /\ ~ KillReached(equity) /\ ~ PauseReached(equity)
    /\ entries < MaxEntries
    /\ rested >= Pace

\* What the decider may propose: any well-formed batch.
Proposals ==
    {p \in [rotateOut : SUBSET Held, exits : SUBSET Held, trims : SUBSET Held,
            buys : SUBSET Tokens] : B!WellFormed(p, Held)}

\* The gate judges each proposal against the same state; rotation closes are
\* dropped when no buy was approved.
Decide ==
    /\ pc = "decide"
    /\ \E p \in Proposals :
          /\ p.buys # {} => EntryAllowed
          /\ rotating' = p.rotateOut
          /\ pending' = [close |-> p.exits \cup IF p.buys = {} THEN {} ELSE p.rotateOut,
                         trim  |-> p.trims,
                         buy   |-> p.buys]
    /\ rotated' = {}
    /\ pc' = "execute"
    /\ UNCHANGED <<bookVars, dayVars, real, mark, quoted, equity, todo>>

\* The decider, or anything before the execution loop, raises.
DecideError ==
    /\ pc = "decide"
    /\ pc' = "idle"
    /\ UNCHANGED <<bookVars, dayVars, real, mark, quoted, equity, todo, pending,
                   rotating, rotated>>

\* Mutant of ExecuteClose: a rotation close counts as filled whatever it came to.
ExecuteCloseAssumed(t) ==
    /\ pc = "execute" /\ t \in pending.close
    /\ \E done \in BOOLEAN :
          /\ Attempt(t, "close", done)
          /\ rotated' = IF t \in rotating THEN rotated \cup {t} ELSE rotated
    /\ pending' = [pending EXCEPT !.close = @ \ {t}]
    /\ UNCHANGED <<peak, dayStart, halted, real, mark, quoted, equity, pc, todo, rotating>>

\* Execute a close; one that fills and was proposed to rotate frees the buys.
ExecuteClose(t) ==
    /\ pc = "execute" /\ t \in pending.close
    /\ \E done \in BOOLEAN :
          /\ Attempt(t, "close", done)
          /\ rotated' = IF done /\ t \in rotating THEN rotated \cup {t} ELSE rotated
    /\ pending' = [pending EXCEPT !.close = @ \ {t}]
    /\ UNCHANGED <<peak, dayStart, halted, real, mark, quoted, equity, pc, todo, rotating>>

ExecuteTrim(t) ==
    /\ pc = "execute" /\ pending.close = {} /\ t \in pending.trim
    /\ \E done \in BOOLEAN : Attempt(t, "trim", done)
    /\ pending' = [pending EXCEPT !.trim = @ \ {t}]
    /\ UNCHANGED <<peak, dayStart, halted, real, mark, quoted, equity, pc, todo,
                   rotating, rotated>>

\* A buy is blocked unless every rotation close has filled.
ExecuteBuy(t) ==
    /\ pc = "execute" /\ pending.close = {} /\ pending.trim = {} /\ t \in pending.buy
    /\ \/ /\ rotating \subseteq rotated
          /\ \E done \in BOOLEAN : Attempt(t, "buy", done)
       \/ /\ ~ (rotating \subseteq rotated)
          /\ UNCHANGED <<bookVars, entries, rested>>
    /\ pending' = [pending EXCEPT !.buy = @ \ {t}]
    /\ UNCHANGED <<peak, dayStart, halted, real, mark, quoted, equity, pc, todo,
                   rotating, rotated>>

\* Final equity mark and save.
FinishTick ==
    /\ pc = "execute" /\ pending = NoDecisions
    /\ peak' = Highest(peak, Worth(mark))
    /\ rotating' = {} /\ rotated' = {}
    /\ pc' = "idle"
    /\ UNCHANGED <<bookVars, dayStart, entries, halted, rested, real, mark, quoted,
                   equity, todo, pending>>

-----------------------------------------------------------------------------
\* main() with --seed-cash on an empty portfolio.
Init ==
    /\ cash = InitialCash /\ qty = [t \in Tokens |-> 0]
    /\ unresolved = [t \in Tokens |-> "none"]
    /\ peak = InitialCash /\ dayStart = InitialCash
    /\ entries = 0 /\ halted = FALSE /\ rested = Pace
    /\ real \in [Tokens -> {Min(Prices)}] /\ mark = real
    /\ quoted = {} /\ equity = InitialCash
    /\ pc = "idle" /\ todo = {} /\ pending = NoDecisions
    /\ rotating = {} /\ rotated = {}

Next ==
    \/ StartTick \/ FetchPrices \/ FetchError
    \/ \E newDay \in BOOLEAN : MarkTick(newDay)
    \/ Halt \/ FinishStops \/ Decide \/ DecideError \/ FinishTick
    \/ \E t \in Tokens :
          \/ ReconcileFilled(t) \/ ReconcileFailed(t) \/ ReconcileUnknown(t)
          \/ KillClose(t) \/ StopToken(t)
          \/ ExecuteClose(t) \/ ExecuteTrim(t) \/ ExecuteBuy(t)

Spec == Init /\ [][Next]_vars

-----------------------------------------------------------------------------
(* Properties. *)

TradeActions == {"buy", "close", "trim"}

\* Every variable stays in its type; no position and no cash balance is
\* negative.
TypeOK ==
    /\ cash \in Nat /\ qty \in [Tokens -> 0..MaxQty]
    /\ unresolved \in [Tokens -> TradeActions \cup {"none"}]
    /\ peak \in Nat /\ dayStart \in Nat /\ entries \in Nat
    /\ halted \in BOOLEAN /\ rested \in 0..Pace
    /\ real \in [Tokens -> Prices] /\ mark \in [Tokens -> Prices]
    /\ quoted \subseteq Tokens /\ equity \in Nat
    /\ pc \in {"idle", "reconcile", "mark", "kill", "stops", "decide", "execute"}
    /\ todo \subseteq Tokens
    /\ pending \in [close : SUBSET Tokens, trim : SUBSET Tokens, buy : SUBSET Tokens]
    /\ rotating \subseteq Tokens /\ rotated \subseteq Tokens

UnresolvedBuys == {t \in Tokens : unresolved[t] = "buy"}

\* Entries of a day together with the buys whose outcome is still unknown exceed
\* the day's limit by less than one per token.  The gate counts only entries it
\* knows of, so unresolved buys of any number of earlier batches, and the rest of
\* the batch that reaches the limit, come on top; that a token has one order at a
\* time is all that bounds them, through retries and late reconciles.
EntriesBounded ==
    entries + Cardinality(UnresolvedBuys) <= MaxEntries - 1 + Cardinality(Tokens)

\* A batch with a buy in it is approved only against the equity as it stands
\* after the tick's stops have sold, below neither drawdown limit.
GateSeesLosses ==
    [][pc = "decide" /\ pc' = "execute" /\ pending'.buy # {}
         => /\ ~ KillReached(Worth(mark))
            /\ ~ PauseReached(Worth(mark))]_vars

\* A buy of a rotating tick fills only when every holding it rotates out of has
\* left the portfolio.
RotationPaired ==
    [][pc = "execute" /\ entries' > entries => \A t \in rotating : qty[t] = 0]_vars

\* While the kill switch holds, the portfolio changes only by orders that were
\* already on their way when it tripped.
HaltedIsQuiet ==
    [][halted /\ halted' /\ <<cash, qty>>' # <<cash, qty>>
         => \E t \in Tokens : unresolved[t] # "none" /\ unresolved'[t] = "none"]_vars

\* The kill switch liquidates all: a halted agent holds nothing.
HaltedIsFlat == halted => Held = {}

\* Days go by while the agent runs, ticks finish, and prices can be fetched.
Fairness ==
    /\ WF_vars(StartTick \/ FinishStops \/ Decide \/ FinishTick \/ Halt)
    /\ WF_vars(\E t \in Tokens : ReconcileFailed(t) \/ ReconcileFilled(t) \/ ReconcileUnknown(t))
    /\ WF_vars(\E t \in Tokens : KillClose(t) \/ StopToken(t))
    /\ WF_vars(\E t \in Tokens : ExecuteClose(t) \/ ExecuteTrim(t) \/ ExecuteBuy(t))
    /\ SF_vars(FetchPrices)
    /\ SF_vars(MarkTick(TRUE))
    /\ WF_vars(\E newDay \in BOOLEAN : MarkTick(newDay))

FairSpec == Spec /\ Fairness

\* The kill switch pauses the agent for the day: liquidated, it decides again.
ReArms == halted /\ Held = {} /\ UnresolvedBuys = {} ~> pc = "decide"
=============================================================================
