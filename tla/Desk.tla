--------------------------------- MODULE Desk ---------------------------------
(***************************************************************************)
(* The trading desk: how one tick's market view becomes a batch of sized,  *)
(* approved trades.  RotationDecider ranks, filters and sizes, LLMDecider  *)
(* reviews, process_tick gates the batch and pairs rotations, and what     *)
(* fills is the next tick's portfolio.  The memory between ticks is the    *)
(* holdings with their ages, the signal streaks, and two re-entry clocks:  *)
(* one in the decider's memory, one in the state file.                     *)
(*                                                                         *)
(* Money is in thousandths of the equity.  What a holding is worth and has *)
(* gained is an input of every tick, as are the views of the tokens.       *)
(***************************************************************************)
EXTENDS EntryFilter, RiskGate, SequencesExt

CONSTANTS
    Tokens,       \* the tradeable universe
    Views,        \* what the snapshot and the signal may say of a token
    Marks,        \* [value, pnl] a holding may have
    Contexts,     \* regime, standing and drawdowns of a tick
    Cooldown,     \* rotation_reentry_cooldown_hours, in ticks
    MinRebalance, \* min_rebalance_hold_seconds, in ticks
    MinScale,     \* recovery_escalation.min_hold_seconds, in ticks
    MinConfirmed, \* recovery_escalation.confirmed_hold_seconds, in ticks
    MinUsd        \* min_rebalance_usd as a part of the equity
                  \* (min_rebalance_hold_seconds and the fresh-loss hold of
                  \* the hurdle are the same time)

ASSUME DeskConstants ==
    /\ IsFiniteSet(Tokens)
    /\ {Cooldown, MinHold, MinRebalance, MinScale, MinConfirmed, MinUsd} \subseteq Nat
    /\ Marks \subseteq [value : Nat, pnl : Int] /\ \A m \in Marks : m.pnl > -1000
    /\ \A v \in Views : v.quality \in Int
    /\ \A c \in Contexts : c.dd \in Int /\ c.judge \in Int

B == INSTANCE Batch

VARIABLES
    held,     \* state.positions
    age,      \* ticks since position.opened_ts, of the holdings
    closing,  \* the holdings with an unresolved close
    armed,    \* ticks since decider._exited_at
    exited,   \* ticks since state.rotation_exited_at
    streak,   \* state.signal_streaks, at most 2
    view,     \* snapshot and signals of the tick
    mark,     \* value and profit of the holdings
    ctx,      \* the tick's regime, standing and drawdowns
    draft,    \* what RotationDecider.decide returned
    batch,    \* what the review and the gate left of it
    pc,       \* where the tick is
    wasGood,  \* history: tokens whose last observation reached the base score
    soldAgo,  \* history: ticks since the close was sent that sold the token, or that
              \* is to sell it
    unclocked \* history: the tokens of whose sale no clock knows

memory  == <<held, age, closing, armed, exited, streak>>
history == <<wasGood, soldAgo, unclocked>>
vars    == <<memory, view, mark, ctx, draft, batch, pc, history>>

NoView == [seen |-> FALSE]
NoContext == [regime |-> "none"]
NoBatch == [rotateOut |-> {}, exits |-> {}, trims |-> {}, buys |-> {},
            targets |-> {}, size |-> <<>>]

Seen == {t \in Tokens : view[t].seen}
Down == ctx.regime = "down"
Invested == SumFunction([t \in held |-> mark[t].value])
Cash == 1000 - Invested

-----------------------------------------------------------------------------
(* process_tick's inputs. *)

\* Mutant of StreakAfter: a weak observation does not break the streak.
StreakAfterKeeps(n, d) == IF d.seen /\ d.score >= 270 THEN Min({n + 1, 2}) ELSE n

\* The streak of observations at or above the base score, as far as it counts;
\* a tick without a signal of the token is no observation.
StreakAfter(n, d) ==
    IF ~ d.seen THEN n ELSE IF d.score >= 270 THEN Min({n + 1, 2}) ELSE 0

Later(clock, cap) == [t \in Tokens |-> Min({clock[t] + 1, cap})]

\* Time passes, the holdings are marked and every token with a signal observed.
Observe ==
    /\ pc = "idle"
    /\ view' \in [Tokens -> Views \cup {NoView}]
    /\ mark' \in [held -> Marks]
    /\ ctx' \in Contexts
    /\ age' = [t \in held |-> Min({age[t] + 1, MinHold})]
    /\ armed' = Later(armed, Cooldown) /\ exited' = Later(exited, Cooldown)
    /\ soldAgo' = Later(soldAgo, Cooldown)
    /\ unclocked' = {t \in unclocked : soldAgo'[t] < Cooldown}
    /\ streak' = [t \in Tokens |-> StreakAfter(streak[t], view'[t])]
    /\ pc' = "decide"
    /\ UNCHANGED <<held, closing, draft, batch, wasGood>>
    /\ Invested' \in 0..1000

-----------------------------------------------------------------------------
(* RotationDecider.decide. *)

Limit == IF Down THEN 2 ELSE 1
Quality(t) == view[t].quality

\* The exit gate for a holding, the entry gate for any other token.
Eligible ==
    {t \in Seen : IF t \in held THEN ~ HealthExit(view[t], Down, age[t], mark[t].pnl)
                                ELSE EntryAllowed(view[t], Down, streak[t])}

\* The best by quality, as many as the regime allows.
TopTargets ==
    {S \in SUBSET Eligible :
        /\ Cardinality(S) = Min({Limit, Cardinality(Eligible)})
        /\ \A a \in S, b \in Eligible \ S : Quality(a) >= Quality(b)}

\* A fresh holding that is not in profit is harder to displace.
Hurdle(t) == IF Down /\ age[t] < MinRebalance /\ mark[t].pnl <= 3 THEN 1000 ELSE 180

\* Mutant of Keep: the hurdle is measured the wrong way round.
KeepReversed(targets, t) ==
    LET weakest == CHOOSE w \in targets : \A x \in targets : Quality(w) <= Quality(x)
    IN IF t \in Eligible \ targets /\ Quality(weakest) - Quality(t) >= Hurdle(t)
       THEN (targets \ {weakest}) \cup {t} ELSE targets

\* A healthy holding takes the weakest target's place unless that one is
\* better by the hurdle.
Keep(targets, t) ==
    LET weakest == CHOOSE w \in targets : \A x \in targets : Quality(w) <= Quality(x)
    IN IF t \in Eligible \ targets /\ Quality(weakest) - Quality(t) < Hurdle(t)
       THEN (targets \ {weakest}) \cup {t} ELSE targets

\* apply_target_hysteresis goes through the holdings, in the order of a set; what
\* comes out is a choice among the eligible.
AfterHysteresis(top, order) == FoldLeft(Keep, top, order)

Targets ==
    {T \in SUBSET Eligible :
        \E top \in TopTargets, order \in SetToSeqs(held \cap Seen) :
            T = AfterHysteresis(top, order)}

Catchup == ctx.rank = 0 \/ ctx.rank > 5 \/ ctx.execRet < 0 \/ ctx.boardRet < 0
Convinced(t) == HighConviction(view[t], Down, Catchup)

\* Top five by the board and by our own marks, which agree.
Top5 == ctx.rank \in 1..5 /\ ctx.execRet >= 0 /\ ctx.boardRet - ctx.execRet \in -100..100

\* A drawdown in percent is taken for a fraction when it is at most 1.
Fraction(dd) == IF dd > 10 THEN dd ELSE 100 * dd
Stressed == Fraction(ctx.dd) >= 180 \/ (ctx.judge >= 0 /\ Fraction(ctx.judge) >= 180)

\* The exposure an exceptional target asks for.
KindGross(T, base) ==
    IF \E t \in T : Convinced(t) THEN Max({base, 550})
    ELSE IF Down /\ \E t \in T : PullbackException(view[t]) THEN Max({base, 400})
    ELSE IF Down /\ \E t \in T : ScoutException(view[t]) THEN Min({base, 180})
    ELSE base

\* _catchup_gross: exposure by the best score, the kind of the targets, their
\* risk and the stress of the portfolio.
CatchupGross(T) ==
    LET best  == Max({view[t].score : t \in T})
        base  == IF best >= 380 THEN 550 ELSE IF best >= 320 THEN 400 ELSE 200
        plain == ~ \E t \in T : Convinced(t)
        caps  == {150 : t \in {t \in T : plain /\ Missing(view[t].risk, 100) > 30}}
                 \cup {300 : t \in {t \in T : plain /\ view[t].cmc < 400}}
                 \cup {250 : t \in {t \in T : Stressed}}
    IN Min(caps \cup {GrossMax, KindGross(T, base)})

\* _recovery_escalated_gross: targets that have survived, far behind the top.
Escalates(T) ==
    /\ ctx.rank > 20 /\ ctx.top5Ret - ctx.boardRet >= 50 /\ ctx.judge < 240
    /\ T \subseteq held
    /\ \A t \in T : age[t] >= MinScale /\ Surviving(view[t], Down, age[t], mark[t].pnl)

Gross(T) ==
    IF Top5 THEN 50
    ELSE IF Escalates(T)
    THEN Min({GrossMax, Max({CatchupGross(T),
                             IF \A t \in T : age[t] >= MinConfirmed THEN 500 ELSE 360})})
    ELSE CatchupGross(T)

TargetValue(T) == Gross(T) \div Cardinality(T)

ValueOf(t) == IF t \in held THEN mark[t].value ELSE 0

\* trim_intent: a micro profit, or what exceeds the target; 0 for neither.
TrimSize(T, t) ==
    LET micro  == (450 * mark[t].value) \div 1000
        excess == mark[t].value - TargetValue(T)
    IN IF mark[t].pnl >= 15 /\ micro >= MinUsd THEN micro
       ELSE IF excess >= MinUsd /\ (Top5 \/ age[t] >= MinRebalance) THEN excess
       ELSE 0

\* buy_intent: what is missing to the target, as far as cash goes.
Needed(T, t) == TargetValue(T) - ValueOf(t)
Want(T, t) == Min({Needed(T, t), Cash})

\* Mutant of CanReenter: only the clock in memory is looked at.
CanReenterVolatile(t) == armed[t] >= Cooldown

\* can_reenter: neither clock says the token was left a short while ago.
CanReenter(t) == armed[t] >= Cooldown /\ exited[t] >= Cooldown

\* A new entry needs the cooldown over or a high conviction, a top-up a view
\* that is fresh or surviving.
MayBuy(t) ==
    IF t \in held
    THEN EntryKind(view[t], Down) # "stale"
         \/ Surviving(view[t], Down, age[t], mark[t].pnl)
    ELSE CanReenter(t) \/ Convinced(t)

\* Mutant of BatchOf: every holding is considered for a trim.
BatchOfTrimsAll(T) ==
    LET out   == (held \cap Seen) \ T
        ill   == {t \in out : HealthExit(view[t], Down, age[t], mark[t].pnl)}
        trims == {t \in held \cap Seen : T # {} /\ TrimSize(T, t) > 0}
        buys  == {t \in T \cap Seen : Needed(T, t) >= MinUsd /\ Cash > 0 /\ MayBuy(t)}
    IN [rotateOut |-> out \ ill, exits |-> ill, trims |-> trims, buys |-> buys,
        targets |-> T, size |-> [t \in buys |-> Want(T, t)]]

\* Closes of what is no target any more, trims and top-ups of what still is,
\* and the entries.
BatchOf(T) ==
    LET out   == (held \cap Seen) \ T
        ill   == {t \in out : HealthExit(view[t], Down, age[t], mark[t].pnl)}
        trims == {t \in T \cap held : TrimSize(T, t) > 0}
        buys  == {t \in T \cap Seen : Needed(T, t) >= MinUsd /\ Cash > 0 /\ MayBuy(t)}
    IN [rotateOut |-> out \ ill, exits |-> ill, trims |-> trims, buys |-> buys,
        targets |-> T, size |-> [t \in buys |-> Want(T, t)]]

\* decide: nothing in a chop or without a signal, else the batch of the targets.
Drafts == IF ctx.regime = "chop" \/ Seen = {} THEN {NoBatch} ELSE {BatchOf(T) : T \in Targets}

\* Each proposed close arms the cooldown in memory, filled or not.
Decide ==
    /\ pc = "decide"
    /\ draft' \in Drafts
    /\ armed' = [t \in Tokens |-> IF t \in draft'.rotateOut \cup draft'.exits THEN 0
                                  ELSE armed[t]]
    /\ pc' = "review"
    /\ UNCHANGED <<held, age, closing, exited, streak, view, mark, ctx, batch, history>>

-----------------------------------------------------------------------------
(* LLMDecider.decide and the gate of process_tick. *)

\* _cash_veto_override's guard: a scout, by its kind or its size, has its own
\* thresholds.
IsScout(t) == EntryKind(view[t], Down) = "scout" \/ 1000 * draft.size[t] <= 180 * Cash

Overridable(t) ==
    LET d == view[t] IN
    /\ ctx.rank \notin 1..5 /\ ctx.judge < 240
    /\ IF IsScout(t)
       THEN /\ d.score >= 280 /\ d.cmc >= 250 /\ d.x402 >= 0 /\ d.r6 >= -20
            /\ CheapAndSafe(d, 20, 30)
       ELSE /\ d.score >= 350 /\ d.cmc >= 750 /\ d.x402 >= 250 /\ d.r6 >= -5
            /\ CheapAndSafe(d, 25, 50)

OverrideSize(t) ==
    Min({draft.size[t], ((IF IsScout(t) THEN 180 ELSE 400) * Cash) \div 1000})

\* The draft with these buys, at these sizes.
WithBuys(buys, size) == [draft EXCEPT !.buys = buys, !.size = [t \in buys |-> size[t]]]

\* The model keeps some buys, at most at their size, and vetoes the rest.
Cuts ==
    {WithBuys(buys, [t \in buys |-> draft.size[t] \div part]) :
        buys \in SUBSET draft.buys \ {{}}, part \in {1, 2}}

\* Mutant of Overrides: what comes back is the deciders' size, not the override's.
OverridesWhole(hard) ==
    LET soft == {t \in draft.buys \ hard : Overridable(t)} IN
    IF soft = {} THEN {WithBuys({}, <<>>)}
    ELSE {WithBuys({t}, [x \in {t} |-> Cash]) :
             t \in {t \in soft : \A x \in soft : Quality(t) >= Quality(x)}}

\* The model vetoes every buy, some for a hard risk; the best of the others
\* comes back, at a reduced size.
Overrides(hard) ==
    LET soft == {t \in draft.buys \ hard : Overridable(t)} IN
    IF soft = {} THEN {WithBuys({}, <<>>)}
    ELSE {WithBuys({t}, [x \in {t} |-> OverrideSize(x)]) :
             t \in {t \in soft : \A x \in soft : Quality(t) >= Quality(x)}}

\* Without a text that can be parsed, or without a buy, the draft stands.
Reviews ==
    {draft} \cup IF draft.buys = {} THEN {}
                 ELSE Cuts \cup UNION {Overrides(hard) : hard \in SUBSET draft.buys}

\* The position at its average price.
CostOf(t) == IF t \in held THEN (1000 * mark[t].value) \div (1000 + mark[t].pnl) ELSE 0

GatedSize(b, t) ==
    IF ctx.open /\ view[t].validated
    THEN ApprovedSize(b.size[t], Cash, CostOf(t), view[t].risk, ctx.dd, ctx.judge, 1000)
    ELSE 0

\* Every trade is judged against the same state; a rotation whose entry was not
\* approved is dropped.
Gated(b) ==
    LET buys == {t \in b.buys : GatedSize(b, t) > 0} IN
    [b EXCEPT !.buys = buys, !.size = [t \in buys |-> GatedSize(b, t)],
              !.rotateOut = IF buys = {} THEN {} ELSE @]

\* The tick's decisions as they will be executed.
Review ==
    /\ pc = "review"
    /\ \E b \in Reviews : batch' = Gated(b)
    /\ pc' = "execute"
    /\ UNCHANGED <<memory, view, mark, ctx, draft, history>>

-----------------------------------------------------------------------------
(* Execution, stops and restarts. *)

\* Closes first, but not of a token with an unresolved order; sold are those
\* confirmed at once, late those whose outcome is unknown.  A buy goes ahead when
\* every rotation close was confirmed.
Execute ==
    /\ pc = "execute"
    /\ \E sold \in SUBSET ((batch.rotateOut \cup batch.exits) \ closing) :
       \E late \in SUBSET ((batch.rotateOut \cup batch.exits) \ (closing \cup sold)) :
       \E bought \in SUBSET (IF batch.rotateOut \subseteq sold THEN batch.buys \ closing
                             ELSE {}) :
          /\ held' = (held \ sold) \cup bought
          /\ age' = [t \in held' |-> IF t \in held THEN age[t] ELSE 0]
          /\ closing' = closing \cup late
          /\ exited' = [t \in Tokens |-> IF t \in sold THEN 0 ELSE exited[t]]
          /\ soldAgo' = [t \in Tokens |-> IF t \in sold \cup late THEN 0
                                        ELSE IF t \in bought THEN Cooldown ELSE soldAgo[t]]
          /\ unclocked' = unclocked \ (sold \cup late \cup bought)
    /\ wasGood' = {t \in Tokens : IF view[t].seen THEN view[t].score >= 270 ELSE t \in wasGood}
    /\ view' = [t \in Tokens |-> NoView] /\ mark' = <<>> /\ ctx' = NoContext
    /\ draft' = NoBatch /\ batch' = NoBatch
    /\ pc' = "idle"
    /\ UNCHANGED <<armed, streak>>

\* Mutant of StopOut: the position's opening time outlives it.
StopOutKeepsAge(t) ==
    /\ pc = "idle" /\ t \in held \ closing
    /\ held' = held \ {t}
    /\ exited' = [exited EXCEPT ![t] = 0]
    /\ soldAgo' = [soldAgo EXCEPT ![t] = 0] /\ unclocked' = unclocked \ {t}
    /\ UNCHANGED <<age, closing, armed, streak, view, mark, ctx, draft, batch, pc, wasGood>>

\* A stop, a profit lock or the kill switch sells a holding outside the decider.
StopOut(t) ==
    /\ pc = "idle" /\ t \in held \ closing
    /\ held' = held \ {t} /\ age' = [x \in held' |-> age[x]]
    /\ exited' = [exited EXCEPT ![t] = 0]
    /\ soldAgo' = [soldAgo EXCEPT ![t] = 0] /\ unclocked' = unclocked \ {t}
    /\ UNCHANGED <<closing, armed, streak, view, mark, ctx, draft, batch, pc, wasGood>>

\* The outcome of such a close is unknown: if it sells, neither clock is told.
StopOutLate(t) ==
    /\ pc = "idle" /\ t \in held \ closing
    /\ closing' = closing \cup {t}
    /\ soldAgo' = [soldAgo EXCEPT ![t] = 0] /\ unclocked' = unclocked \cup {t}
    /\ UNCHANGED <<held, age, armed, exited, streak, view, mark, ctx, draft, batch, pc, wasGood>>

\* reconcile settles a close: it is booked, or the holding stays.
Reconcile(t) ==
    /\ pc = "idle" /\ t \in closing
    /\ closing' = closing \ {t}
    /\ \/ held' = held \ {t} /\ UNCHANGED <<soldAgo, unclocked>>
       \/ /\ held' = held
          /\ soldAgo' = [soldAgo EXCEPT ![t] = Cooldown] /\ unclocked' = unclocked \ {t}
    /\ age' = [x \in held' |-> age[x]]
    /\ UNCHANGED <<armed, exited, streak, view, mark, ctx, draft, batch, pc, wasGood>>

\* A restart forgets the decider's memory, and with it the sales that only that
\* memory knew of.
Restart ==
    /\ pc = "idle"
    /\ armed' = [t \in Tokens |-> Cooldown]
    /\ unclocked' = unclocked \cup {t \in Tokens : exited[t] > soldAgo[t]}
    /\ UNCHANGED <<held, age, closing, exited, streak, view, mark, ctx, draft, batch, pc,
                   wasGood, soldAgo>>

Init ==
    /\ held = {} /\ age = <<>> /\ closing = {} /\ wasGood = {} /\ unclocked = {}
    /\ armed = [t \in Tokens |-> Cooldown] /\ exited = armed /\ soldAgo = armed
    /\ streak = [t \in Tokens |-> 0]
    /\ view = [t \in Tokens |-> NoView] /\ mark = <<>> /\ ctx = NoContext
    /\ draft = NoBatch /\ batch = NoBatch
    /\ pc = "idle"

Next ==
    \/ Observe \/ Decide \/ Review \/ Execute \/ Restart
    \/ \E t \in Tokens : StopOut(t) \/ StopOutLate(t) \/ Reconcile(t)

Spec == Init /\ [][Next]_vars

-----------------------------------------------------------------------------
(* Properties. *)

IsBatch(b) ==
    /\ {b.rotateOut, b.exits, b.trims, b.buys, b.targets} \subseteq SUBSET Tokens
    /\ b.size \in [b.buys -> Nat]

\* Every variable stays in its type.
TypeOK ==
    /\ held \subseteq Tokens /\ age \in [held -> 0..MinHold] /\ closing \subseteq held
    /\ {armed, exited, soldAgo} \subseteq [Tokens -> 0..Cooldown]
    /\ streak \in [Tokens -> 0..2] /\ {wasGood, unclocked} \subseteq SUBSET Tokens
    /\ view \in [Tokens -> Views \cup {NoView}]
    /\ ctx \in Contexts \cup {NoContext}
    /\ IsBatch(draft) /\ IsBatch(batch)
    /\ pc \in {"idle", "decide", "review", "execute"}

\* However the tick's targets were sized, reviewed and gated, all that the batch
\* buys can be stopped out at once and leave the drawdown below the kill line
\* and the judge's drawdown below the buffered DQ line.
BatchFits ==
    pc = "execute" =>
        LET loss == StopLoss * SumFunction(batch.size)
        IN loss > 0 => /\ loss <= 1000 * (Kill - ctx.dd)
                       /\ loss <= 1000 * (DqLine - EffectiveDd(ctx.dd, ctx.judge))

\* The review and the gate only take away: no new token, no larger size, and no
\* exit or trim that is held back.
OnlyReduced ==
    pc = "execute" =>
        /\ batch.exits = draft.exits /\ batch.trims = draft.trims
        /\ batch.rotateOut \subseteq draft.rotateOut
        /\ batch.buys \subseteq draft.buys
        /\ \A t \in batch.buys : batch.size[t] <= draft.size[t]

\* A token that was sold is not bought back before the cooldown is over, unless
\* the tick makes it a high-conviction target.  The sales that leave no cooldown
\* are those of which neither clock knows: a stop whose outcome was unknown when
\* it was sent, and a decided close confirmed late by a process that then died.
CooldownKept ==
    [][\A t \in held' \ held :
          soldAgo[t] >= Cooldown \/ Convinced(t) \/ t \in unclocked]_vars

\* A new entry below the immediate score was good at the observation before, too.
ConfirmedEntry ==
    [][\A t \in held' \ held : view[t].score >= 420 \/ t \in wasGood]_vars

\* What the rotation decider hands to the tick is the batch that the tick and
\* its rotation pairing are written for.
ProposesBatch == pc = "review" => B!WellFormed(draft, held)

\* A healthy holding is never rotated out while a worse newcomer comes in; and when
\* the targets keep no holding, each of them is better than it by the hurdle.
\* (Between two holdings the order of the visits decides: see KeptUnlessBeaten.)
HoldingKept ==
    pc = "review" =>
        \A t \in draft.rotateOut, x \in draft.targets \ held :
            Quality(x) - Quality(t) >= IF draft.targets \cap held = {} THEN 180 ELSE 0

\* The comment on the hysteresis: a valid held name is kept unless a challenger is
\* materially better.  Whatever of two holdings is kept, the newcomers among the
\* targets beat the other one by the hurdle.
KeptUnlessBeaten ==
    pc = "review" =>
        \A t \in draft.rotateOut, x \in draft.targets :
            x \in held \/ Quality(x) - Quality(t) >= 180
=============================================================================
