------------------------------ MODULE DeskProofs ------------------------------
(***************************************************************************)
(* What holds of the desk for any tokens, views, marks, contexts, waiting  *)
(* times and gate configuration.  The argument is that of the tick: a      *)
(* phase hands the next one a batch, and the invariant says, phase by      *)
(* phase, what the batch has kept of the conditions under which its buys   *)
(* and closes were decided.                                                *)
(***************************************************************************)
EXTENDS Desk, RiskGateProofs, SumProofs

-----------------------------------------------------------------------------
(* The inductive invariant. *)

\* The tick's inputs, from their arrival to the end of the tick.
Inputs ==
    pc # "idle" => /\ mark \in [held -> Marks]
                   /\ ctx \in Contexts
                   /\ Invested \in 0..1000

\* One of the two clocks has seen every sale that still counts, but those of which
\* no clock knows.
Clocked ==
    \A t \in Tokens :
        t \in unclocked \/ armed[t] <= soldAgo[t] \/ exited[t] <= soldAgo[t]

\* A streak goes on from an observation that reached the base score; one of two
\* began there, as long as the tick lasts.
Streaked ==
    \A t \in Tokens :
        IF pc # "idle" /\ t \in Seen
        THEN /\ streak[t] > 0 => view[t].score >= 270
             /\ streak[t] > 1 => t \in wasGood
        ELSE streak[t] > 0 => t \in wasGood

\* What a buy of the phase's batch was decided under, and that the close of a
\* batch has armed the clock in memory.
Founded(b) ==
    /\ \A t \in b.buys \ held :
          /\ soldAgo[t] >= Cooldown \/ Convinced(t) \/ t \in unclocked
          /\ view[t].score >= 420 \/ t \in wasGood
    /\ \A t \in b.rotateOut \cup b.exits : t \in held /\ armed[t] = 0

\* The review and the gate only take away, once the batch is there.
Reduced ==
    /\ batch.exits = draft.exits /\ batch.trims = draft.trims
    /\ batch.rotateOut \subseteq draft.rotateOut
    /\ batch.buys \subseteq draft.buys
    /\ \A t \in batch.buys : batch.size[t] <= draft.size[t]

\* A batch has its six fields and no other.
Shaped(b) ==
    b = [rotateOut |-> b.rotateOut, exits |-> b.exits, trims |-> b.trims,
         buys |-> b.buys, targets |-> b.targets, size |-> b.size]

DeskInv ==
    /\ Shaped(draft) /\ Shaped(batch)
    /\ TypeOK /\ Inputs /\ Clocked /\ Streaked
    /\ pc = "review" => Founded(draft) /\ B!WellFormed(draft, held)
    /\ pc = "execute" => Founded(batch) /\ Reduced

-----------------------------------------------------------------------------
(* Minima and maxima of the few numbers the sizing compares. *)

LEMMA MinIsLeast ==
  ASSUME NEW S \in SUBSET Int, NEW m \in S, \A y \in S : m <= y
  PROVE  Min(S) = m
  <1>1. Min(S) \in S /\ \A y \in S : Min(S) <= y
    BY Zenon DEF Min
  <1>2. ASSUME NEW n \in S, \A y \in S : n <= y
        PROVE  n = m
    BY <1>2
  <1> QED
    BY <1>1, <1>2, Zenon

LEMMA MinOfTwo ==
  ASSUME NEW a \in Int, NEW b \in Int
  PROVE  Min({a, b}) = Least(a, b)
  <1>1. CASE a <= b
    BY <1>1, MinIsLeast DEF Least
  <1>2. CASE ~ (a <= b)
    BY <1>2, MinIsLeast DEF Least
  <1> QED
    BY <1>1, <1>2

LEMMA MaxOfTwo ==
  ASSUME NEW a \in Int, NEW b \in Int
  PROVE  Max({a, b}) = Most(a, b)
  BY DEF Max, Most

\* The minimum of natural numbers is one of them, and the least.
LEMMA MinOfNumbers ==
  ASSUME NEW S, S # {}, \A y \in S : y \in Nat
  PROVE  Min(S) \in S /\ Min(S) \in Nat /\ \A y \in S : Min(S) <= y
  <1>1. PICK m \in S : \A y \in S : m <= y
    BY SmallestNumber
  <1>2. S \in SUBSET Int
    OBVIOUS
  <1>3. Min(S) = m
    BY <1>1, <1>2, MinIsLeast
  <1> QED
    BY <1>1, <1>3

-----------------------------------------------------------------------------
(* Sizes. *)

\* The exposure is that of a top place, or at most the configured one.
LEMMA GrossRange ==
  ASSUME NEW T
  PROVE  Gross(T) \in Nat /\ (Gross(T) = 50 \/ Gross(T) <= GrossMax)
  <1>0. GrossMax \in Nat
    BY GateConstants
  <1>1. ASSUME NEW base \in Nat
        PROVE  KindGross(T, base) \in Nat
    BY <1>1, MaxOfTwo, MinOfTwo DEF KindGross, Most, Least
  <1>2. CatchupGross(T) \in 0..GrossMax
    <2> DEFINE best  == Max({view[t].score : t \in T})
               base  == IF best >= 380 THEN 550 ELSE IF best >= 320 THEN 400 ELSE 200
               plain == ~ \E t \in T : Convinced(t)
               risky == {150 : t \in {t \in T : plain /\ Missing(view[t].risk, 100) > 30}}
               young == {300 : t \in {t \in T : plain /\ view[t].cmc < 400}}
               tense == {250 : t \in {t \in T : Stressed}}
               caps  == risky \cup young \cup tense
               all   == caps \cup {GrossMax, KindGross(T, base)}
    <2>1. base \in Nat
      OBVIOUS
    <2>2. \A y \in caps : y \in Nat
      OBVIOUS
    <2>3. CatchupGross(T) = Min(all)
      BY Zenon DEF CatchupGross
    <2> HIDE DEF base, caps
    <2>4. KindGross(T, base) \in Nat
      BY <1>1, <2>1
    <2>5. GrossMax \in all /\ \A y \in all : y \in Nat
      BY <1>0, <2>2, <2>4
    <2> HIDE DEF best, plain, risky, young, tense, all
    <2>6. Min(all) \in Nat /\ Min(all) <= GrossMax
      BY <2>5, MinOfNumbers
    <2>7. Min(all) \in 0..GrossMax
      BY <1>0, <2>6
    <2> QED
      BY <2>3, <2>7, Zenon
  <1>3. ASSUME NEW m \in Nat
        PROVE  Min({GrossMax, Max({CatchupGross(T), m})}) \in 0..GrossMax
    BY <1>0, <1>2, <1>3, MaxOfTwo, MinOfTwo DEF Most, Least
  <1> DEFINE m == IF \A t \in T : age[t] >= MinConfirmed THEN 500 ELSE 360
  <1>4. m \in Nat
    OBVIOUS
  <1>5. \/ Gross(T) = 50
        \/ Gross(T) = CatchupGross(T)
        \/ Gross(T) = Min({GrossMax, Max({CatchupGross(T), m})})
    BY Zenon DEF Gross
  <1> HIDE DEF m
  <1> QED
    BY <1>0, <1>2, <1>3, <1>4, <1>5

LEMMA TargetValueIsNat ==
  ASSUME NEW T \in SUBSET Tokens, T # {}
  PROVE  TargetValue(T) \in Nat
  <1>1. Cardinality(T) \in Nat \ {0}
    BY DeskConstants, FS_Subset, FS_CardinalityType, FS_EmptySet
  <1> QED
    BY <1>1, GrossRange, Quotient DEF TargetValue

\* A buy is of a natural size.
LEMMA WantIsNat ==
  ASSUME TypeOK, Inputs, pc # "idle", NEW T \in SUBSET Tokens, NEW t \in T,
         Needed(T, t) >= MinUsd
  PROVE  Want(T, t) \in Nat
  <1>1. MinUsd \in Nat /\ Cash \in Nat
    BY DeskConstants DEF Inputs, Cash
  <1>2. ValueOf(t) \in Nat
    BY DeskConstants DEF ValueOf, Inputs
  <1>3. TargetValue(T) \in Nat
    BY TargetValueIsNat
  <1>4. Needed(T, t) \in Nat
    BY <1>1, <1>2, <1>3 DEF Needed
  <1> QED
    BY <1>1, <1>4, MinOfTwo DEF Want, Least

LEMMA CostIsInt ==
  ASSUME Inputs, pc # "idle", NEW t
  PROVE  CostOf(t) \in Int
  <1>1. CASE t \in held
    <2>1. /\ mark[t].value \in Nat /\ mark[t].pnl \in Int /\ mark[t].pnl > -1000
      BY <1>1, DeskConstants DEF Inputs
    <2>2. 1000 * mark[t].value \in Nat /\ 1000 + mark[t].pnl \in Nat \ {0}
      BY <2>1
    <2>3. (1000 * mark[t].value) \div (1000 + mark[t].pnl) \in Nat
      BY <2>2, Quotient
    <2> QED
      BY <1>1, <2>3 DEF CostOf
  <1>2. CASE t \notin held
    BY <1>2 DEF CostOf
  <1> QED
    BY <1>1, <1>2

\* The gate approves at most what it is asked for.
LEMMA GatedIsLess ==
  ASSUME Inputs, pc # "idle", NEW b, NEW t, b.size[t] \in Nat
  PROVE  GatedSize(b, t) \in 0..b.size[t]
  <1>1. ctx.dd \in Int /\ ctx.judge \in Int /\ Cash \in Nat
    BY DeskConstants DEF Inputs, Cash
  <1>2. CostOf(t) \in Int
    BY CostIsInt
  <1> DEFINE n == ApprovedSize(b.size[t], Cash, CostOf(t), view[t].risk, ctx.dd, ctx.judge, 1000)
  <1>3. n \in Nat /\ n <= b.size[t]
    BY <1>1, <1>2, ApprovedIsBounded
  <1>4. GatedSize(b, t) = n \/ GatedSize(b, t) = 0
    BY Zenon DEF GatedSize
  <1> QED
    BY <1>3, <1>4

-----------------------------------------------------------------------------
(* The steps. *)

LEMMA Starts == Init => DeskInv
  <1> SUFFICES ASSUME Init PROVE DeskInv
    OBVIOUS
  <1>1. Cooldown \in Nat
    BY DeskConstants
  <1>2. TypeOK
    BY <1>1 DEF Init, TypeOK, IsBatch, NoBatch
  <1>3. Inputs /\ Clocked /\ Streaked
    BY <1>1 DEF Init, Inputs, Clocked, Streaked
  <1>4. Shaped(draft) /\ Shaped(batch)
    BY DEF Init, NoBatch, Shaped
  <1> QED
    BY <1>2, <1>3, <1>4 DEF Init, DeskInv

\* A clock only grows, up to its cap.
LEMMA LaterGrows ==
  ASSUME NEW clock \in [Tokens -> 0..Cooldown]
  PROVE  /\ Later(clock, Cooldown) \in [Tokens -> 0..Cooldown]
         /\ \A t \in Tokens : Later(clock, Cooldown)[t] = Least(clock[t] + 1, Cooldown)
  <1>1. Cooldown \in Nat
    BY DeskConstants
  <1>2. ASSUME NEW t \in Tokens
        PROVE  /\ Min({clock[t] + 1, Cooldown}) = Least(clock[t] + 1, Cooldown)
               /\ Least(clock[t] + 1, Cooldown) \in 0..Cooldown
    BY <1>1, MinOfTwo DEF Least
  <1> QED
    BY <1>2 DEF Later

\* An observation ends the streak or makes it one longer.
LEMMA StreakCases ==
  ASSUME NEW n \in 0..2, NEW d
  PROVE  /\ StreakAfter(n, d) \in 0..2
         /\ ~ d.seen => StreakAfter(n, d) = n
         /\ d.seen /\ StreakAfter(n, d) > 0 => d.score >= 270
         /\ d.seen /\ StreakAfter(n, d) > 1 => n > 0
  <1>1. Min({n + 1, 2}) = Least(n + 1, 2)
    BY MinOfTwo
  <1> QED
    BY <1>1 DEF StreakAfter, Least

LEMMA ObserveKeeps ==
  ASSUME DeskInv, Observe
  PROVE  DeskInv'
  <1> USE DEF DeskInv
  <1>1. TypeOK'
    <2>1. age' \in [held' -> 0..MinHold]
      <3>1. ASSUME NEW t \in held
            PROVE  Min({age[t] + 1, MinHold}) \in 0..MinHold
        BY DeskConstants, MinOfTwo DEF TypeOK, Least
      <3> QED
        BY <3>1 DEF Observe
    <2>2. {armed', exited', soldAgo'} \subseteq [Tokens -> 0..Cooldown]
      BY LaterGrows DEF TypeOK, Observe
    <2>3. streak' \in [Tokens -> 0..2]
      <3>1. ASSUME NEW t \in Tokens
            PROVE  StreakAfter(streak[t], view'[t]) \in 0..2
        BY StreakCases DEF TypeOK
      <3> QED
        BY <3>1 DEF Observe
    <2>4. IsBatch(draft)' /\ IsBatch(batch)'
      BY DEF TypeOK, IsBatch, Observe
    <2>5. closing' = closing /\ held' = held /\ unclocked' \subseteq unclocked
      BY DEF Observe
    <2> QED
      BY <2>1, <2>2, <2>3, <2>4, <2>5 DEF TypeOK, Observe
  <1>2. Inputs'
    BY DEF Observe, Inputs
  <1>3. Clocked'
    <2>1. ASSUME NEW t \in Tokens, t \notin unclocked'
          PROVE  armed'[t] <= soldAgo'[t] \/ exited'[t] <= soldAgo'[t]
      <3>1. /\ armed[t] \in 0..Cooldown /\ exited[t] \in 0..Cooldown
            /\ soldAgo[t] \in 0..Cooldown /\ Cooldown \in Nat
            /\ t \in unclocked \/ armed[t] <= soldAgo[t] \/ exited[t] <= soldAgo[t]
        BY DeskConstants DEF TypeOK, Clocked
      <3>2. /\ armed'[t] = Least(armed[t] + 1, Cooldown)
            /\ exited'[t] = Least(exited[t] + 1, Cooldown)
            /\ soldAgo'[t] = Least(soldAgo[t] + 1, Cooldown)
        BY LaterGrows DEF TypeOK, Observe
      <3>3. t \in unclocked => ~ (soldAgo'[t] < Cooldown)
        BY <2>1 DEF Observe
      <3> QED
        BY <3>1, <3>2, <3>3 DEF Least
    <2> QED
      BY <2>1 DEF Clocked
  <1>4. Streaked'
    <2>1. ASSUME NEW t \in Tokens
          PROVE  IF t \in Seen'
                 THEN /\ streak'[t] > 0 => view'[t].score >= 270
                      /\ streak'[t] > 1 => t \in wasGood
                 ELSE streak'[t] > 0 => t \in wasGood
      <3>1. streak[t] \in 0..2 /\ (streak[t] > 0 => t \in wasGood)
        BY DEF TypeOK, Streaked, Observe
      <3>2. streak'[t] = StreakAfter(streak[t], view'[t]) /\ (t \in Seen' <=> view'[t].seen)
        BY DEF Observe, Seen
      <3> QED
        BY <3>1, <3>2, StreakCases
    <2> QED
      BY <2>1 DEF Streaked, Observe
  <1>5. Shaped(draft)' /\ Shaped(batch)'
    BY DEF Observe, Shaped
  <1> QED
    BY <1>1, <1>2, <1>3, <1>4, <1>5 DEF Observe

\* The parts of the batch of some targets.
PartsOf(b, T) ==
    /\ Shaped(b)
    /\ b.rotateOut \subseteq (held \cap Seen) \ T
    /\ b.exits \subseteq (held \cap Seen) \ T
    /\ b.rotateOut \cap b.exits = {}
    /\ b.trims \subseteq T \cap held
    /\ b.targets = T
    /\ b.buys = {t \in T \cap Seen : Needed(T, t) >= MinUsd /\ Cash > 0 /\ MayBuy(t)}
    /\ b.size = [t \in b.buys |-> Want(T, t)]

LEMMA BatchParts ==
  ASSUME NEW T
  PROVE  PartsOf(BatchOf(T), T)
  <1> DEFINE out   == (held \cap Seen) \ T
             ill   == {t \in out : HealthExit(view[t], Down, age[t], mark[t].pnl)}
             trims == {t \in T \cap held : TrimSize(T, t) > 0}
             buys  == {t \in T \cap Seen : Needed(T, t) >= MinUsd /\ Cash > 0 /\ MayBuy(t)}
             size  == [t \in buys |-> Want(T, t)]
  <1>1. BatchOf(T) = [rotateOut |-> out \ ill, exits |-> ill, trims |-> trims,
                      buys |-> buys, targets |-> T, size |-> size]
    BY Zenon DEF BatchOf
  <1>2. ill \subseteq out /\ trims \subseteq T \cap held
    OBVIOUS
  <1> HIDE DEF ill, trims, buys, size
  <1>3. /\ Shaped(BatchOf(T))
        /\ BatchOf(T).rotateOut = out \ ill /\ BatchOf(T).exits = ill
        /\ BatchOf(T).trims = trims /\ BatchOf(T).targets = T
        /\ BatchOf(T).buys = buys /\ BatchOf(T).size = size
    BY <1>1 DEF Shaped
  <1> QED
    BY <1>2, <1>3 DEF buys, size, PartsOf

\* What a token is when it is bought without being held.
LEMMA EntryIsFounded ==
  ASSUME DeskInv, pc = "decide", NEW t \in Eligible \ held, MayBuy(t)
  PROVE  /\ soldAgo[t] >= Cooldown \/ Convinced(t) \/ t \in unclocked
         /\ view[t].score >= 420 \/ t \in wasGood
  <1>1. t \in Tokens /\ t \in Seen /\ EntryAllowed(view[t], Down, streak[t])
    BY DEF Eligible, Seen
  <1>2. soldAgo[t] >= Cooldown \/ Convinced(t) \/ t \in unclocked
    <2>1. CASE CanReenter(t)
      <3>1. /\ armed[t] \in 0..Cooldown /\ exited[t] \in 0..Cooldown
            /\ soldAgo[t] \in 0..Cooldown
            /\ t \in unclocked \/ armed[t] <= soldAgo[t] \/ exited[t] <= soldAgo[t]
        BY <1>1 DEF DeskInv, TypeOK, Clocked
      <3> QED
        BY <2>1, <3>1, DeskConstants DEF CanReenter
    <2>2. CASE Convinced(t)
      BY <2>2
    <2> QED
      BY <2>1, <2>2 DEF MayBuy
  <1>3. view[t].score >= 420 \/ t \in wasGood
    <2>1. view[t].score >= 420 \/ streak[t] >= 2
      BY <1>1, Zenon DEF EntryAllowed, Confirmed
    <2>2. streak[t] \in 0..2 /\ (streak[t] > 1 => t \in wasGood)
      BY <1>1 DEF DeskInv, TypeOK, Streaked
    <2>3. streak[t] >= 2 => t \in wasGood
      BY <2>2
    <2> QED
      BY <2>1, <2>3
  <1> QED
    BY <1>2, <1>3

LEMMA DecideKeeps ==
  ASSUME DeskInv, Decide
  PROVE  DeskInv'
  <1> USE DEF DeskInv
  <1>1. /\ UNCHANGED <<held, age, closing, exited, streak, view, mark, ctx, batch, wasGood,
                       soldAgo, unclocked>>
        /\ pc = "decide" /\ pc' = "review"
        /\ armed' = [t \in Tokens |-> IF t \in draft'.rotateOut \cup draft'.exits THEN 0
                                      ELSE armed[t]]
    BY DEF Decide, history
  <1>2. draft' = NoBatch \/ \E T \in SUBSET Eligible : draft' = BatchOf(T)
    BY Zenon DEF Decide, Drafts, Targets
  <1>3. /\ IsBatch(draft') /\ B!WellFormed(draft', held)
        /\ draft'.rotateOut \cup draft'.exits \subseteq held
        /\ \A t \in draft'.buys : t \in held \/ (t \in Eligible /\ MayBuy(t))
    <2>1. CASE draft' = NoBatch
      BY <2>1 DEF NoBatch, IsBatch, B!WellFormed
    <2>2. ASSUME NEW T \in SUBSET Eligible, draft' = BatchOf(T)
          PROVE  /\ IsBatch(draft') /\ B!WellFormed(draft', held)
                 /\ draft'.rotateOut \cup draft'.exits \subseteq held
                 /\ \A t \in draft'.buys : t \in held \/ (t \in Eligible /\ MayBuy(t))
      <3>1. T \subseteq Tokens /\ held \subseteq Tokens
        BY DEF Eligible, Seen, TypeOK
      <3>2. PartsOf(draft', T)
        BY <2>2, BatchParts
      <3>3. ASSUME NEW t \in draft'.buys
            PROVE  t \in T /\ MayBuy(t) /\ Want(T, t) \in Nat
        <4>1. t \in T /\ MayBuy(t) /\ Needed(T, t) >= MinUsd
          BY <3>2 DEF PartsOf
        <4> QED
          BY <1>1, <3>1, <4>1, WantIsNat
      <3>4. draft'.size \in [draft'.buys -> Nat]
        BY <3>2, <3>3 DEF PartsOf
      <3>5. /\ draft'.rotateOut \subseteq held \ T /\ draft'.exits \subseteq held \ T
            /\ draft'.rotateOut \cap draft'.exits = {}
            /\ draft'.trims \subseteq T \cap held /\ draft'.targets = T
            /\ draft'.buys \subseteq T
        BY <3>2 DEF PartsOf
      <3> QED
        BY <3>1, <3>3, <3>4, <3>5 DEF IsBatch, B!WellFormed
    <2> QED
      BY <1>2, <2>1, <2>2
  <1>4. TypeOK'
    <2>1. armed' \in [Tokens -> 0..Cooldown]
      BY <1>1, DeskConstants DEF TypeOK
    <2>2. IsBatch(batch)'
      BY <1>1 DEF TypeOK, IsBatch
    <2>3. IsBatch(draft)'
      BY <1>3 DEF IsBatch
    <2> QED
      BY <1>1, <2>1, <2>2, <2>3 DEF TypeOK
  <1>5. Inputs'
    <2>1. Invested' = Invested
      BY <1>1 DEF Invested
    <2> QED
      BY <1>1, <2>1 DEF Inputs
  <1>6. Clocked'
    BY <1>1, DeskConstants DEF Clocked, TypeOK
  <1>7. Streaked'
    BY <1>1 DEF Streaked, Seen
  <1>8. Founded(draft)'
    <2>1. ASSUME NEW t \in draft'.buys \ held
          PROVE  /\ soldAgo[t] >= Cooldown \/ Convinced(t) \/ t \in unclocked
                 /\ view[t].score >= 420 \/ t \in wasGood
      BY <1>1, <1>3, EntryIsFounded
    <2>2. \A t : Convinced(t)' <=> Convinced(t)
      BY <1>1 DEF Convinced, Down, Catchup
    <2>3. \A t \in draft'.rotateOut \cup draft'.exits : t \in held /\ armed'[t] = 0
      BY <1>1, <1>3 DEF TypeOK
    <2> QED
      BY <1>1, <2>1, <2>2, <2>3 DEF Founded
  <1>9. B!WellFormed(draft, held)'
    BY <1>1, <1>3 DEF B!WellFormed
  <1>10. Shaped(draft')
    <2>1. CASE draft' = NoBatch
      BY <2>1 DEF Shaped, NoBatch
    <2>2. ASSUME NEW T, draft' = BatchOf(T)
          PROVE  Shaped(draft')
      <3>1. PartsOf(draft', T)
        BY <2>2, BatchParts
      <3> QED
        BY <3>1 DEF PartsOf
    <2> QED
      BY <1>2, <2>1, <2>2
  <1>11. Shaped(draft)' /\ Shaped(batch)'
    BY <1>1, <1>10 DEF Shaped
  <1> QED
    BY <1>1, <1>4, <1>5, <1>6, <1>7, <1>8, <1>9, <1>11

-----------------------------------------------------------------------------

\* A batch that takes away from another one.
Within(b, d) ==
    /\ Shaped(b)
    /\ b.exits = d.exits /\ b.trims = d.trims /\ b.targets = d.targets
    /\ b.rotateOut \subseteq d.rotateOut
    /\ b.buys \subseteq d.buys
    /\ b.size \in [b.buys -> Nat]
    /\ \A t \in b.buys : b.size[t] <= d.size[t]

LEMMA WithFewerBuys ==
  ASSUME Shaped(draft), IsBatch(draft), NEW S \in SUBSET draft.buys, NEW size,
         \A t \in S : size[t] \in 0..draft.size[t]
  PROVE  Within(WithBuys(S, size), draft)
  <1> DEFINE b == WithBuys(S, size)
             kept == [t \in S |-> size[t]]
  <1>1. b = [rotateOut |-> draft.rotateOut, exits |-> draft.exits, trims |-> draft.trims,
             buys |-> S, targets |-> draft.targets, size |-> kept]
    <2>1. b = [draft EXCEPT !.buys = S, !.size = kept]
      BY Zenon DEF WithBuys
    <2> HIDE DEF kept
    <2> QED
      BY <2>1 DEF Shaped
  <1>2. kept \in [S -> Nat] /\ \A t \in S : kept[t] <= draft.size[t]
    BY DEF IsBatch
  <1> HIDE DEF kept, b
  <1>3. Within(b, draft)
    BY <1>1, <1>2 DEF Within, Shaped
  <1> QED
    BY <1>3 DEF b

LEMMA ReviewReduces ==
  ASSUME Shaped(draft), IsBatch(draft), Inputs, pc # "idle", NEW b \in Reviews
  PROVE  Within(b, draft)
  <1>1. CASE b = draft
    BY <1>1 DEF Within, IsBatch
  <1>2. CASE b \in Cuts
    <2>1. PICK buys \in SUBSET draft.buys, part \in {1, 2} :
             b = WithBuys(buys, [t \in buys |-> draft.size[t] \div part])
      BY <1>2 DEF Cuts
    <2>2. ASSUME NEW t \in buys
          PROVE  [x \in buys |-> draft.size[x] \div part][t] \in 0..draft.size[t]
      <3>1. draft.size[t] \in Nat
        BY DEF IsBatch
      <3>2. draft.size[t] \div part \in 0..draft.size[t]
        BY <3>1
      <3> QED
        BY <3>2
    <2> QED
      BY <2>1, <2>2, WithFewerBuys
  <1>3. ASSUME NEW hard, b \in Overrides(hard)
        PROVE  Within(b, draft)
    <2>1. CASE b = WithBuys({}, <<>>)
      BY <2>1, WithFewerBuys
    <2>2. ASSUME NEW t \in draft.buys, b = WithBuys({t}, [x \in {t} |-> OverrideSize(x)])
          PROVE  Within(b, draft)
      <3>1. draft.size[t] \in Nat /\ Cash \in Nat
        BY DEF IsBatch, Inputs, Cash
      <3>2. \A k \in {180, 400} : (k * Cash) \div 1000 \in Nat
        BY <3>1
      <3>3. OverrideSize(t) \in 0..draft.size[t]
        BY <3>1, <3>2, MinOfTwo DEF OverrideSize, Least
      <3> QED
        BY <2>2, <3>3, WithFewerBuys
    <2> QED
      BY <1>3, <2>1, <2>2 DEF Overrides
  <1> QED
    BY <1>1, <1>2, <1>3 DEF Reviews

LEMMA GateReduces ==
  ASSUME IsBatch(draft), Inputs, pc # "idle", NEW b, Within(b, draft)
  PROVE  Within(Gated(b), draft)
  <1> DEFINE buys == {t \in b.buys : GatedSize(b, t) > 0}
             size == [t \in buys |-> GatedSize(b, t)]
             out == IF buys = {} THEN {} ELSE b.rotateOut
  <1>1. \A t \in b.buys : b.size[t] \in Nat /\ GatedSize(b, t) \in 0..b.size[t]
    BY GatedIsLess DEF Within
  <1>2. buys \subseteq b.buys /\ out \subseteq b.rotateOut
    OBVIOUS
  <1>3. size \in [buys -> Nat] /\ \A t \in buys : size[t] <= b.size[t]
    BY <1>1
  <1>4. Gated(b) = [b EXCEPT !.buys = buys, !.size = size, !.rotateOut = out]
    BY Zenon DEF Gated
  <1> HIDE DEF buys, size, out
  <1>5. Gated(b) = [rotateOut |-> out, exits |-> b.exits, trims |-> b.trims,
                    buys |-> buys, targets |-> b.targets, size |-> size]
    BY <1>4 DEF Within, Shaped
  <1>6. /\ Shaped(Gated(b))
        /\ Gated(b).rotateOut = out /\ Gated(b).exits = b.exits
        /\ Gated(b).trims = b.trims /\ Gated(b).buys = buys
        /\ Gated(b).targets = b.targets /\ Gated(b).size = size
    BY <1>5 DEF Shaped
  <1>7. \A t \in buys : size[t] \in Nat /\ b.size[t] \in Nat /\ draft.size[t] \in Nat
                         /\ size[t] <= b.size[t] /\ b.size[t] <= draft.size[t]
    BY <1>1, <1>2, <1>3 DEF Within, IsBatch
  <1> QED
    BY <1>2, <1>3, <1>6, <1>7 DEF Within

LEMMA ReviewKeeps ==
  ASSUME DeskInv, Review
  PROVE  DeskInv'
  <1> USE DEF DeskInv
  <1>1. /\ UNCHANGED <<held, age, closing, armed, exited, streak, view, mark, ctx, draft,
                       wasGood, soldAgo, unclocked>>
        /\ pc = "review" /\ pc' = "execute"
    BY DEF Review, memory, history
  <1>2. IsBatch(draft)
    BY DEF TypeOK
  <1>3. PICK b \in Reviews : batch' = Gated(b)
    BY DEF Review
  <1>4. Within(batch', draft)
    BY <1>1, <1>2, <1>3, ReviewReduces, GateReduces
  <1>5. TypeOK'
    <2>1. IsBatch(draft)'
      BY <1>1, <1>2 DEF IsBatch
    <2>2. IsBatch(batch')
      BY <1>2, <1>4 DEF IsBatch, Within
    <2>3. IsBatch(batch)'
      BY <2>2 DEF IsBatch
    <2> QED
      BY <1>1, <2>1, <2>3 DEF TypeOK
  <1>6. Inputs'
    <2>1. Invested' = Invested
      BY <1>1 DEF Invested
    <2> QED
      BY <1>1, <2>1 DEF Inputs
  <1>7. Clocked' /\ Streaked'
    BY <1>1 DEF Clocked, Streaked, Seen
  <1>8. Founded(batch)'
    <2>1. \A t : Convinced(t)' <=> Convinced(t)
      BY <1>1 DEF Convinced, Down, Catchup
    <2> QED
      BY <1>1, <1>4, <2>1 DEF Founded, Within
  <1>9. Reduced'
    BY <1>1, <1>4 DEF Reduced, Within
  <1>10. Shaped(draft)' /\ Shaped(batch)'
    BY <1>1, <1>4 DEF Shaped, Within
  <1> QED
    BY <1>1, <1>5, <1>6, <1>7, <1>8, <1>9, <1>10

\* After the batch: what is new was bought, every sale has a clock at zero.
LEMMA ExecuteKeeps ==
  ASSUME DeskInv, Execute
  PROVE  DeskInv'
  <1> USE DEF DeskInv
  <1>1. PICK sold \in SUBSET ((batch.rotateOut \cup batch.exits) \ closing) :
        \E late \in SUBSET ((batch.rotateOut \cup batch.exits) \ (closing \cup sold)) :
        \E bought \in SUBSET (IF batch.rotateOut \subseteq sold THEN batch.buys \ closing
                             ELSE {}) :
          /\ held' = (held \ sold) \cup bought
          /\ age' = [t \in held' |-> IF t \in held THEN age[t] ELSE 0]
          /\ closing' = closing \cup late
          /\ exited' = [t \in Tokens |-> IF t \in sold THEN 0 ELSE exited[t]]
          /\ soldAgo' = [t \in Tokens |-> IF t \in sold \cup late THEN 0
                                        ELSE IF t \in bought THEN Cooldown ELSE soldAgo[t]]
          /\ unclocked' = unclocked \ (sold \cup late \cup bought)
    BY Zenon DEF Execute
  <1>2. PICK late \in SUBSET ((batch.rotateOut \cup batch.exits) \ (closing \cup sold)) :
        \E bought \in SUBSET (IF batch.rotateOut \subseteq sold THEN batch.buys \ closing
                             ELSE {}) :
          /\ held' = (held \ sold) \cup bought
          /\ age' = [t \in held' |-> IF t \in held THEN age[t] ELSE 0]
          /\ closing' = closing \cup late
          /\ exited' = [t \in Tokens |-> IF t \in sold THEN 0 ELSE exited[t]]
          /\ soldAgo' = [t \in Tokens |-> IF t \in sold \cup late THEN 0
                                        ELSE IF t \in bought THEN Cooldown ELSE soldAgo[t]]
          /\ unclocked' = unclocked \ (sold \cup late \cup bought)
    BY <1>1
  <1>3. PICK bought \in SUBSET batch.buys :
          /\ held' = (held \ sold) \cup bought
          /\ age' = [t \in held' |-> IF t \in held THEN age[t] ELSE 0]
          /\ closing' = closing \cup late
          /\ exited' = [t \in Tokens |-> IF t \in sold THEN 0 ELSE exited[t]]
          /\ soldAgo' = [t \in Tokens |-> IF t \in sold \cup late THEN 0
                                        ELSE IF t \in bought THEN Cooldown ELSE soldAgo[t]]
          /\ unclocked' = unclocked \ (sold \cup late \cup bought)
    BY <1>2
  <1>0. sold \subseteq held \ closing /\ late \subseteq held \ sold
    BY <1>1, <1>2 DEF Founded, Execute
  <1>4. /\ pc = "execute" /\ pc' = "idle" /\ armed' = armed /\ streak' = streak
        /\ wasGood' = {t \in Tokens : IF view[t].seen THEN view[t].score >= 270
                                      ELSE t \in wasGood}
        /\ view' = [t \in Tokens |-> NoView] /\ ctx' = NoContext
        /\ draft' = NoBatch /\ batch' = NoBatch
    BY DEF Execute
  <1>5. TypeOK'
    <2>1. held' \subseteq Tokens
      BY <1>3 DEF TypeOK, IsBatch
    <2>2. age' \in [held' -> 0..MinHold]
      BY <1>3, DeskConstants DEF TypeOK
    <2>3. {armed', exited', soldAgo'} \subseteq [Tokens -> 0..Cooldown]
      BY <1>3, <1>4, DeskConstants DEF TypeOK
    <2>4. IsBatch(draft)' /\ IsBatch(batch)'
      BY <1>4 DEF IsBatch, NoBatch
    <2>6. closing' \subseteq held' /\ unclocked' \subseteq Tokens
      BY <1>0, <1>3 DEF TypeOK
    <2>5. /\ streak' \in [Tokens -> 0..2] /\ wasGood' \subseteq Tokens
          /\ view' \in [Tokens -> Views \cup {NoView}]
          /\ ctx' \in Contexts \cup {NoContext}
      BY <1>4 DEF TypeOK
    <2> QED
      BY <1>4, <2>1, <2>2, <2>3, <2>4, <2>5, <2>6 DEF TypeOK
  <1>6. Clocked'
    <2>1. ASSUME NEW t \in Tokens, t \notin unclocked'
          PROVE  armed'[t] <= soldAgo'[t] \/ exited'[t] <= soldAgo'[t]
      <3>1. /\ t \in unclocked \/ armed[t] <= soldAgo[t] \/ exited[t] <= soldAgo[t]
            /\ armed[t] \in 0..Cooldown /\ Cooldown \in Nat
        BY DeskConstants DEF Clocked, TypeOK
      <3>2. CASE t \in sold
        BY <1>3, <3>2
      <3>3. CASE t \in late
        BY <1>2, <1>3, <1>4, <3>3 DEF Founded
      <3>4. CASE t \in bought \ (sold \cup late)
        BY <1>3, <1>4, <3>1, <3>4
      <3>5. CASE t \notin sold \cup late \cup bought
        BY <1>3, <1>4, <2>1, <3>1, <3>5
      <3> QED
        BY <3>2, <3>3, <3>4, <3>5
    <2> QED
      BY <2>1 DEF Clocked
  <1>7. Streaked'
    <2>1. ASSUME NEW t \in Tokens, streak[t] > 0
          PROVE  t \in wasGood'
      <3>1. t \in wasGood' <=> (IF view[t].seen THEN view[t].score >= 270 ELSE t \in wasGood)
        BY <1>4
      <3>2. t \in Seen <=> view[t].seen
        BY DEF Seen
      <3> QED
        BY <1>4, <2>1, <3>1, <3>2 DEF Streaked
    <2> QED
      BY <1>4, <2>1 DEF Streaked
  <1>8. Inputs' /\ Shaped(draft)' /\ Shaped(batch)'
    BY <1>4 DEF Inputs, Shaped, NoBatch
  <1> QED
    BY <1>4, <1>5, <1>6, <1>7, <1>8

LEMMA StopOutKeeps ==
  ASSUME DeskInv, NEW t \in Tokens, StopOut(t)
  PROVE  DeskInv'
  <1> USE DEF DeskInv
  <1>1. /\ UNCHANGED <<closing, armed, streak, view, mark, ctx, draft, batch, pc, wasGood>>
        /\ pc = "idle" /\ t \in held \ closing
        /\ held' = held \ {t} /\ age' = [x \in held' |-> age[x]]
        /\ exited' = [exited EXCEPT ![t] = 0]
        /\ soldAgo' = [soldAgo EXCEPT ![t] = 0] /\ unclocked' = unclocked \ {t}
    BY DEF StopOut
  <1>2. TypeOK'
    <2>1. IsBatch(draft)' /\ IsBatch(batch)'
      BY <1>1 DEF TypeOK, IsBatch
    <2>2. held' \subseteq Tokens /\ age' \in [held' -> 0..MinHold] /\ closing' \subseteq held'
      BY <1>1 DEF TypeOK
    <2>3. {armed', exited', soldAgo'} \subseteq [Tokens -> 0..Cooldown]
      BY <1>1, DeskConstants DEF TypeOK
    <2> QED
      BY <1>1, <2>1, <2>2, <2>3 DEF TypeOK
  <1>3. Clocked'
    BY <1>1 DEF Clocked, TypeOK
  <1>4. Streaked'
    BY <1>1 DEF Streaked
  <1>5. Inputs' /\ Shaped(draft)' /\ Shaped(batch)'
    BY <1>1 DEF Inputs, Shaped
  <1> QED
    BY <1>1, <1>2, <1>3, <1>4, <1>5

LEMMA StopOutLateKeeps ==
  ASSUME DeskInv, NEW t \in Tokens, StopOutLate(t)
  PROVE  DeskInv'
  <1> USE DEF DeskInv
  <1>1. /\ UNCHANGED <<held, age, armed, exited, streak, view, mark, ctx, draft, batch, pc,
                       wasGood>>
        /\ pc = "idle" /\ t \in held \ closing /\ closing' = closing \cup {t}
        /\ soldAgo' = [soldAgo EXCEPT ![t] = 0] /\ unclocked' = unclocked \cup {t}
    BY DEF StopOutLate
  <1>2. TypeOK'
    <2>1. IsBatch(draft)' /\ IsBatch(batch)'
      BY <1>1 DEF TypeOK, IsBatch
    <2>2. {armed', exited', soldAgo'} \subseteq [Tokens -> 0..Cooldown]
      BY <1>1, DeskConstants DEF TypeOK
    <2> QED
      BY <1>1, <2>1, <2>2 DEF TypeOK
  <1>3. Clocked'
    BY <1>1 DEF Clocked, TypeOK
  <1>4. Streaked'
    BY <1>1 DEF Streaked
  <1>5. Inputs' /\ Shaped(draft)' /\ Shaped(batch)'
    BY <1>1 DEF Inputs, Shaped
  <1> QED
    BY <1>1, <1>2, <1>3, <1>4, <1>5

\* A close that failed sold nothing: the token's last sale is that of before it
\* was bought.
LEMMA ReconcileKeeps ==
  ASSUME DeskInv, NEW t \in Tokens, Reconcile(t)
  PROVE  DeskInv'
  <1> USE DEF DeskInv
  <1>1. /\ UNCHANGED <<armed, exited, streak, view, mark, ctx, draft, batch, pc, wasGood>>
        /\ pc = "idle" /\ t \in closing /\ closing' = closing \ {t}
        /\ \/ held' = held \ {t} /\ UNCHANGED <<soldAgo, unclocked>>
           \/ /\ held' = held
              /\ soldAgo' = [soldAgo EXCEPT ![t] = Cooldown] /\ unclocked' = unclocked \ {t}
        /\ age' = [x \in held' |-> age[x]]
    BY DEF Reconcile
  <1>2. TypeOK'
    <2>1. IsBatch(draft)' /\ IsBatch(batch)'
      BY <1>1 DEF TypeOK, IsBatch
    <2>2. held' \subseteq Tokens /\ age' \in [held' -> 0..MinHold] /\ closing' \subseteq held'
      BY <1>1 DEF TypeOK
    <2>3. /\ {armed', exited', soldAgo'} \subseteq [Tokens -> 0..Cooldown]
          /\ unclocked' \subseteq Tokens
      BY <1>1, DeskConstants DEF TypeOK
    <2> QED
      BY <1>1, <2>1, <2>2, <2>3 DEF TypeOK
  <1>3. Clocked'
    <2>1. ASSUME NEW x \in Tokens, x \notin unclocked'
          PROVE  armed'[x] <= soldAgo'[x] \/ exited'[x] <= soldAgo'[x]
      <3>1. armed[x] \in 0..Cooldown /\ Cooldown \in Nat /\ soldAgo \in [Tokens -> 0..Cooldown]
        BY DeskConstants DEF TypeOK
      <3>2. x \in unclocked \/ armed[x] <= soldAgo[x] \/ exited[x] <= soldAgo[x]
        BY DEF Clocked
      <3>3. CASE soldAgo'[x] = Cooldown
        BY <1>1, <3>1, <3>3
      <3>4. CASE soldAgo'[x] # Cooldown
        BY <1>1, <2>1, <3>1, <3>2, <3>4
      <3> QED
        BY <3>3, <3>4
    <2> QED
      BY <2>1 DEF Clocked
  <1>4. Streaked'
    BY <1>1 DEF Streaked
  <1>5. Inputs' /\ Shaped(draft)' /\ Shaped(batch)'
    BY <1>1 DEF Inputs, Shaped
  <1> QED
    BY <1>1, <1>2, <1>3, <1>4, <1>5

LEMMA RestartKeeps ==
  ASSUME DeskInv, Restart
  PROVE  DeskInv'
  <1> USE DEF DeskInv
  <1>1. /\ UNCHANGED <<held, age, closing, exited, streak, view, mark, ctx, draft, batch, pc,
                       wasGood, soldAgo>>
        /\ pc = "idle"
        /\ armed' = [t \in Tokens |-> Cooldown]
        /\ unclocked' = unclocked \cup {t \in Tokens : exited[t] > soldAgo[t]}
    BY DEF Restart
  <1>2. TypeOK'
    <2>1. IsBatch(draft)' /\ IsBatch(batch)'
      BY <1>1 DEF TypeOK, IsBatch
    <2>2. {armed', exited', soldAgo'} \subseteq [Tokens -> 0..Cooldown]
      BY <1>1, DeskConstants DEF TypeOK
    <2> QED
      BY <1>1, <2>1, <2>2 DEF TypeOK
  <1>3. Clocked'
    <2>1. ASSUME NEW t \in Tokens, t \notin unclocked'
          PROVE  exited'[t] <= soldAgo'[t]
      <3>1. exited[t] \in 0..Cooldown /\ soldAgo[t] \in 0..Cooldown /\ Cooldown \in Nat
        BY DeskConstants DEF TypeOK
      <3> QED
        BY <1>1, <2>1, <3>1
    <2> QED
      BY <2>1 DEF Clocked
  <1>4. Streaked'
    BY <1>1 DEF Streaked
  <1>5. Inputs' /\ Shaped(draft)' /\ Shaped(batch)'
    BY <1>1 DEF Inputs, Shaped
  <1> QED
    BY <1>1, <1>2, <1>3, <1>4, <1>5

LEMMA StutterKeeps ==
  ASSUME DeskInv, UNCHANGED vars
  PROVE  DeskInv'
  <1>1. UNCHANGED <<held, age, closing, armed, exited, streak, view, mark, ctx, draft, batch, pc,
                    wasGood, soldAgo, unclocked>>
    BY DEF vars, memory, history
  <1>2. TypeOK'
    <2>1. IsBatch(draft)' /\ IsBatch(batch)'
      BY <1>1 DEF DeskInv, TypeOK, IsBatch
    <2> QED
      BY <1>1, <2>1 DEF DeskInv, TypeOK
  <1>3. Inputs' /\ Clocked' /\ Streaked'
    BY <1>1 DEF DeskInv, Inputs, Clocked, Streaked, Seen, Invested
  <1>4. \A t : Convinced(t)' <=> Convinced(t)
    BY <1>1 DEF Convinced, Down, Catchup
  <1>5. pc = "review" => Founded(draft)' /\ B!WellFormed(draft, held)'
    BY <1>1, <1>4 DEF DeskInv, Founded, B!WellFormed
  <1>6. pc = "execute" => Founded(batch)' /\ Reduced'
    BY <1>1, <1>4 DEF DeskInv, Founded, Reduced
  <1>7. Shaped(draft)' /\ Shaped(batch)'
    BY <1>1 DEF DeskInv, Shaped
  <1> QED
    BY <1>1, <1>2, <1>3, <1>5, <1>6, <1>7 DEF DeskInv

LEMMA StepKeeps ==
  ASSUME DeskInv, [Next]_vars
  PROVE  DeskInv'
  <1>1. CASE Observe
    BY <1>1, ObserveKeeps
  <1>2. CASE Decide
    BY <1>2, DecideKeeps
  <1>3. CASE Review
    BY <1>3, ReviewKeeps
  <1>4. CASE Execute
    BY <1>4, ExecuteKeeps
  <1>5. CASE Restart
    BY <1>5, RestartKeeps
  <1>6. CASE \E t \in Tokens : StopOut(t) \/ StopOutLate(t) \/ Reconcile(t)
    BY <1>6, StopOutKeeps, StopOutLateKeeps, ReconcileKeeps
  <1>7. CASE UNCHANGED vars
    BY <1>7, StutterKeeps
  <1> QED
    BY <1>1, <1>2, <1>3, <1>4, <1>5, <1>6, <1>7 DEF Next

LEMMA DeskInvariant == Spec => []DeskInv
  <1>1. Init => DeskInv
    BY Starts
  <1>2. DeskInv /\ [Next]_vars => DeskInv'
    BY StepKeeps
  <1> QED
    BY <1>1, <1>2, PTL DEF Spec

-----------------------------------------------------------------------------
(* The theorems. *)

\* The desk's variables stay in their types.
THEOREM TypeCorrect == Spec => []TypeOK
  <1>1. DeskInv => TypeOK
    BY DEF DeskInv
  <1> QED
    BY <1>1, DeskInvariant, PTL

\* Whatever the views and the hysteresis make of the targets, the rotation
\* decider hands over a batch as the tick expects it.
THEOREM TheBatchIsWellFormed == Spec => []ProposesBatch
  <1>1. DeskInv => ProposesBatch
    BY DEF DeskInv, ProposesBatch
  <1> QED
    BY <1>1, DeskInvariant, PTL

\* Whatever the model answers, its review, the cash-veto override and the gate
\* take nothing but buys, sizes and the closes that were to pay for them.
THEOREM ReviewOnlyReduces == Spec => []OnlyReduced
  <1>1. DeskInv => OnlyReduced
    BY DEF DeskInv, Reduced, OnlyReduced
  <1> QED
    BY <1>1, DeskInvariant, PTL

\* What becomes a holding was a buy of the executed batch.
LEMMA NewHoldings ==
  ASSUME DeskInv, [Next]_vars, NEW t \in held' \ held
  PROVE  /\ soldAgo[t] >= Cooldown \/ Convinced(t) \/ t \in unclocked
         /\ view[t].score >= 420 \/ t \in wasGood
  <1>1. CASE Execute
    <2>1. PICK bought \in SUBSET batch.buys : \E gone : held' = (held \ gone) \cup bought
      BY <1>1, Zenon DEF Execute
    <2>2. t \in batch.buys
      BY <2>1
    <2>3. pc = "execute"
      BY <1>1 DEF Execute
    <2> QED
      BY <2>2, <2>3 DEF DeskInv, Founded
  <1>2. CASE Observe \/ Decide \/ Review \/ Restart \/ UNCHANGED vars
    BY <1>2 DEF Observe, Decide, Review, Restart, vars, memory
  <1>3. CASE \E x \in Tokens : StopOut(x) \/ StopOutLate(x) \/ Reconcile(x)
    BY <1>3 DEF StopOut, StopOutLate, Reconcile
  <1> QED
    BY <1>1, <1>2, <1>3 DEF Next

\* A token that was sold is bought back before the cooldown is over only as a
\* high-conviction target, or when no clock knew of the sale: a stop sent with an
\* unknown outcome, or a close that only the memory of a dead process knew of.
THEOREM SoldTokensCoolDown == Spec => CooldownKept
  <1>1. DeskInv /\ [Next]_vars =>
          [\A t \in held' \ held :
              soldAgo[t] >= Cooldown \/ Convinced(t) \/ t \in unclocked]_vars
    BY NewHoldings
  <1> QED
    BY <1>1, DeskInvariant, PTL DEF Spec, CooldownKept

\* Whatever gaps its observations have, a token is entered below the immediate
\* score only if it was good at the observation before.
THEOREM EntriesAreConfirmed == Spec => ConfirmedEntry
  <1>1. DeskInv /\ [Next]_vars =>
          [\A t \in held' \ held : view[t].score >= 420 \/ t \in wasGood]_vars
    BY NewHoldings
  <1> QED
    BY <1>1, DeskInvariant, PTL DEF Spec, ConfirmedEntry
-----------------------------------------------------------------------------
(* The loss a batch may make. *)

\* The draft buys at most the configured exposure; the gate makes of it a batch
\* whose stop-outs fit the drawdown that is left.
SizedInv ==
    /\ pc = "review" => SumFunction(draft.size) <= GrossMax
    /\ BatchFits

\* The sum of a batch's sizes is over its buys.
LEMMA SizeOfBatch ==
  ASSUME NEW buys \in SUBSET Tokens, NEW size \in [buys -> Nat]
  PROVE  /\ IsFiniteSet(buys)
         /\ SumFunction(size) = SumFunctionOnSet(size, buys)
         /\ SumFunction(size) \in Nat
  <1>1. IsFiniteSet(buys)
    BY DeskConstants, FS_Subset
  <1>2. SumFunction(size) = SumFunctionOnSet(size, buys)
    BY DEF SumFunction
  <1>3. \A x \in buys : size[x] \in Nat
    OBVIOUS
  <1> QED
    BY <1>1, <1>2, <1>3, SumNat

\* A buy is at most the target's value, and there are at most as many as targets.
LEMMA DraftIsModerate ==
  ASSUME GrossMax >= 50, DeskInv, Decide
  PROVE  SumFunction(draft'.size) <= GrossMax
  <1>1. pc = "decide" /\ (draft' = NoBatch \/ \E T \in SUBSET Eligible : draft' = BatchOf(T))
    BY Zenon DEF Decide, Drafts, Targets
  <1>2. GrossMax \in Nat
    BY GateConstants
  <1>3. CASE draft' = NoBatch
    <2>1. <<>> \in [{} -> Nat] /\ DOMAIN <<>> = {}
      OBVIOUS
    <2> QED
      BY <1>2, <1>3, <2>1, SumEmpty DEF NoBatch, SumFunction
  <1>4. ASSUME NEW T \in SUBSET Eligible, draft' = BatchOf(T)
        PROVE  SumFunction(draft'.size) <= GrossMax
    <2> DEFINE buys == draft'.buys
               size == draft'.size
    <2>1. PartsOf(draft', T)
      BY <1>4, BatchParts
    <2>2. buys \subseteq T /\ T \subseteq Tokens /\ buys \subseteq Tokens
      BY <2>1 DEF PartsOf, Eligible, Seen
    <2>3. size = [t \in buys |-> Want(T, t)] /\ \A t \in buys : Needed(T, t) >= MinUsd
      BY <2>1 DEF PartsOf
    <2> HIDE DEF buys, size
    <2>4. CASE buys = {}
      <3>1. DOMAIN size = {}
        BY <2>3, <2>4
      <3> QED
        BY <1>2, <3>1, SumEmpty DEF SumFunction, size
    <2>5. CASE buys # {}
      <3>1. T # {} /\ TargetValue(T) \in Nat
        BY <2>2, <2>5, TargetValueIsNat
      <3>2. ASSUME NEW t \in buys
            PROVE  size[t] \in Nat /\ size[t] <= TargetValue(T)
        <4>1. Want(T, t) \in Nat
          BY <1>1, <2>2, <2>3, WantIsNat DEF DeskInv
        <4>2. Cash \in Nat /\ ValueOf(t) \in Nat
          BY <1>1, DeskConstants DEF DeskInv, Inputs, Cash, ValueOf
        <4>3. Want(T, t) <= TargetValue(T)
          BY <3>1, <4>1, <4>2, MinOfTwo DEF Want, Needed, Least
        <4> QED
          BY <2>3, <4>1, <4>3
      <3>3. size \in [buys -> Nat]
        BY <2>3, <3>2
      <3>4. IsFiniteSet(buys) /\ SumFunction(size) = SumFunctionOnSet(size, buys)
            /\ SumFunction(size) \in Nat
        BY <2>2, <3>3, SizeOfBatch
      <3>5. SumFunctionOnSet(size, buys) <= Cardinality(buys) * TargetValue(T)
        BY <3>1, <3>2, <3>4, SumBounded
      <3>6. /\ Cardinality(buys) \in Nat /\ Cardinality(T) \in Nat \ {0}
            /\ Cardinality(buys) <= Cardinality(T)
        <4>1. IsFiniteSet(T)
          BY <2>2, DeskConstants, FS_Subset
        <4> QED
          BY <2>2, <3>1, <4>1, FS_Subset, FS_CardinalityType, FS_EmptySet
      <3>7. Cardinality(buys) * TargetValue(T) <= Cardinality(T) * TargetValue(T)
        BY <3>1, <3>6, ProductMonotone
      <3>8. Gross(T) \in Nat /\ Gross(T) <= GrossMax
        BY <1>2, GrossRange
      <3>9. Cardinality(T) * TargetValue(T) <= Gross(T)
        <4>1. TargetValue(T) * Cardinality(T) <= Gross(T)
          BY <3>6, <3>8, Quotient DEF TargetValue
        <4> QED
          BY <3>1, <3>6, <4>1
      <3>10. Cardinality(buys) * TargetValue(T) \in Nat /\ Cardinality(T) * TargetValue(T) \in Nat
        BY <3>1, <3>6, Product
      <3>11. SumFunction(size) <= GrossMax
        BY <1>2, <3>4, <3>5, <3>7, <3>8, <3>9, <3>10
      <3> QED
        BY <3>11 DEF size
    <2> QED
      BY <2>4, <2>5
  <1> QED
    BY <1>1, <1>3, <1>4

\* What the review leaves is no more than the draft.
LEMMA ReviewIsModerate ==
  ASSUME IsBatch(draft), NEW b, Within(b, draft)
  PROVE  SumFunction(b.size) <= SumFunction(draft.size)
  <1> DEFINE B1 == b.buys
             s == b.size
             D == draft.buys
             d == draft.size
  <1>1. /\ B1 \in SUBSET D /\ D \in SUBSET Tokens /\ s \in [B1 -> Nat] /\ d \in [D -> Nat]
        /\ \A t \in B1 : s[t] <= d[t]
    BY DEF IsBatch, Within
  <1> HIDE DEF B1, s, D, d
  <1>2. /\ IsFiniteSet(B1) /\ IsFiniteSet(D)
        /\ SumFunction(s) = SumFunctionOnSet(s, B1) /\ SumFunction(s) \in Nat
        /\ SumFunction(d) = SumFunctionOnSet(d, D) /\ SumFunction(d) \in Nat
    BY <1>1, SizeOfBatch
  <1>3. \A t \in D : d[t] \in Nat
    BY <1>1
  <1>4. \A t \in B1 : s[t] \in Int /\ d[t] \in Int /\ d[t] \in Nat /\ s[t] <= d[t]
    BY <1>1
  <1>5. SumFunctionOnSet(s, B1) <= SumFunctionOnSet(d, B1)
    BY <1>2, <1>4, SumMonotone
  <1>6. SumFunctionOnSet(d, B1) <= SumFunctionOnSet(d, D)
    BY <1>1, <1>2, <1>3, SumOfPart
  <1>7. SumFunctionOnSet(d, B1) \in Nat
    BY <1>2, <1>4, SumNat
  <1>8. SumFunction(s) <= SumFunction(d)
    BY <1>2, <1>5, <1>6, <1>7
  <1> QED
    BY <1>8 DEF s, d

\* The gate judges every buy on its own, and scales each by the same budget.
LEMMA GateFits ==
  ASSUME DeskInv, pc = "review", NEW b, Within(b, draft), SumFunction(b.size) <= GrossMax
  PROVE  LET loss == StopLoss * SumFunction(Gated(b).size)
         IN loss > 0 => /\ loss <= 1000 * (Kill - ctx.dd)
                        /\ loss <= 1000 * (DqLine - EffectiveDd(ctx.dd, ctx.judge))
  <1> DEFINE buys == {t \in b.buys : GatedSize(b, t) > 0}
             size == [t \in buys |-> GatedSize(b, t)]
             budget == Budget(ctx.dd, ctx.judge)
             s == b.size
             B1 == b.buys
  <1>1. Gated(b).size = size
    BY Zenon DEF Gated, Within, Shaped
  <1>2. /\ ctx.dd \in Int /\ ctx.judge \in Int /\ GrossMax \in Nat /\ StopLoss \in Nat
        /\ IsBatch(draft) /\ Inputs /\ pc # "idle" /\ Cash \in Nat
    <2>1. IsBatch(draft) /\ Inputs /\ pc # "idle"
      BY DEF DeskInv, TypeOK
    <2>2. ctx.dd \in Int /\ ctx.judge \in Int
      BY <2>1, DeskConstants DEF Inputs
    <2>3. Cash \in Nat
      BY <2>1 DEF Inputs, Cash
    <2> QED
      BY <2>1, <2>2, <2>3, GateConstants
  <1>3. PlannedLoss \in Nat /\ budget \in Nat
    <2>1. ctx.dd \in Int /\ ctx.judge \in Int
      BY <1>2
    <2>2. \A dd, judge \in Int : PlannedLoss \in Nat /\ Budget(dd, judge) \in Nat
      BY BudgetRange
    <2> QED
      BY <2>1, <2>2
  <1>4. B1 \in SUBSET Tokens /\ s \in [B1 -> Nat]
    BY <1>2 DEF IsBatch, Within
  <1>5. ASSUME NEW t \in B1
        PROVE  /\ GatedSize(b, t) \in Nat
               /\ GatedSize(b, t) * PlannedLoss <= s[t] * budget
    <2> DEFINE n == ApprovedSize(s[t], Cash, CostOf(t), view[t].risk, ctx.dd, ctx.judge, 1000)
    <2>1. s[t] \in Nat /\ CostOf(t) \in Int
      BY <1>2, <1>4, CostIsInt
    <2>2. n \in Nat /\ n * PlannedLoss <= s[t] * budget
      BY <1>2, <2>1, ApprovedIsBounded, ApprovedIsScaled
    <2>3. GatedSize(b, t) = n \/ GatedSize(b, t) = 0
      BY Zenon DEF GatedSize
    <2>4. s[t] * budget \in Nat /\ 0 * PlannedLoss = 0
      BY <1>3, <2>1, Product
    <2> HIDE DEF n, s, budget
    <2> QED
      BY <2>2, <2>3, <2>4
  <1>6. buys \in SUBSET B1 /\ buys \in SUBSET Tokens /\ size \in [buys -> Nat]
    BY <1>4, <1>5
  <1> HIDE DEF size, buys, s, B1, budget
  <1>7. /\ IsFiniteSet(B1) /\ SumFunction(s) = SumFunctionOnSet(s, B1) /\ SumFunction(s) \in Nat
        /\ IsFiniteSet(buys) /\ SumFunction(size) = SumFunctionOnSet(size, buys)
        /\ SumFunction(size) \in Nat
    BY <1>4, <1>6, SizeOfBatch
  <1>8. \A t \in buys : /\ size[t] \in Int /\ s[t] \in Int
                        /\ size[t] * PlannedLoss <= s[t] * budget
    BY <1>4, <1>5, <1>6 DEF size
  <1>9. SumFunctionOnSet(size, buys) * PlannedLoss <= SumFunctionOnSet(s, buys) * budget
    BY <1>3, <1>7, <1>8, SumWeighted
  <1>10. SumFunctionOnSet(s, buys) \in Nat /\ SumFunctionOnSet(s, buys) <= GrossMax
    <2>1. \A t \in B1 : s[t] \in Nat
      BY <1>4
    <2>2. SumFunctionOnSet(s, buys) <= SumFunctionOnSet(s, B1)
      BY <1>6, <1>7, <2>1, SumOfPart
    <2>3. SumFunctionOnSet(s, buys) \in Nat
      BY <1>6, <1>7, <2>1, SumNat
    <2>4. SumFunctionOnSet(s, B1) \in Nat /\ SumFunctionOnSet(s, B1) <= GrossMax
      BY <1>7 DEF s
    <2> QED
      BY <1>2, <2>2, <2>3, <2>4
  <1>11. SumFunctionOnSet(s, buys) * budget <= GrossMax * budget
    BY <1>2, <1>3, <1>10, ProductMonotone
  <1>12. SumFunction(size) * PlannedLoss <= GrossMax * budget
    <2>1. /\ SumFunction(size) * PlannedLoss \in Nat /\ GrossMax * budget \in Nat
          /\ SumFunctionOnSet(s, buys) * budget \in Nat
      BY <1>2, <1>3, <1>7, <1>10, Product
    <2> QED
      BY <1>7, <1>9, <1>11, <2>1
  <1> QED
    BY <1>1, <1>2, <1>7, <1>12, LossFits DEF budget

LEMMA SizedKept ==
  ASSUME GrossMax >= 50, DeskInv, SizedInv, [Next]_vars
  PROVE  SizedInv'
  <1>1. CASE Decide
    <2>1. SumFunction(draft'.size) <= GrossMax
      BY <1>1, DraftIsModerate
    <2> QED
      BY <1>1, <2>1 DEF Decide, SizedInv, BatchFits
  <1>2. CASE Review
    <2>1. pc = "review" /\ pc' = "execute" /\ ctx' = ctx /\ \E b \in Reviews : batch' = Gated(b)
      BY <1>2 DEF Review
    <2>2. PICK b \in Reviews : batch' = Gated(b)
      BY <2>1
    <2>3. IsBatch(draft) /\ Shaped(draft) /\ Inputs /\ pc # "idle"
      BY <2>1 DEF DeskInv, TypeOK
    <2>4. Within(b, draft)
      BY <2>3, ReviewReduces
    <2>5. SumFunction(b.size) <= GrossMax
      <3>1. SumFunction(b.size) <= SumFunction(draft.size)
        BY <2>3, <2>4, ReviewIsModerate
      <3>2. b.buys \in SUBSET Tokens /\ b.size \in [b.buys -> Nat]
            /\ draft.buys \in SUBSET Tokens /\ draft.size \in [draft.buys -> Nat]
        BY <2>3, <2>4 DEF Within, IsBatch
      <3>3. SumFunction(b.size) \in Nat /\ SumFunction(draft.size) \in Nat
        BY <3>2, SizeOfBatch
      <3>4. SumFunction(draft.size) <= GrossMax /\ GrossMax \in Nat
        BY <2>1, GateConstants DEF SizedInv
      <3> QED
        BY <3>1, <3>3, <3>4
    <2>6. LET loss == StopLoss * SumFunction(batch'.size)
          IN loss > 0 => /\ loss <= 1000 * (Kill - ctx.dd)
                         /\ loss <= 1000 * (DqLine - EffectiveDd(ctx.dd, ctx.judge))
      BY <2>1, <2>2, <2>4, <2>5, GateFits
    <2>7. BatchFits'
      BY <2>1, <2>6 DEF BatchFits
    <2> QED
      BY <2>1, <2>7 DEF SizedInv
  <1>3. CASE Observe \/ Execute \/ Restart
    <2>1. pc' \in {"idle", "decide"} \/ UNCHANGED <<pc, draft, batch, ctx>>
      BY <1>3 DEF Observe, Execute, Restart
    <2> QED
      BY <2>1 DEF SizedInv, BatchFits
  <1>4. CASE \E t \in Tokens : StopOut(t) \/ StopOutLate(t) \/ Reconcile(t)
    BY <1>4 DEF StopOut, StopOutLate, Reconcile, SizedInv, BatchFits
  <1>5. CASE UNCHANGED vars
    BY <1>5 DEF vars, memory, SizedInv, BatchFits
  <1> QED
    BY <1>1, <1>2, <1>3, <1>4, <1>5 DEF Next

\* However the tick's targets were chosen, sized, reviewed and gated, all that it
\* buys can be stopped out at once below the kill line and the buffered DQ line.
\* The exposure of a top-five place is a constant 5 % that the code does not cap at
\* target_gross_exposure_pct, so the configured exposure has to be that much.
THEOREM EveryBatchFits ==
  ASSUME GrossMax >= 50
  PROVE  Spec => []BatchFits
  <1>1. Init => SizedInv
    BY DEF Init, SizedInv, BatchFits
  <1>2. DeskInv /\ SizedInv /\ [Next]_vars => SizedInv'
    BY SizedKept
  <1>3. SizedInv => BatchFits
    BY DEF SizedInv
  <1> QED
    BY <1>1, <1>2, <1>3, DeskInvariant, PTL DEF Spec
-----------------------------------------------------------------------------
(* The hysteresis as a sequence of target sets.  FoldLeft is a choice of a     *)
(* recursive function on the sets of indices; there is exactly one.            *)

Keeps(g, n, top, order) ==
    g = [s \in SUBSET (1..n) |->
            IF s = {} THEN top ELSE Keep(g[s \ {Max(s)}], order[Max(s)])]

LEMMA MaxIsIn ==
  ASSUME NEW n \in Nat, NEW s \in SUBSET (1..n), s # {}
  PROVE  Max(s) \in s /\ \A i \in s : i <= Max(s)
  <1>1. IsFiniteSet(s) /\ \A i \in s : i \in Int
    <2>1. IsFiniteSet(1..n)
      BY UpToIsFinite
    <2>2. IsFiniteSet(s)
      BY <2>1, FS_Subset
    <2> QED
      BY <2>2
  <1>2. PICK m \in s : \A i \in s : i <= m
    BY <1>1, LargestOfFinite
  <1>3. \A i \in s : m >= i
    BY <1>1, <1>2
  <1>4. Max(s) \in s /\ \A i \in s : Max(s) >= i
    BY <1>3, Zenon DEF Max
  <1> QED
    BY <1>1, <1>4

LEMMA FoldIsSolution ==
  ASSUME NEW n \in Nat, NEW top, NEW order, DOMAIN order = 1..n
  PROVE  AfterHysteresis(top, order) = (CHOOSE g : Keeps(g, n, top, order))[1..n]
  BY DEF AfterHysteresis, FoldLeft, MapThenFoldSet, Keeps

LEMMA KeepsAt ==
  ASSUME NEW n \in Nat, NEW top, NEW order, NEW g, Keeps(g, n, top, order)
  PROVE  \A s \in SUBSET (1..n) :
            /\ s = {} => g[s] = top
            /\ s # {} => g[s] = Keep(g[s \ {Max(s)}], order[Max(s)])
  BY Zenon DEF Keeps

\* There is one: without the largest index a set of indices up to n is one up to
\* n - 1, so each solution extends the last.
LEMMA KeepsExist ==
  ASSUME NEW top, NEW order, NEW k \in Nat
  PROVE  \E g : Keeps(g, k, top, order)
  <1> DEFINE Bad == {n \in Nat : ~ \E g : Keeps(g, n, top, order)}
  <1> SUFFICES ASSUME Bad # {} PROVE FALSE
    OBVIOUS
  <1>1. PICK n \in Bad : \A m \in Bad : n <= m
    <2>1. \A m \in Bad : m \in Nat
      OBVIOUS
    <2> HIDE DEF Bad
    <2> QED
      BY <2>1, SmallestNumber
  <1>2. n \in Nat /\ ~ \E g : Keeps(g, n, top, order)
    OBVIOUS
  <1>3. n # 0
    <2> DEFINE g == [s \in SUBSET (1..0) |-> top]
    <2>1. \A s \in SUBSET (1..0) : s = {}
      OBVIOUS
    <2>2. g = [s \in SUBSET (1..0) |->
                  IF s = {} THEN top ELSE Keep(g[s \ {Max(s)}], order[Max(s)])]
      BY <2>1
    <2> HIDE DEF g
    <2>3. Keeps(g, 0, top, order)
      BY <2>2, Zenon DEF Keeps
    <2> QED
      BY <1>2, <2>3
  <1>4. n - 1 \in Nat /\ n - 1 \notin Bad
    BY <1>1, <1>2, <1>3
  <1>5. PICK g : Keeps(g, n - 1, top, order)
    BY <1>4
  <1> DEFINE G == [s \in SUBSET (1..n) |->
                     IF s = {} THEN top ELSE Keep(g[s \ {Max(s)}], order[Max(s)])]
  <1>6. ASSUME NEW s \in SUBSET (1..n), s # {}
        PROVE  G[s \ {Max(s)}] = g[s \ {Max(s)}]
    <2> DEFINE r == s \ {Max(s)}
    <2>1. r \in SUBSET (1..(n - 1)) /\ r \in SUBSET (1..n)
      <3>1. Max(s) \in s /\ \A i \in s : i <= Max(s)
        BY <1>2, <1>6, MaxIsIn
      <3>2. Max(s) \in 1..n
        BY <3>1
      <3>3. \A i \in r : i \in 1..n /\ i <= Max(s) /\ i # Max(s)
        BY <3>1
      <3>4. \A i \in r : i \in 1..(n - 1)
        BY <1>2, <3>2, <3>3
      <3> QED
        BY <3>4
    <2> HIDE DEF r
    <2>2. /\ r = {} => g[r] = top
          /\ r # {} => g[r] = Keep(g[r \ {Max(r)}], order[Max(r)])
      BY <1>4, <1>5, <2>1, KeepsAt
    <2>3. G[r] = IF r = {} THEN top ELSE Keep(g[r \ {Max(r)}], order[Max(r)])
      BY <2>1
    <2>4. G[r] = g[r]
      BY <2>2, <2>3
    <2> QED
      BY <2>4 DEF r
  <1>7. G = [s \in SUBSET (1..n) |->
               IF s = {} THEN top ELSE Keep(G[s \ {Max(s)}], order[Max(s)])]
    <2> DEFINE H == [s \in SUBSET (1..n) |->
                       IF s = {} THEN top ELSE Keep(G[s \ {Max(s)}], order[Max(s)])]
    <2>1. \A s \in SUBSET (1..n) : G[s] = H[s]
      BY <1>6
    <2> HIDE DEF H
    <2>2. G = [s \in SUBSET (1..n) |-> G[s]] /\ H = [s \in SUBSET (1..n) |-> H[s]]
      BY DEF H
    <2> HIDE DEF G
    <2>3. G = H
      BY <2>1, <2>2
    <2> QED
      BY <2>3 DEF H
  <1> HIDE DEF G
  <1>8. Keeps(G, n, top, order)
    BY <1>7, Zenon DEF Keeps
  <1> QED
    BY <1>2, <1>8

\* So the fold visits the holdings one by one.
LEMMA FoldSteps ==
  ASSUME NEW n \in Nat, NEW top, NEW order, DOMAIN order = 1..n
  PROVE  \E F : /\ F[0] = top
                /\ \A i \in 1..n : F[i] = Keep(F[i - 1], order[i])
                /\ AfterHysteresis(top, order) = F[n]
  <1> DEFINE g == CHOOSE g : Keeps(g, n, top, order)
             F == [i \in 0..n |-> g[1..i]]
  <1>1. Keeps(g, n, top, order)
    BY KeepsExist
  <1>2. AfterHysteresis(top, order) = g[1..n]
    BY FoldIsSolution
  <1> HIDE DEF g
  <1>3. F[0] = top
    <2>1. 1..0 = {} /\ {} \in SUBSET (1..n)
      OBVIOUS
    <2>2. g[{}] = top
      <3>1. \A s \in SUBSET (1..n) :
               /\ s = {} => g[s] = top
               /\ s # {} => g[s] = Keep(g[s \ {Max(s)}], order[Max(s)])
        BY <1>1, KeepsAt
      <3> QED
        BY <2>1, <3>1
    <2> QED
      BY <2>1, <2>2
  <1>4. ASSUME NEW i \in 1..n
        PROVE  F[i] = Keep(F[i - 1], order[i])
    <2> DEFINE s == 1..i
    <2>1. s \in SUBSET (1..n) /\ i \in s /\ \A j \in s : j <= i /\ j \in Int
      OBVIOUS
    <2>2. Max(s) \in s /\ \A j \in s : j <= Max(s)
      <3> HIDE DEF s
      <3> QED
        BY <2>1, MaxIsIn
    <2>3. Max(s) = i
      <3> HIDE DEF s
      <3>1. Max(s) <= i /\ Max(s) \in Int
        BY <2>1, <2>2
      <3>2. i <= Max(s) /\ i \in Int
        BY <2>1, <2>2
      <3> QED
        BY <3>1, <3>2
    <2>4. s \ {i} = 1..(i - 1)
      OBVIOUS
    <2>5. g[s] = Keep(g[s \ {Max(s)}], order[Max(s)])
      <3> HIDE DEF s
      <3>1. \A r \in SUBSET (1..n) :
               r # {} => g[r] = Keep(g[r \ {Max(r)}], order[Max(r)])
        BY <1>1, KeepsAt
      <3>2. s # {} /\ s \in SUBSET (1..n)
        BY <2>1
      <3> QED
        BY <3>1, <3>2
    <2>6. F[i] = g[1..i] /\ F[i - 1] = g[1..(i - 1)]
      OBVIOUS
    <2> QED
      BY <2>3, <2>4, <2>5, <2>6
  <1>5. F[n] = g[1..n]
    OBVIOUS
  <1> QED
    BY <1>2, <1>3, <1>4, <1>5

Weakest(T) == CHOOSE w \in T : \A x \in T : Quality(w) <= Quality(x)

\* The hysteresis can keep a holding in the place of some targets' weakest.
Displaces(T, t) == t \in Eligible \ T /\ Quality(Weakest(T)) - Quality(t) < Hurdle(t)

LEMMA KeepCases ==
  ASSUME NEW T, NEW t
  PROVE  t \in Keep(T, t) \/ (Keep(T, t) = T /\ ~ Displaces(T, t))
  <1>1. Keep(T, t) = IF Displaces(T, t) THEN (T \ {Weakest(T)}) \cup {t} ELSE T
    BY Zenon DEF Keep, Displaces, Weakest
  <1> QED
    BY <1>1

\* A fold that ends without a holding never took one in, so it has compared each
\* holding with the best targets themselves.
LEMMA NoneKept ==
  ASSUME NEW n \in Nat, NEW top, NEW order \in [1..n -> held],
         AfterHysteresis(top, order) \cap held = {}
  PROVE  /\ AfterHysteresis(top, order) = top
         /\ \A i \in 1..n : ~ Displaces(top, order[i])
  <1>1. PICK F : /\ F[0] = top
                 /\ \A i \in 1..n : F[i] = Keep(F[i - 1], order[i])
                 /\ AfterHysteresis(top, order) = F[n]
    <2>1. DOMAIN order = 1..n
      OBVIOUS
    <2> QED
      BY <2>1, FoldSteps
  <1> DEFINE Untouched(i) == F[i] = top /\ \A j \in 1..i : ~ Displaces(top, order[j])
             Bad == {i \in 0..n : F[i] \cap held = {} /\ ~ Untouched(i)}
  <1>2. Bad = {}
    <2> SUFFICES ASSUME Bad # {} PROVE FALSE
      OBVIOUS
    <2>1. PICK i \in Bad : \A j \in Bad : i <= j
      <3>1. \A j \in Bad : j \in Nat
        OBVIOUS
      <3> HIDE DEF Bad
      <3> QED
        BY <3>1, SmallestNumber
    <2>2. i \in 0..n /\ F[i] \cap held = {} /\ ~ Untouched(i)
      OBVIOUS
    <2>3. i # 0
      BY <1>1, <2>2
    <2>4. i \in 1..n /\ i - 1 \in 0..n /\ i - 1 \notin Bad
      BY <2>1, <2>2, <2>3
    <2>5. F[i] = Keep(F[i - 1], order[i]) /\ order[i] \in held
      BY <1>1, <2>4
    <2>6. F[i] = F[i - 1] /\ ~ Displaces(F[i - 1], order[i])
      BY <2>2, <2>5, KeepCases
    <2>7. Untouched(i - 1)
      BY <2>2, <2>4, <2>6
    <2>8. \A j \in 1..i : j = i \/ j \in 1..(i - 1)
      BY <2>4
    <2>9. Untouched(i)
      BY <2>6, <2>7, <2>8
    <2> QED
      BY <2>2, <2>9
  <1>3. n \in 0..n /\ F[n] \cap held = {}
    BY <1>1
  <1>4. Untouched(n)
    BY <1>2, <1>3
  <1> QED
    BY <1>1, <1>4

\* A permutation of the holdings with a signal visits each of them.
LEMMA OrderVisits ==
  ASSUME NEW S, IsFiniteSet(S), NEW order \in SetToSeqs(S), NEW t \in S
  PROVE  /\ Cardinality(S) \in Nat /\ order \in [1..Cardinality(S) -> S]
         /\ \E i \in 1..Cardinality(S) : order[i] = t
  <1> DEFINE n == Cardinality(S)
             D == 1..n
  <1>1. n \in Nat
    BY FS_CardinalityType
  <1>2. order \in [D -> S] /\ \A i, j \in D : i # j => order[i] # order[j]
    BY Zenon DEF SetToSeqs
  <1>3. Cardinality(D) = Cardinality(S)
    <2> HIDE DEF n
    <2>1. Cardinality(1..n) = n
      BY <1>1, UpToIsFinite
    <2> QED
      BY <2>1 DEF n
  <1> HIDE DEF D
  <1>4. order \in Injection(D, S)
    BY <1>2 DEF Injection, IsInjective
  <1>5. order \in Surjection(D, S)
    BY <1>3, <1>4, FS_Injection
  <1> QED
    BY <1>1, <1>2, <1>5 DEF Surjection, D

\* The eligible have a quality, and the weakest of some of them is one of them.
LEMMA WeakestIsLeast ==
  ASSUME DeskInv, NEW T \in SUBSET Eligible
  PROVE  /\ \A y \in Eligible : Quality(y) \in Int
         /\ T # {} => /\ Weakest(T) \in T
                      /\ \A y \in T : Quality(Weakest(T)) <= Quality(y)
  <1>1. \A y \in Eligible : Quality(y) \in Int
    <2>1. ASSUME NEW y \in Eligible
          PROVE  view[y] \in Views
      BY DEF Eligible, Seen, DeskInv, TypeOK, NoView
    <2> QED
      BY <2>1, DeskConstants DEF Quality
  <1>2. IsFiniteSet(T)
    <2>1. T \subseteq Tokens
      BY DEF Eligible, Seen
    <2> QED
      BY <2>1, DeskConstants, FS_Subset
  <1>3. ASSUME T # {}
        PROVE  /\ Weakest(T) \in T
               /\ \A y \in T : Quality(Weakest(T)) <= Quality(y)
    <2> DEFINE q == [y \in T |-> Quality(y)]
    <2>1. \A y \in T : q[y] \in Int
      BY <1>1
    <2>2. \E w \in T : \A y \in T : q[w] <= q[y]
      <3> HIDE DEF q
      <3> QED
        BY <1>2, <1>3, <2>1, LowestOfFinite
    <2>3. \E w \in T : \A y \in T : Quality(w) <= Quality(y)
      BY <2>2
    <2> QED
      BY <2>3, Zenon DEF Weakest
  <1> QED
    BY <1>1, <1>3

\* No token outside some targets is better than a newcomer among them.
NewcomersLead(T) ==
    /\ T \subseteq Eligible
    /\ \A y \in Eligible \ T, x \in T \ held : Quality(y) <= Quality(x)

\* A visit lets in a holding and leaves out the weakest, so the newcomers that
\* are left still lead.
LEMMA KeepLeads ==
  ASSUME DeskInv, NEW T, NewcomersLead(T), NEW t \in held
  PROVE  NewcomersLead(Keep(T, t))
  <1>1. Keep(T, t) = IF Displaces(T, t) THEN (T \ {Weakest(T)}) \cup {t} ELSE T
    BY Zenon DEF Keep, Displaces, Weakest
  <1>2. CASE ~ Displaces(T, t)
    BY <1>1, <1>2
  <1>3. CASE Displaces(T, t)
    <2> DEFINE K == (T \ {Weakest(T)}) \cup {t}
    <2>1. K \subseteq Eligible
      BY <1>3 DEF Displaces, NewcomersLead
    <2>2. ASSUME NEW y \in Eligible \ K, NEW x \in K \ held
          PROVE  Quality(y) <= Quality(x)
      <3>1. x \in T \ held /\ T # {} /\ T \subseteq Eligible
        BY <2>2 DEF NewcomersLead
      <3>2. y \in Eligible \ T \/ y = Weakest(T)
        BY <2>2
      <3>3. \A z \in T : Quality(Weakest(T)) <= Quality(z)
        BY <3>1, WeakestIsLeast
      <3> QED
        BY <3>1, <3>2, <3>3 DEF NewcomersLead
    <2>3. NewcomersLead(K)
      BY <2>1, <2>2 DEF NewcomersLead
    <2> QED
      BY <1>1, <1>3, <2>3
  <1> QED
    BY <1>2, <1>3

LEMMA FoldLeads ==
  ASSUME DeskInv, NEW n \in Nat, NEW top, NewcomersLead(top), NEW order \in [1..n -> held]
  PROVE  NewcomersLead(AfterHysteresis(top, order))
  <1>1. PICK F : /\ F[0] = top
                 /\ \A i \in 1..n : F[i] = Keep(F[i - 1], order[i])
                 /\ AfterHysteresis(top, order) = F[n]
    <2>1. DOMAIN order = 1..n
      OBVIOUS
    <2> QED
      BY <2>1, FoldSteps
  <1> DEFINE Bad == {i \in 0..n : ~ NewcomersLead(F[i])}
  <1>2. Bad = {}
    <2> SUFFICES ASSUME Bad # {} PROVE FALSE
      OBVIOUS
    <2>1. PICK i \in Bad : \A j \in Bad : i <= j
      <3>1. \A j \in Bad : j \in Nat
        OBVIOUS
      <3> HIDE DEF Bad
      <3> QED
        BY <3>1, SmallestNumber
    <2>2. i \in 0..n /\ ~ NewcomersLead(F[i])
      OBVIOUS
    <2>3. i # 0
      BY <1>1, <2>2
    <2>4. i \in 1..n /\ i - 1 \in 0..n /\ i - 1 \notin Bad
      BY <2>1, <2>2, <2>3
    <2>5. F[i] = Keep(F[i - 1], order[i]) /\ order[i] \in held /\ NewcomersLead(F[i - 1])
      BY <1>1, <2>4
    <2> QED
      BY <2>2, <2>5, KeepLeads
  <1>3. n \in 0..n
    OBVIOUS
  <1>4. NewcomersLead(F[n])
    BY <1>2, <1>3
  <1> QED
    BY <1>1, <1>4

\* A healthy holding that is rotated out is no better than a newcomer among the
\* targets, and beaten by the hurdle when all the targets are newcomers.
LEMMA RotatedIsBeaten ==
  ASSUME DeskInv, pc = "decide", NEW T \in Targets,
         NEW t \in BatchOf(T).rotateOut, NEW x \in T \ held
  PROVE  Quality(x) - Quality(t) >= IF T \cap held = {} THEN 180 ELSE 0
  <1>1. PICK top \in TopTargets, order \in SetToSeqs(held \cap Seen) :
           T = AfterHysteresis(top, order)
    BY DEF Targets
  <1> DEFINE S == held \cap Seen
             n == Cardinality(S)
  <1>2. t \in S /\ t \in Eligible /\ t \notin T
    <2> DEFINE out == (held \cap Seen) \ T
               ill == {y \in out : HealthExit(view[y], Down, age[y], mark[y].pnl)}
    <2>1. BatchOf(T).rotateOut = out \ ill
      BY Zenon DEF BatchOf
    <2> QED
      BY <2>1 DEF Eligible
  <1>3. IsFiniteSet(S)
    BY DeskConstants, FS_Subset DEF Seen
  <1>4. /\ n \in Nat /\ order \in [1..n -> S]
        /\ \E i \in 1..n : order[i] = t
    <2> HIDE DEF S
    <2>1. order \in SetToSeqs(S)
      BY DEF S
    <2> QED
      BY <1>2, <1>3, <2>1, OrderVisits
  <1>5. order \in [1..n -> held]
    BY <1>4
  <1>6. T \subseteq Eligible
    BY DEF Targets
  <1>7. \A y \in Eligible : Quality(y) \in Int
    BY <1>6, WeakestIsLeast
  <1>8. Quality(t) \in Int /\ Quality(x) \in Int
    BY <1>2, <1>6, <1>7
  <1>9. CASE T \cap held = {}
    <2>1. T = top /\ \A i \in 1..n : ~ Displaces(top, order[i])
      <3> HIDE DEF n
      <3> QED
        BY <1>1, <1>4, <1>5, <1>9, NoneKept
    <2>2. ~ Displaces(T, t)
      BY <1>4, <2>1
    <2>3. Weakest(T) \in T /\ Quality(Weakest(T)) <= Quality(x)
      BY <1>6, WeakestIsLeast
    <2>4. Hurdle(t) >= 180 /\ Hurdle(t) \in Int
      BY DEF Hurdle
    <2>5. ~ (Quality(Weakest(T)) - Quality(t) < Hurdle(t))
      BY <1>2, <2>2 DEF Displaces
    <2>6. Quality(Weakest(T)) \in Int
      BY <1>6, <1>7, <2>3
    <2> QED
      BY <1>8, <1>9, <2>3, <2>4, <2>5, <2>6
  <1>10. CASE T \cap held # {}
    <2>1. NewcomersLead(top)
      BY Zenon DEF TopTargets, NewcomersLead
    <2>2. NewcomersLead(T)
      <3> HIDE DEF n
      <3> QED
        BY <1>1, <1>4, <1>5, <2>1, FoldLeads
    <2>3. Quality(t) <= Quality(x)
      BY <1>2, <2>2 DEF NewcomersLead
    <2> QED
      BY <1>8, <1>10, <2>3
  <1> QED
    BY <1>9, <1>10

LEMMA HoldingKeptStep ==
  ASSUME DeskInv, HoldingKept, [Next]_vars
  PROVE  HoldingKept'
  <1>1. CASE Decide
    <2>1. pc = "decide" /\ view' = view /\ held' = held
          /\ (draft' = NoBatch \/ \E T \in Targets : draft' = BatchOf(T))
      BY <1>1, Zenon DEF Decide, Drafts
    <2>2. CASE draft' = NoBatch
      BY <2>2 DEF HoldingKept, NoBatch
    <2>3. ASSUME NEW T \in Targets, draft' = BatchOf(T), NEW t \in draft'.rotateOut,
                 NEW x \in draft'.targets \ held
          PROVE  Quality(x) - Quality(t) >= IF draft'.targets \cap held = {} THEN 180 ELSE 0
      <3>1. draft'.targets = T
        BY <2>3, BatchParts DEF PartsOf
      <3> QED
        BY <2>1, <2>3, <3>1, RotatedIsBeaten
    <2>4. \A x : Quality(x)' = Quality(x)
      BY <2>1 DEF Quality
    <2> QED
      BY <2>1, <2>2, <2>3, <2>4 DEF HoldingKept
  <1>2. CASE Observe \/ Review \/ Execute \/ Restart
    BY <1>2 DEF Observe, Review, Execute, Restart, HoldingKept
  <1>3. CASE \E t \in Tokens : StopOut(t) \/ StopOutLate(t) \/ Reconcile(t)
    BY <1>3 DEF StopOut, StopOutLate, Reconcile, HoldingKept
  <1>4. CASE UNCHANGED vars
    BY <1>4 DEF vars, memory, HoldingKept, Quality
  <1> QED
    BY <1>1, <1>2, <1>3, <1>4 DEF Next

\* In whatever order the hysteresis visits the holdings: a healthy holding is never
\* rotated out while a worse newcomer comes in, and one that leaves together with
\* every other holding is beaten by the hurdle by each target.  (Which of two
\* holdings stays, the order decides: a kept one may be the worse of the two.)
THEOREM HealthyHoldingsAreKept == Spec => []HoldingKept
  <1>1. Init => HoldingKept
    BY DEF Init, HoldingKept
  <1>2. DeskInv /\ HoldingKept /\ [Next]_vars => HoldingKept'
    BY HoldingKeptStep
  <1> QED
    BY <1>1, <1>2, DeskInvariant, PTL DEF Spec
=============================================================================
