---------------------------- MODULE SessionProofs ----------------------------
(***************************************************************************)
(* What holds of Session for any tokens, prices and limits.  The worth of  *)
(* the portfolio stays an unexpanded operator throughout: the theorems are *)
(* about the order of a tick's steps and hold whatever the marks are.      *)
(***************************************************************************)
EXTENDS Session, SumProofs

\* Tokens whose next news may be a filled buy: the order is out, or the batch
\* still has it and nothing blocks it.
Exposed == {t \in Tokens : \/ unresolved[t] = "buy"
                           \/ unresolved[t] = "none" /\ t \in pending.buy}

Control ==
    /\ qty \in [Tokens -> Nat]
    /\ unresolved \in [Tokens -> TradeActions \cup {"none"}]
    /\ pending.close \subseteq Tokens /\ pending.trim \subseteq Tokens
    /\ pending.buy \subseteq Tokens
    /\ pending = [close |-> pending.close, trim |-> pending.trim, buy |-> pending.buy]
    /\ todo \subseteq Tokens
    /\ pc # "execute" => pending = NoDecisions /\ rotated = {}
    /\ pc = "reconcile" => \A t \in todo : unresolved[t] # "none"

Budget ==
    /\ entries \in Nat
    /\ entries + Cardinality(Exposed) <= MaxEntries - 1 + Cardinality(Tokens)

Pairing ==
    pc = "execute" =>
        /\ rotating \cap pending.buy = {}
        /\ rotated \subseteq rotating
        /\ \A t \in rotated : t \in Tokens /\ qty[t] = 0

Pausing == halted => pc \in {"idle", "reconcile", "mark"}

Fresh == pc = "decide" => equity = Worth(mark)

\* The inductive invariant of a session.
SessionInv == Control /\ Budget /\ Pairing /\ Pausing /\ Fresh

-----------------------------------------------------------------------------
LEMMA NextCases ==
  ASSUME NEW P,
         ASSUME StartTick PROVE P,
         ASSUME FetchPrices \/ FetchError PROVE P,
         ASSUME NEW newDay \in BOOLEAN, MarkTick(newDay) PROVE P,
         ASSUME Halt \/ FinishStops PROVE P,
         ASSUME Decide PROVE P,
         ASSUME DecideError \/ FinishTick PROVE P,
         ASSUME NEW t \in Tokens, ReconcileFilled(t) PROVE P,
         ASSUME NEW t \in Tokens, ReconcileFailed(t) \/ ReconcileUnknown(t) PROVE P,
         ASSUME NEW t \in Tokens, KillClose(t) PROVE P,
         ASSUME NEW t \in Tokens, StopToken(t) PROVE P,
         ASSUME NEW t \in Tokens, ExecuteClose(t) PROVE P,
         ASSUME NEW t \in Tokens, ExecuteTrim(t) PROVE P,
         ASSUME NEW t \in Tokens, ExecuteBuy(t) PROVE P,
         ASSUME UNCHANGED vars PROVE P,
         [Next]_vars
  PROVE  P
  BY DEF Next

\* Fewer exposed tokens never count more.
LEMMA ExposedCount ==
  /\ IsFiniteSet(Exposed) /\ Cardinality(Exposed) \in Nat
  /\ Cardinality(Tokens) \in Nat /\ Cardinality(Exposed) <= Cardinality(Tokens)
  /\ \A S \in SUBSET Exposed : Cardinality(S) \in Nat /\ Cardinality(S) <= Cardinality(Exposed)
  /\ \A S \in SUBSET Tokens : Cardinality(S) \in Nat /\ Cardinality(S) <= Cardinality(Tokens)
  /\ \A t \in Exposed : Cardinality(Exposed \ {t}) = Cardinality(Exposed) - 1
  <1>1. Exposed \subseteq Tokens
    BY DEF Exposed
  <1>2. IsFiniteSet(Exposed)
    BY <1>1, SessionConstants, FS_Subset
  <1>3. \A S \in SUBSET Exposed : Cardinality(S) \in Nat /\ Cardinality(S) <= Cardinality(Exposed)
    BY <1>2, FS_Subset, FS_CardinalityType
  <1>4. \A S \in SUBSET Tokens : Cardinality(S) \in Nat /\ Cardinality(S) <= Cardinality(Tokens)
    BY SessionConstants, FS_Subset, FS_CardinalityType
  <1>5. \A t \in Exposed : Cardinality(Exposed \ {t}) = Cardinality(Exposed) - 1
    BY <1>2, FS_RemoveElement
  <1> QED
    BY <1>1, <1>2, <1>3, <1>4, <1>5, SessionConstants, FS_CardinalityType

\* What an attempt does to the books it may touch.
LEMMA AttemptEffect ==
  ASSUME Control, Budget, NEW t \in Tokens, NEW action \in TradeActions,
         NEW done \in BOOLEAN, Attempt(t, action, done)
  PROVE  /\ qty' \in [Tokens -> Nat]
         /\ unresolved' \in [Tokens -> TradeActions \cup {"none"}]
         /\ \A u \in Tokens \ {t} : qty'[u] = qty[u] /\ unresolved'[u] = unresolved[u]
         /\ entries' \in Nat
         /\ \/ ~ done /\ UNCHANGED <<qty, unresolved, entries>>
            \/ /\ ~ done /\ qty'[t] = 0 /\ UNCHANGED <<unresolved, entries>>
            \/ /\ ~ done /\ unresolved[t] = "none" /\ unresolved'[t] = action
               /\ UNCHANGED <<qty, entries>>
            \/ /\ done /\ unresolved[t] = "none" /\ UNCHANGED unresolved
               /\ entries' = IF action = "buy" THEN entries + 1 ELSE entries
               /\ action = "close" => qty'[t] = 0
               /\ action = "trim" => qty[t] > 1
  <1>1. CASE ~ done /\ UNCHANGED <<bookVars, entries, rested>>
    BY <1>1 DEF bookVars, Control, Budget
  <1>2. CASE /\ ~ done /\ unresolved[t] = "none"
             /\ unresolved' = [unresolved EXCEPT ![t] = action]
             /\ UNCHANGED <<cash, qty, entries, rested>>
    BY <1>2 DEF Control, Budget
  <1>3. ASSUME done, unresolved[t] = "none", UNCHANGED unresolved,
               NEW price \in FillPrices(t, action), Fill(t, action, price)
        PROVE  /\ qty' \in [Tokens -> Nat]
               /\ \A u \in Tokens \ {t} : qty'[u] = qty[u]
               /\ entries' = IF action = "buy" THEN entries + 1 ELSE entries
               /\ action = "close" => qty'[t] = 0
               /\ action = "trim" => qty[t] > 1
    <2>1. CASE action = "buy"
      BY <1>3, <2>1 DEF Control, Fill
    <2>2. CASE action = "close"
      BY <1>3, <2>2 DEF Control, Fill
    <2>3. CASE action = "trim"
      BY <1>3, <2>3 DEF Control, Fill, Tradable
    <2> QED
      BY <2>1, <2>2, <2>3 DEF TradeActions
  <1>4. CASE /\ ~ done /\ qty' = [qty EXCEPT ![t] = 0]
             /\ UNCHANGED <<cash, unresolved, entries, rested>>
    BY <1>4 DEF Control, Budget
  <1> QED
    BY <1>1, <1>2, <1>3, <1>4 DEF Attempt, Control, Budget

\* Nothing an attempt to sell does raises the count of entries to come.
LEMMA SaleKeepsBudget ==
  ASSUME Control, Budget, NEW t \in Tokens, NEW action \in {"close", "trim"},
         NEW done \in BOOLEAN, Attempt(t, action, done),
         pending'.buy = pending.buy
  PROVE  Budget'
  <1>1. entries' = entries /\ Exposed' \subseteq Exposed
    BY AttemptEffect DEF Exposed, TradeActions, Control
  <1> QED
    BY <1>1, ExposedCount, SessionConstants DEF Budget

-----------------------------------------------------------------------------
\* The types of the books after a fill.
LEMMA FillType ==
  ASSUME Control, NEW t \in Tokens, NEW action \in TradeActions,
         NEW price, Fill(t, action, price)
  PROVE  qty' \in [Tokens -> Nat]
  <1>1. CASE action = "buy"
    BY <1>1 DEF Control, Fill
  <1>2. CASE action = "close"
    BY <1>2 DEF Control, Fill
  <1>3. CASE action = "trim"
    BY <1>3 DEF Control, Fill, Tradable
  <1> QED
    BY <1>1, <1>2, <1>3 DEF TradeActions

LEMMA InvInit == Init => SessionInv
  <1> SUFFICES ASSUME Init PROVE SessionInv
    OBVIOUS
  <1>1. Control /\ Pairing /\ Pausing /\ Fresh
    BY DEF Init, Control, Pairing, Pausing, Fresh, NoDecisions, TradeActions
  <1>2. Exposed = {}
    BY DEF Init, Exposed, NoDecisions
  <1>3. Budget
    BY <1>2, ExposedCount, FS_EmptySet, SessionConstants DEF Init, Budget
  <1> QED
    BY <1>1, <1>3 DEF SessionInv

\* Steps that change neither the books nor the batch keep the budget.
LEMMA BudgetUntouched ==
  ASSUME Budget, UNCHANGED <<entries, unresolved, pending>>
  PROVE  Budget'
  BY DEF Budget, Exposed

LEMMA InvStep == SessionInv /\ [Next]_vars => SessionInv'
  <1> SUFFICES ASSUME SessionInv, [Next]_vars PROVE SessionInv'
    OBVIOUS
  <1> USE DEF SessionInv
  <1>1. ASSUME StartTick PROVE SessionInv'
    <2>1. Budget'
      BY <1>1, BudgetUntouched DEF StartTick, dayVars, bookVars
    <2> QED
      BY <1>1, <2>1 DEF StartTick, dayVars, bookVars, Control, Pairing, Pausing, Fresh
  <1>2. ASSUME FetchPrices \/ FetchError PROVE SessionInv'
    <2>1. Budget'
      BY <1>2, BudgetUntouched DEF FetchPrices, FetchError, dayVars, bookVars
    <2> QED
      BY <1>2, <2>1 DEF FetchPrices, FetchError, dayVars, bookVars, Control, Pairing,
                        Pausing, Fresh
  <1>3. ASSUME NEW newDay \in BOOLEAN, MarkTick(newDay) PROVE SessionInv'
    <2>1. Exposed' = Exposed
      BY <1>3 DEF MarkTick, bookVars, Exposed
    <2>2. Budget'
      BY <1>3, <2>1, ExposedCount, SessionConstants DEF MarkTick, Budget
    <2>3. Control'
      BY <1>3 DEF MarkTick, bookVars, Control, Held
    <2> QED
      BY <1>3, <2>2, <2>3 DEF MarkTick, Pairing, Pausing, Fresh
  <1>4. ASSUME Halt \/ FinishStops PROVE SessionInv'
    <2>1. Budget'
      BY <1>4, BudgetUntouched DEF Halt, FinishStops, bookVars
    <2>2. Control' /\ Pairing' /\ Pausing'
      BY <1>4 DEF Halt, FinishStops, bookVars, Control, Pairing, Pausing
    <2>3. Fresh'
      BY <1>4 DEF Halt, FinishStops, bookVars, Fresh, Worth
    <2> QED
      BY <2>1, <2>2, <2>3
  <1>5. ASSUME Decide PROVE SessionInv'
    <2>1. PICK p \in Proposals :
            /\ p.buys # {} => EntryAllowed
            /\ rotating' = p.rotateOut
            /\ pending' = [close |-> p.exits \cup IF p.buys = {} THEN {} ELSE p.rotateOut,
                           trim  |-> p.trims, buy |-> p.buys]
      BY <1>5 DEF Decide
    <2>2. /\ p.buys \subseteq Tokens /\ p.trims \subseteq Tokens
          /\ p.exits \subseteq Tokens /\ p.rotateOut \subseteq Tokens
          /\ p.rotateOut \cap p.buys = {}
      BY DEF Proposals, Held, B!WellFormed
    <2>3. UNCHANGED <<qty, unresolved, entries, todo, halted>> /\ rotated' = {} /\ pc' = "execute"
      BY <1>5 DEF Decide, bookVars, dayVars
    <2>4. Control' /\ Pairing' /\ Pausing' /\ Fresh'
      BY <1>5, <2>1, <2>2, <2>3 DEF Decide, Control, Pairing, Pausing, Fresh
    <2>5. CASE p.buys = {}
      <3>1. Exposed' = Exposed
        BY <1>5, <2>1, <2>3, <2>5 DEF Decide, Exposed, Control, NoDecisions
      <3> QED
        BY <2>3, <2>4, <3>1 DEF Budget
    <2>6. CASE p.buys # {}
      <3>1. entries <= MaxEntries - 1
        BY <2>1, <2>6, SessionConstants DEF EntryAllowed, Budget
      <3>2. Exposed' \subseteq Tokens
        BY DEF Exposed
      <3> QED
        BY <2>3, <2>4, <3>1, <3>2, ExposedCount, SessionConstants DEF Budget
    <2> QED
      BY <2>5, <2>6
  <1>6. ASSUME DecideError \/ FinishTick PROVE SessionInv'
    <2>1. Budget'
      BY <1>6, BudgetUntouched DEF DecideError, FinishTick, dayVars, bookVars
    <2> QED
      BY <1>6, <2>1 DEF DecideError, FinishTick, dayVars, bookVars, Control, Pairing,
                        Pausing, Fresh, NoDecisions
  <1>7. ASSUME NEW t \in Tokens, ReconcileFilled(t) PROVE SessionInv'
    <2>1. PICK price \in FillPrices(t, unresolved[t]) : Fill(t, unresolved[t], price)
      BY <1>7 DEF ReconcileFilled
    <2>2. unresolved[t] \in TradeActions
      BY <1>7 DEF ReconcileFilled, Control
    <2>3. /\ qty' \in [Tokens -> Nat]
          /\ entries' = IF unresolved[t] = "buy" THEN entries + 1 ELSE entries
      BY <2>1, <2>2, FillType DEF Fill
    <2>4. /\ unresolved' = [unresolved EXCEPT ![t] = "none"]
          /\ todo' = todo \ {t} /\ UNCHANGED <<pending, pc, rotated, halted>>
      BY <1>7 DEF ReconcileFilled
    <2>5. Control' /\ Pairing' /\ Pausing' /\ Fresh'
      BY <1>7, <2>3, <2>4 DEF ReconcileFilled, Control, Pairing, Pausing, Fresh
    <2>6. Exposed' = Exposed \ {t}
      BY <1>7, <2>2, <2>4 DEF ReconcileFilled, Exposed, Control, NoDecisions, TradeActions
    <2>7. Budget'
      <3>1. CASE unresolved[t] = "buy"
        BY <3>1, <2>3, <2>6, ExposedCount, SessionConstants DEF Budget, Exposed
      <3>2. CASE unresolved[t] # "buy"
        <4>1. Exposed' \subseteq Exposed /\ entries' = entries
          BY <3>2, <2>3, <2>6
        <4> QED
          BY <4>1, ExposedCount, SessionConstants DEF Budget
      <3> QED
        BY <3>1, <3>2
    <2> QED
      BY <2>5, <2>7
  <1>8. ASSUME NEW t \in Tokens, ReconcileFailed(t) \/ ReconcileUnknown(t) PROVE SessionInv'
    <2>1. Control' /\ Pairing' /\ Pausing' /\ Fresh'
      BY <1>8 DEF ReconcileFailed, ReconcileUnknown, bookVars, dayVars, Control, Pairing,
                  Pausing, Fresh
    <2>2. Exposed' \subseteq Exposed /\ entries' = entries
      BY <1>8 DEF ReconcileFailed, ReconcileUnknown, bookVars, dayVars, Exposed, Control,
                  NoDecisions
    <2>3. Budget'
      BY <2>2, ExposedCount, SessionConstants DEF Budget
    <2> QED
      BY <2>1, <2>3
  <1>9. ASSUME NEW t \in Tokens, KillClose(t) PROVE SessionInv'
    <2>1. PICK done \in BOOLEAN : Attempt(t, "close", done)
      BY <1>9 DEF KillClose
    <2>2. pending' = pending
      BY <1>9 DEF KillClose
    <2>3. Budget'
      BY <2>1, <2>2, SaleKeepsBudget
    <2>4. Control' /\ Pairing' /\ Pausing' /\ Fresh'
      BY <1>9, <2>1, AttemptEffect DEF KillClose, Control, Pairing, Pausing, Fresh, TradeActions
    <2> QED
      BY <2>3, <2>4
  <1>10. ASSUME NEW t \in Tokens, StopToken(t) PROVE SessionInv'
    <2>1. CASE UNCHANGED <<bookVars, entries, rested>>
      <3>1. Budget'
        BY <1>10, <2>1, BudgetUntouched DEF StopToken, bookVars
      <3> QED
        BY <1>10, <2>1, <3>1 DEF StopToken, bookVars, Control, Pairing, Pausing, Fresh
    <2>2. ASSUME NEW action \in {"close", "trim"}, NEW done \in BOOLEAN,
                 Attempt(t, action, done)
          PROVE  SessionInv'
      <3>1. Budget'
        BY <1>10, <2>2, SaleKeepsBudget DEF StopToken
      <3>2. Control' /\ Pairing' /\ Pausing' /\ Fresh'
        BY <1>10, <2>2, AttemptEffect DEF StopToken, Control, Pairing, Pausing, Fresh, TradeActions
      <3> QED
        BY <3>1, <3>2
    <2> QED
      BY <1>10, <2>1, <2>2 DEF StopToken
  <1>11. ASSUME NEW t \in Tokens, ExecuteClose(t) PROVE SessionInv'
    <2>1. PICK done \in BOOLEAN :
            /\ Attempt(t, "close", done)
            /\ rotated' = IF done /\ t \in rotating THEN rotated \cup {t} ELSE rotated
      BY <1>11 DEF ExecuteClose
    <2>2. /\ pending' = [close |-> pending.close \ {t}, trim |-> pending.trim,
                       buy |-> pending.buy]
          /\ pending'.close \subseteq pending.close
          /\ pending'.trim \subseteq pending.trim
          /\ pending'.buy = pending.buy
      BY <1>11 DEF ExecuteClose, Control
    <2>3. Budget'
      BY <2>1, <2>2, SaleKeepsBudget
    <2>4. qty'[t] = 0 \/ qty'[t] = qty[t]
      BY <2>1, AttemptEffect DEF TradeActions
    <2>5. done => qty'[t] = 0
      <3>1. Control /\ Budget /\ "close" \in TradeActions
        BY DEF TradeActions
      <3> QED
        BY <2>1, <3>1, AttemptEffect, Zenon
    <2>6. /\ qty' \in [Tokens -> Nat]
          /\ unresolved' \in [Tokens -> TradeActions \cup {"none"}]
      BY <2>1, AttemptEffect DEF TradeActions
    <2>7. Control' /\ Pausing' /\ Fresh'
      BY <1>11, <2>2, <2>6 DEF ExecuteClose, Control, Pausing, Fresh
    <2>8. Pairing'
      BY <1>11, <2>1, <2>2, <2>4, <2>5, AttemptEffect DEF ExecuteClose, Pairing, TradeActions
    <2> QED
      BY <2>3, <2>7, <2>8
  <1>12. ASSUME NEW t \in Tokens, ExecuteTrim(t) PROVE SessionInv'
    <2>1. PICK done \in BOOLEAN : Attempt(t, "trim", done)
      BY <1>12 DEF ExecuteTrim
    <2>2. /\ pending' = [close |-> pending.close, trim |-> pending.trim \ {t},
                       buy |-> pending.buy]
          /\ pending'.close \subseteq pending.close
          /\ pending'.trim \subseteq pending.trim
          /\ pending'.buy = pending.buy
      BY <1>12 DEF ExecuteTrim, Control
    <2>3. Budget'
      BY <2>1, <2>2, SaleKeepsBudget
    <2>4. qty[t] = 0 => qty'[t] = 0
      <3>1. Control /\ Budget /\ "trim" \in TradeActions
        BY DEF TradeActions
      <3>2. qty'[t] = qty[t] \/ qty'[t] = 0 \/ qty[t] > 1
        BY <2>1, <3>1, AttemptEffect, Zenon
      <3> QED
        BY <3>2
    <2>5. /\ qty' \in [Tokens -> Nat]
          /\ unresolved' \in [Tokens -> TradeActions \cup {"none"}]
          /\ \A u \in Tokens \ {t} : qty'[u] = qty[u]
      BY <2>1, AttemptEffect DEF TradeActions
    <2>6. Control' /\ Pausing' /\ Fresh'
      BY <1>12, <2>2, <2>5 DEF ExecuteTrim, Control, Pausing, Fresh
    <2>7. Pairing'
      BY <1>12, <2>2, <2>4, <2>5 DEF ExecuteTrim, Pairing
    <2> QED
      BY <2>3, <2>6, <2>7
  <1>13. ASSUME NEW t \in Tokens, ExecuteBuy(t) PROVE SessionInv'
    <2>1. /\ pending' = [pending EXCEPT !.buy = @ \ {t}] /\ pending'.buy = pending.buy \ {t}
          /\ pc = "execute" /\ t \in pending.buy
          /\ UNCHANGED <<todo, pc, halted, rotating, rotated>>
      BY <1>13 DEF ExecuteBuy, Control
    <2>2. CASE UNCHANGED <<bookVars, entries, rested>>
      <3>1. Exposed' \subseteq Exposed /\ entries' = entries
        BY <2>1, <2>2 DEF Exposed, bookVars
      <3>2. Budget'
        BY <3>1, ExposedCount, SessionConstants DEF Budget
      <3> QED
        BY <2>1, <2>2, <3>2 DEF bookVars, Control, Pairing, Pausing, Fresh
    <2>3. ASSUME NEW done \in BOOLEAN, Attempt(t, "buy", done) PROVE SessionInv'
      <3>1. Control' /\ Pausing' /\ Fresh'
        BY <2>1, <2>3, AttemptEffect DEF Control, Pausing, Fresh, TradeActions
      <3>2. Pairing'
        BY <2>1, <2>3, AttemptEffect DEF Pairing, TradeActions
      <3>3. CASE entries' = entries
        <4>1. Exposed' \subseteq Exposed
          BY <2>1, <2>3, AttemptEffect DEF Exposed, TradeActions, Control
        <4> QED
          BY <3>1, <3>2, <3>3, <4>1, ExposedCount, SessionConstants DEF Budget
      <3>4. CASE entries' # entries
        <4>1. entries' = entries + 1 /\ unresolved[t] = "none" /\ UNCHANGED unresolved
          BY <2>3, <3>4, AttemptEffect DEF TradeActions
        <4>2. t \in Exposed /\ Exposed' = Exposed \ {t}
          BY <2>1, <4>1 DEF Exposed
        <4> QED
          BY <3>1, <3>2, <4>1, <4>2, ExposedCount, SessionConstants DEF Budget
      <3> QED
        BY <3>3, <3>4
    <2> QED
      BY <1>13, <2>2, <2>3 DEF ExecuteBuy
  <1>14. ASSUME UNCHANGED vars PROVE SessionInv'
    BY <1>14, BudgetUntouched DEF vars, bookVars, dayVars, tickVars, Control, Pairing,
                                  Pausing, Fresh, Worth
  <1> QED
    BY <1>1, <1>2, <1>3, <1>4, <1>5, <1>6, <1>7, <1>8, <1>9, <1>10, <1>11, <1>12, <1>13,
       <1>14, NextCases

LEMMA Inductive == Spec => []SessionInv
  BY InvInit, InvStep, PTL DEF Spec

-----------------------------------------------------------------------------
\* A day's entries, counting the buys nobody knows the outcome of, overrun the
\* limit by less than one per token, for any limits, tokens and prices, however
\* many batches in however many ticks left buys unresolved.
THEOREM EntriesStayBounded == Spec => []EntriesBounded
  <1>1. SessionInv => EntriesBounded
    <2> SUFFICES ASSUME SessionInv PROVE EntriesBounded
      OBVIOUS
    <2>1. UnresolvedBuys \subseteq Exposed
      BY DEF UnresolvedBuys, Exposed
    <2> QED
      BY <2>1, ExposedCount, SessionConstants DEF SessionInv, Budget, EntriesBounded
  <1> QED
    BY <1>1, Inductive, PTL

\* No batch with a buy is approved on an equity older than the tick's stops.
THEOREM LossesAreSeen == Spec => GateSeesLosses
  <1>1. SessionInv /\ [Next]_vars =>
          [pc = "decide" /\ pc' = "execute" /\ pending'.buy # {}
             => /\ ~ KillReached(Worth(mark))
                /\ ~ PauseReached(Worth(mark))]_vars
    <2> SUFFICES ASSUME SessionInv, [Next]_vars, pc = "decide", pc' = "execute",
                        pending'.buy # {}
                 PROVE  ~ KillReached(Worth(mark)) /\ ~ PauseReached(Worth(mark))
      OBVIOUS
    <2>1. equity = Worth(mark)
      BY DEF SessionInv, Fresh
    <2>2. Decide
      BY DEF Next, StartTick, ReconcileFilled, ReconcileFailed, ReconcileUnknown,
             FetchPrices, FetchError, MarkTick, KillClose, Halt, StopToken, FinishStops,
             DecideError, ExecuteClose, ExecuteTrim, ExecuteBuy, FinishTick, vars, tickVars
    <2>3. EntryAllowed
      BY <2>2 DEF Decide
    <2> QED
      BY <2>1, <2>3 DEF EntryAllowed
  <1> QED
    BY <1>1, Inductive, PTL DEF Spec, GateSeesLosses

\* A rotating tick buys only after everything it rotates out of is gone.
THEOREM RotationsArePaired == Spec => RotationPaired
  <1>1. SessionInv /\ [Next]_vars =>
          [pc = "execute" /\ entries' > entries => \A t \in rotating : qty[t] = 0]_vars
    <2> SUFFICES ASSUME SessionInv, [Next]_vars, pc = "execute", entries' > entries
                 PROVE  \A t \in rotating : qty[t] = 0
      OBVIOUS
    <2>1. entries \in Nat
      BY DEF SessionInv, Budget
    <2>2. ASSUME NEW t \in Tokens, ExecuteClose(t) PROVE FALSE
      BY <2>1, <2>2, AttemptEffect DEF ExecuteClose, SessionInv, TradeActions
    <2>3. ASSUME NEW t \in Tokens, ExecuteTrim(t) PROVE FALSE
      BY <2>1, <2>3, AttemptEffect DEF ExecuteTrim, SessionInv, TradeActions
    <2>4. ASSUME NEW t \in Tokens, ExecuteBuy(t) PROVE rotating \subseteq rotated
      BY <2>1, <2>4 DEF ExecuteBuy
    <2>5. \E t \in Tokens : ExecuteClose(t) \/ ExecuteTrim(t) \/ ExecuteBuy(t)
      BY <2>1 DEF Next, StartTick, ReconcileFilled, ReconcileFailed, ReconcileUnknown,
             FetchPrices, FetchError, MarkTick, KillClose, Halt, StopToken, FinishStops,
             Decide, DecideError, FinishTick, vars, dayVars
    <2> QED
      BY <2>2, <2>3, <2>4, <2>5 DEF SessionInv, Pairing
  <1> QED
    BY <1>1, Inductive, PTL DEF Spec, RotationPaired

\* A halted agent trades nothing new until the day is over.
THEOREM HaltsAreQuiet == Spec => HaltedIsQuiet
  <1>1. SessionInv /\ [Next]_vars =>
          [halted /\ halted' /\ <<cash, qty>>' # <<cash, qty>>
             => \E t \in Tokens : unresolved[t] # "none" /\ unresolved'[t] = "none"]_vars
    <2> SUFFICES ASSUME SessionInv, [Next]_vars, halted, halted',
                        <<cash, qty>>' # <<cash, qty>>
                 PROVE  \E t \in Tokens : unresolved[t] # "none" /\ unresolved'[t] = "none"
      OBVIOUS
    <2>1. pc \in {"idle", "reconcile", "mark"}
      BY DEF SessionInv, Pausing
    <2>2. PICK t \in Tokens : ReconcileFilled(t)
      BY <2>1 DEF Next, StartTick, ReconcileFailed, ReconcileUnknown,
             FetchPrices, FetchError, MarkTick, KillClose, Halt, StopToken, FinishStops,
             Decide, DecideError, ExecuteClose, ExecuteTrim, ExecuteBuy, FinishTick,
             vars, bookVars
    <2> QED
      BY <2>2 DEF ReconcileFilled, SessionInv, Control
  <1> QED
    BY <1>1, Inductive, PTL DEF Spec, HaltedIsQuiet
-----------------------------------------------------------------------------
(* The types, balances and positions included.                                *)

\* What the portfolio is worth is a natural number.
LEMMA WorthIsNat ==
  ASSUME NEW c \in Nat, NEW q \in [Tokens -> Nat], NEW price \in [Tokens -> Nat]
  PROVE  WorthOf(c, q, price) \in Nat
  <1> DEFINE f == [t \in Tokens |-> q[t] * price[t]]
  <1>1. \A t \in Tokens : f[t] \in Nat
    OBVIOUS
  <1>2. DOMAIN f = Tokens
    OBVIOUS
  <1> HIDE DEF f
  <1>3. SumFunction(f) \in Nat
    BY <1>1, <1>2, SessionConstants, SumNat DEF SumFunction
  <1>4. WorthOf(c, q, price) = c + SumFunction(f)
    BY DEF WorthOf, f
  <1> QED
    BY <1>3, <1>4

LEMMA MarkIsNat ==
  ASSUME TypeOK
  PROVE  Worth(mark) \in Nat /\ Highest(peak, Worth(mark)) \in Nat
  <1>1. cash \in Nat /\ qty \in [Tokens -> Nat] /\ mark \in [Tokens -> Nat] /\ peak \in Nat
    <2>1. Prices \subseteq Nat /\ 0..MaxQty \subseteq Nat
      BY SessionConstants
    <2> QED
      BY <2>1 DEF TypeOK
  <1>2. Worth(mark) \in Nat
    BY <1>1, WorthIsNat DEF Worth
  <1> QED
    BY <1>1, <1>2 DEF Highest

\* What changes hands leaves neither the balance nor the position negative.
LEMMA FillTyped ==
  ASSUME TypeOK, NEW t \in Tokens, NEW action \in TradeActions,
         NEW price \in FillPrices(t, action), Fill(t, action, price)
  PROVE  cash' \in Nat /\ qty' \in [Tokens -> 0..MaxQty] /\ entries' \in Nat
  <1>1. price \in Nat
    <2>1. real[t] \in Nat /\ Slip \in Nat
      BY SessionConstants DEF TypeOK
    <2> QED
      BY <2>1 DEF FillPrices
  <1>2. cash \in Nat /\ qty[t] \in 0..MaxQty /\ MaxQty \in Nat /\ entries \in Nat
    BY SessionConstants DEF TypeOK
  <1>3. CASE action = "buy"
    <2>1. cash >= price /\ qty[t] < MaxQty /\ cash' = cash - price /\ entries' = entries + 1
          /\ qty' = [qty EXCEPT ![t] = qty[t] + 1]
      BY <1>3 DEF Fill, Tradable
    <2> QED
      BY <1>1, <1>2, <2>1 DEF TypeOK
  <1>4. CASE action = "close"
    <2>1. cash' = cash + qty[t] * price /\ entries' = entries /\ qty' = [qty EXCEPT ![t] = 0]
      BY <1>4 DEF Fill
    <2>2. qty[t] * price \in Nat
      BY <1>1, <1>2
    <2> QED
      BY <1>2, <2>1, <2>2 DEF TypeOK
  <1>5. CASE action = "trim"
    <2>1. qty[t] > 1 /\ cash' = cash + price /\ entries' = entries
          /\ qty' = [qty EXCEPT ![t] = qty[t] - 1]
      BY <1>5 DEF Fill, Tradable
    <2> QED
      BY <1>1, <1>2, <2>1 DEF TypeOK
  <1> QED
    BY <1>3, <1>4, <1>5 DEF TradeActions

\* The variables an attempt may touch.
Books ==
    /\ cash \in Nat /\ qty \in [Tokens -> 0..MaxQty]
    /\ unresolved \in [Tokens -> TradeActions \cup {"none"}]
    /\ entries \in Nat /\ rested \in 0..Pace

\* And those it leaves alone.
Rest ==
    /\ peak \in Nat /\ dayStart \in Nat /\ halted \in BOOLEAN
    /\ real \in [Tokens -> Prices] /\ mark \in [Tokens -> Prices]
    /\ quoted \subseteq Tokens /\ equity \in Nat
    /\ pc \in {"idle", "reconcile", "mark", "kill", "stops", "decide", "execute"}
    /\ todo \subseteq Tokens
    /\ pending \in [close : SUBSET Tokens, trim : SUBSET Tokens, buy : SUBSET Tokens]
    /\ rotating \subseteq Tokens /\ rotated \subseteq Tokens

LEMMA TypeParts == TypeOK <=> Books /\ Rest
  BY DEF TypeOK, Books, Rest

LEMMA AttemptTyped ==
  ASSUME TypeOK, NEW t \in Tokens, NEW action \in TradeActions,
         NEW done \in BOOLEAN, Attempt(t, action, done)
  PROVE  Books'
  <1>1. CASE UNCHANGED <<bookVars, entries, rested>>
    BY <1>1 DEF TypeOK, Books, bookVars
  <1>2. ASSUME NEW price \in FillPrices(t, action), Fill(t, action, price),
               rested' = 0, UNCHANGED unresolved
        PROVE  Books'
    <2>1. cash' \in Nat /\ qty' \in [Tokens -> 0..MaxQty] /\ entries' \in Nat
      BY <1>2, FillTyped
    <2> QED
      BY <1>2, <2>1, SessionConstants DEF TypeOK, Books
  <1>3. CASE /\ unresolved' = [unresolved EXCEPT ![t] = action]
             /\ UNCHANGED <<cash, qty, entries, rested>>
    BY <1>3 DEF TypeOK, Books
  <1>4. CASE /\ qty' = [qty EXCEPT ![t] = 0]
             /\ UNCHANGED <<cash, unresolved, entries, rested>>
    BY <1>4, SessionConstants DEF TypeOK, Books
  <1> QED
    BY <1>1, <1>2, <1>3, <1>4 DEF Attempt

LEMMA TypeInit == Init => TypeOK
  <1> SUFFICES ASSUME Init PROVE TypeOK
    OBVIOUS
  <1>1. Min(Prices) \in Prices
    <2>1. \A p \in Prices : p \in Nat
      BY SessionConstants
    <2>2. \E m \in Prices : \A p \in Prices : m <= p
      BY <2>1, SmallestNumber, SessionConstants
    <2> QED
      BY <2>2, Zenon DEF Min
  <1>2. real \in [Tokens -> Prices] /\ mark \in [Tokens -> Prices]
    BY <1>1 DEF Init
  <1>3. InitialCash \in Nat /\ Pace \in 0..Pace /\ 0 \in 0..MaxQty
    BY SessionConstants
  <1> QED
    BY <1>2, <1>3 DEF Init, TypeOK, NoDecisions, TradeActions

LEMMA TypeStep ==
  ASSUME SessionInv, TypeOK, [Next]_vars
  PROVE  TypeOK'
  <1> USE DEF TypeOK
  <1>1. ASSUME StartTick PROVE TypeOK'
    BY <1>1 DEF StartTick, bookVars, dayVars
  <1>2. ASSUME FetchPrices \/ FetchError PROVE TypeOK'
    BY <1>2 DEF FetchPrices, FetchError, bookVars, dayVars, Held
  <1>3. ASSUME NEW newDay \in BOOLEAN, MarkTick(newDay) PROVE TypeOK'
    <2>1. rested' \in 0..Pace
      BY <1>3, SessionConstants DEF MarkTick
    <2> QED
      BY <1>3, <2>1, MarkIsNat DEF MarkTick, bookVars, Held
  <1>4. ASSUME Halt \/ FinishStops PROVE TypeOK'
    BY <1>4, MarkIsNat DEF Halt, FinishStops, bookVars
  <1>5. ASSUME Decide PROVE TypeOK'
    <2>1. PICK p \in Proposals :
            /\ rotating' = p.rotateOut
            /\ pending' = [close |-> p.exits \cup IF p.buys = {} THEN {} ELSE p.rotateOut,
                           trim  |-> p.trims, buy |-> p.buys]
      BY <1>5 DEF Decide
    <2>2. /\ p.buys \subseteq Tokens /\ p.trims \subseteq Tokens
          /\ p.exits \subseteq Tokens /\ p.rotateOut \subseteq Tokens
      BY DEF Proposals, Held
    <2> QED
      BY <1>5, <2>1, <2>2 DEF Decide, bookVars, dayVars
  <1>6. ASSUME DecideError \/ FinishTick PROVE TypeOK'
    BY <1>6, MarkIsNat DEF DecideError, FinishTick, bookVars, dayVars
  <1>7. ASSUME NEW t \in Tokens, ReconcileFilled(t) PROVE TypeOK'
    <2>1. unresolved[t] \in TradeActions
      BY <1>7 DEF ReconcileFilled, SessionInv, Control
    <2>2. cash' \in Nat /\ qty' \in [Tokens -> 0..MaxQty] /\ entries' \in Nat
      BY <1>7, <2>1, FillTyped DEF ReconcileFilled
    <2> QED
      BY <1>7, <2>2 DEF ReconcileFilled
  <1>8. ASSUME NEW t \in Tokens, ReconcileFailed(t) \/ ReconcileUnknown(t) PROVE TypeOK'
    BY <1>8 DEF ReconcileFailed, ReconcileUnknown, bookVars, dayVars
  <1>9. ASSUME NEW t \in Tokens, KillClose(t) PROVE TypeOK'
    <2>1. Books'
      BY <1>9, AttemptTyped DEF KillClose, TradeActions
    <2>2. Rest'
      BY <1>9 DEF KillClose, Rest
    <2> QED
      BY <2>1, <2>2 DEF Books, Rest
  <1>10. ASSUME NEW t \in Tokens, StopToken(t) PROVE TypeOK'
    <2>1. Books'
      <3>1. CASE UNCHANGED <<bookVars, entries, rested>>
        BY <3>1 DEF Books, bookVars
      <3>2. CASE \E action \in {"close", "trim"}, done \in BOOLEAN : Attempt(t, action, done)
        BY <3>2, AttemptTyped DEF TradeActions
      <3> QED
        BY <1>10, <3>1, <3>2 DEF StopToken
    <2>2. Rest'
      BY <1>10 DEF StopToken, Rest
    <2> QED
      BY <2>1, <2>2 DEF Books, Rest
  <1>11. ASSUME NEW t \in Tokens, ExecuteClose(t) PROVE TypeOK'
    <2>1. Books'
      BY <1>11, AttemptTyped DEF ExecuteClose, TradeActions
    <2>2. Rest'
      BY <1>11 DEF ExecuteClose, Rest
    <2> QED
      BY <2>1, <2>2 DEF Books, Rest
  <1>12. ASSUME NEW t \in Tokens, ExecuteTrim(t) PROVE TypeOK'
    <2>1. Books'
      BY <1>12, AttemptTyped DEF ExecuteTrim, TradeActions
    <2>2. Rest'
      BY <1>12 DEF ExecuteTrim, Rest
    <2> QED
      BY <2>1, <2>2 DEF Books, Rest
  <1>13. ASSUME NEW t \in Tokens, ExecuteBuy(t) PROVE TypeOK'
    <2>1. Books'
      <3>1. CASE UNCHANGED <<bookVars, entries, rested>>
        BY <3>1 DEF Books, bookVars
      <3>2. CASE \E done \in BOOLEAN : Attempt(t, "buy", done)
        BY <3>2, AttemptTyped DEF TradeActions
      <3> QED
        BY <1>13, <3>1, <3>2 DEF ExecuteBuy
    <2>2. Rest'
      BY <1>13 DEF ExecuteBuy, Rest
    <2> QED
      BY <2>1, <2>2 DEF Books, Rest
  <1>14. ASSUME UNCHANGED vars PROVE TypeOK'
    BY <1>14 DEF vars, bookVars, dayVars, tickVars
  <1> QED
    BY <1>1, <1>2, <1>3, <1>4, <1>5, <1>6, <1>7, <1>8, <1>9, <1>10, <1>11, <1>12, <1>13,
       <1>14, NextCases

\* No fill, reconcile, stop or liquidation leaves a balance or a position below
\* zero or a position above its bound, at any prices and any slippage.
THEOREM TypeCorrect == Spec => []TypeOK
  <1>1. Init => TypeOK
    BY TypeInit
  <1>2. SessionInv /\ TypeOK /\ [Next]_vars => TypeOK'
    BY TypeStep
  <1> QED
    BY <1>1, <1>2, Inductive, PTL DEF Spec
=============================================================================
