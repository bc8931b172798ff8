--------------------------- MODULE ExecutionProofs ---------------------------
(***************************************************************************)
(* What holds of Execution for any tokens, sizes, retries and crashes.     *)
(***************************************************************************)
EXTENDS Execution, FiniteSetTheorems, TLAPS

\* Statuses are told apart by this: an order that is still to be settled.
Open(os, id) == os[id].status \in Unsettled

-----------------------------------------------------------------------------
(* Types. *)

LEMMA TypeInit == Init => TypeOK
  BY ConstantsOK DEF Init, TypeOK, EmptyBooks, NoOrder, Snapshot, Books, Orders,
                     Statuses, Unsettled

LEMMA BookTypes ==
  ASSUME TypeOK
  PROVE  /\ orders \in [Ids -> Orders] /\ qty \in [Tokens -> Nat] /\ cash \in Nat
         /\ trades \in Nat /\ failures \in [Tokens -> Nat]
         /\ retryAfter \in [Tokens -> Nat] /\ exitedAt \in [Tokens -> Nat]
         /\ lastTrade \in Nat /\ disk.orders \in [Ids -> Orders] /\ disk.cash \in Nat
  BY DEF TypeOK, Snapshot, Books

\* A fill leaves well-typed quantities and a well-typed order.
LEMMA ApplyFillType ==
  ASSUME TypeOK, NEW id \in Ids, NEW s \in Statuses, ApplyFill(id, s)
  PROVE  /\ orders' \in [Ids -> Orders] /\ qty' \in [Tokens -> Nat]
         /\ cash' \in Nat /\ trades' \in Nat
  <1>1. id.token \in Tokens /\ id.action \in Actions
    BY DEF Ids
  <1>2. TokenDelta(id) \in Nat /\ QuoteDelta(id) \in Nat
    BY <1>1 DEF TypeOK, ApplyFill, Observable, TokenDelta, QuoteDelta, Snapshot, Books, Orders
  <1>3. QuantityAfter(id) \in Nat
    BY <1>1, <1>2, BookTypes DEF QuantityAfter, Actions
  <1>4. orders' \in [Ids -> Orders]
    <2>1. orders[id] \in Orders
      BY BookTypes
    <2>2. [orders[id] EXCEPT !.status = s, !.tx = TRUE,
             !.tokenDelta = TokenDelta(id), !.quoteDelta = QuoteDelta(id)] \in Orders
      BY <1>2, <2>1 DEF Orders
    <2> QED
      BY <2>2, BookTypes DEF ApplyFill
  <1> QED
    BY <1>1, <1>3, <1>4 DEF ApplyFill, TypeOK, Snapshot, Books

LEMMA BookFillType ==
  ASSUME TypeOK, NEW id \in Ids, NEW s \in Statuses,
         ApplyFill(id, s), ClearExecutionFailure(id.token)
  PROVE  /\ orders' \in [Ids -> Orders] /\ qty' \in [Tokens -> Nat]
         /\ cash' \in Nat /\ trades' \in Nat
         /\ failures' \in [Tokens -> Nat] /\ retryAfter' \in [Tokens -> Nat]
  BY ApplyFillType DEF TypeOK, ClearExecutionFailure, Snapshot, Books

LEMMA RecordFailureType ==
  ASSUME TypeOK, NEW t \in Tokens, RecordExecutionFailure(t)
  PROVE  failures' \in [Tokens -> Nat] /\ retryAfter' \in [Tokens -> Nat]
  BY ConstantsOK DEF RecordExecutionFailure, TypeOK, Snapshot, Books

LEMMA SetStatusType ==
  ASSUME TypeOK, NEW id \in Ids, NEW s \in Statuses, SetStatus(id, s)
  PROVE  orders' \in [Ids -> Orders]
  <1>1. orders \in [Ids -> Orders]
    BY BookTypes
  <1> QED
    BY <1>1 DEF SetStatus, Orders

\* Saving well-typed books leaves a well-typed file.
LEMMA SaveType ==
  ASSUME Save, Snapshot' \in Books
  PROVE  disk' \in Books
  BY DEF Save

LEMMA FailAttemptType ==
  ASSUME TypeOK, cur \in Ids, NEW s \in Statuses, FailAttempt(s)
  PROVE  TypeOK'
  <1>1. cur.token \in Tokens
    BY DEF Ids
  <1>2. Snapshot' \in Books
    BY <1>1, SetStatusType, RecordFailureType DEF FailAttempt, TypeOK, Snapshot, Books
  <1> QED
    BY <1>2, SaveType DEF FailAttempt, TypeOK, chainVars

LEMMA TypeStep == TypeOK /\ [Next]_vars => TypeOK'
  <1> SUFFICES ASSUME TypeOK, [Next]_vars PROVE TypeOK'
    OBVIOUS
  <1> USE DEF bookVars, chainVars, ctlVars
  <1>1. CASE Start
    BY <1>1 DEF Start, TypeOK, PendingOrders, Snapshot
  <1>2. CASE ReconcileCash
    BY <1>2 DEF ReconcileCash, TypeOK, Snapshot, Books
  <1>3. CASE PortfolioError
    BY <1>3 DEF PortfolioError, Load, TypeOK, Snapshot, Books
  <1>4. CASE FinishStartup
    BY <1>4, SaveType DEF FinishStartup, TypeOK, Snapshot
  <1>5. CASE BeginTick
    BY <1>5, ConstantsOK DEF BeginTick, TypeOK, Snapshot, PendingOrders, Least
  <1>6. CASE FinishReconcile
    BY <1>6, SaveType DEF FinishReconcile, TypeOK, Snapshot
  <1>7. CASE EndTick
    BY <1>7, SaveType DEF EndTick, TypeOK, Snapshot
  <1>8. CASE Broadcast
    BY <1>8 DEF Broadcast, TypeOK, Snapshot, Books, Orders
  <1>9. CASE SwapOutcome
    <2>1. CASE SwapReturned
      <3>1. orders' \in [Ids -> Orders]
        <4>1. orders \in [Ids -> Orders] /\ cur \in Ids
          BY <2>1, BookTypes DEF SwapReturned, TypeOK
        <4> QED
          BY <2>1, <4>1 DEF SwapReturned, Orders, Statuses, Unsettled
      <3> QED
        BY <2>1, <3>1, SaveType DEF SwapReturned, TypeOK, Snapshot, Books
    <2>2. CASE SwapAmbiguous \/ ConfirmUnknown
      BY <2>2, FailAttemptType DEF SwapAmbiguous, ConfirmUnknown, TypeOK, Statuses, Unsettled
    <2>3. CASE SwapError \/ ConfirmError
      BY <2>3, FailAttemptType DEF SwapError, ConfirmError, TypeOK, Statuses
    <2>4. CASE ConfirmFill
      <3>1. cur \in Ids /\ cur.token \in Tokens
        BY <2>4 DEF ConfirmFill, TypeOK, Ids
      <3>2. exitedAt' \in [Tokens -> Nat] /\ lastTrade' \in Nat
        BY <2>4, <3>1 DEF ConfirmFill, TypeOK, Snapshot, Books
      <3>3. Snapshot' \in Books
        BY <2>4, <3>1, <3>2, BookFillType DEF ConfirmFill, BookFill, Snapshot, Books, Statuses
      <3> QED
        BY <2>4, <3>3, SaveType DEF ConfirmFill, TypeOK
    <2>5. CASE FillNotLogged
      <3>1. cur \in Ids /\ cur.token \in Tokens
        BY <2>5 DEF FillNotLogged, TypeOK, Ids
      <3>2. /\ exitedAt' \in [Tokens -> Nat] /\ lastTrade' \in Nat
            /\ failures' \in [Tokens -> Nat] /\ retryAfter' \in [Tokens -> Nat]
        BY <2>5, <3>1, ConstantsOK DEF FillNotLogged, Least, TypeOK, Snapshot, Books
      <3>3. Snapshot' \in Books
        BY <2>5, <3>1, <3>2, ApplyFillType DEF FillNotLogged, Snapshot, Books, Statuses
      <3> QED
        BY <2>5, <3>3, SaveType DEF FillNotLogged, TypeOK
    <2> QED
      BY <1>9, <2>1, <2>2, <2>3, <2>4, <2>5 DEF SwapOutcome
  <1>10. CASE Crash
    BY <1>10 DEF Crash, Load, TypeOK, Snapshot, Books
  <1>11. ASSUME NEW id \in Ids, Reconcile(id) PROVE TypeOK'
    <2>1. CASE ReconcileFill(id)
      <3>1. Snapshot' \in Books
        BY <2>1, BookFillType DEF ReconcileFill, BookFill, TypeOK, Snapshot, Books, Statuses
      <3> QED
        BY <2>1, <3>1 DEF ReconcileFill, TypeOK
    <2>2. CASE ReconcileFailed(id)
      <3>1. orders' \in [Ids -> Orders]
        BY <2>2, SetStatusType DEF ReconcileFailed, Statuses
      <3> QED
        BY <2>2, <3>1 DEF ReconcileFailed, TypeOK, Snapshot, Books
    <2>3. CASE ReconcileInconclusive(id)
      <3>1. orders' \in [Ids -> Orders]
        BY <2>3, SetStatusType DEF ReconcileInconclusive, Statuses, Unsettled
      <3> QED
        BY <2>3, <3>1 DEF ReconcileInconclusive, TypeOK, Snapshot, Books
    <2>4. CASE ReconcileNotLogged(id)
      <3>1. Snapshot' \in Books
        BY <2>4, BookFillType
        DEF ReconcileNotLogged, TypeOK, Snapshot, Books, Statuses, Unsettled
      <3> QED
        BY <2>4, <3>1 DEF ReconcileNotLogged, TypeOK
    <2> QED
      BY <1>11, <2>1, <2>2, <2>3, <2>4 DEF Reconcile
  <1>12. ASSUME NEW id \in Ids, Land(id) \/ Revert(id) PROVE TypeOK'
    <2>1. id.token \in Tokens
      BY DEF Ids
    <2>2. CASE Land(id)
      BY <2>1, <2>2 DEF Land, Covered, TypeOK, Snapshot
    <2>3. CASE Revert(id)
      BY <2>3 DEF Revert, TypeOK, Snapshot
    <2> QED
      BY <1>12, <2>2, <2>3
  <1>13. ASSUME NEW id \in Ids, NEW size \in Sizes, Attempt(id, size) PROVE TypeOK'
    <2>1. id.token \in Tokens /\ id.action \in Actions
      BY DEF Ids
    <2>2. CASE RejectBeforeSend(id, size)
      <3>1. Snapshot' \in Books
        BY <2>1, <2>2, RecordFailureType DEF RejectBeforeSend, TypeOK, Snapshot, Books
      <3> QED
        BY <2>2, <3>1, SaveType DEF RejectBeforeSend, TypeOK
    <2>3. CASE DropPosition(id)
      <3>1. Snapshot' \in Books
        BY <2>1, <2>3 DEF DropPosition, TypeOK, Snapshot, Books
      <3> QED
        BY <2>3, <3>1, SaveType DEF DropPosition, TypeOK
    <2>4. CASE PrepareOrder(id, size)
      <3>1. SwapAmount(id, size) \in Nat
        BY <2>1, <2>4, ConstantsOK
        DEF PrepareOrder, Sellable, SwapAmount, Least, TypeOK, Actions
      <3>2. orders' \in [Ids -> Orders]
        BY <2>1, <2>4, <3>1
        DEF PrepareOrder, TypeOK, Snapshot, Books, Orders, NoOrder, Statuses, Unsettled
      <3>3. Snapshot' \in Books
        BY <2>4, <3>2 DEF PrepareOrder, TypeOK, Snapshot, Books
      <3> QED
        BY <2>4, <3>3, SaveType DEF PrepareOrder, TypeOK
    <2> QED
      BY <1>13, <2>2, <2>3, <2>4 DEF Attempt
  <1>14. ASSUME NEW t \in Tokens, ReconcileToken(t) \/ Transfer(t) PROVE TypeOK'
    <2>1. CASE ReconcileToken(t)
      BY <2>1 DEF ReconcileToken, TypeOK, Snapshot, Books
    <2>2. CASE Transfer(t)
      BY <2>2 DEF Transfer, TypeOK, Snapshot
    <2> QED
      BY <1>14, <2>1, <2>2
  <1>15. CASE UNCHANGED vars
    BY <1>15 DEF vars, TypeOK, Snapshot
  <1> QED
    BY <1>1, <1>2, <1>3, <1>4, <1>5, <1>6, <1>7, <1>8, <1>9, <1>10, <1>11, <1>12,
       <1>13, <1>14, <1>15 DEF Next

\* The books, the file, the wallet, the chain and the process stay in their
\* types: no step of execute, reconcile or a restart makes a quantity or a
\* balance negative or an order malformed.
THEOREM TypeCorrect == Spec => []TypeOK
  <1> QED
    BY TypeInit, TypeStep, PTL DEF Spec

-----------------------------------------------------------------------------
(* The write-ahead part: what the agent knows is what the file knows.         *)

\* Books with the orders os know every swap the chain has seen.
Knows(os) ==
    \A id \in Ids : chain[id] # "none" =>
        os[id].status # "NONE" /\ os[id].amount = swapped[id]

Agreement ==
    /\ pc \in {"idle", "trading", "sending", "sent", "confirming"} => disk = Snapshot
    /\ \A id \in Ids : ~ Open(disk.orders, id) => orders[id] = disk.orders[id]
    /\ \A id \in Ids : Open(disk.orders, id) =>
          orders[id].status # "NONE" /\ orders[id].amount = disk.orders[id].amount
    /\ todo \subseteq PendingOrders
    /\ pc \notin {"recover", "reconcile"} => todo = {}

Process ==
    /\ pc \in {"sending", "sent", "confirming"} => Open(orders, cur)
    /\ pc = "sending" => chain[cur] = "none"

PersistInv == TypeOK /\ Knows(orders) /\ Knows(disk.orders) /\ Agreement /\ Process

\* What the three updates of an order leave in open_orders.
LEMMA SetStatusFacts ==
  ASSUME TypeOK, NEW id \in Ids, NEW s \in Statuses, SetStatus(id, s)
  PROVE  /\ orders'[id].status = s
         /\ orders'[id].amount = orders[id].amount
         /\ orders'[id].preToken = orders[id].preToken
         /\ orders'[id].preQuote = orders[id].preQuote
         /\ orders'[id].tokenDelta = orders[id].tokenDelta
         /\ \A o \in Ids \ {id} : orders'[o] = orders[o]
  <1>1. orders \in [Ids -> Orders]
    BY BookTypes
  <1> QED
    BY <1>1 DEF SetStatus, Orders

LEMMA ApplyFillFacts ==
  ASSUME TypeOK, NEW id \in Ids, NEW s \in Statuses, ApplyFill(id, s)
  PROVE  /\ orders'[id].status = s
         /\ orders'[id].amount = orders[id].amount
         /\ orders'[id].tokenDelta = TokenDelta(id)
         /\ orders'[id].quoteDelta = QuoteDelta(id)
         /\ \A o \in Ids \ {id} : orders'[o] = orders[o]
  <1>1. orders \in [Ids -> Orders]
    BY BookTypes
  <1> QED
    BY <1>1 DEF ApplyFill, Orders

LEMMA BookFillFacts ==
  ASSUME TypeOK, NEW id \in Ids, BookFill(id)
  PROVE  /\ orders'[id].status = "FILLED"
         /\ orders'[id].amount = orders[id].amount
         /\ orders'[id].tokenDelta = TokenDelta(id)
         /\ orders'[id].quoteDelta = QuoteDelta(id)
         /\ \A o \in Ids \ {id} : orders'[o] = orders[o]
  BY ApplyFillFacts DEF BookFill, Statuses

LEMMA SwapReturnedFacts ==
  ASSUME TypeOK, SwapReturned
  PROVE  /\ cur \in Ids
         /\ orders'[cur].status = "SENT"
         /\ orders'[cur].amount = orders[cur].amount
         /\ orders'[cur].preToken = orders[cur].preToken
         /\ orders'[cur].preQuote = orders[cur].preQuote
         /\ \A o \in Ids \ {cur} : orders'[o] = orders[o]
  <1>1. orders \in [Ids -> Orders] /\ cur \in Ids
    BY BookTypes DEF SwapReturned, TypeOK
  <1> QED
    BY <1>1 DEF SwapReturned, Orders

LEMMA PrepareFacts ==
  ASSUME TypeOK, NEW id \in Ids, NEW size \in Sizes, PrepareOrder(id, size)
  PROVE  /\ orders[id].status = "NONE"
         /\ orders'[id].status = "PENDING"
         /\ orders'[id].amount = SwapAmount(id, size)
         /\ orders'[id].preToken = wallet[id.token]
         /\ orders'[id].preQuote = usdt
         /\ \A o \in Ids \ {id} : orders'[o] = orders[o]
  <1>1. orders \in [Ids -> Orders]
    BY BookTypes
  <1> QED
    BY <1>1 DEF PrepareOrder, MayAttempt, NoOrder

LEMMA SaveFacts ==
  ASSUME Save
  PROVE  disk' = Snapshot' /\ disk'.orders = orders' /\ disk'.cash = cash'
  BY DEF Save, Snapshot

\* A step that saves books with the same open orders keeps the write-ahead
\* part, whatever else it does to the books.
LEMMA PersistSave ==
  ASSUME PersistInv, TypeOK', Save, UNCHANGED <<chain, swapped>>,
         Knows(orders)', todo' = {}, Process'
  PROVE  PersistInv'
  <1>1. Knows(disk.orders)'
    BY SaveFacts DEF Knows
  <1>2. Agreement'
    BY SaveFacts DEF Agreement, Open, PendingOrders, Unsettled
  <1> QED
    BY <1>1, <1>2 DEF PersistInv

LEMMA FailAttemptPersist ==
  ASSUME PersistInv, TypeOK', cur \in Ids, NEW s \in Statuses \ {"NONE"},
         FailAttempt(s), pc \in {"sending", "sent", "confirming"}
  PROVE  PersistInv'
  <1>1. SetStatus(cur, s) /\ Save /\ UNCHANGED <<chain, swapped>> /\ pc' = "trading"
        /\ todo' = {}
    BY DEF FailAttempt, chainVars, PersistInv, Agreement
  <1>2. Knows(orders)'
    BY <1>1, SetStatusFacts DEF Knows, PersistInv
  <1>3. Process'
    BY <1>1 DEF Process
  <1> QED
    BY <1>1, <1>2, <1>3, PersistSave

LEMMA PersistInit == Init => PersistInv
  <1> SUFFICES ASSUME Init PROVE PersistInv
    OBVIOUS
  <1>1. TypeOK
    BY TypeInit
  <1>2. \A id \in Ids : orders[id] = NoOrder /\ disk.orders[id] = NoOrder /\ chain[id] = "none"
    BY DEF Init, EmptyBooks
  <1>3. todo = {} /\ pc = "down"
    BY DEF Init
  <1> QED
    BY <1>1, <1>2, <1>3 DEF PersistInv, Knows, Agreement, Process, Open, NoOrder, Unsettled

LEMMA PersistStep == PersistInv /\ [Next]_vars => PersistInv'
  <1> SUFFICES ASSUME PersistInv, [Next]_vars PROVE PersistInv'
    OBVIOUS
  <1>0. TypeOK /\ TypeOK'
    BY TypeStep DEF PersistInv
  <1> USE <1>0 DEF bookVars, chainVars, ctlVars
  <1>1. CASE Start
    BY <1>1 DEF Start, PersistInv, Knows, Agreement, Process, Open, PendingOrders, Snapshot
  <1>2. CASE ReconcileCash
    BY <1>2 DEF ReconcileCash, PersistInv, Knows, Agreement, Process, Open, PendingOrders
  <1>3. CASE PortfolioError
    BY <1>3 DEF PortfolioError, Load, PersistInv, Knows, Agreement, Process, Open,
                  PendingOrders, Unsettled
  <1>4. CASE FinishStartup
    <2>1. Knows(orders)' /\ Process' /\ todo' = {}
      BY <1>4 DEF FinishStartup, PersistInv, Knows, Agreement, Process
    <2> QED
      BY <1>4, <2>1, PersistSave DEF FinishStartup
  <1>5. CASE BeginTick
    BY <1>5 DEF BeginTick, PersistInv, Knows, Agreement, Process, Open, PendingOrders, Snapshot
  <1>6. CASE FinishReconcile
    <2>1. Knows(orders)' /\ Process' /\ todo' = {}
      BY <1>6 DEF FinishReconcile, PersistInv, Knows, Agreement, Process
    <2> QED
      BY <1>6, <2>1, PersistSave DEF FinishReconcile
  <1>7. CASE EndTick
    <2>1. Knows(orders)' /\ Process' /\ todo' = {}
      BY <1>7 DEF EndTick, PersistInv, Knows, Agreement, Process
    <2> QED
      BY <1>7, <2>1, PersistSave DEF EndTick
  <1>8. CASE Broadcast
    <2>1. cur \in Ids /\ Open(orders, cur) /\ disk.orders = orders /\ todo = {}
      BY <1>8 DEF Broadcast, PersistInv, Agreement, Process, TypeOK, Snapshot
    <2>2. orders' = orders /\ disk' = disk /\ Snapshot' = Snapshot
      BY <1>8 DEF Broadcast, Snapshot
    <2>3. Knows(orders)' /\ Knows(disk.orders)'
      BY <1>8, <2>1, <2>2 DEF Broadcast, PersistInv, Knows, Open, Unsettled, TypeOK
    <2>4. Agreement' /\ Process'
      BY <1>8, <2>1, <2>2 DEF Broadcast, PersistInv, Agreement, Process, Open, PendingOrders
    <2> QED
      BY <2>3, <2>4 DEF PersistInv
  <1>9. CASE SwapOutcome
    <2>1. CASE SwapReturned
      <3>1. Knows(orders)'
        BY <2>1, SwapReturnedFacts DEF SwapReturned, PersistInv, Knows
      <3>2. Process' /\ todo' = {}
        BY <2>1, SwapReturnedFacts
        DEF SwapReturned, PersistInv, Agreement, Process, Open, Unsettled
      <3> QED
        BY <2>1, <3>1, <3>2, PersistSave DEF SwapReturned
    <2>2. CASE SwapAmbiguous \/ ConfirmUnknown
      BY <2>2, FailAttemptPersist
      DEF SwapAmbiguous, ConfirmUnknown, TypeOK, Statuses, Unsettled
    <2>3. CASE SwapError \/ ConfirmError
      BY <2>3, FailAttemptPersist DEF SwapError, ConfirmError, TypeOK, Statuses
    <2>4. CASE ConfirmFill
      <3>1. cur \in Ids
        BY <2>4 DEF ConfirmFill, TypeOK
      <3>2. Knows(orders)'
        BY <2>4, <3>1, BookFillFacts DEF ConfirmFill, PersistInv, Knows
      <3>3. Process' /\ todo' = {}
        BY <2>4 DEF ConfirmFill, PersistInv, Agreement, Process
      <3> QED
        BY <2>4, <3>2, <3>3, PersistSave DEF ConfirmFill
    <2>5. CASE FillNotLogged
      <3>1. cur \in Ids /\ ApplyFill(cur, "FAILED")
        BY <2>5 DEF FillNotLogged, TypeOK
      <3>2. Knows(orders)'
        BY <2>5, <3>1, ApplyFillFacts DEF FillNotLogged, PersistInv, Knows, Statuses
      <3>3. Process' /\ todo' = {}
        BY <2>5 DEF FillNotLogged, PersistInv, Agreement, Process
      <3> QED
        BY <2>5, <3>2, <3>3, PersistSave DEF FillNotLogged
    <2> QED
      BY <1>9, <2>1, <2>2, <2>3, <2>4, <2>5 DEF SwapOutcome
  <1>10. CASE Crash
    BY <1>10 DEF Crash, Load, PersistInv, Knows, Agreement, Process, Open,
                  PendingOrders, Unsettled
  <1>11. ASSUME NEW id \in Ids, Reconcile(id) PROVE PersistInv'
    <2>1. /\ pc \in {"recover", "reconcile"} /\ pc' = pc /\ cur' = cur
          /\ id \in todo /\ todo' = todo \ {id}
          /\ disk' = disk /\ chain' = chain /\ swapped' = swapped
      BY <1>11 DEF Reconcile, ReconcileFill, ReconcileNotLogged, ReconcileFailed, ReconcileInconclusive
    <2>2. /\ orders'[id].status # "NONE" /\ orders'[id].amount = orders[id].amount
          /\ \A o \in Ids \ {id} : orders'[o] = orders[o]
      <3>1. CASE ReconcileFill(id)
        BY <3>1, BookFillFacts DEF ReconcileFill
      <3>2. CASE ReconcileFailed(id)
        BY <3>2, SetStatusFacts DEF ReconcileFailed, Statuses
      <3>3. CASE ReconcileInconclusive(id)
        BY <3>3, SetStatusFacts DEF ReconcileInconclusive, Statuses, Unsettled
      <3>4. CASE ReconcileNotLogged(id)
        BY <3>4, ApplyFillFacts DEF ReconcileNotLogged, Statuses, Unsettled
      <3> QED
        BY <1>11, <3>1, <3>2, <3>3, <3>4 DEF Reconcile
    <2>3. Open(orders, id)
      BY <2>1 DEF PersistInv, Agreement, PendingOrders, Open
    <2>4. Knows(orders)' /\ Knows(disk.orders)'
      BY <2>1, <2>2 DEF PersistInv, Knows
    <2>5. Agreement'
      <3>1. \A o \in Ids : ~ Open(disk.orders, o) => orders'[o] = disk.orders[o]
        BY <2>2, <2>3 DEF PersistInv, Agreement, Open
      <3>2. \A o \in Ids : Open(disk.orders, o) =>
              orders'[o].status # "NONE" /\ orders'[o].amount = disk.orders[o].amount
        BY <2>2, <2>3 DEF PersistInv, Agreement
      <3>3. todo' \subseteq PendingOrders'
        BY <2>1, <2>2 DEF PersistInv, Agreement, PendingOrders
      <3> QED
        BY <2>1, <3>1, <3>2, <3>3 DEF Agreement, Open
    <2>6. Process'
      BY <2>1 DEF Process
    <2> QED
      BY <2>4, <2>5, <2>6 DEF PersistInv
  <1>12. ASSUME NEW id \in Ids, Land(id) \/ Revert(id) PROVE PersistInv'
    <2>1. /\ chain[id] = "mempool" /\ orders' = orders /\ disk' = disk
          /\ Snapshot' = Snapshot /\ swapped' = swapped
          /\ pc' = pc /\ cur' = cur /\ todo' = todo
          /\ chain'[id] # "none" /\ \A o \in Ids \ {id} : chain'[o] = chain[o]
      BY <1>12 DEF Land, Revert, Snapshot, TypeOK
    <2>2. Knows(orders)' /\ Knows(disk.orders)'
      BY <2>1 DEF PersistInv, Knows
    <2>3. Agreement' /\ Process'
      BY <2>1 DEF PersistInv, Agreement, Process, Open, PendingOrders, TypeOK
    <2> QED
      BY <2>2, <2>3 DEF PersistInv
  <1>13. ASSUME NEW id \in Ids, NEW size \in Sizes, Attempt(id, size) PROVE PersistInv'
    <2>1. CASE RejectBeforeSend(id, size) \/ DropPosition(id)
      <3>1. orders' = orders /\ chain' = chain /\ swapped' = swapped /\ pc' = pc
            /\ pc = "trading" /\ todo' = todo /\ Save
        BY <2>1 DEF RejectBeforeSend, DropPosition, MayAttempt
      <3>2. Knows(orders)' /\ Process' /\ todo' = {}
        BY <3>1 DEF PersistInv, Knows, Agreement, Process
      <3> QED
        BY <3>1, <3>2, PersistSave
    <2>2. CASE PrepareOrder(id, size)
      <3>1. chain[id] = "none"
        BY <2>2, PrepareFacts DEF PersistInv, Knows
      <3>2. Knows(orders)'
        BY <2>2, <3>1, PrepareFacts DEF PrepareOrder, PersistInv, Knows
      <3>3. Process' /\ todo' = {}
        BY <2>2, <3>1, PrepareFacts
        DEF PrepareOrder, MayAttempt, PersistInv, Agreement, Process, Open, Unsettled
      <3> QED
        BY <2>2, <3>2, <3>3, PersistSave DEF PrepareOrder
    <2> QED
      BY <1>13, <2>1, <2>2 DEF Attempt
  <1>14. ASSUME NEW t \in Tokens, ReconcileToken(t) \/ Transfer(t) PROVE PersistInv'
    <2>1. CASE ReconcileToken(t)
      BY <2>1 DEF ReconcileToken, PersistInv, Knows, Agreement, Process, Open, PendingOrders
    <2>2. CASE Transfer(t)
      BY <2>2 DEF Transfer, PersistInv, Knows, Agreement, Process, Open, PendingOrders, Snapshot
    <2> QED
      BY <1>14, <2>1, <2>2
  <1>15. CASE UNCHANGED vars
    BY <1>15 DEF vars, PersistInv, Knows, Agreement, Process, Open, PendingOrders, Snapshot
  <1> QED
    BY <1>1, <1>2, <1>3, <1>4, <1>5, <1>6, <1>7, <1>8, <1>9, <1>10, <1>11, <1>12,
       <1>13, <1>14, <1>15 DEF Next

LEMMA PersistAlways == Spec => []PersistInv
  <1> QED
    BY PersistInit, PersistStep, PTL DEF Spec

\* The write-ahead promise of state.py: under every fault the model has,
\* wherever the process dies, a swap the chain has seen is in the state file
\* with the amount it carries.
THEOREM WriteAhead == Spec => []PersistedBeforeSend
  <1>1. PersistInv => PersistedBeforeSend
    BY DEF PersistInv, Knows, PersistedBeforeSend
  <1> QED
    BY <1>1, PersistAlways, PTL

-----------------------------------------------------------------------------
(* The count of trades.  The set of filled orders is finite because it starts *)
(* empty and grows by one order at a time, for any set of tokens.             *)

\* Every log entry of a fill can be written.
Logged == "logError" \notin Faults

Filled(os) == {id \in Ids : os[id].status = "FILLED"}

Counts(n, os) == IsFiniteSet(Filled(os)) /\ n = Cardinality(Filled(os))

CountInv == PersistInv /\ Counts(trades, orders) /\ Counts(disk.trades, disk.orders)

\* An update of one order that fills none leaves the count right.
LEMMA SameCount ==
  ASSUME Counts(trades, orders), trades' = trades, NEW id \in Ids,
         \A o \in Ids \ {id} : orders'[o] = orders[o],
         orders[id].status # "FILLED", orders'[id].status # "FILLED"
  PROVE  Counts(trades, orders)'
  <1>1. Filled(orders)' = Filled(orders)
    BY DEF Filled
  <1> QED
    BY <1>1 DEF Counts

\* Filling an open order adds it to the filled ones, and one to the count.
LEMMA FillCounts ==
  ASSUME TypeOK, Counts(trades, orders), NEW id \in Ids, Open(orders, id), BookFill(id)
  PROVE  Counts(trades, orders)'
  <1>1. trades' = trades + 1 /\ id \notin Filled(orders)
    BY DEF BookFill, ApplyFill, Filled, Open, Unsettled
  <1>2. Filled(orders)' = Filled(orders) \cup {id}
    BY BookFillFacts DEF Filled
  <1>3. IsFiniteSet(Filled(orders) \cup {id})
        /\ Cardinality(Filled(orders) \cup {id}) = Cardinality(Filled(orders)) + 1
    BY <1>1, FS_AddElement DEF Counts
  <1> QED
    BY <1>1, <1>2, <1>3 DEF Counts

LEMMA CountSaved ==
  ASSUME Counts(trades, orders)', Save
  PROVE  Counts(disk.trades, disk.orders)'
  BY DEF Save, Snapshot, Counts, Filled

LEMMA CountKept ==
  ASSUME Counts(trades, orders), UNCHANGED <<trades, orders>>
  PROVE  Counts(trades, orders)'
  BY DEF Counts, Filled

LEMMA DiskCountKept ==
  ASSUME Counts(disk.trades, disk.orders), UNCHANGED disk
  PROVE  Counts(disk.trades, disk.orders)'
  BY DEF Counts, Filled

LEMMA CountStep ==
  ASSUME Logged
  PROVE  CountInv /\ [Next]_vars => CountInv'
  <1> SUFFICES ASSUME CountInv, [Next]_vars PROVE CountInv'
    OBVIOUS
  <1>0. /\ PersistInv /\ PersistInv' /\ TypeOK
        /\ Counts(trades, orders) /\ Counts(disk.trades, disk.orders)
    BY PersistStep DEF CountInv, PersistInv
  <1>a. ASSUME UNCHANGED <<trades, orders>>, Save \/ UNCHANGED disk PROVE CountInv'
    BY <1>0, <1>a, CountKept, DiskCountKept, CountSaved DEF CountInv
  <1>b. ASSUME Counts(trades, orders)', Save \/ UNCHANGED disk PROVE CountInv'
    BY <1>0, <1>b, DiskCountKept, CountSaved DEF CountInv
  <1> USE DEF bookVars, chainVars, ctlVars
  <1>1. CASE Start \/ BeginTick \/ ReconcileCash \/ Broadcast
    BY <1>1, <1>a DEF Start, BeginTick, ReconcileCash, Broadcast
  <1>2. CASE PortfolioError \/ Crash
    <2>1. UNCHANGED disk /\ trades' = disk.trades /\ orders' = disk.orders
      BY <1>2 DEF PortfolioError, Crash, Load
    <2>2. Counts(trades, orders)'
      BY <1>0, <2>1 DEF Counts, Filled
    <2> QED
      BY <1>b, <2>1, <2>2
  <1>3. CASE FinishStartup \/ FinishReconcile \/ EndTick
    BY <1>3, <1>a DEF FinishStartup, FinishReconcile, EndTick
  <1>4. CASE SwapOutcome
    <2>1. cur \in Ids /\ Open(orders, cur) /\ orders[cur].status # "FILLED"
      BY <1>0, <1>4 DEF SwapOutcome, SwapReturned, SwapAmbiguous, SwapError, ConfirmFill, FillNotLogged,
                        ConfirmUnknown, ConfirmError, PersistInv, Process, TypeOK, Open,
                        Unsettled
    <2>2. CASE SwapReturned
      BY <1>0, <1>b, <2>1, <2>2, SwapReturnedFacts, SameCount DEF SwapReturned
    <2>3. ASSUME NEW s \in {"UNKNOWN", "FAILED"}, FailAttempt(s) PROVE CountInv'
      <3>1. SetStatus(cur, s) /\ trades' = trades /\ Save /\ s \in Statuses
        BY <2>3 DEF FailAttempt, Statuses, Unsettled
      <3>2. orders'[cur].status = s /\ \A o \in Ids \ {cur} : orders'[o] = orders[o]
        BY <1>0, <2>1, <3>1, SetStatusFacts
      <3> QED
        BY <1>0, <1>b, <2>1, <3>1, <3>2, SameCount
    <2>4. CASE ConfirmFill
      BY <1>0, <1>b, <2>1, <2>4, FillCounts DEF ConfirmFill
    <2>5. ~ FillNotLogged
      BY DEF FillNotLogged, Logged
    <2> QED
      BY <1>4, <2>2, <2>3, <2>4, <2>5
      DEF SwapOutcome, SwapAmbiguous, SwapError, ConfirmUnknown, ConfirmError
  <1>5. ASSUME NEW id \in Ids, Reconcile(id) PROVE CountInv'
    <2>1. Open(orders, id) /\ orders[id].status # "FILLED" /\ UNCHANGED disk
      BY <1>0, <1>5 DEF Reconcile, ReconcileFill, ReconcileNotLogged, ReconcileFailed, ReconcileInconclusive,
                        PersistInv, Agreement, PendingOrders, Open, Unsettled
    <2>2. CASE ReconcileFill(id)
      BY <1>0, <1>b, <2>1, <2>2, FillCounts DEF ReconcileFill
    <2>3. ASSUME NEW s \in {"UNKNOWN", "FAILED"}, SetStatus(id, s), trades' = trades
          PROVE  CountInv'
      <3>1. orders'[id].status = s /\ \A o \in Ids \ {id} : orders'[o] = orders[o]
        BY <1>0, <2>3, SetStatusFacts DEF Statuses, Unsettled
      <3> QED
        BY <1>0, <1>b, <2>1, <2>3, <3>1, SameCount
    <2>4. ~ ReconcileNotLogged(id)
      BY DEF ReconcileNotLogged, Logged
    <2> QED
      BY <1>5, <2>2, <2>3, <2>4 DEF Reconcile, ReconcileFailed, ReconcileInconclusive
  <1>6. ASSUME NEW id \in Ids, Land(id) \/ Revert(id) PROVE CountInv'
    BY <1>6, <1>a DEF Land, Revert
  <1>7. ASSUME NEW id \in Ids, NEW size \in Sizes, Attempt(id, size) PROVE CountInv'
    <2>1. CASE RejectBeforeSend(id, size) \/ DropPosition(id)
      BY <1>a, <2>1 DEF RejectBeforeSend, DropPosition
    <2>2. CASE PrepareOrder(id, size)
      BY <1>0, <1>b, <2>2, PrepareFacts, SameCount DEF PrepareOrder
    <2> QED
      BY <1>7, <2>1, <2>2 DEF Attempt
  <1>8. ASSUME NEW t \in Tokens, ReconcileToken(t) \/ Transfer(t) PROVE CountInv'
    BY <1>8, <1>a DEF ReconcileToken, Transfer
  <1>9. CASE UNCHANGED vars
    BY <1>9, <1>a DEF vars
  <1> QED
    BY <1>1, <1>2, <1>3, <1>4, <1>5, <1>6, <1>7, <1>8, <1>9 DEF Next

\* trade_count_total is the number of filled orders, in memory and in the state
\* file: an order a restart finds still open is counted by whoever settles it,
\* once.  The one fault excluded is a log entry that cannot be written after its
\* fill is booked, which reopens or fails a counted order (agent.py:329, :469).
THEOREM EachFillIsCountedOnce ==
  ASSUME Logged
  PROVE  Spec => []CountedOnce
  <1>1. Init => CountInv
    <2> SUFFICES ASSUME Init PROVE CountInv
      OBVIOUS
    <2>1. Filled(orders) = {} /\ Filled(disk.orders) = {} /\ trades = 0 /\ disk.trades = 0
      BY DEF Init, EmptyBooks, NoOrder, Filled
    <2> QED
      BY <2>1, PersistInit, FS_EmptySet DEF CountInv, Counts
  <1>2. CountInv /\ [Next]_vars => CountInv'
    BY CountStep
  <1>3. CountInv => CountedOnce
    BY DEF CountInv, Counts, Filled, CountedOnce
  <1> QED
    BY <1>1, <1>2, <1>3, PTL DEF Spec

-----------------------------------------------------------------------------
(* The part that needs polls and log entries that do not raise after a swap,  *)
(* and a wallet its owner leaves alone.                                       *)

Undisturbed == Logged /\ "pollError" \notin Faults /\ "transfer" \notin Faults

\* What a swap has changed of its token's balance so far.
Moved(id) ==
    IF chain[id] # "landed" THEN 0
    ELSE IF id.action = "buy" THEN swapped[id] ELSE 0 - swapped[id]

\* Books with the orders os judge the chain rightly, and one order per token
\* is open, so its balance snapshot accounts for the wallet.
Judges(os) ==
    /\ \A id \in Ids :
          /\ chain[id] = "mempool" => Open(os, id)
          /\ os[id].status = "FILLED" =>
                chain[id] = "landed" /\ os[id].tokenDelta = swapped[id]
          /\ os[id].status = "FAILED" => chain[id] \in {"none", "reverted"}
          /\ Open(os, id) => wallet[id.token] = os[id].preToken + Moved(id)
    /\ \A i, j \in Ids : Open(os, i) /\ Open(os, j) /\ i.token = j.token => i = j

\* Cash that differs from the quote balance is owed to a landed open order.
Owed(os, c) == c # usdt => \E id \in Ids : Open(os, id) /\ chain[id] = "landed"

SafeInv ==
    /\ PersistInv
    /\ Judges(orders) /\ Judges(disk.orders)
    /\ Owed(orders, cash) /\ Owed(disk.orders, disk.cash)

\* A fill's deltas come from a snapshot nothing but the order's own swap has
\* disturbed, so they are that swap's.
LEMMA FillIsLanded ==
  ASSUME TypeOK, Judges(orders), NEW id \in Ids, Open(orders, id), BookFill(id)
  PROVE  chain[id] = "landed" /\ TokenDelta(id) = swapped[id]
  <1>1. orders[id] \in Orders /\ id.token \in Tokens /\ swapped[id] \in Nat
        /\ wallet[id.token] \in Nat
    BY BookTypes DEF Ids, TypeOK
  <1>2. wallet[id.token] = orders[id].preToken + Moved(id) /\ orders[id].preToken \in Nat
    BY <1>1 DEF Judges, Orders
  <1>3. TokenDelta(id) > 0
    BY DEF BookFill, ApplyFill, Observable
  <1> QED
    BY <1>1, <1>2, <1>3 DEF TokenDelta, Moved

\* An open order may change its open status, or close with what its swap did.
LEMMA Resettle ==
  ASSUME TypeOK, Judges(orders), NEW id \in Ids, Open(orders, id),
         UNCHANGED <<chain, swapped, wallet>>,
         \A o \in Ids \ {id} : orders'[o] = orders[o],
         \/ orders'[id].status \in Unsettled /\ orders'[id].preToken = orders[id].preToken
         \/ orders'[id].status = "FILLED" /\ chain[id] = "landed"
               /\ orders'[id].tokenDelta = swapped[id]
         \/ orders'[id].status = "FAILED" /\ chain[id] \in {"none", "reverted"}
  PROVE  Judges(orders)'
  <1>1. \A o \in Ids : Open(orders, o)' => Open(orders, o)
    BY DEF Open
  <1>2. \A i, j \in Ids : Open(orders, i)' /\ Open(orders, j)' /\ i.token = j.token => i = j
    BY <1>1 DEF Judges
  <1>3. \A o \in Ids \ {id} :
          /\ chain'[o] = "mempool" => Open(orders, o)'
          /\ orders'[o].status = "FILLED" =>
                chain'[o] = "landed" /\ orders'[o].tokenDelta = swapped'[o]
          /\ orders'[o].status = "FAILED" => chain'[o] \in {"none", "reverted"}
          /\ Open(orders, o)' => wallet'[o.token] = orders'[o].preToken + Moved(o)'
    BY DEF Judges, Open, Moved
  <1>4. /\ chain'[id] = "mempool" => Open(orders, id)'
        /\ orders'[id].status = "FILLED" =>
              chain'[id] = "landed" /\ orders'[id].tokenDelta = swapped'[id]
        /\ orders'[id].status = "FAILED" => chain'[id] \in {"none", "reverted"}
        /\ Open(orders, id)' => wallet'[id.token] = orders'[id].preToken + Moved(id)'
    BY DEF Judges, Open, Moved, Unsettled
  <1> QED
    BY <1>2, <1>3, <1>4 DEF Judges

\* The same change never hides a debt: only a landed order owes cash.
LEMMA StillOwed ==
  ASSUME Owed(orders, cash), NEW id \in Ids, UNCHANGED <<chain, usdt, cash>>,
         \A o \in Ids \ {id} : orders'[o] = orders[o],
         orders'[id].status \in Unsettled \/ chain[id] # "landed"
  PROVE  Owed(orders, cash)'
  BY DEF Owed, Open

LEMMA SaveSafe ==
  ASSUME Save, PersistInv', Judges(orders)', Owed(orders, cash)'
  PROVE  SafeInv'
  <1>1. Judges(disk.orders)'
    BY SaveFacts DEF Judges, Open
  <1>2. Owed(disk.orders, disk.cash)'
    BY SaveFacts DEF Owed, Open
  <1> QED
    BY <1>1, <1>2 DEF SafeInv

\* A step that leaves orders, cash, the chain and the wallet alone.
LEMMA SafeFrame ==
  ASSUME SafeInv, PersistInv',
         UNCHANGED <<orders, cash, wallet, usdt, chain, swapped>>,
         Save \/ UNCHANGED disk
  PROVE  SafeInv'
  <1>1. Judges(orders)' /\ Owed(orders, cash)'
    BY DEF SafeInv, Judges, Owed, Open, Moved
  <1>2. CASE Save
    BY <1>1, <1>2, SaveSafe
  <1>3. CASE UNCHANGED disk
    <2>1. Judges(disk.orders)' /\ Owed(disk.orders, disk.cash)'
      BY <1>3 DEF SafeInv, Judges, Owed, Open, Moved
    <2> QED
      BY <1>1, <2>1 DEF SafeInv
  <1> QED
    BY <1>2, <1>3

LEMMA FailAttemptSafe ==
  ASSUME SafeInv, PersistInv', cur \in Ids, NEW s \in {"UNKNOWN", "FAILED"},
         FailAttempt(s), pc \in {"sending", "sent", "confirming"},
         s = "FAILED" => chain[cur] = "none"
  PROVE  SafeInv'
  <1>1. SetStatus(cur, s) /\ Save /\ UNCHANGED <<chain, swapped, wallet, usdt, cash>>
    BY DEF FailAttempt, chainVars
  <1>2. TypeOK /\ Open(orders, cur) /\ s \in Statuses
    BY DEF SafeInv, PersistInv, Process, Statuses, Unsettled
  <1>3. orders'[cur].status = s /\ orders'[cur].preToken = orders[cur].preToken
        /\ \A o \in Ids \ {cur} : orders'[o] = orders[o]
    BY <1>1, <1>2, SetStatusFacts
  <1>4. Judges(orders)'
    BY <1>1, <1>2, <1>3, Resettle DEF SafeInv, Unsettled
  <1>5. Owed(orders, cash)'
    BY <1>1, <1>3, StillOwed DEF SafeInv, Unsettled
  <1> QED
    BY <1>1, <1>4, <1>5, SaveSafe

LEMMA SafeInit == Init => SafeInv
  <1> SUFFICES ASSUME Init PROVE SafeInv
    OBVIOUS
  <1>1. PersistInv
    BY PersistInit
  <1>2. \A id \in Ids : orders[id] = NoOrder /\ disk.orders[id] = NoOrder /\ chain[id] = "none"
    BY DEF Init, EmptyBooks
  <1>3. cash = usdt /\ disk.cash = usdt
    BY DEF Init, EmptyBooks
  <1> QED
    BY <1>1, <1>2, <1>3 DEF SafeInv, Judges, Owed, Open, NoOrder, Unsettled

\* A landing moves the wallet of exactly one open order's token.
LEMMA LandSafe ==
  ASSUME SafeInv, PersistInv', NEW id \in Ids, Land(id)
  PROVE  SafeInv'
  <1>1. TypeOK /\ Open(orders, id) /\ Open(disk.orders, id) /\ id.token \in Tokens
        /\ swapped[id] \in Nat
    BY DEF SafeInv, PersistInv, Judges, Land, Ids, TypeOK
  <1>2. /\ orders' = orders /\ cash' = cash /\ disk' = disk /\ swapped' = swapped
        /\ chain'[id] = "landed" /\ chain[id] = "mempool"
        /\ \A o \in Ids \ {id} : chain'[o] = chain[o]
    BY <1>1 DEF Land, bookVars, TypeOK
  <1>3. /\ wallet'[id.token] = IF id.action = "buy" THEN wallet[id.token] + swapped[id]
                                                     ELSE wallet[id.token] - swapped[id]
        /\ \A t \in Tokens \ {id.token} : wallet'[t] = wallet[t]
        /\ wallet[id.token] \in Nat
    BY <1>1 DEF Land, TypeOK
  <1>4. Moved(id) = 0 /\ \A o \in Ids \ {id} : Moved(o)' = Moved(o)
    BY <1>2 DEF Moved
  <1>5. Moved(id)' = IF id.action = "buy" THEN swapped[id] ELSE 0 - swapped[id]
    BY <1>2 DEF Moved
  <1>6. Judges(orders)'
    <2>1. \A o \in Ids \ {id} : Open(orders, o) => o.token # id.token /\ o.token \in Tokens
      BY <1>1 DEF SafeInv, Judges, Ids
    <2>2. wallet[id.token] = orders[id].preToken + Moved(id) /\ orders[id].preToken \in Nat
      BY <1>1, BookTypes DEF SafeInv, Judges, Orders
    <2>3. wallet'[id.token] = orders'[id].preToken + Moved(id)'
      BY <1>1, <1>2, <1>3, <1>4, <1>5, <2>2
    <2>4. \A o \in Ids : Open(orders, o) => wallet'[o.token] = orders'[o].preToken + Moved(o)'
      BY <1>2, <1>3, <1>4, <2>1, <2>3 DEF SafeInv, Judges
    <2> QED
      BY <1>1, <1>2, <2>4 DEF SafeInv, Judges, Open, Unsettled
  <1>7. Judges(disk.orders)'
    <2>1. \A o \in Ids \ {id} : Open(disk.orders, o) => o.token # id.token /\ o.token \in Tokens
      BY <1>1 DEF SafeInv, Judges, Ids
    <2>2. wallet[id.token] = disk.orders[id].preToken + Moved(id)
          /\ disk.orders[id].preToken \in Nat
      BY <1>1, BookTypes DEF SafeInv, Judges, Orders
    <2>3. wallet'[id.token] = disk'.orders[id].preToken + Moved(id)'
      BY <1>1, <1>2, <1>3, <1>4, <1>5, <2>2
    <2>4. \A o \in Ids : Open(disk.orders, o) =>
            wallet'[o.token] = disk'.orders[o].preToken + Moved(o)'
      BY <1>2, <1>3, <1>4, <2>1, <2>3 DEF SafeInv, Judges
    <2> QED
      BY <1>1, <1>2, <2>4 DEF SafeInv, Judges, Open, Unsettled
  <1>8. Owed(orders, cash)' /\ Owed(disk.orders, disk.cash)'
    BY <1>1, <1>2 DEF Owed, Open
  <1> QED
    BY <1>6, <1>7, <1>8 DEF SafeInv

\* The chain changes for one order without moving the wallet: a broadcast of
\* an open order, or a revert.
LEMMA ChainSafe ==
  ASSUME SafeInv, PersistInv', NEW id \in Ids,
         UNCHANGED <<orders, cash, disk, wallet, usdt>>,
         \A o \in Ids \ {id} : chain'[o] = chain[o] /\ swapped'[o] = swapped[o],
         chain[id] \in {"none", "mempool"}, chain'[id] \in {"mempool", "reverted"},
         Open(orders, id), Open(disk.orders, id)
  PROVE  SafeInv'
  <1>1. \A o \in Ids : Moved(o)' = Moved(o)
    BY DEF Moved
  <1>2. Judges(orders)'
    BY <1>1 DEF SafeInv, Judges, Open, Unsettled
  <1>3. Judges(disk.orders)'
    BY <1>1 DEF SafeInv, Judges, Open, Unsettled
  <1>4. Owed(orders, cash)' /\ Owed(disk.orders, disk.cash)'
    BY DEF SafeInv, Owed, Open
  <1> QED
    BY <1>2, <1>3, <1>4 DEF SafeInv

LEMMA ReconcileSafe ==
  ASSUME Undisturbed, SafeInv, PersistInv', NEW id \in Ids, Reconcile(id)
  PROVE  SafeInv'
  <1>0. ~ ReconcileNotLogged(id)
    BY DEF ReconcileNotLogged, Undisturbed, Logged
  <1>1. TypeOK /\ id \in todo /\ disk' = disk
        /\ UNCHANGED <<chain, swapped, wallet, usdt>>
    BY DEF SafeInv, PersistInv, Reconcile, ReconcileFill, ReconcileNotLogged, ReconcileFailed,
           ReconcileInconclusive, chainVars
  <1>2. Open(orders, id)
    BY <1>1 DEF SafeInv, PersistInv, Agreement, PendingOrders, Open
  <1>3. Judges(orders)' /\ Owed(orders, cash)'
    <2>1. CASE ReconcileFill(id)
      <3>1. BookFill(id) /\ cash' = usdt
        BY <2>1 DEF ReconcileFill, BookFill, ApplyFill
      <3>2. chain[id] = "landed" /\ TokenDelta(id) = swapped[id]
        BY <1>1, <1>2, <3>1, FillIsLanded DEF SafeInv
      <3>3. Judges(orders)'
        BY <1>1, <1>2, <3>1, <3>2, BookFillFacts, Resettle DEF SafeInv
      <3> QED
        BY <1>1, <3>1, <3>3 DEF Owed
    <2>2. CASE ReconcileFailed(id)
      <3>1. SetStatus(id, "FAILED") /\ chain[id] = "reverted" /\ cash' = cash
        BY <2>2 DEF ReconcileFailed
      <3>2. Judges(orders)'
        BY <1>1, <1>2, <3>1, SetStatusFacts, Resettle DEF SafeInv, Statuses
      <3>3. Owed(orders, cash)'
        BY <1>1, <3>1, SetStatusFacts, StillOwed DEF SafeInv, Statuses
      <3> QED
        BY <3>2, <3>3
    <2>3. CASE ReconcileInconclusive(id)
      <3>1. SetStatus(id, "UNKNOWN") /\ cash' = cash
        BY <2>3 DEF ReconcileInconclusive
      <3>2. Judges(orders)'
        BY <1>1, <1>2, <3>1, SetStatusFacts, Resettle DEF SafeInv, Statuses, Unsettled
      <3>3. Owed(orders, cash)'
        BY <1>1, <3>1, SetStatusFacts, StillOwed DEF SafeInv, Statuses, Unsettled
      <3> QED
        BY <3>2, <3>3
    <2> QED
      BY <1>0, <2>1, <2>2, <2>3 DEF Reconcile
  <1>4. Judges(disk.orders)' /\ Owed(disk.orders, disk.cash)'
    BY <1>1 DEF SafeInv, Judges, Owed, Open, Moved
  <1> QED
    BY <1>3, <1>4 DEF SafeInv

\* A new order snapshots a wallet no other open order of its token may move.
LEMMA PrepareSafe ==
  ASSUME SafeInv, PersistInv', NEW id \in Ids, NEW size \in Sizes, PrepareOrder(id, size)
  PROVE  SafeInv'
  <1>1. TypeOK /\ Save /\ UNCHANGED <<chain, swapped, wallet, usdt, cash>>
        /\ \A o \in Ids : Open(orders, o) => o.token # id.token
    BY DEF SafeInv, PersistInv, PrepareOrder, MayAttempt, HasUnresolvedOrder,
           PendingOrders, Open, chainVars
  <1>2. chain[id] = "none" /\ ~ Open(orders, id)
    BY PrepareFacts, <1>1 DEF SafeInv, PersistInv, Knows, Open, Unsettled
  <1>3. wallet[id.token] \in Nat /\ Moved(id)' = 0
        /\ \A o \in Ids : Moved(o)' = Moved(o)
    BY <1>1, <1>2 DEF Moved, TypeOK, Ids
  <1>4. \A o \in Ids \ {id} : Open(orders, o)' <=> Open(orders, o)
    BY <1>1, PrepareFacts DEF Open
  <1>5. Judges(orders)'
    <2>1. \A i, j \in Ids : Open(orders, i)' /\ Open(orders, j)' /\ i.token = j.token => i = j
      BY <1>1, <1>4 DEF SafeInv, Judges
    <2>2. wallet'[id.token] = orders'[id].preToken + Moved(id)'
      BY <1>1, <1>3, PrepareFacts
    <2>3. \A o \in Ids \ {id} :
            /\ chain'[o] = "mempool" => Open(orders, o)'
            /\ orders'[o].status = "FILLED" =>
                  chain'[o] = "landed" /\ orders'[o].tokenDelta = swapped'[o]
            /\ orders'[o].status = "FAILED" => chain'[o] \in {"none", "reverted"}
            /\ Open(orders, o)' => wallet'[o.token] = orders'[o].preToken + Moved(o)'
      BY <1>1, <1>3, <1>4, PrepareFacts DEF SafeInv, Judges
    <2> QED
      BY <1>1, <1>2, <2>1, <2>2, <2>3, PrepareFacts DEF Judges, Open, Unsettled
  <1>6. Owed(orders, cash)'
    BY <1>1, <1>2, <1>4 DEF SafeInv, Owed
  <1> QED
    BY <1>1, <1>5, <1>6, SaveSafe

LEMMA SafeStep ==
  ASSUME Undisturbed
  PROVE  SafeInv /\ [Next]_vars => SafeInv'
  <1> SUFFICES ASSUME SafeInv, [Next]_vars PROVE SafeInv'
    OBVIOUS
  <1>0. PersistInv' /\ PersistInv /\ TypeOK
    BY PersistStep DEF SafeInv, PersistInv
  <1> USE <1>0 DEF bookVars, chainVars, ctlVars
  <1>1. CASE Start \/ BeginTick
    BY <1>1, SafeFrame DEF Start, BeginTick
  <1>2. CASE ReconcileCash
    <2>1. Judges(orders)' /\ Judges(disk.orders)' /\ Owed(disk.orders, disk.cash)'
      BY <1>2 DEF ReconcileCash, SafeInv, Judges, Owed, Open, Moved
    <2>2. Owed(orders, cash)'
      BY <1>2 DEF ReconcileCash, SafeInv, Owed, Open
    <2> QED
      BY <2>1, <2>2 DEF SafeInv
  <1>3. CASE PortfolioError \/ Crash
    BY <1>3 DEF PortfolioError, Crash, Load, SafeInv, Judges, Owed, Open, Moved
  <1>4. CASE FinishStartup \/ FinishReconcile \/ EndTick
    BY <1>4, SafeFrame DEF FinishStartup, FinishReconcile, EndTick
  <1>5. CASE Broadcast
    <2>1. cur \in Ids /\ Open(orders, cur) /\ chain[cur] = "none" /\ disk.orders = orders
      BY <1>5 DEF Broadcast, PersistInv, Process, Agreement, Snapshot, TypeOK
    <2>2. Open(disk.orders, cur)
      BY <2>1 DEF Open
    <2>3. chain'[cur] = "mempool"
          /\ \A o \in Ids \ {cur} : chain'[o] = chain[o] /\ swapped'[o] = swapped[o]
      BY <1>5, <2>1 DEF Broadcast, TypeOK
    <2> QED
      BY <1>5, <2>1, <2>2, <2>3, ChainSafe DEF Broadcast
  <1>6. CASE SwapOutcome
    <2>1. CASE SwapReturned
      <3>1. cur \in Ids /\ Open(orders, cur) /\ Save
            /\ UNCHANGED <<chain, swapped, wallet, usdt, cash>>
        BY <2>1, SwapReturnedFacts DEF SwapReturned, PersistInv, Process
      <3>2. Judges(orders)'
        BY <2>1, <3>1, SwapReturnedFacts, Resettle DEF SafeInv, Unsettled
      <3>3. Owed(orders, cash)'
        BY <2>1, <3>1, SwapReturnedFacts, StillOwed DEF SafeInv, Unsettled
      <3> QED
        BY <3>1, <3>2, <3>3, SaveSafe
    <2>2. CASE SwapAmbiguous \/ ConfirmUnknown
      BY <2>2, FailAttemptSafe DEF SwapAmbiguous, ConfirmUnknown, TypeOK
    <2>3. CASE SwapError
      <3>1. chain[cur] = "none" /\ cur \in Ids
        BY <2>3 DEF SwapError, PersistInv, Process, TypeOK
      <3> QED
        BY <2>3, <3>1, FailAttemptSafe DEF SwapError
    <2>4. CASE ConfirmError
      BY <2>4 DEF ConfirmError, Undisturbed
    <2>5. CASE ConfirmFill
      <3>1. cur \in Ids /\ Open(orders, cur) /\ BookFill(cur) /\ cash' = usdt /\ Save
            /\ UNCHANGED <<chain, swapped, wallet, usdt>>
        BY <2>5 DEF ConfirmFill, BookFill, ApplyFill, PersistInv, Process, TypeOK
      <3>2. chain[cur] = "landed" /\ TokenDelta(cur) = swapped[cur]
        BY <3>1, FillIsLanded DEF SafeInv
      <3>3. Judges(orders)'
        BY <3>1, <3>2, BookFillFacts, Resettle DEF SafeInv
      <3>4. Owed(orders, cash)'
        BY <3>1 DEF Owed
      <3> QED
        BY <3>1, <3>3, <3>4, SaveSafe
    <2>6. ~ FillNotLogged
      BY DEF FillNotLogged, Undisturbed, Logged
    <2> QED
      BY <1>6, <2>1, <2>2, <2>3, <2>4, <2>5, <2>6 DEF SwapOutcome
  <1>7. ASSUME NEW id \in Ids, Reconcile(id) PROVE SafeInv'
    BY <1>7, ReconcileSafe
  <1>8. ASSUME NEW id \in Ids, Land(id) PROVE SafeInv'
    BY <1>8, LandSafe
  <1>9. ASSUME NEW id \in Ids, Revert(id) PROVE SafeInv'
    <2>1. Open(orders, id) /\ Open(disk.orders, id) /\ chain[id] = "mempool"
      BY <1>9 DEF Revert, SafeInv, Judges
    <2>2. chain'[id] = "reverted" /\ \A o \in Ids \ {id} : chain'[o] = chain[o]
      BY <1>9 DEF Revert, TypeOK
    <2> QED
      BY <1>9, <2>1, <2>2, ChainSafe DEF Revert
  <1>10. ASSUME NEW id \in Ids, NEW size \in Sizes, Attempt(id, size) PROVE SafeInv'
    <2>1. CASE RejectBeforeSend(id, size)
      BY <2>1, SafeFrame DEF RejectBeforeSend
    <2>2. CASE DropPosition(id)
      <3>1. Judges(orders)' /\ Owed(orders, cash)' /\ Save
        BY <2>2 DEF DropPosition, SafeInv, Judges, Owed, Open, Moved
      <3> QED
        BY <3>1, SaveSafe
    <2>3. CASE PrepareOrder(id, size)
      BY <2>3, PrepareSafe
    <2> QED
      BY <1>10, <2>1, <2>2, <2>3 DEF Attempt
  <1>11. ASSUME NEW t \in Tokens, ReconcileToken(t) PROVE SafeInv'
    BY <1>11, SafeFrame DEF ReconcileToken
  <1>12. ASSUME NEW t \in Tokens, Transfer(t) PROVE SafeInv'
    BY <1>12 DEF Transfer, Undisturbed
  <1>13. CASE UNCHANGED vars
    BY <1>13, SafeFrame DEF vars
  <1> QED
    BY <1>1, <1>2, <1>3, <1>4, <1>5, <1>6, <1>7, <1>8, <1>9, <1>10, <1>11, <1>12, <1>13
    DEF Next

LEMMA SafeAlways ==
  ASSUME Undisturbed
  PROVE  Spec => []SafeInv
  <1>1. Init => SafeInv
    BY SafeInit
  <1>2. SafeInv /\ [Next]_vars => SafeInv'
    BY SafeStep
  <1> QED
    BY <1>1, <1>2, PTL DEF Spec

\* Whoever settles an order, execute, the next tick or a restart, a filled
\* order is a landed swap booked for what it moved and a failed one moved nothing.
THEOREM SettledOnlyByTheChain ==
  ASSUME Undisturbed
  PROVE  Spec => []SettledMeansHappened
  <1>1. SafeInv => SettledMeansHappened
    BY DEF SafeInv, Judges, SettledMeansHappened
  <1> QED
    BY <1>1, SafeAlways, PTL

\* With nothing in flight, the cash the books show is the wallet's.
THEOREM CashIsSettled ==
  ASSUME Undisturbed
  PROVE  Spec => []CashSettled
  <1>1. SafeInv => CashSettled
    BY DEF SafeInv, Owed, Open, PendingOrders, CashSettled
  <1> QED
    BY <1>1, SafeAlways, PTL

-----------------------------------------------------------------------------
(* What the steps do to orders, positions and balances: the amounts.          *)

\* A step that moves no balance, position or order, though it may send, or
\* revert, a swap.
Calm ==
    /\ UNCHANGED <<orders, qty, wallet, usdt, overlapped, adopted>>
    /\ \A o \in Ids : /\ chain'[o] = "landed" <=> chain[o] = "landed"
                      /\ chain[o] = "landed" => swapped'[o] = swapped[o]

Still == UNCHANGED <<wallet, usdt, chain, swapped, overlapped>>

\* An open order changes its status without a fill.
Marks(id) ==
    /\ Still /\ Open(orders, id) /\ UNCHANGED <<qty, adopted>>
    /\ orders'[id].status # "FILLED"
    /\ orders'[id].status \in Unsettled \/ chain[id] # "landed"
    /\ orders'[id].preToken = orders[id].preToken
    /\ orders'[id].preQuote = orders[id].preQuote
    /\ \A o \in Ids \ {id} : orders'[o] = orders[o]

\* An open order is filled, with what its swap moved.
Fills(id) ==
    /\ Still /\ Open(orders, id) /\ BookFill(id) /\ UNCHANGED adopted
    /\ chain[id] = "landed" /\ TokenDelta(id) = swapped[id]

\* A position is set to what the wallet holds, by a restart, which adopts what
\* has landed unbooked, or when its token has no order in flight.
Reads(t) ==
    /\ Still /\ UNCHANGED orders /\ qty' = [qty EXCEPT ![t] = wallet[t]]
    /\ \/ adopted' = adopted \cup {u \in {t} : LandedUnbooked(u)}
       \/ UNCHANGED adopted /\ ~ HasUnresolvedOrder(t)

Kind ==
    \/ Calm
    \/ \E id \in Ids : Marks(id) \/ Fills(id) \/ Land(id)
    \/ \E id \in Ids, size \in Sizes : PrepareOrder(id, size)
    \/ \E t \in Tokens : Reads(t)

LEMMA MarkFacts ==
  ASSUME TypeOK, NEW id \in Ids, Open(orders, id), NEW s \in {"UNKNOWN", "FAILED"},
         SetStatus(id, s), Still, UNCHANGED <<qty, adopted>>,
         s = "FAILED" => chain[id] # "landed"
  PROVE  Marks(id)
  <1>1. s \in Statuses
    BY DEF Statuses, Unsettled
  <1>2. /\ orders'[id].status = s /\ orders'[id].preToken = orders[id].preToken
        /\ orders'[id].preQuote = orders[id].preQuote
        /\ \A o \in Ids \ {id} : orders'[o] = orders[o]
    BY <1>1, SetStatusFacts
  <1> QED
    BY <1>2 DEF Marks, Open, Unsettled

LEMMA StepKinds ==
  ASSUME Undisturbed, SafeInv, [Next]_vars
  PROVE  /\ Kind \/ PortfolioError \/ Crash
         /\ Save \/ UNCHANGED disk
  <1>0. TypeOK /\ PersistInv /\ Judges(orders)
    BY DEF SafeInv, PersistInv
  <1> USE DEF bookVars, chainVars, ctlVars
  <1>1. CASE Start \/ BeginTick \/ ReconcileCash \/ FinishStartup \/ FinishReconcile \/ EndTick
    BY <1>1 DEF Start, BeginTick, ReconcileCash, FinishStartup, FinishReconcile, EndTick,
                Kind, Calm
  <1>2. CASE PortfolioError \/ Crash
    BY <1>2 DEF PortfolioError, Crash
  <1>3. CASE Broadcast
    <2>1. cur \in Ids /\ chain[cur] = "none"
      BY <1>0, <1>3 DEF Broadcast, PersistInv, Process, TypeOK
    <2>2. /\ chain'[cur] = "mempool"
          /\ \A o \in Ids \ {cur} : chain'[o] = chain[o] /\ swapped'[o] = swapped[o]
      BY <1>0, <1>3, <2>1 DEF Broadcast, TypeOK
    <2>3. Calm
      BY <1>3, <2>1, <2>2 DEF Broadcast, Calm
    <2> QED
      BY <1>3, <2>3 DEF Broadcast, Kind
  <1>4. CASE SwapOutcome
    <2>1. cur \in Ids /\ Open(orders, cur)
      BY <1>0, <1>4 DEF SwapOutcome, SwapReturned, SwapAmbiguous, SwapError, ConfirmFill, FillNotLogged,
                        ConfirmUnknown, ConfirmError, PersistInv, Process, TypeOK
    <2>2. CASE SwapReturned
      <3>1. /\ orders'[cur].status = "SENT" /\ orders'[cur].preToken = orders[cur].preToken
            /\ orders'[cur].preQuote = orders[cur].preQuote
            /\ \A o \in Ids \ {cur} : orders'[o] = orders[o]
        BY <1>0, <2>2, SwapReturnedFacts
      <3>2. Still /\ UNCHANGED <<qty, adopted>> /\ Save
        BY <2>2 DEF SwapReturned, Still
      <3>3. Marks(cur)
        BY <2>1, <3>1, <3>2 DEF Marks, Open, Unsettled
      <3> QED
        BY <2>1, <3>2, <3>3 DEF Kind
    <2>3. ASSUME NEW s \in {"UNKNOWN", "FAILED"}, FailAttempt(s),
                 s = "FAILED" => chain[cur] # "landed"
          PROVE  Kind /\ Save
      <3>1. SetStatus(cur, s) /\ Still /\ UNCHANGED <<qty, adopted>> /\ Save
        BY <2>3 DEF FailAttempt, Still
      <3>2. Marks(cur)
        BY <1>0, <2>1, <2>3, <3>1, MarkFacts
      <3> QED
        BY <2>1, <3>1, <3>2 DEF Kind
    <2>4. CASE SwapAmbiguous \/ ConfirmUnknown
      BY <2>3, <2>4 DEF SwapAmbiguous, ConfirmUnknown
    <2>5. CASE SwapError
      <3>1. chain[cur] = "none"
        BY <1>0, <2>5 DEF SwapError, PersistInv, Process
      <3> QED
        BY <2>3, <2>5, <3>1 DEF SwapError
    <2>6. CASE ConfirmError
      BY <2>6 DEF ConfirmError, Undisturbed
    <2>7. CASE ConfirmFill
      <3>1. BookFill(cur) /\ Still /\ UNCHANGED adopted /\ Save
        BY <2>7 DEF ConfirmFill, Still
      <3>2. Fills(cur)
        BY <1>0, <2>1, <3>1, FillIsLanded DEF Fills
      <3> QED
        BY <2>1, <3>1, <3>2 DEF Kind
    <2>8. ~ FillNotLogged
      BY DEF FillNotLogged, Undisturbed, Logged
    <2> QED
      BY <1>4, <2>2, <2>4, <2>5, <2>6, <2>7, <2>8 DEF SwapOutcome
  <1>5. ASSUME NEW id \in Ids, Reconcile(id)
        PROVE  Kind /\ (Save \/ UNCHANGED disk)
    <2>1. id \in todo /\ Still /\ UNCHANGED <<disk, adopted>>
      BY <1>5 DEF Reconcile, ReconcileFill, ReconcileNotLogged, ReconcileFailed, ReconcileInconclusive, Still
    <2>2. Open(orders, id)
      BY <1>0, <2>1 DEF PersistInv, Agreement, PendingOrders, Open
    <2>3. CASE ReconcileFill(id)
      <3>1. BookFill(id)
        BY <2>3 DEF ReconcileFill
      <3>2. Fills(id)
        BY <1>0, <2>1, <2>2, <3>1, FillIsLanded DEF Fills
      <3> QED
        BY <2>1, <3>2 DEF Kind
    <2>4. CASE ReconcileFailed(id)
      <3>1. SetStatus(id, "FAILED") /\ chain[id] = "reverted" /\ UNCHANGED qty
        BY <2>4 DEF ReconcileFailed
      <3>2. Marks(id)
        BY <1>0, <2>1, <2>2, <3>1, MarkFacts
      <3> QED
        BY <2>1, <3>2 DEF Kind
    <2>5. CASE ReconcileInconclusive(id)
      <3>1. SetStatus(id, "UNKNOWN") /\ UNCHANGED qty
        BY <2>5 DEF ReconcileInconclusive
      <3>2. Marks(id)
        BY <1>0, <2>1, <2>2, <3>1, MarkFacts
      <3> QED
        BY <2>1, <3>2 DEF Kind
    <2>6. ~ ReconcileNotLogged(id)
      BY DEF ReconcileNotLogged, Undisturbed, Logged
    <2> QED
      BY <1>5, <2>3, <2>4, <2>5, <2>6 DEF Reconcile
  <1>6. ASSUME NEW id \in Ids, Land(id)
        PROVE  Kind /\ UNCHANGED disk
    BY <1>6 DEF Kind, Land
  <1>7. ASSUME NEW id \in Ids, Revert(id)
        PROVE  Kind /\ UNCHANGED disk
    <2>1. /\ chain[id] = "mempool" /\ chain'[id] = "reverted"
          /\ \A o \in Ids \ {id} : chain'[o] = chain[o]
      BY <1>0, <1>7 DEF Revert, TypeOK
    <2>2. Calm
      BY <1>7, <2>1 DEF Revert, Calm
    <2> QED
      BY <1>7, <2>2 DEF Revert, Kind
  <1>8. ASSUME NEW id \in Ids, NEW size \in Sizes, Attempt(id, size)
        PROVE  Kind /\ Save
    <2>1. CASE RejectBeforeSend(id, size)
      BY <2>1 DEF RejectBeforeSend, Kind, Calm
    <2>2. CASE DropPosition(id)
      <3>1. id.token \in Tokens /\ Reads(id.token) /\ Save
        BY <2>2 DEF DropPosition, MayAttempt, Reads, Still, Ids
      <3> QED
        BY <3>1 DEF Kind
    <2>3. CASE PrepareOrder(id, size)
      BY <2>3 DEF Kind, PrepareOrder
    <2> QED
      BY <1>8, <2>1, <2>2, <2>3 DEF Attempt
  <1>9. ASSUME NEW t \in Tokens, ReconcileToken(t) \/ Transfer(t)
        PROVE  Kind /\ UNCHANGED disk
    <2>1. ReconcileToken(t)
      BY <1>9 DEF Transfer, Undisturbed
    <2>2. Reads(t) /\ UNCHANGED disk
      BY <2>1 DEF ReconcileToken, Reads, Still
    <2> QED
      BY <2>2 DEF Kind
  <1>10. CASE UNCHANGED vars
    BY <1>10 DEF vars, Kind, Calm
  <1> QED
    BY <1>1, <1>2, <1>3, <1>4, <1>5, <1>6, <1>7, <1>8, <1>9, <1>10 DEF Next

\* What a swap has changed of the quote balance so far.
QuoteMoved(id) ==
    IF chain[id] # "landed" THEN 0
    ELSE IF id.action = "buy" THEN 0 - swapped[id] ELSE swapped[id]

\* The snapshot of an open order no other token's swap has overlapped accounts
\* for the quote balance, and such filled orders show what they moved of it.
Exact(os) ==
    \A id \in Ids \ overlapped :
        /\ Open(os, id) => usdt = os[id].preQuote + QuoteMoved(id)
        /\ os[id].status = "FILLED" => os[id].quoteDelta = swapped[id]

ExactInv == SafeInv /\ Exact(orders) /\ Exact(disk.orders)

LEMMA ExactKind ==
  ASSUME ExactInv, Kind
  PROVE  Exact(orders)' /\ (UNCHANGED disk => Exact(disk.orders)')
  <1>0. /\ TypeOK /\ Judges(orders) /\ Judges(disk.orders)
        /\ Exact(orders) /\ Exact(disk.orders)
    BY DEF ExactInv, SafeInv, PersistInv
  <1>2. ASSUME Still
        PROVE  /\ \A o \in Ids : QuoteMoved(o)' = QuoteMoved(o)
               /\ UNCHANGED disk => Exact(disk.orders)'
    <2>1. \A o \in Ids : QuoteMoved(o)' = QuoteMoved(o)
      BY <1>2 DEF Still, QuoteMoved
    <2> QED
      BY <1>0, <1>2, <2>1 DEF Still, Exact, Open
  <1>3. CASE Calm
    <2>1. \A o \in Ids : QuoteMoved(o)' = QuoteMoved(o)
      BY <1>3 DEF Calm, QuoteMoved
    <2>2. \A o \in Ids : chain[o] = "landed" => swapped'[o] = swapped[o]
      BY <1>3 DEF Calm
    <2>3. \A o \in Ids : /\ orders[o].status = "FILLED" => chain[o] = "landed"
                         /\ disk.orders[o].status = "FILLED" => chain[o] = "landed"
      BY <1>0 DEF Judges
    <2>4. UNCHANGED <<orders, usdt, overlapped>>
      BY <1>3 DEF Calm
    <2>5. Exact(orders)'
      BY <1>0, <2>1, <2>2, <2>3, <2>4 DEF Exact, Open
    <2>6. UNCHANGED disk => Exact(disk.orders)'
      BY <1>0, <2>1, <2>2, <2>3, <2>4 DEF Exact, Open
    <2> QED
      BY <2>5, <2>6
  <1>4. ASSUME NEW id \in Ids, Marks(id)
        PROVE  Exact(orders)' /\ Still
    <2>1. Still
      BY <1>4 DEF Marks
    <2>2. /\ Open(orders, id) /\ orders'[id].status # "FILLED"
          /\ orders'[id].preQuote = orders[id].preQuote
          /\ \A o \in Ids \ {id} : orders'[o] = orders[o]
          /\ usdt' = usdt /\ swapped' = swapped /\ overlapped' = overlapped
      BY <1>4, <2>1 DEF Marks, Still
    <2> QED
      BY <1>0, <1>2, <2>1, <2>2 DEF Exact, Open
  <1>5. ASSUME NEW id \in Ids, Fills(id)
        PROVE  Exact(orders)' /\ Still
    <2>1. Still /\ chain[id] = "landed" /\ Open(orders, id)
      BY <1>5 DEF Fills
    <2>2. /\ orders'[id].status = "FILLED" /\ orders'[id].quoteDelta = QuoteDelta(id)
          /\ \A o \in Ids \ {id} : orders'[o] = orders[o]
      BY <1>0, <1>5, BookFillFacts DEF Fills
    <2>3. id \notin overlapped => QuoteDelta(id) = swapped[id]
      <3> HAVE id \notin overlapped
      <3>1. usdt = orders[id].preQuote + QuoteMoved(id)
        BY <1>0, <2>1 DEF Exact
      <3>2. orders[id].preQuote \in Nat /\ swapped[id] \in Nat /\ usdt \in Nat
        BY <1>0, BookTypes DEF TypeOK, Orders
      <3> QED
        BY <2>1, <3>1, <3>2 DEF QuoteDelta, QuoteMoved
    <2>4. usdt' = usdt /\ swapped' = swapped /\ overlapped' = overlapped
      BY <2>1 DEF Still
    <2> QED
      BY <1>0, <1>2, <2>1, <2>2, <2>3, <2>4 DEF Exact, Open, Unsettled
  <1>6. ASSUME NEW id \in Ids, NEW size \in Sizes, PrepareOrder(id, size)
        PROVE  Exact(orders)' /\ Still
    <2>1. Still
      BY <1>6 DEF PrepareOrder, Still, chainVars
    <2>2. /\ orders[id].status = "NONE" /\ orders'[id].status = "PENDING"
          /\ orders'[id].preQuote = usdt /\ \A o \in Ids \ {id} : orders'[o] = orders[o]
      BY <1>0, <1>6, PrepareFacts
    <2>3. chain[id] # "landed"
      BY <2>2 DEF ExactInv, SafeInv, PersistInv, Knows
    <2>4. QuoteMoved(id) = 0 /\ usdt \in Nat
      BY <1>0, <2>3 DEF QuoteMoved, TypeOK
    <2>5. usdt' = usdt /\ swapped' = swapped /\ overlapped' = overlapped /\ usdt = usdt + 0
      BY <2>1, <2>4 DEF Still
    <2> QED
      BY <1>0, <1>2, <2>1, <2>2, <2>4, <2>5 DEF Exact, Open
  <1>7. ASSUME NEW id \in Ids, Land(id)
        PROVE  Exact(orders)' /\ Exact(disk.orders)'
    <2>1. /\ orders' = orders /\ disk' = disk /\ swapped' = swapped
          /\ chain[id] = "mempool" /\ chain'[id] = "landed"
          /\ usdt' = IF id.action = "buy" THEN usdt - swapped[id] ELSE usdt + swapped[id]
          /\ \A o \in Ids \ {id} : chain'[o] = chain[o]
          /\ overlapped' = overlapped \cup {o \in Ids : o.token # id.token /\ InFlight(o)}
      BY <1>0, <1>7 DEF Land, bookVars, TypeOK
    <2>2. usdt \in Nat /\ swapped[id] \in Nat
      BY <1>0 DEF TypeOK
    <2>3. Open(orders, id) /\ Open(disk.orders, id)
      BY <1>0, <2>1 DEF Judges
    <2>4. QuoteMoved(id) = 0
          /\ QuoteMoved(id)' = IF id.action = "buy" THEN 0 - swapped[id] ELSE swapped[id]
      BY <2>1 DEF QuoteMoved
    <2>5. \A p \in Nat : usdt = p + 0 => usdt' = p + QuoteMoved(id)'
      BY <2>1, <2>2, <2>4
    <2>6. Exact(orders)'
      <3>1. \A o \in Ids \ overlapped' : Open(orders, o) => o = id
        BY <1>0, <2>1, <2>3 DEF Judges, InFlight, Open
      <3>2. orders[id].preQuote \in Nat
        BY <1>0, BookTypes DEF Orders
      <3> QED
        BY <1>0, <2>1, <2>3, <2>4, <2>5, <3>1, <3>2 DEF Exact, Open
    <2>7. Exact(disk.orders)'
      <3>1. \A o \in Ids \ overlapped' : Open(disk.orders, o) => o = id
        BY <1>0, <2>1, <2>3 DEF Judges, InFlight, Open
      <3>2. disk.orders[id].preQuote \in Nat
        BY <1>0, BookTypes DEF Orders
      <3> QED
        BY <1>0, <2>1, <2>3, <2>4, <2>5, <3>1, <3>2 DEF Exact, Open
    <2> QED
      BY <2>6, <2>7
  <1>8. ASSUME NEW t \in Tokens, Reads(t)
        PROVE  Exact(orders)' /\ Still
    <2>1. Still /\ orders' = orders /\ usdt' = usdt /\ swapped' = swapped
          /\ overlapped' = overlapped
      BY <1>8 DEF Reads, Still
    <2> QED
      BY <1>0, <1>2, <2>1 DEF Exact, Open
  <1> QED
    BY <1>2, <1>3, <1>4, <1>5, <1>6, <1>7, <1>8 DEF Kind

\* However many tokens trade, over crashes and late landings, a filled order
\* shows what its own swap moved of the quote balance unless a swap of another
\* token landed while it was open: one unresolved order per token and a snapshot
\* per order are enough for that, and for no more (executor.py:492).
THEOREM FillsAreExact ==
  ASSUME Undisturbed
  PROVE  Spec => []FillIsExact
  <1>1. Init => ExactInv
    <2> SUFFICES ASSUME Init PROVE ExactInv
      OBVIOUS
    <2>1. \A id \in Ids : orders[id] = NoOrder /\ disk.orders[id] = NoOrder
      BY DEF Init, EmptyBooks
    <2> QED
      BY <2>1, SafeInit DEF ExactInv, Exact, Open, NoOrder, Unsettled
  <1>2. ExactInv /\ [Next]_vars => ExactInv'
    <2> SUFFICES ASSUME ExactInv, [Next]_vars PROVE ExactInv'
      OBVIOUS
    <2>1. SafeInv /\ SafeInv'
      BY SafeStep DEF ExactInv
    <2>2. (Kind \/ PortfolioError \/ Crash) /\ (Save \/ UNCHANGED disk)
      BY <2>1, StepKinds
    <2>3. CASE Kind
      <3>1. Exact(orders)' /\ (UNCHANGED disk => Exact(disk.orders)')
        BY <2>3, ExactKind
      <3>2. Save => Exact(disk.orders)'
        BY <3>1, SaveFacts DEF Exact, Open
      <3> QED
        BY <2>1, <2>2, <3>1, <3>2 DEF ExactInv
    <2>4. CASE PortfolioError \/ Crash
      <3>1. orders' = disk.orders /\ disk' = disk /\ UNCHANGED <<usdt, chain, swapped, overlapped>>
        BY <2>4 DEF PortfolioError, Crash, Load, chainVars
      <3>2. \A o \in Ids : QuoteMoved(o)' = QuoteMoved(o)
        BY <3>1 DEF QuoteMoved
      <3> QED
        BY <2>1, <3>1, <3>2 DEF ExactInv, Exact, Open
    <2> QED
      BY <2>2, <2>3, <2>4
  <1>3. ExactInv => FillIsExact
    BY DEF ExactInv, Exact, FillIsExact
  <1> QED
    BY <1>1, <1>2, <1>3, PTL DEF Spec

\* Books of the orders os and the positions q, but for the adopted tokens: the
\* wallet covers the position of a token without an open order, and an open
\* order's snapshot covers its token's position.
Backed(os, q) ==
    \A t \in Tokens \ adopted :
        /\ (\A id \in Ids : Open(os, id) => id.token # t) => q[t] <= wallet[t]
        /\ \A id \in Ids : Open(os, id) /\ id.token = t => q[t] <= os[id].preToken

BackedInv == SafeInv /\ Backed(orders, qty) /\ Backed(disk.orders, disk.qty)

LEMMA AdoptedGrows ==
  ASSUME Kind
  PROVE  adopted \subseteq adopted'
  BY DEF Kind, Calm, Marks, Fills, Reads, Land, PrepareOrder, chainVars

LEMMA BackedKind ==
  ASSUME SafeInv, Backed(orders, qty), Kind
  PROVE  Backed(orders, qty)'
  <1>0. /\ TypeOK /\ Judges(orders)
        /\ qty \in [Tokens -> Nat] /\ wallet \in [Tokens -> Nat]
        /\ \A id \in Ids : id.token \in Tokens
    BY BookTypes DEF SafeInv, PersistInv, TypeOK, Ids
  <1>1. SUFFICES ASSUME NEW t \in Tokens, t \notin adopted'
                 PROVE  /\ (\A o \in Ids : Open(orders, o)' => o.token # t) => qty'[t] <= wallet'[t]
                        /\ \A o \in Ids : Open(orders, o)' /\ o.token = t =>
                              qty'[t] <= orders'[o].preToken
    BY DEF Backed, Open
  <1>2. /\ t \notin adopted
        /\ (\A o \in Ids : Open(orders, o) => o.token # t) => qty[t] <= wallet[t]
        /\ \A o \in Ids : Open(orders, o) /\ o.token = t => qty[t] <= orders[o].preToken
    BY <1>1, AdoptedGrows DEF Backed
  <1>3. CASE Calm
    BY <1>2, <1>3 DEF Calm, Open
  <1>4. ASSUME NEW id \in Ids, Marks(id)
        PROVE  /\ (\A o \in Ids : Open(orders, o)' => o.token # t) => qty'[t] <= wallet'[t]
               /\ \A o \in Ids : Open(orders, o)' /\ o.token = t =>
                     qty'[t] <= orders'[o].preToken
    <2>1. /\ UNCHANGED <<wallet, qty>> /\ Open(orders, id)
          /\ orders'[id].status \in Unsettled \/ chain[id] # "landed"
          /\ orders'[id].preToken = orders[id].preToken
          /\ \A o \in Ids \ {id} : orders'[o] = orders[o]
      BY <1>4 DEF Marks, Still
    <2>2. id.token = t /\ chain[id] # "landed" => qty[t] <= wallet[t]
      <3>1. orders[id].preToken \in Nat
        BY <1>0, BookTypes DEF Orders
      <3>2. chain[id] # "landed" => wallet[id.token] = orders[id].preToken + 0
        BY <1>0, <2>1 DEF Judges, Moved
      <3> QED
        BY <1>2, <2>1, <3>1, <3>2
    <2>3. \A o \in Ids : Open(orders, o)' /\ o.token = t => qty'[t] <= orders'[o].preToken
      BY <1>2, <2>1 DEF Open
    <2>4. (\A o \in Ids : Open(orders, o)' => o.token # t) => qty'[t] <= wallet'[t]
      <3>1. HAVE \A o \in Ids : Open(orders, o)' => o.token # t
      <3>2. CASE id.token = t
        BY <2>1, <2>2, <3>1, <3>2 DEF Open
      <3>3. CASE id.token # t
        <4>1. \A o \in Ids : Open(orders, o) => o.token # t
          BY <2>1, <3>1, <3>3 DEF Open
        <4> QED
          BY <1>2, <2>1, <4>1
      <3> QED
        BY <3>2, <3>3
    <2> QED
      BY <2>3, <2>4
  <1>5. ASSUME NEW id \in Ids, Fills(id)
        PROVE  /\ (\A o \in Ids : Open(orders, o)' => o.token # t) => qty'[t] <= wallet'[t]
               /\ \A o \in Ids : Open(orders, o)' /\ o.token = t =>
                     qty'[t] <= orders'[o].preToken
    <2>1. /\ wallet' = wallet /\ Open(orders, id) /\ BookFill(id) /\ adopted' = adopted
          /\ chain[id] = "landed" /\ TokenDelta(id) = swapped[id]
      BY <1>5 DEF Fills, Still
    <2>2. orders'[id].status = "FILLED" /\ \A o \in Ids \ {id} : orders'[o] = orders[o]
      BY <1>0, <2>1, BookFillFacts
    <2>3. qty' = [qty EXCEPT ![id.token] = QuantityAfter(id)]
      BY <2>1 DEF BookFill, ApplyFill
    <2>4. ASSUME id.token = t PROVE QuantityAfter(id) <= wallet[id.token]
      <3>1. orders[id].preToken \in Nat /\ swapped[id] \in Nat
        BY <1>0, BookTypes DEF Orders, TypeOK
      <3>2. wallet[id.token] = orders[id].preToken + Moved(id)
        BY <1>0, <2>1 DEF Judges
      <3>3. Moved(id) = IF id.action = "buy" THEN swapped[id] ELSE 0 - swapped[id]
        BY <2>1 DEF Moved
      <3>4. qty[id.token] <= orders[id].preToken /\ qty[id.token] \in Nat
            /\ wallet[id.token] \in Nat
        BY <1>0, <1>2, <2>1, <2>4
      <3>5. id.action \in {"buy", "close", "trim"}
        BY DEF Ids, Actions
      <3>6. CASE id.action = "buy"
        <4>1. QuantityAfter(id) = qty[id.token] + swapped[id]
          BY <2>1, <3>6 DEF QuantityAfter
        <4> QED
          BY <3>1, <3>2, <3>3, <3>4, <3>6, <4>1
      <3>7. CASE id.action = "close"
        <4>1. QuantityAfter(id) = 0
          BY <3>7 DEF QuantityAfter
        <4> QED
          BY <3>4, <4>1
      <3>8. CASE id.action = "trim"
        <4>1. QuantityAfter(id) = IF qty[id.token] <= swapped[id] THEN 0
                                  ELSE qty[id.token] - swapped[id]
          BY <2>1, <3>8 DEF QuantityAfter
        <4> QED
          BY <3>1, <3>2, <3>3, <3>4, <3>8, <4>1
      <3> QED
        BY <3>5, <3>6, <3>7, <3>8
    <2>5. \A o \in Ids : Open(orders, o)' => o # id /\ Open(orders, o) /\ o.token # id.token
      BY <1>0, <2>1, <2>2 DEF Open, Unsettled, Judges
    <2>6. CASE id.token = t
      BY <1>0, <2>1, <2>3, <2>4, <2>5, <2>6
    <2>7. CASE id.token # t
      <3>1. qty'[t] = qty[t]
        BY <1>0, <2>3, <2>7
      <3>2. \A o \in Ids : o.token = t => (Open(orders, o)' <=> Open(orders, o))
        BY <2>2, <2>7 DEF Open
      <3> QED
        BY <1>2, <2>1, <2>2, <2>7, <3>1, <3>2
    <2> QED
      BY <2>6, <2>7
  <1>6. ASSUME NEW id \in Ids, Land(id)
        PROVE  /\ (\A o \in Ids : Open(orders, o)' => o.token # t) => qty'[t] <= wallet'[t]
               /\ \A o \in Ids : Open(orders, o)' /\ o.token = t =>
                     qty'[t] <= orders'[o].preToken
    <2>1. /\ UNCHANGED <<orders, qty>> /\ Open(orders, id)
          /\ id.token # t => wallet'[t] = wallet[t]
      BY <1>0, <1>6 DEF Land, bookVars, Judges
    <2> QED
      BY <1>2, <2>1 DEF Open
  <1>7. ASSUME NEW id \in Ids, NEW size \in Sizes, PrepareOrder(id, size)
        PROVE  /\ (\A o \in Ids : Open(orders, o)' => o.token # t) => qty'[t] <= wallet'[t]
               /\ \A o \in Ids : Open(orders, o)' /\ o.token = t =>
                     qty'[t] <= orders'[o].preToken
    <2>1. /\ UNCHANGED <<wallet, qty>> /\ \A o \in Ids : Open(orders, o) => o.token # id.token
      BY <1>7 DEF PrepareOrder, MayAttempt, HasUnresolvedOrder, PendingOrders, Open, chainVars
    <2>2. /\ orders'[id].status = "PENDING" /\ orders'[id].preToken = wallet[id.token]
          /\ orders[id].status = "NONE" /\ \A o \in Ids \ {id} : orders'[o] = orders[o]
      BY <1>0, <1>7, PrepareFacts
    <2>3. Open(orders, id)' /\ \A o \in Ids \ {id} : Open(orders, o)' <=> Open(orders, o)
      BY <2>2 DEF Open, Unsettled
    <2>4. CASE id.token = t
      BY <1>2, <2>1, <2>2, <2>3, <2>4
    <2>5. CASE id.token # t
      BY <1>2, <2>1, <2>2, <2>3, <2>5
    <2> QED
      BY <2>4, <2>5
  <1>8. ASSUME NEW u \in Tokens, Reads(u)
        PROVE  /\ (\A o \in Ids : Open(orders, o)' => o.token # t) => qty'[t] <= wallet'[t]
               /\ \A o \in Ids : Open(orders, o)' /\ o.token = t =>
                     qty'[t] <= orders'[o].preToken
    <2>1. /\ UNCHANGED <<wallet, orders>> /\ qty' = [qty EXCEPT ![u] = wallet[u]]
      BY <1>8 DEF Reads, Still
    <2>2. CASE u # t
      BY <1>0, <1>2, <2>1, <2>2 DEF Open
    <2>3. CASE u = t
      <3>1. qty'[t] = wallet[t]
        BY <1>0, <2>1, <2>3
      \* An open order of a token that is read without being adopted has brought
      \* nothing into the wallet yet.
      <3>2. ASSUME NEW o \in Ids, Open(orders, o), o.token = t
            PROVE  wallet[t] <= orders[o].preToken
        <4>1. ~ LandedUnbooked(t)
          BY <1>1, <1>8, <2>3, <3>2 DEF Reads, HasUnresolvedOrder, PendingOrders, Open
        <4>2. o.action # "buy" \/ chain[o] # "landed"
          BY <3>2, <4>1 DEF LandedUnbooked, PendingOrders, Open
        <4>3. wallet[t] = orders[o].preToken + Moved(o)
          BY <1>0, <3>2 DEF Judges
        <4>4. orders[o].preToken \in Nat /\ swapped[o] \in Nat
          BY <1>0, BookTypes DEF Orders, TypeOK
        <4> QED
          BY <4>2, <4>3, <4>4 DEF Moved
      <3>3. wallet[t] \in Nat
        BY <1>0
      <3> QED
        BY <2>1, <3>1, <3>2, <3>3 DEF Open
    <2> QED
      BY <2>2, <2>3
  <1> QED
    BY <1>3, <1>4, <1>5, <1>6, <1>7, <1>8 DEF Kind

\* What the file says stays backed: a landing is of an order open there too.
LEMMA BackedFile ==
  ASSUME SafeInv, Backed(disk.orders, disk.qty), Kind, UNCHANGED disk
  PROVE  Backed(disk.orders, disk.qty)'
  <1>1. adopted \subseteq adopted'
    BY AdoptedGrows
  <1>2. CASE UNCHANGED wallet
    BY <1>1, <1>2 DEF Backed, Open
  <1>3. ASSUME NEW id \in Ids, Land(id)
        PROVE  Backed(disk.orders, disk.qty)'
    <2>1. /\ Open(disk.orders, id)
          /\ \A t \in Tokens \ {id.token} : wallet'[t] = wallet[t]
      BY <1>3 DEF Land, SafeInv, PersistInv, TypeOK, Judges
    <2>2. \A t \in Tokens \ adopted' : t \in Tokens \ adopted
      BY <1>1
    <2> QED
      BY <2>1, <2>2 DEF Backed, Open
  <1> QED
    BY <1>2, <1>3 DEF Kind, Calm, Marks, Fills, Reads, Still, PrepareOrder, chainVars

\* Over any number of crashes and starts, a token without an order in flight is
\* never shown with more than the wallet holds, unless a start read the wallet
\* when a buy of it had landed and was not booked: then the next reconcile books
\* it a second time (executor.py:571-581 after agent.py:806-810).
THEOREM BooksAreBacked ==
  ASSUME Undisturbed
  PROVE  Spec => []BooksBacked
  <1>1. Init => BackedInv
    <2> SUFFICES ASSUME Init PROVE BackedInv
      OBVIOUS
    <2>1. /\ \A id \in Ids : orders[id] = NoOrder /\ disk.orders[id] = NoOrder
          /\ \A t \in Tokens : disk.qty[t] = 0 /\ qty[t] = 0 /\ wallet[t] = 0
      BY DEF Init, EmptyBooks
    <2> QED
      BY <2>1, SafeInit DEF BackedInv, Backed, Open, NoOrder, Unsettled
  <1>2. BackedInv /\ [Next]_vars => BackedInv'
    <2> SUFFICES ASSUME BackedInv, [Next]_vars PROVE BackedInv'
      OBVIOUS
    <2>1. SafeInv /\ SafeInv'
      BY SafeStep DEF BackedInv
    <2>2. (Kind \/ PortfolioError \/ Crash) /\ (Save \/ UNCHANGED disk)
      BY <2>1, StepKinds
    <2>3. CASE Kind
      <3>1. Backed(orders, qty)'
        BY <2>1, <2>3, BackedKind DEF BackedInv
      <3>2. CASE Save
        <4>1. disk'.orders = orders' /\ disk'.qty = qty'
          BY <3>2 DEF Save, Snapshot
        <4>2. Backed(disk.orders, disk.qty)'
          BY <3>1, <4>1 DEF Backed, Open
        <4> QED
          BY <2>1, <3>1, <4>2 DEF BackedInv
      <3>3. CASE UNCHANGED disk
        BY <2>1, <2>3, <3>1, <3>3, BackedFile DEF BackedInv
      <3> QED
        BY <2>2, <3>2, <3>3
    <2>4. CASE PortfolioError \/ Crash
      <3>1. /\ orders' = disk.orders /\ qty' = disk.qty /\ disk' = disk
            /\ UNCHANGED <<wallet, adopted>>
        BY <2>4 DEF PortfolioError, Crash, Load, chainVars
      <3>2. Backed(disk.orders, disk.qty)' /\ Backed(orders, qty)'
        BY <3>1 DEF BackedInv, Backed, Open
      <3> QED
        BY <2>1, <3>2 DEF BackedInv
    <2> QED
      BY <2>2, <2>3, <2>4
  <1>3. BackedInv => BooksBacked
    BY DEF BackedInv, Backed, BooksBacked, HasUnresolvedOrder, PendingOrders, Open
  <1> QED
    BY <1>1, <1>2, <1>3, PTL DEF Spec

-----------------------------------------------------------------------------
(* What a broadcast may follow, and the abstract ledger.                      *)

LEMMA OnlyBroadcastSends ==
  ASSUME TypeOK, [Next]_vars, NEW id \in Ids, chain[id] = "none", chain'[id] = "mempool"
  PROVE  Broadcast /\ cur = id
  <1> USE DEF bookVars, chainVars, ctlVars
  <1>1. CASE Start \/ ReconcileCash \/ PortfolioError \/ FinishStartup
    BY <1>1 DEF Start, ReconcileCash, PortfolioError, FinishStartup
  <1>2. CASE BeginTick \/ FinishReconcile \/ EndTick \/ Crash
    BY <1>2 DEF BeginTick, FinishReconcile, EndTick, Crash
  <1>3. CASE SwapOutcome
    BY <1>3 DEF SwapOutcome, SwapReturned, SwapAmbiguous, SwapError, ConfirmFill, FillNotLogged,
                ConfirmUnknown, ConfirmError, FailAttempt
  <1>4. ASSUME NEW o \in Ids, Reconcile(o) PROVE FALSE
    BY <1>4 DEF Reconcile, ReconcileFill, ReconcileNotLogged, ReconcileFailed, ReconcileInconclusive
  <1>5. ASSUME NEW o \in Ids, Land(o) \/ Revert(o) PROVE FALSE
    BY <1>5 DEF Land, Revert, TypeOK
  <1>6. ASSUME NEW o \in Ids, NEW size \in Sizes, Attempt(o, size) PROVE FALSE
    BY <1>6 DEF Attempt, RejectBeforeSend, DropPosition, PrepareOrder
  <1>7. ASSUME NEW t \in Tokens, ReconcileToken(t) \/ Transfer(t) PROVE FALSE
    BY <1>7 DEF ReconcileToken, Transfer
  <1>8. CASE Broadcast
    <2>1. cur \in Ids
      BY <1>8 DEF Broadcast, TypeOK
    <2> QED
      BY <1>8, <2>1 DEF Broadcast, TypeOK
  <1>9. CASE UNCHANGED vars
    BY <1>9 DEF vars
  <1> QED
    BY <1>1, <1>2, <1>3, <1>4, <1>5, <1>6, <1>7, <1>8, <1>9 DEF Next

\* "never retry blindly" (AmbiguousExecutionError): no swap leaves while an
\* earlier one of its token is in flight, or has landed without being booked.
THEOREM RetriesAreInformed ==
  ASSUME Undisturbed
  PROVE  Spec => NoBlindRetry
  <1>1. ASSUME SafeInv, [Next]_vars, NEW id \in Ids,
               chain[id] = "none", chain'[id] = "mempool",
               NEW other \in Ids \ {id}, other.token = id.token
        PROVE  /\ chain[other] # "mempool"
               /\ chain[other] = "landed" => disk.orders[other].status = "FILLED"
    <2>1. Broadcast /\ cur = id
      BY <1>1, OnlyBroadcastSends DEF SafeInv, PersistInv
    <2>2. Open(orders, id) /\ disk.orders = orders
      BY <1>1, <2>1 DEF Broadcast, SafeInv, PersistInv, Process, Agreement, Snapshot
    <2>3. ~ Open(orders, other)
      BY <1>1, <2>2 DEF SafeInv, Judges
    <2>4. orders[other].status \in Statuses
      BY <1>1, BookTypes DEF SafeInv, PersistInv, Orders
    <2> QED
      BY <1>1, <2>2, <2>3, <2>4
      DEF SafeInv, PersistInv, Knows, Judges, Open, Statuses
  <1>2. SafeInv /\ [Next]_vars =>
          [\A id \in Ids : chain[id] = "none" /\ chain'[id] = "mempool" =>
             \A other \in Ids \ {id} : other.token = id.token =>
                /\ chain[other] # "mempool"
                /\ chain[other] = "landed" => disk.orders[other].status = "FILLED"]_vars
    BY <1>1
  <1> QED
    BY <1>2, SafeAlways, PTL DEF Spec, NoBlindRetry

LEMMA BookFacts ==
  ASSUME TypeOK, NEW id \in Ids
  PROVE  /\ Open(disk.orders, id) <=> BookOf(disk.orders[id].status) = "open"
         /\ disk.orders[id].status = "NONE" <=> BookOf(disk.orders[id].status) = "none"
  <1>1. disk.orders[id].status \in Statuses
    BY BookTypes DEF Orders
  <1> QED
    BY <1>1 DEF Open, BookOf, Statuses, Unsettled

LEMMA LedgerStutters ==
  ASSUME UNCHANGED <<disk, chain>>
  PROVE  UNCHANGED Ledger!ledger
  BY DEF Ledger!ledger, BookOf

\* A save that forgets no intent and reopens none closes intents, if anything.
LEMMA SaveCloses ==
  ASSUME SafeInv, SafeInv', Save, UNCHANGED chain,
         \A id \in Ids : ~ Open(disk.orders, id) => orders'[id] = disk.orders[id],
         \A id \in Ids : Open(disk.orders, id) => orders'[id].status # "NONE"
  PROVE  Ledger!Close
  <1> DEFINE book(id) == BookOf(disk.orders[id].status)
  <1>1. disk'.orders = orders' /\ TypeOK /\ TypeOK'
    BY SaveFacts DEF SafeInv, PersistInv
  <1>2. \A id \in Ids : orders'[id].status \in Statuses /\ disk.orders[id].status \in Statuses
    BY <1>1, BookTypes DEF Orders, TypeOK, Snapshot, Books
  <1>3. ASSUME NEW id \in Ids
        PROVE  \/ BookOf(orders'[id].status) = book(id)
               \/ book(id) = "open" /\ chain[id] = "landed"
                     /\ BookOf(orders'[id].status) = "filled"
               \/ book(id) = "open" /\ chain[id] \in {"none", "reverted"}
                     /\ BookOf(orders'[id].status) = "void"
    <2>1. CASE ~ Open(disk.orders, id)
      BY <2>1
    <2>2. CASE Open(disk.orders, id)
      <3>1. book(id) = "open" /\ orders'[id].status # "NONE"
        BY <1>1, <2>2, BookFacts
      <3>2. CASE orders'[id].status = "FILLED"
        BY <3>1, <3>2 DEF SafeInv, Judges, BookOf
      <3>3. CASE orders'[id].status = "FAILED"
        BY <3>1, <3>3 DEF SafeInv, Judges, BookOf
      <3>4. CASE orders'[id].status \in Unsettled
        BY <3>1, <3>4 DEF BookOf, Unsettled
      <3> QED
        BY <1>2, <3>1, <3>2, <3>3, <3>4 DEF Statuses
    <2> QED
      BY <2>1, <2>2
  <1>4. \A id \in Ids : BookOf(orders'[id].status) \in {"none", "open", "filled", "void"}
    BY <1>2 DEF BookOf, Statuses, Unsettled
  <1> QED
    BY <1>1, <1>3, <1>4 DEF Ledger!Close

LEMMA PrepareIntends ==
  ASSUME SafeInv, SafeInv', NEW id \in Ids, NEW size \in Sizes, PrepareOrder(id, size)
  PROVE  Ledger!Intend(id)
  <1>1. /\ disk'.orders = orders' /\ TypeOK /\ disk = Snapshot /\ disk.orders = orders
        /\ UNCHANGED chain
    BY SaveFacts DEF SafeInv, PersistInv, Agreement, PrepareOrder, MayAttempt, Snapshot,
                     chainVars
  <1>2. disk.orders[id].status = "NONE" /\ chain[id] = "none"
    BY <1>1, PrepareFacts DEF SafeInv, PersistInv, Knows
  <1>3. \A other \in Ids : other.token = id.token => ~ Open(disk.orders, other)
    BY <1>1 DEF PrepareOrder, MayAttempt, HasUnresolvedOrder, PendingOrders, Open
  <1>4. BookOf(disk.orders[id].status) = "none"
        /\ \A other \in Ids : TokenOf(other) = TokenOf(id) =>
              BookOf(disk.orders[other].status) # "open"
    BY <1>1, <1>2, <1>3, BookFacts DEF TokenOf
  <1>5. BookOf(disk'.orders[id].status) = "open"
        /\ \A o \in Ids \ {id} : disk'.orders[o] = disk.orders[o]
    BY <1>1, PrepareFacts DEF BookOf
  <1> QED
    BY <1>1, <1>2, <1>4, <1>5 DEF Ledger!Intend

LEMMA LedgerStep ==
  ASSUME SafeInv, SafeInv', [Next]_vars
  PROVE  [Ledger!Next]_(Ledger!ledger)
  <1>0. TypeOK /\ Agreement
    BY DEF SafeInv, PersistInv
  <1> USE DEF bookVars, chainVars, ctlVars
  <1>1. CASE Start \/ ReconcileCash \/ PortfolioError \/ BeginTick \/ Crash
    BY <1>1, LedgerStutters DEF Start, ReconcileCash, PortfolioError, BeginTick, Crash
  <1>2. CASE FinishStartup \/ FinishReconcile \/ EndTick
    <2>1. Save /\ orders' = orders /\ UNCHANGED chain
      BY <1>2 DEF FinishStartup, FinishReconcile, EndTick
    <2>2. Ledger!Close
      BY <1>0, <2>1, SaveCloses DEF Agreement
    <2> QED
      BY <2>2 DEF Ledger!Next
  <1>3. CASE Broadcast
    <2>1. cur \in Ids /\ chain[cur] = "none" /\ Open(disk.orders, cur) /\ UNCHANGED disk
      BY <1>3 DEF Broadcast, SafeInv, PersistInv, Process, Agreement, Snapshot, TypeOK, Open
    <2>2. Ledger!Broadcast(cur)
      BY <1>0, <1>3, <2>1, BookFacts DEF Broadcast, Ledger!Broadcast
    <2> QED
      BY <2>1, <2>2 DEF Ledger!Next
  <1>4. CASE SwapOutcome
    <2>1. /\ cur \in Ids /\ Open(orders, cur) /\ disk.orders = orders
          /\ Save /\ UNCHANGED chain
      BY <1>4 DEF SwapOutcome, SwapReturned, SwapAmbiguous, SwapError, ConfirmFill, FillNotLogged,
                  ConfirmUnknown, ConfirmError, FailAttempt, SafeInv, PersistInv, Process,
                  Agreement, Snapshot, TypeOK
    <2>2. orders'[cur].status # "NONE" /\ \A o \in Ids \ {cur} : orders'[o] = orders[o]
      <3>1. CASE SwapReturned
        BY <1>0, <3>1, SwapReturnedFacts
      <3>2. CASE SwapAmbiguous \/ ConfirmUnknown
        BY <1>0, <2>1, <3>2, SetStatusFacts
        DEF SwapAmbiguous, ConfirmUnknown, FailAttempt, Statuses, Unsettled
      <3>3. CASE SwapError \/ ConfirmError
        BY <1>0, <2>1, <3>3, SetStatusFacts DEF SwapError, ConfirmError, FailAttempt, Statuses
      <3>4. CASE ConfirmFill
        BY <1>0, <2>1, <3>4, BookFillFacts DEF ConfirmFill
      <3>5. CASE FillNotLogged
        BY <1>0, <2>1, <3>5, ApplyFillFacts DEF FillNotLogged, Statuses
      <3> QED
        BY <1>4, <3>1, <3>2, <3>3, <3>4, <3>5 DEF SwapOutcome
    <2>3. \A id \in Ids : ~ Open(disk.orders, id) => orders'[id] = disk.orders[id]
      BY <2>1, <2>2 DEF Open
    <2>4. \A id \in Ids : Open(disk.orders, id) => orders'[id].status # "NONE"
      BY <2>1, <2>2 DEF Open, Unsettled
    <2>5. Ledger!Close
      BY <2>1, <2>3, <2>4, SaveCloses
    <2> QED
      BY <2>5 DEF Ledger!Next
  <1>5. ASSUME NEW id \in Ids, Reconcile(id) PROVE UNCHANGED Ledger!ledger
    BY <1>5, LedgerStutters
    DEF Reconcile, ReconcileFill, ReconcileNotLogged, ReconcileFailed, ReconcileInconclusive
  <1>6. ASSUME NEW id \in Ids, Land(id) \/ Revert(id) PROVE Ledger!Settle(id)
    <2>1. chain[id] = "mempool" /\ UNCHANGED disk
          /\ \E outcome \in {"landed", "reverted"} : chain' = [chain EXCEPT ![id] = outcome]
      BY <1>6 DEF Land, Revert
    <2> QED
      BY <2>1 DEF Ledger!Settle, BookOf
  <1>7. ASSUME NEW id \in Ids, NEW size \in Sizes, Attempt(id, size)
        PROVE  Ledger!Close \/ Ledger!Intend(id)
    <2>1. CASE RejectBeforeSend(id, size) \/ DropPosition(id)
      <3>1. Save /\ orders' = orders /\ UNCHANGED chain
        BY <2>1 DEF RejectBeforeSend, DropPosition
      <3> QED
        BY <1>0, <3>1, SaveCloses DEF Agreement
    <2>2. CASE PrepareOrder(id, size)
      BY <2>2, PrepareIntends
    <2> QED
      BY <1>7, <2>1, <2>2 DEF Attempt
  <1>8. ASSUME NEW t \in Tokens, ReconcileToken(t) \/ Transfer(t)
        PROVE  UNCHANGED Ledger!ledger
    BY <1>8, LedgerStutters DEF ReconcileToken, Transfer
  <1>9. CASE UNCHANGED vars
    BY <1>9, LedgerStutters DEF vars
  <1> QED
    BY <1>1, <1>2, <1>3, <1>4, <1>5, <1>6, <1>7, <1>8, <1>9 DEF Next, Ledger!Next

\* The state file is an order ledger: through crashes, lost answers and late
\* landings, execute, reconcile and main() together only ever intend, send and
\* truthfully close orders, one open order per token.
THEOREM ImplementsLedger ==
  ASSUME Undisturbed
  PROVE  Spec => LedgerSpec
  <1>1. Init => Ledger!Init
    BY DEF Init, EmptyBooks, NoOrder, BookOf, Ledger!Init
  <1>2. SafeInv /\ SafeInv' /\ [Next]_vars => [Ledger!Next]_(Ledger!ledger)
    BY LedgerStep
  <1> QED
    BY <1>1, <1>2, SafeAlways, PTL DEF Spec, LedgerSpec, Ledger!Spec
==============================================================================
