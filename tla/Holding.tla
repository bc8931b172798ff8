-------------------------------- MODULE Holding --------------------------------
(***************************************************************************)
(* One token from entry to exit, as run_tick and process_tick look after   *)
(* it: quoted while the universe maps it, stopped out at the hard stop or  *)
(* the profit lock, partly sold once, topped up, trimmed and closed, with  *)
(* orders whose outcome is known late, a state file that is behind the     *)
(* memory within a tick, and a start that reads the wallet.                *)
(*                                                                         *)
(* Prices are small integers and a trade fills at the tick's price.        *)
(***************************************************************************)
EXTENDS Universe, ProfitLock

CONSTANTS
    Asset,      \* the token followed
    Prices,     \* its executable prices
    MaxCrashes  \* bound: crashes of the process

ASSUME HoldingConstants ==
    /\ Asset \in All /\ Prices \subseteq Nat \ {0} /\ Prices # {} /\ MaxCrashes \in Nat

VARIABLES
    pos,      \* state.positions[Asset], with the history of its takes
    order,    \* its unresolved order
    disk,     \* both, as the state file has them
    price,    \* what the market would pay this tick
    pc,       \* where the process is
    crashes   \* crashes so far

vars == <<universeVars, pos, order, disk, price, pc, crashes>>

\* A take is the trim of the partial profit take.  What reconcile will find of an
\* order: a balance change, a failed transaction whose hash it has, or nothing.
Actions == {"buy", "close", "trim", "take"}
Sent(action, proof) == [action |-> action, proof |-> proof]
NoOrder == Sent("none", "none")
Orders == {NoOrder} \cup {Sent(a, p) : a \in Actions, p \in {"fill", "failure", "none"}}

\* takes is history: the partial takes that were confirmed at once, unless their
\* note was lost in a crash.
Positions == [held : BOOLEAN, avg : Nat, peak : Nat, taken : BOOLEAN, takes : Nat]
NoPosition == [held |-> FALSE, avg |-> 0, peak |-> 0, taken |-> FALSE, takes |-> 0]
NewPosition ==
    [held |-> TRUE, avg |-> price, peak |-> price, taken |-> FALSE, takes |-> 0]

Least(a, b) == IF a <= b THEN a ELSE b
Most(a, b) == IF a >= b THEN a ELSE b

Quotable == Asset \in Mapped

Init ==
    /\ UniverseInit
    /\ pos = NoPosition /\ order = NoOrder
    /\ disk = [pos |-> NoPosition, order |-> NoOrder]
    /\ price \in Prices
    /\ pc = "down" /\ crashes = 0

-----------------------------------------------------------------------------
(* Bookkeeping. *)

Save == disk' = [pos |-> pos', order |-> order']

\* Averages of the old entry price and the fill price.
Averages(old, fill) == {a \in Prices : Least(old, fill) <= a /\ a <= Most(old, fill)}

\* Mutant of Bought: a top-up is booked as a position of its own.
BoughtAnew == {[NewPosition EXCEPT !.takes = pos.takes]}

\* Mutant of Bought: the peak stays behind the fill price of a top-up.
BoughtStalePeak ==
    IF ~ pos.held THEN {NewPosition}
    ELSE {[pos EXCEPT !.avg = a] : a \in Averages(pos.avg, price)}

\* _apply_live_buy: a new position, or a top-up that averages the entry price
\* and keeps the rest.
Bought ==
    IF ~ pos.held THEN {NewPosition}
    ELSE {[pos EXCEPT !.avg = a, !.peak = Most(@, price)] : a \in Averages(pos.avg, price)}

\* The position after a fill; a trim leaves the one before it, now, as it is.
Booked(now, action) ==
    CASE action = "buy"   -> Bought
      [] action = "close" -> {NoPosition}
      [] OTHER            -> {now}

\* The order is not sent or its swap fails; its outcome is known late; it fills.
\* after is the position the tick goes on with, and _exec_and_log saves it.
Failed(after) == pos' = after /\ order' = NoOrder /\ Save
Late(after, action) ==
    /\ pos' = after
    /\ \E proof \in {"fill", "failure", "none"} : order' = Sent(action, proof)
    /\ Save
Filled(action) == pos' \in Booked(pos, action) /\ order' = NoOrder /\ Save

\* The last save of _exec_and_log raises, which ends the tick: the file has the
\* intent that preceded the swap, or not even that and the swap was not tried.
Unsaved(before, action) ==
    /\ order = NoOrder /\ pc' = "idle"
    /\ \/ /\ pos' \in Booked(before, action) /\ order' = NoOrder
          /\ disk' = [pos |-> before, order |-> Sent(action, "fill")]
       \/ /\ pos' = before /\ order' \in {NoOrder, Sent(action, "failure")}
          /\ \E proof \in {"failure", "none"} :
                disk' = [pos |-> before, order |-> Sent(action, proof)]
       \/ pos' = before /\ UNCHANGED <<order, disk>>

\* Mutant of Settles: sales are left to the next attempt.
SettlesBuys == Quotable /\ order.action = "buy" /\ order.proof # "none"

\* reconcile settles an order by the balances, which it reads by the token's
\* contract, or by the failure of a transaction whose hash it has.  An order
\* that left neither, such as one never broadcast, stays for manual review.
Settles == Quotable /\ order # NoOrder /\ order.proof # "none"

ReconcileOrder ==
    /\ Settles
    /\ IF order.proof = "fill" THEN Filled(order.action) ELSE Failed(pos)

\* The fill is booked, but the event log cannot be written: the order is marked
\* unknown again.
ReconcileUnlogged ==
    /\ Settles /\ order.proof = "fill"
    /\ pos' \in Booked(pos, order.action) /\ UNCHANGED order /\ Save

-----------------------------------------------------------------------------
(* main's start, and run_tick up to the prices. *)

\* The state file and the cache are loaded, orders reconciled and the wallet
\* read: for a holding that is not mapped, reconcile_portfolio raises and the
\* process ends, as it does when the save raises.
Start ==
    /\ pc = "down" /\ pc' = "idle"
    /\ \/ ReconcileOrder \/ ReconcileUnlogged
       \/ UNCHANGED <<pos, order>> /\ Save
    /\ pos'.held => Quotable
    /\ UNCHANGED <<universeVars, price, crashes>>

TimePasses ==
    /\ pc = "idle"
    /\ price' \in Prices
    /\ \E d \in 0..1 : GrowOlder(d)
    /\ UNCHANGED crashes

\* Time has passed and the price moved; pending orders are reconciled.
BeginTick ==
    /\ TimePasses /\ pc' = "refresh"
    /\ ReconcileOrder \/ ReconcileUnlogged \/ UNCHANGED <<pos, order, disk>>

\* The save after reconcile raises, which ends the tick.
ReconcileUnsaved ==
    /\ TimePasses /\ pc' = "idle"
    /\ Settles
    /\ pos' \in IF order.proof = "fill" THEN Booked(pos, order.action) ELSE {pos}
    /\ order' = NoOrder /\ UNCHANGED disk

RefreshUniverse ==
    /\ pc = "refresh" /\ pc' = "protect"
    /\ \E good \in SUBSET All, written \in BOOLEAN : Refresh(good, written)
    /\ UNCHANGED <<pos, order, disk, price, crashes>>

\* Not due, or the resolved contracts cannot be read: tried again next tick.
SkipRefresh ==
    /\ pc = "refresh" /\ pc' = "protect"
    /\ UNCHANGED <<universeVars, pos, order, disk, price, crashes>>

-----------------------------------------------------------------------------
(* process_tick's protection of the holding. *)

\* Mutant of Marked: the peak follows the price down.
MarkedDown == [pos EXCEPT !.peak = price]

\* The holding with the peak this quote gives it.
Marked == [pos EXCEPT !.peak = Most(@, price)]

\* No holding, or no executable quote of it: nothing is inferred.
Unquoted ==
    /\ pc = "protect" /\ pc' = "trade"
    /\ UNCHANGED <<universeVars, pos, order, disk, price, crashes>>

Protecting == pc = "protect" /\ pos.held /\ Quotable /\ UNCHANGED <<universeVars, price, crashes>>
Stopping == Protecting /\ StopHit(pos.avg, Marked.peak, price)
Taking == /\ Protecting /\ ~ StopHit(pos.avg, Marked.peak, price)
          /\ ~ pos.taken /\ PartialDue(pos.avg, price)

\* The quote calls for nothing, or for a take that is worth too little, or an
\* unresolved order or the back-off after an error blocks what it calls for:
\* only the peak in memory changes.
Watch ==
    /\ Protecting
    /\ pos' = Marked /\ pc' = "trade"
    /\ UNCHANGED <<order, disk>>

StopFills == Stopping /\ order = NoOrder /\ Filled("close") /\ pc' = "trade"

StopMisses ==
    /\ Stopping /\ order = NoOrder
    /\ Failed(Marked) \/ Late(Marked, "close")
    /\ pc' = "trade"

\* The take is booked and saved before it is noted on the position.
TakeFills ==
    /\ Taking /\ order = NoOrder
    /\ pos' = [Marked EXCEPT !.takes = @ + 1] /\ UNCHANGED order /\ Save
    /\ pc' = "note"

\* The take is booked and saved, but an error on the way, such as an event log
\* that cannot be written, reports it as not done: it is not noted.
TakeSlips ==
    /\ Taking /\ order = NoOrder
    /\ pos' = Marked /\ UNCHANGED order /\ Save
    /\ pc' = "trade"

NoteTake ==
    /\ pc = "note" /\ pc' = "trade"
    /\ pos' = [pos EXCEPT !.taken = TRUE] /\ UNCHANGED order /\ Save
    /\ UNCHANGED <<universeVars, price, crashes>>

\* The save of the note raises, which ends the tick.
NoteUnsaved ==
    /\ pc = "note" /\ pc' = "idle"
    /\ pos' = [pos EXCEPT !.taken = TRUE]
    /\ UNCHANGED <<universeVars, order, disk, price, crashes>>

TakeMisses ==
    /\ Taking /\ order = NoOrder
    /\ Failed(Marked) \/ Late(Marked, "take")
    /\ pc' = "trade"

ProtectUnsaved ==
    \/ Stopping /\ Unsaved(Marked, "close")
    \/ Taking /\ Unsaved(Marked, "take")

-----------------------------------------------------------------------------
(* The tick's decisions, and its end. *)

Trading == pc = "trade" /\ pc' = "idle" /\ UNCHANGED <<universeVars, price, crashes>>

\* Nothing of this token is traded; the tick ends with a save.
Hold == Trading /\ UNCHANGED <<pos, order>> /\ Save

\* An entry or a top-up needs a validated route.
Buying == Trading /\ Quotable /\ metrics[Asset] # Unknown
Buy == Buying /\ order = NoOrder /\ (Filled("buy") \/ Late(pos, "buy"))

\* A rotation or health exit, or a trim, of the holding.
Reducing == Trading /\ Quotable /\ pos.held
Reduce(action) == Reducing /\ order = NoOrder /\ (Filled(action) \/ Late(pos, action))

TradeUnsaved ==
    \/ Buying /\ Unsaved(pos, "buy")
    \/ \E action \in {"close", "trim"} : Reducing /\ Unsaved(pos, action)

\* The snapshot, a decision, an event or the tick's last save raises: the loop
\* goes on with what is in memory.
TickError ==
    /\ pc \in {"refresh", "protect", "trade"} /\ pc' = "idle"
    /\ UNCHANGED <<universeVars, pos, order, disk, price, crashes>>

\* The process dies, with an order on its way, a fill or the note of a take not
\* yet saved; the next one has the two files.
Crash ==
    /\ pc # "down" /\ crashes < MaxCrashes
    /\ crashes' = crashes + 1 /\ pc' = "down"
    /\ pos' = IF (pc = "note" \/ pos.taken) /\ ~ disk.pos.taken
              THEN [disk.pos EXCEPT !.takes = 0] ELSE disk.pos
    /\ order' = disk.order /\ LoadCache
    /\ UNCHANGED <<disk, price>>

Next ==
    \/ Start \/ BeginTick \/ ReconcileUnsaved \/ RefreshUniverse \/ SkipRefresh
    \/ Unquoted \/ Watch \/ StopFills \/ StopMisses
    \/ TakeFills \/ TakeSlips \/ NoteTake \/ NoteUnsaved \/ TakeMisses \/ ProtectUnsaved
    \/ Hold \/ Buy \/ Reduce("close") \/ Reduce("trim") \/ TradeUnsaved
    \/ TickError \/ Crash

\* systemd restarts the process and its loop goes on; ticks do not fail for
\* ever.  An order that can be settled is, and a stop fills, when they are tried
\* again and again; nothing is assumed of an order that cannot.
Fairness ==
    /\ WF_vars(Start) /\ WF_vars(BeginTick) /\ WF_vars(Unquoted)
    /\ WF_vars(NoteTake) /\ WF_vars(Hold)
    /\ SF_vars(RefreshUniverse \/ SkipRefresh)
    /\ SF_vars(ReconcileOrder /\ BeginTick) /\ SF_vars(StopFills)

Spec == Init /\ [][Next]_vars /\ Fairness

-----------------------------------------------------------------------------
(* Properties. *)

TypeOK ==
    /\ UniverseTypeOK
    /\ pos \in Positions /\ order \in Orders
    /\ disk \in [pos : Positions, order : Orders]
    /\ pc \in {"down", "idle", "refresh", "protect", "note", "trade"}
    /\ pos.held => 0 < pos.avg /\ pos.avg <= pos.peak

\* The saved protection of a position only tightens: a price that would have
\* sold it still does after any save, whatever was retried, lost in a crash or
\* reconciled in between, unless a top-up changed its average entry price.  (What
\* the memory knows to be sold is a position of the past, though the file of a
\* failed save still has it.)
StopRatchets ==
    [][(pos.held /\ disk.pos.held /\ disk'.pos.held /\ disk.pos.avg = disk'.pos.avg) =>
          \A p \in Prices : StopHit(disk.pos.avg, disk.pos.peak, p)
                                => StopHit(disk'.pos.avg, disk'.pos.peak, p)]_vars

\* A position is partly sold for its profit at most once, whatever top-ups,
\* trims and retries follow.  Not counted are the takes that the process
\* booked but could not note: one confirmed late, one whose log or save raised,
\* and one whose note a crash lost.
TakenOnce == pos.takes <= 1

AtHardStop == pos.held /\ Quotable /\ HardStopHit(pos.avg, price)
Undecided == order # NoOrder /\ order.proof = "none"

\* A holding whose price stays at its hard stop, and which stays quotable, does
\* not stay for ever, whatever fails on the way, unless an order that waits for
\* manual review blocks it.
StopIsServed == ~ <>[](AtHardStop /\ ~ Undecided)

\* A process that is down comes up again (Restart=always).
ComesUp == (pc = "down") ~> (pc # "down")
===============================================================================
