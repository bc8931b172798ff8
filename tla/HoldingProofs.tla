----------------------------- MODULE HoldingProofs -----------------------------
(***************************************************************************)
(* What holds of Holding, and of the Universe it reads, for any tokens,    *)
(* prices, floors, retention times and number of crashes.                  *)
(***************************************************************************)
EXTENDS Holding, TLAPS

\* No metrics are younger than the last accepted probe; a recent one that no
\* restart forgot is mapped, and is in the file when its write did not fail.
UniverseInv ==
    /\ UniverseTypeOK
    /\ \A t \in All :
          metrics[t] # Unknown => probed[t] <= metrics[t] /\ metrics[t] <= Retain + refreshed
    /\ \A t \in Dynamic \ lost :
          probed[t] <= Retain => t \in assets /\ metrics[t] = probed[t]
    /\ \A t \in All :
          cache.metrics[t] # Unknown => /\ probed[t] <= cache.metrics[t]
                                        /\ cache.metrics[t] <= Retain + cache.refreshed
    /\ \A t \in Dynamic \ (lost \cup unsaved) :
          probed[t] <= Retain => t \in cache.assets /\ cache.metrics[t] = probed[t]

PositionOK(p) == p \in Positions /\ (p.held => 0 < p.avg /\ p.avg <= p.peak)

\* The position and its saved copy.  A failed save leaves the copy behind, at
\* most in the peak while an order is open.
BooksOK ==
    /\ PositionOK(pos) /\ order \in Orders
    /\ disk \in [pos : Positions, order : Orders] /\ PositionOK(disk.pos)
    /\ pos.held /\ disk.pos.held => disk.pos.peak <= pos.peak
    /\ order # NoOrder => disk.pos.held = pos.held /\ disk.pos.taken = pos.taken

Control ==
    /\ pc \in {"down", "idle", "refresh", "protect", "note", "trade"}
    /\ price \in Prices

\* A take that counts is noted or about to be; the saved copy of one may rest on
\* the note in memory.
TakesNoted ==
    /\ pos.takes \in {0, 1} /\ disk.pos.takes \in {0, 1}
    /\ pos.takes = 0 \/ pos.taken = TRUE \/ pc = "note"
    /\ disk.pos.takes = 0 \/ disk.pos.taken = TRUE \/ pos.taken = TRUE \/ pc \in {"note", "down"}
    /\ pc = "note" => order = NoOrder

\* The inductive invariant.
HoldingInv == UniverseInv /\ BooksOK /\ Control /\ TakesNoted

-----------------------------------------------------------------------------
(* The universe. *)

LEMMA UniverseStarts == UniverseInit => UniverseInv
  BY UniverseConstants
     DEF UniverseInit, UniverseInv, UniverseTypeOK, Overlays, NoCache, Ages, Unknown, All

LEMMA OlderAges ==
  ASSUME NEW a \in Ages \cup {Unknown}, NEW d \in 0..1
  PROVE  /\ Older(a, d) \in Ages \cup {Unknown}
         /\ Older(a, d) = Unknown <=> a = Unknown
         /\ a # Unknown => Older(a, d) \in Ages /\ a <= Older(a, d)
         /\ Older(a, d) # Unknown /\ Older(a, d) < AgeCap => Older(a, d) = a + d
         /\ a # Unknown => Older(a, d) <= a + d /\ Older(a, d) <= AgeCap
  <1>1. AgeCap \in Nat /\ Unknown = -1
    BY UniverseConstants DEF Unknown
  <1>2. CASE a = Unknown
    BY <1>1, <1>2 DEF Older, Ages
  <1>3. CASE a \in Ages
    BY <1>1, <1>3 DEF Older, Ages
  <1> QED
    BY <1>2, <1>3

LEMMA TimeKeepsUniverse ==
  ASSUME UniverseInv, NEW d \in 0..1, GrowOlder(d)
  PROVE  UniverseInv'
  <1> USE UniverseConstants
  <1>0. /\ \A t \in All : metrics'[t] = Older(metrics[t], d) /\ probed'[t] = Older(probed[t], d)
        /\ \A t \in All : cache'.metrics[t] = Older(cache.metrics[t], d)
        /\ refreshed' = Older(refreshed, d) /\ cache'.refreshed = Older(cache.refreshed, d)
        /\ cache'.assets = cache.assets
        /\ assets' = assets /\ lost' = lost /\ unsaved' = unsaved
    BY DEF UniverseInv, UniverseTypeOK, Overlays, GrowOlder
  <1>1. UniverseTypeOK'
    BY OlderAges DEF UniverseInv, UniverseTypeOK, GrowOlder, Overlays, Unknown, Ages
  <1>2. ASSUME NEW a \in Ages \cup {Unknown}, NEW b \in Ages, NEW c \in Ages,
               Older(a, d) # Unknown, a # Unknown => b <= a /\ a <= Retain + c
        PROVE  Older(b, d) <= Older(a, d) /\ Older(a, d) <= Retain + Older(c, d)
    <2>1. AgeCap \in Nat /\ Retain \in Nat
      OBVIOUS
    <2>2. a \in Ages /\ b <= a /\ a <= Retain + c
      BY <1>2 DEF Older
    <2>3. a \in Nat /\ b \in Nat /\ c \in Nat /\ a # Unknown /\ b # Unknown /\ c # Unknown
      BY <2>1, <2>2 DEF Ages, Unknown
    <2> QED
      BY <2>1, <2>2, <2>3 DEF Older
  <1>3. ASSUME NEW t \in All, metrics'[t] # Unknown
        PROVE  probed'[t] <= metrics'[t] /\ metrics'[t] <= Retain + refreshed'
    <2>1. metrics[t] \in Ages \cup {Unknown} /\ probed[t] \in Ages /\ refreshed \in Ages
      BY DEF UniverseInv, UniverseTypeOK, Overlays
    <2> QED
      BY <1>0, <1>2, <1>3, <2>1 DEF UniverseInv
  <1>4. ASSUME NEW t \in All, cache'.metrics[t] # Unknown
        PROVE  /\ probed'[t] <= cache'.metrics[t]
               /\ cache'.metrics[t] <= Retain + cache'.refreshed
    <2>1. /\ cache.metrics[t] \in Ages \cup {Unknown} /\ probed[t] \in Ages
          /\ cache.refreshed \in Ages
      BY DEF UniverseInv, UniverseTypeOK, Overlays
    <2> QED
      BY <1>0, <1>2, <1>4, <2>1 DEF UniverseInv
  <1>5. ASSUME NEW t \in Dynamic, probed'[t] <= Retain PROVE t \in All /\ probed[t] <= Retain
    <2>1. t \in All /\ probed[t] \in Ages
      BY DEF UniverseInv, UniverseTypeOK, All
    <2> QED
      BY <1>0, <1>5, <2>1 DEF Older, Ages, Unknown
  <1>6. ASSUME NEW t \in Dynamic \ lost', probed'[t] <= Retain
        PROVE  t \in assets' /\ metrics'[t] = probed'[t]
    BY <1>0, <1>5, <1>6 DEF UniverseInv
  <1>7. ASSUME NEW t \in Dynamic \ (lost' \cup unsaved'), probed'[t] <= Retain
        PROVE  t \in cache'.assets /\ cache'.metrics[t] = probed'[t]
    BY <1>0, <1>5, <1>7 DEF UniverseInv
  <1> QED
    BY <1>1, <1>3, <1>4, <1>6, <1>7 DEF UniverseInv

\* What a refresh makes of the tokens it probed, kept and dropped.
LEMMA RefreshedOverlay ==
  ASSUME UniverseInv, NEW good \in SUBSET All
  PROVE  /\ Refreshed(good) \in Overlays
         /\ Refreshed(good).refreshed = 0
         /\ \A t \in good : Refreshed(good).metrics[t] = 0
         /\ \A t \in good \cap Dynamic : t \in Refreshed(good).assets
         /\ \A t \in All \ good :
               IF t \in assets /\ metrics[t] \in 0..Retain
               THEN t \in Refreshed(good).assets /\ Refreshed(good).metrics[t] = metrics[t]
               ELSE Refreshed(good).metrics[t] = Unknown
  <1> DEFINE kept == {t \in assets \ good : metrics[t] \in 0..Retain}
             ages == [t \in All |-> IF t \in good THEN 0
                                    ELSE IF t \in kept THEN metrics[t] ELSE Unknown]
  <1>1. Refreshed(good) = [assets |-> (good \cap Dynamic) \cup kept,
                           metrics |-> ages, refreshed |-> 0]
    BY DEF Refreshed
  <1>2. assets \subseteq Dynamic /\ metrics \in [All -> Ages \cup {Unknown}]
    BY DEF UniverseInv, UniverseTypeOK, Overlays
  <1>3. ages \in [All -> Ages \cup {Unknown}] /\ 0 \in Ages
    BY <1>2, UniverseConstants DEF Ages
  <1> QED
    BY <1>1, <1>2, <1>3 DEF Overlays

LEMMA RefreshKeepsUniverse ==
  ASSUME UniverseInv, NEW good \in SUBSET All, NEW written \in BOOLEAN, Refresh(good, written)
  PROVE  UniverseInv'
  <1> DEFINE new == Refreshed(good)
  <1>1. /\ assets' = new.assets /\ metrics' = new.metrics /\ refreshed' = new.refreshed
        /\ cache' = IF written THEN new ELSE cache
        /\ probed' = [t \in All |-> IF t \in good THEN 0 ELSE probed[t]]
        /\ unsaved' = IF written THEN {} ELSE unsaved \cup (good \cap Dynamic)
        /\ lost' = lost \ good
    BY DEF Refresh
  <1> HIDE DEF new
  <1>2. /\ new \in Overlays /\ new.refreshed = 0
        /\ \A t \in good : new.metrics[t] = 0
        /\ \A t \in good \cap Dynamic : t \in new.assets
        /\ \A t \in All \ good :
              IF t \in assets /\ metrics[t] \in 0..Retain
              THEN t \in new.assets /\ new.metrics[t] = metrics[t]
              ELSE new.metrics[t] = Unknown
    BY RefreshedOverlay DEF new
  <1>3. Retain \in Nat /\ AgeCap \in Nat /\ Retain < AgeCap /\ Unknown = -1
    BY UniverseConstants DEF Unknown
  <1>4. ASSUME NEW t \in All, new.metrics[t] # Unknown
        PROVE  probed'[t] <= new.metrics[t] /\ new.metrics[t] <= Retain + new.refreshed
    <2>1. CASE t \in good
      BY <1>1, <1>2, <1>3, <2>1
    <2>2. CASE t \notin good
      <3>1. t \in assets /\ metrics[t] \in 0..Retain /\ new.metrics[t] = metrics[t]
        BY <1>2, <1>4, <2>2
      <3>2. probed[t] <= metrics[t]
        BY <1>3, <3>1 DEF UniverseInv
      <3> QED
        BY <1>1, <1>2, <1>3, <2>2, <3>1, <3>2
    <2> QED
      BY <2>1, <2>2
  <1>5. new = [assets |-> new.assets, metrics |-> new.metrics, refreshed |-> new.refreshed]
    BY <1>2 DEF Overlays
  <1>6. UniverseTypeOK'
    <2>1. probed' \in [All -> Ages]
      BY <1>1, <1>3 DEF UniverseInv, UniverseTypeOK, Ages
    <2>2. cache' \in Overlays
      BY <1>1, <1>2 DEF UniverseInv, UniverseTypeOK
    <2>3. [assets |-> assets', metrics |-> metrics', refreshed |-> refreshed'] \in Overlays
      BY <1>1, <1>2, <1>5
    <2>4. unsaved' \subseteq Dynamic /\ lost' \subseteq Dynamic
      BY <1>1 DEF UniverseInv, UniverseTypeOK
    <2> QED
      BY <2>1, <2>2, <2>3, <2>4 DEF UniverseTypeOK
  <1>7. ASSUME NEW t \in Dynamic \ lost', probed'[t] <= Retain
        PROVE  t \in new.assets /\ new.metrics[t] = probed'[t]
    <2>0. t \in All
      BY DEF All
    <2>1. CASE t \in good
      BY <1>1, <1>2, <1>3, <2>0, <2>1
    <2>2. CASE t \notin good
      <3>1. probed[t] <= Retain /\ probed[t] \in Nat /\ t \notin lost /\ probed'[t] = probed[t]
        BY <1>1, <1>7, <2>0, <2>2 DEF UniverseInv, UniverseTypeOK, Ages
      <3>2. t \in assets /\ metrics[t] = probed[t]
        BY <3>1 DEF UniverseInv
      <3>3. metrics[t] \in 0..Retain
        BY <1>3, <3>1, <3>2
      <3> QED
        BY <1>2, <2>0, <2>2, <3>1, <3>2, <3>3
    <2> QED
      BY <2>1, <2>2
  <1>8. ASSUME NEW t \in All, cache'.metrics[t] # Unknown
        PROVE  /\ probed'[t] <= cache'.metrics[t]
               /\ cache'.metrics[t] <= Retain + cache'.refreshed
    <2>1. CASE written
      BY <1>1, <1>4, <1>8, <2>1
    <2>2. CASE ~ written
      <3>1. /\ cache' = cache /\ cache.metrics[t] \in Ages
            /\ probed[t] <= cache.metrics[t] /\ cache.metrics[t] <= Retain + cache.refreshed
        BY <1>1, <1>8, <2>2 DEF UniverseInv, UniverseTypeOK, Overlays
      <3> QED
        BY <1>1, <1>3, <3>1 DEF Ages
    <2> QED
      BY <2>1, <2>2
  <1>9. ASSUME NEW t \in Dynamic \ (lost' \cup unsaved'), probed'[t] <= Retain
        PROVE  t \in cache'.assets /\ cache'.metrics[t] = probed'[t]
    <2>1. CASE written
      BY <1>1, <1>7, <1>9, <2>1
    <2>2. CASE ~ written
      <3>1. t \in All /\ t \notin good /\ t \notin lost /\ t \notin unsaved
        BY <1>1, <2>2 DEF All
      <3> QED
        BY <1>1, <1>9, <2>2, <3>1 DEF UniverseInv
    <2> QED
      BY <2>1, <2>2
  <1> QED
    BY <1>1, <1>4, <1>6, <1>7, <1>8, <1>9 DEF UniverseInv

LEMMA LoadKeepsUniverse ==
  ASSUME UniverseInv, LoadCache
  PROVE  UniverseInv'
  <1>1. /\ assets' = cache.assets /\ metrics' = cache.metrics /\ refreshed' = cache.refreshed
        /\ lost' = lost \cup unsaved /\ unsaved' = {} /\ cache' = cache /\ probed' = probed
    BY DEF LoadCache
  <1>2. /\ cache \in Overlays
        /\ cache = [assets |-> cache.assets, metrics |-> cache.metrics,
                    refreshed |-> cache.refreshed]
    BY DEF UniverseInv, UniverseTypeOK, Overlays
  <1>3. UniverseTypeOK'
    BY <1>1, <1>2 DEF UniverseInv, UniverseTypeOK
  <1> QED
    BY <1>1, <1>3 DEF UniverseInv

-----------------------------------------------------------------------------
(* The books. *)

LEMMA PricesPositive == ASSUME price \in Prices PROVE price \in Nat /\ 0 < price
  BY HoldingConstants

LEMMA NewPositions ==
  ASSUME price \in Prices
  PROVE  /\ PositionOK(NoPosition) /\ ~ NoPosition.held /\ NoPosition.takes = 0
         /\ PositionOK(NewPosition) /\ NewPosition.held /\ NewPosition.takes = 0
  BY PricesPositive DEF PositionOK, Positions, NoPosition, NewPosition

LEMMA MarkedPosition ==
  ASSUME PositionOK(pos), price \in Prices
  PROVE  /\ PositionOK(Marked) /\ Marked.held = pos.held /\ Marked.avg = pos.avg
         /\ Marked.taken = pos.taken /\ Marked.takes = pos.takes
         /\ pos.peak <= Marked.peak
  <1>1. price \in Nat
    BY PricesPositive
  <1>2. /\ pos.peak \in Nat /\ pos.avg \in Nat
        /\ Marked = [held |-> pos.held, avg |-> pos.avg, peak |-> Most(pos.peak, price),
                     taken |-> pos.taken, takes |-> pos.takes]
        /\ Most(pos.peak, price) \in Nat /\ pos.peak <= Most(pos.peak, price)
    BY <1>1 DEF PositionOK, Positions, Marked, Most
  <1> QED
    BY <1>2 DEF PositionOK, Positions

\* The position q continues p: a new peak at most, or a top-up; or it starts anew,
\* or is none.
Continues(p, q) ==
    /\ p.held /\ q.held => p.peak <= q.peak
    /\ q.takes = 0 \/ (q.takes = p.takes /\ q.taken = p.taken)

\* What a fill may make of a position.
LEMMA BookedPositions ==
  ASSUME PositionOK(pos), price \in Prices,
         NEW action \in Actions, NEW now, now = pos \/ (now = Marked /\ action # "buy"),
         NEW p \in Booked(now, action)
  PROVE  PositionOK(p) /\ Continues(now, p)
  <1>0. PositionOK(now)
    BY MarkedPosition
  <1>1. CASE action = "buy" /\ ~ pos.held
    BY <1>1, NewPositions DEF Booked, Bought, Continues
  <1>2. CASE action = "buy" /\ pos.held
    <2>1. PICK a \in Averages(pos.avg, price) :
             p = [pos EXCEPT !.avg = a, !.peak = Most(@, price)]
      BY <1>2 DEF Booked, Bought
    <2>2. price \in Nat /\ a \in Nat /\ 0 < a /\ a <= Most(pos.avg, price)
      BY <2>1, PricesPositive, HoldingConstants DEF Averages
    <2>3. /\ pos.avg \in Nat /\ pos.peak \in Nat /\ pos.avg <= pos.peak /\ pos.taken \in BOOLEAN
          /\ pos.held \in BOOLEAN /\ pos.takes \in Nat
          /\ p = [held |-> pos.held, avg |-> a, peak |-> Most(pos.peak, price),
                  taken |-> pos.taken, takes |-> pos.takes]
      BY <1>2, <2>1 DEF PositionOK, Positions
    <2>4. /\ Most(pos.peak, price) \in Nat /\ a <= Most(pos.peak, price)
          /\ pos.peak <= Most(pos.peak, price)
      BY <2>2, <2>3 DEF Most
    <2> QED
      BY <1>2, <2>2, <2>3, <2>4 DEF PositionOK, Positions, Continues
  <1>3. CASE action = "close"
    BY <1>3, NewPositions DEF Booked, Continues
  <1>4. CASE action \in {"trim", "take"}
    <2>1. p = now
      BY <1>4 DEF Booked
    <2> QED
      BY <1>0, <2>1 DEF Continues, PositionOK, Positions
  <1> QED
    BY <1>1, <1>2, <1>3, <1>4 DEF Actions

LEMMA SentOrders ==
  /\ NoOrder \in Orders
  /\ \A a \in Actions, p \in {"fill", "failure", "none"} : Sent(a, p) \in Orders
  /\ \A o \in Orders : o # NoOrder => o.action \in Actions
  BY DEF Orders, Sent, NoOrder, Actions

\* A save brings the file level with the memory.
LEMMA SavedStep ==
  ASSUME BooksOK, TakesNoted, pc # "note", pc' # "note",
         PositionOK(pos'), order' \in Orders, Save, Continues(pos, pos')
  PROVE  BooksOK' /\ TakesNoted'
  <1>1. disk' = [pos |-> pos', order |-> order'] /\ disk'.pos = pos'
    BY DEF Save
  <1>2. BooksOK'
    BY <1>1 DEF BooksOK, PositionOK, Positions
  <1>3. pos'.takes \in {0, 1} /\ (pos'.takes = 0 \/ pos'.taken = TRUE)
    BY DEF TakesNoted, Continues
  <1> QED
    BY <1>1, <1>2, <1>3 DEF TakesNoted

LEMMA FilledStep ==
  ASSUME BooksOK, Control, TakesNoted, pc # "note", pc' # "note",
         NEW action \in Actions, Filled(action)
  PROVE  BooksOK' /\ TakesNoted'
  <1>1. PositionOK(pos') /\ Continues(pos, pos') /\ order' \in Orders /\ Save
    BY BookedPositions, SentOrders DEF Filled, BooksOK, Control
  <1> QED
    BY <1>1, SavedStep

LEMMA SelfContinues == ASSUME PositionOK(pos) PROVE Continues(pos, pos)
  BY DEF Continues, PositionOK, Positions

LEMMA MarkContinues == ASSUME PositionOK(pos), price \in Prices PROVE Continues(pos, Marked)
  BY MarkedPosition DEF Continues

\* An attempt that fails or is left open books nothing.
LEMMA MissedStep ==
  ASSUME BooksOK, Control, TakesNoted, pc # "note", pc' # "note",
         NEW after \in {pos, Marked}, NEW action \in Actions, Failed(after) \/ Late(after, action)
  PROVE  BooksOK' /\ TakesNoted'
  <1>1. PositionOK(after) /\ Continues(pos, after)
    BY MarkedPosition, SelfContinues, MarkContinues DEF BooksOK, Control
  <1>2. pos' = after /\ Save /\ order' \in Orders
    BY SentOrders DEF Failed, Late
  <1> QED
    BY <1>1, <1>2, SavedStep

\* The attempt whose last save raises leaves the intent in the file.
LEMMA UnsavedStep ==
  ASSUME BooksOK, Control, TakesNoted, pc # "note", pc # "down", NEW action \in Actions,
         NEW before, before = pos \/ (before = Marked /\ action # "buy"),
         Unsaved(before, action)
  PROVE  BooksOK' /\ TakesNoted'
  <1>0. /\ PositionOK(before) /\ Continues(pos, before) /\ before.taken = pos.taken
        /\ before.takes = pos.takes /\ before.held = pos.held /\ pos.peak <= before.peak
    BY MarkedPosition, SelfContinues, MarkContinues DEF BooksOK, Control, PositionOK, Positions
  <1>1. /\ pc' = "idle" /\ order = NoOrder /\ order' \in Orders
        /\ before.takes \in {0, 1} /\ (before.takes = 0 \/ before.taken = TRUE)
    BY <1>0, SentOrders DEF Unsaved, TakesNoted
  <1>2. CASE /\ pos' \in Booked(before, action) /\ order' = NoOrder
             /\ disk' = [pos |-> before, order |-> Sent(action, "fill")]
    <2>1. PositionOK(pos') /\ Continues(before, pos')
      BY <1>2, BookedPositions DEF BooksOK, Control
    <2>2. disk'.pos = before /\ disk' \in [pos : Positions, order : Orders]
      BY <1>0, <1>2, SentOrders DEF PositionOK
    <2>3. BooksOK'
      BY <1>0, <1>1, <1>2, <2>1, <2>2 DEF BooksOK, Continues, PositionOK
    <2> QED
      BY <1>1, <1>2, <2>1, <2>2, <2>3 DEF TakesNoted, Continues
  <1>3. CASE /\ pos' = before
             /\ \E proof \in {"failure", "none"} :
                   disk' = [pos |-> before, order |-> Sent(action, proof)]
    <2>1. disk'.pos = before /\ disk' \in [pos : Positions, order : Orders]
      BY <1>0, <1>3, SentOrders DEF PositionOK
    <2>2. BooksOK'
      BY <1>0, <1>1, <1>3, <2>1 DEF BooksOK, PositionOK, Positions
    <2> QED
      BY <1>1, <1>3, <2>1, <2>2 DEF TakesNoted
  <1>4. CASE pos' = before /\ UNCHANGED <<order, disk>>
    <2>1. before.held /\ disk.pos.held => disk.pos.peak <= before.peak
      BY <1>0 DEF BooksOK, PositionOK, Positions
    <2>2. BooksOK'
      BY <1>0, <1>1, <1>4, <2>1 DEF BooksOK
    <2> QED
      BY <1>0, <1>1, <1>4, <2>2 DEF TakesNoted
  <1> QED
    BY <1>2, <1>3, <1>4 DEF Unsaved

\* An order that is settled late, or booked without being settled.
LEMMA ReconcileStep ==
  ASSUME BooksOK, Control, TakesNoted, ReconcileOrder \/ ReconcileUnlogged,
         pc # "note", pc' # "note"
  PROVE  BooksOK' /\ TakesNoted'
  <1>0. order.action \in Actions /\ order \in Orders
    BY SentOrders DEF ReconcileOrder, ReconcileUnlogged, Settles, BooksOK
  <1>1. CASE Filled(order.action)
    BY <1>0, <1>1, FilledStep
  <1>2. CASE Failed(pos)
    BY <1>0, <1>2, MissedStep
  <1>3. CASE ReconcileUnlogged
    <2>1. PositionOK(pos') /\ Continues(pos, pos') /\ order' \in Orders /\ Save
      BY <1>0, <1>3, BookedPositions DEF ReconcileUnlogged, BooksOK, Control
    <2> QED
      BY <2>1, SavedStep
  <1> QED
    BY <1>1, <1>2, <1>3 DEF ReconcileOrder

-----------------------------------------------------------------------------
(* The inductive invariant. *)

LEMMA HoldingStarts == Init => HoldingInv
  <1> SUFFICES ASSUME Init PROVE HoldingInv
    OBVIOUS
  <1>1. UniverseInv
    BY UniverseStarts DEF Init
  <1>2. /\ pos = NoPosition /\ disk = [pos |-> NoPosition, order |-> NoOrder]
        /\ order = NoOrder /\ pc = "down" /\ price \in Prices
    BY DEF Init
  <1>3. PositionOK(NoPosition) /\ ~ NoPosition.held /\ NoPosition.takes = 0
    BY <1>2, NewPositions
  <1>4. disk.pos = pos /\ disk \in [pos : Positions, order : Orders]
    BY <1>2, <1>3, SentOrders DEF PositionOK
  <1>5. BooksOK /\ Control
    BY <1>2, <1>3, <1>4, SentOrders DEF BooksOK, Control
  <1>6. TakesNoted
    BY <1>2, <1>3, <1>4 DEF TakesNoted
  <1> QED
    BY <1>1, <1>5, <1>6 DEF HoldingInv

LEMMA SameUniverse == UniverseInv /\ UNCHANGED universeVars => UniverseInv'
  BY DEF UniverseInv, UniverseTypeOK, universeVars

LEMMA SameBooks == BooksOK /\ UNCHANGED <<pos, order, disk>> => BooksOK'
  BY DEF BooksOK

LEMMA NextHolding ==
  ASSUME NEW P,
         ASSUME Start PROVE P,
         ASSUME BeginTick PROVE P,
         ASSUME ReconcileUnsaved PROVE P,
         ASSUME RefreshUniverse PROVE P,
         ASSUME SkipRefresh \/ Unquoted \/ TickError PROVE P,
         ASSUME Watch PROVE P,
         ASSUME StopFills PROVE P,
         ASSUME StopMisses \/ TakeMisses PROVE P,
         ASSUME TakeFills PROVE P,
         ASSUME TakeSlips PROVE P,
         ASSUME NoteTake PROVE P,
         ASSUME NoteUnsaved PROVE P,
         ASSUME ProtectUnsaved PROVE P,
         ASSUME Hold PROVE P,
         ASSUME Buy PROVE P,
         ASSUME NEW action \in {"close", "trim"}, Reduce(action) PROVE P,
         ASSUME TradeUnsaved PROVE P,
         ASSUME Crash PROVE P,
         ASSUME UNCHANGED vars PROVE P,
         [Next]_vars
  PROVE  P
  BY DEF Next

LEMMA HoldingSteps == HoldingInv /\ [Next]_vars => HoldingInv'
  <1> SUFFICES ASSUME HoldingInv, [Next]_vars PROVE HoldingInv'
    OBVIOUS
  <1> USE DEF HoldingInv
  <1>0. /\ PositionOK(pos) /\ order \in Orders /\ price \in Prices
        /\ \A a \in {"buy", "close", "trim", "take"} : a \in Actions
    BY DEF BooksOK, Control, Actions
  <1>1. ASSUME Start PROVE HoldingInv'
    <2>1. UniverseInv' /\ Control' /\ pc = "down" /\ pc' = "idle"
      BY <1>1, SameUniverse DEF Start, Control
    <2>2. CASE ReconcileOrder \/ ReconcileUnlogged
      BY <2>1, <2>2, ReconcileStep
    <2>3. CASE UNCHANGED <<pos, order>> /\ Save
      BY <1>0, <2>1, <2>3, SavedStep, SelfContinues
    <2> QED
      BY <1>1, <2>1, <2>2, <2>3 DEF Start
  <1>2. ASSUME BeginTick PROVE HoldingInv'
    <2>1. UniverseInv' /\ Control' /\ pc = "idle" /\ pc' = "refresh"
      BY <1>2, TimeKeepsUniverse DEF BeginTick, TimePasses, Control
    <2>2. CASE ReconcileOrder \/ ReconcileUnlogged
      BY <2>1, <2>2, ReconcileStep
    <2>3. CASE UNCHANGED <<pos, order, disk>>
      BY <2>1, <2>3, SameBooks DEF TakesNoted
    <2> QED
      BY <1>2, <2>1, <2>2, <2>3 DEF BeginTick
  <1>3. ASSUME ReconcileUnsaved PROVE HoldingInv'
    <2>1. /\ UniverseInv' /\ Control' /\ pc = "idle" /\ pc' = "idle"
          /\ order # NoOrder /\ order' = NoOrder /\ disk' = disk
          /\ pos' \in IF order.proof = "fill" THEN Booked(pos, order.action) ELSE {pos}
      BY <1>3, TimeKeepsUniverse DEF ReconcileUnsaved, TimePasses, Settles, Control
    <2>2. disk.pos.held = pos.held /\ disk.pos.taken = pos.taken /\ order.action \in Actions
      BY <1>0, <2>1, SentOrders DEF BooksOK
    <2>3. PositionOK(pos') /\ Continues(pos, pos')
      BY <1>0, <2>1, <2>2, BookedPositions, SelfContinues
    <2>4. BooksOK'
      BY <2>1, <2>2, <2>3, SentOrders DEF BooksOK, Continues, PositionOK, Positions
    <2>5. TakesNoted'
      BY <2>1, <2>2, <2>3 DEF TakesNoted, Continues
    <2> QED
      BY <2>1, <2>4, <2>5
  <1>4. ASSUME RefreshUniverse PROVE HoldingInv'
    <2>1. UniverseInv' /\ Control'
      BY <1>4, RefreshKeepsUniverse DEF RefreshUniverse, Control
    <2> QED
      BY <1>4, <2>1, SameBooks DEF TakesNoted, RefreshUniverse
  <1>5. ASSUME SkipRefresh \/ Unquoted \/ TickError PROVE HoldingInv'
    <2>1. /\ UNCHANGED universeVars /\ UNCHANGED <<pos, order, disk, price>>
          /\ pc \in {"refresh", "protect", "trade"} /\ pc' \in {"protect", "trade", "idle"}
      BY <1>5 DEF SkipRefresh, Unquoted, TickError
    <2> QED
      BY <2>1, SameUniverse, SameBooks DEF Control, TakesNoted
  <1>6. ASSUME Watch PROVE HoldingInv'
    <2>1. /\ UNCHANGED universeVars /\ UNCHANGED <<price, order, disk>>
          /\ pos' = Marked /\ pc = "protect" /\ pc' = "trade"
      BY <1>6 DEF Watch, Protecting
    <2>2. BooksOK'
      BY <1>0, <2>1, MarkedPosition DEF BooksOK, PositionOK, Positions
    <2>3. TakesNoted'
      BY <1>0, <2>1, MarkedPosition DEF TakesNoted
    <2> QED
      BY <2>1, <2>2, <2>3, SameUniverse DEF Control
  <1>7. ASSUME StopFills PROVE HoldingInv'
    <2>1. /\ UNCHANGED universeVars /\ UNCHANGED price
          /\ Filled("close") /\ pc = "protect" /\ pc' = "trade"
      BY <1>7 DEF StopFills, Stopping, Protecting
    <2> QED
      BY <1>0, <2>1, FilledStep, SameUniverse DEF Control
  <1>8. ASSUME StopMisses \/ TakeMisses PROVE HoldingInv'
    <2>1. /\ UNCHANGED universeVars /\ UNCHANGED price
          /\ pc = "protect" /\ pc' = "trade"
          /\ \E action \in {"close", "take"} : Failed(Marked) \/ Late(Marked, action)
      BY <1>8 DEF StopMisses, TakeMisses, Stopping, Taking, Protecting
    <2> QED
      BY <1>0, <2>1, MissedStep, SameUniverse DEF Control
  <1>9. ASSUME TakeFills PROVE HoldingInv'
    <2>1. /\ UNCHANGED universeVars /\ UNCHANGED <<price, order>> /\ order = NoOrder
          /\ pos' = [Marked EXCEPT !.takes = @ + 1] /\ Save /\ ~ pos.taken
          /\ pc = "protect" /\ pc' = "note"
      BY <1>9 DEF TakeFills, Taking, Protecting
    <2>2. pos.takes = 0
      BY <2>1 DEF TakesNoted
    <2>3. /\ pos' = [held |-> Marked.held, avg |-> Marked.avg, peak |-> Marked.peak,
                     taken |-> Marked.taken, takes |-> 1]
          /\ PositionOK(pos') /\ pos'.takes = 1
      BY <1>0, <2>1, <2>2, MarkedPosition DEF PositionOK, Positions
    <2>4. disk' = [pos |-> pos', order |-> order'] /\ disk'.pos = pos'
      BY <2>1 DEF Save
    <2>5. BooksOK'
      BY <1>0, <2>1, <2>3, <2>4, SentOrders DEF BooksOK, PositionOK, Positions
    <2> QED
      BY <2>1, <2>3, <2>4, <2>5, SameUniverse DEF Control, TakesNoted
  <1>10. ASSUME TakeSlips PROVE HoldingInv'
    <2>1. /\ UNCHANGED universeVars /\ UNCHANGED <<price, order>>
          /\ pos' = Marked /\ Save /\ pc = "protect" /\ pc' = "trade"
      BY <1>10 DEF TakeSlips, Taking, Protecting
    <2> QED
      BY <1>0, <2>1, SavedStep, MarkedPosition, MarkContinues, SameUniverse DEF Control
  <1>11. ASSUME NoteTake \/ NoteUnsaved PROVE HoldingInv'
    <2>1. /\ UNCHANGED universeVars /\ UNCHANGED <<price, order>> /\ order = NoOrder
          /\ pos' = [pos EXCEPT !.taken = TRUE] /\ (Save \/ UNCHANGED disk)
          /\ pc = "note" /\ pc' \in {"trade", "idle"}
      BY <1>11 DEF NoteTake, NoteUnsaved, TakesNoted
    <2>2. /\ PositionOK(pos') /\ pos'.taken = TRUE /\ pos'.takes = pos.takes
          /\ pos'.held = pos.held /\ pos'.peak = pos.peak
      BY <1>0, <2>1 DEF PositionOK, Positions
    <2>3. CASE UNCHANGED disk
      <3>1. BooksOK'
        BY <2>1, <2>2, <2>3, SentOrders DEF BooksOK
      <3> QED
        BY <2>1, <2>2, <2>3, <3>1, SameUniverse DEF Control, TakesNoted
    <2>4. CASE Save
      <3>1. disk' = [pos |-> pos', order |-> order'] /\ disk'.pos = pos'
        BY <2>4 DEF Save
      <3>2. BooksOK'
        BY <2>1, <2>2, <3>1, SentOrders DEF BooksOK, PositionOK, Positions
      <3> QED
        BY <2>1, <2>2, <3>1, <3>2, SameUniverse DEF Control, TakesNoted
    <2> QED
      BY <2>1, <2>3, <2>4
  <1>12. ASSUME ProtectUnsaved \/ TradeUnsaved PROVE HoldingInv'
    <2>1. /\ UNCHANGED universeVars /\ UNCHANGED price /\ pc \in {"protect", "trade"}
          /\ \/ \E action \in {"close", "take"} : Unsaved(Marked, action)
             \/ \E action \in {"buy", "close", "trim"} : Unsaved(pos, action)
      BY <1>12 DEF ProtectUnsaved, TradeUnsaved, Stopping, Taking, Protecting, Buying,
                   Reducing, Trading
    <2>2. BooksOK' /\ TakesNoted'
      BY <1>0, <2>1, UnsavedStep
    <2>3. pc' = "idle"
      BY <2>1 DEF Unsaved
    <2> QED
      BY <2>1, <2>2, <2>3, SameUniverse DEF Control
  <1>13. ASSUME Hold PROVE HoldingInv'
    <2>1. /\ UNCHANGED universeVars /\ UNCHANGED <<price, pos, order>>
          /\ Save /\ pc = "trade" /\ pc' = "idle"
      BY <1>13 DEF Hold, Trading
    <2> QED
      BY <1>0, <2>1, SavedStep, SelfContinues, SameUniverse DEF Control
  <1>14. ASSUME NEW action \in {"buy", "close", "trim"}, Filled(action) \/ Late(pos, action),
                Trading
         PROVE  HoldingInv'
    <2>1. /\ UNCHANGED universeVars /\ UNCHANGED price /\ pc = "trade" /\ pc' = "idle"
      BY <1>14 DEF Trading
    <2> QED
      BY <1>0, <1>14, <2>1, FilledStep, MissedStep, SameUniverse DEF Control
  <1>15. ASSUME Buy PROVE HoldingInv'
    BY <1>14, <1>15 DEF Buy, Buying
  <1>16. ASSUME NEW action \in {"close", "trim"}, Reduce(action) PROVE HoldingInv'
    BY <1>14, <1>16 DEF Reduce, Reducing
  <1>17. ASSUME Crash PROVE HoldingInv'
    <2>1. /\ pos' = IF (pc = "note" \/ pos.taken) /\ ~ disk.pos.taken
                    THEN [disk.pos EXCEPT !.takes = 0] ELSE disk.pos
          /\ order' = disk.order /\ LoadCache /\ pc # "down" /\ pc' = "down"
          /\ UNCHANGED <<disk, price>>
      BY <1>17 DEF Crash
    <2>2. disk.pos \in Positions /\ disk.order \in Orders /\ PositionOK(disk.pos)
      BY DEF BooksOK
    <2>3. /\ PositionOK(pos') /\ pos'.held = disk.pos.held /\ pos'.taken = disk.pos.taken
          /\ pos'.peak = disk.pos.peak
      BY <2>1, <2>2 DEF PositionOK, Positions
    <2>4. BooksOK'
      BY <2>1, <2>2, <2>3 DEF BooksOK, Positions
    <2>5. pos'.takes \in {0, 1} /\ (pos'.takes = 0 \/ pos'.taken = TRUE)
      <3>1. CASE (pc = "note" \/ pos.taken) /\ ~ disk.pos.taken
        BY <2>1, <2>2, <3>1 DEF Positions
      <3>2. CASE ~ ((pc = "note" \/ pos.taken) /\ ~ disk.pos.taken)
        <4>1. pos' = disk.pos /\ disk.pos.taken \in BOOLEAN
          BY <2>1, <2>2, <3>2 DEF Positions
        <4> QED
          BY <2>1, <3>2, <4>1 DEF TakesNoted
      <3> QED
        BY <3>1, <3>2
    <2>6. TakesNoted'
      BY <2>1, <2>5 DEF TakesNoted
    <2> QED
      BY <2>1, <2>4, <2>6, LoadKeepsUniverse DEF Control
  <1>18. ASSUME UNCHANGED vars PROVE HoldingInv'
    BY <1>18, SameUniverse, SameBooks DEF vars, Control, TakesNoted
  <1> QED
    BY <1>1, <1>2, <1>3, <1>4, <1>5, <1>6, <1>7, <1>8, <1>9, <1>10, <1>11, <1>12, <1>13,
       <1>15, <1>16, <1>17, <1>18, NextHolding

LEMMA HoldingInductive == Spec => []HoldingInv
  BY HoldingStarts, HoldingSteps, PTL DEF Spec

-----------------------------------------------------------------------------
(* Theorems. *)

\* Every reachable state is well typed: a position is never protected from below
\* its entry price, whatever order is booked late and whatever crash restored.
THEOREM TypeCorrect == Spec => []TypeOK
  <1>1. HoldingInv => TypeOK
    BY DEF HoldingInv, UniverseInv, BooksOK, PositionOK, Control, TypeOK
  <1> QED
    BY <1>1, HoldingInductive, PTL

\* A recently validated token keeps its contract mapping, whatever refreshes miss
\* it, unless the write of its probe failed and the process then restarted.
THEOREM RecentAssetsStayMapped == Spec => []RecentStaysMapped
  <1>1. HoldingInv => RecentStaysMapped
    BY DEF HoldingInv, UniverseInv, RecentStaysMapped
  <1> QED
    BY <1>1, HoldingInductive, PTL

\* Entries rely on probes that took place, recently enough.
THEOREM ValidationsAreReal == Spec => []ValidationIsReal
  <1>1. HoldingInv => ValidationIsReal
    BY DEF HoldingInv, UniverseInv, ValidationIsReal
  <1> QED
    BY <1>1, HoldingInductive, PTL

\* A winner is partly sold once, but for the takes that could not be noted.
THEOREM TakenAtMostOnce == Spec => []TakenOnce
  <1>1. HoldingInv => TakenOnce
    BY DEF HoldingInv, TakesNoted, TakenOnce
  <1> QED
    BY <1>1, HoldingInductive, PTL

\* A higher peak multiplied by a natural number is at least as high.
LEMMA Scales == ASSUME NEW a \in Nat, NEW b \in Nat, a <= b, NEW c \in Nat
                PROVE  a * c <= b * c
  <1>1. PICK d \in Nat : b = a + d
    <2>1. b - a \in Nat /\ b = a + (b - a)
      OBVIOUS
    <2> QED
      BY <2>1
  <1>2. b * c = a * c + d * c /\ d * c \in Nat /\ a * c \in Nat
    BY <1>1
  <1> QED
    BY <1>2

\* What would have been sold below a lower peak is sold below a higher one.
LEMMA StopsTighten ==
  ASSUME NEW avg \in Nat, NEW low \in Nat, NEW high \in Nat, low <= high, NEW px \in Nat,
         StopHit(avg, low, px)
  PROVE  StopHit(avg, high, px)
  <1>1. \A g : Gained(avg, low, g) /\ g \in Nat => Gained(avg, high, g)
    <2> SUFFICES ASSUME NEW g \in Nat, 1000 * low >= avg * (1000 + g)
                 PROVE  1000 * high >= avg * (1000 + g)
      BY DEF Gained
    <2>1. avg * (1000 + g) \in Nat
      OBVIOUS
    <2> QED
      BY <2>1
  <1>2. Floors(avg, low) \subseteq Floors(avg, high)
    BY <1>1, LockConstants DEF Floors
  <1>3. FallenTo(low, px, -TrailingGap) => FallenTo(high, px, -TrailingGap)
    <2>1. 1000 + (-TrailingGap) \in Nat
      BY LockConstants
    <2>2. low * (1000 + (-TrailingGap)) <= high * (1000 + (-TrailingGap))
      BY <2>1, Scales
    <2>3. /\ low * (1000 + (-TrailingGap)) \in Int
          /\ high * (1000 + (-TrailingGap)) \in Int /\ 1000 * px \in Int
      BY <2>1
    <2> QED
      BY <2>2, <2>3 DEF FallenTo
  <1>4. LockHit(avg, low, px) => LockHit(avg, high, px)
    BY <1>1, <1>2, <1>3, LockConstants DEF LockHit
  <1> QED
    BY <1>4 DEF StopHit

\* What a step writes to the state file has seen no lower peak.
LEMMA PeaksRise ==
  ASSUME HoldingInv, [Next]_vars, pos.held
  PROVE  disk' = disk \/ (disk'.pos.held => pos.peak <= disk'.pos.peak)
  <1> DEFINE Goal == disk' = disk \/ (disk'.pos.held => pos.peak <= disk'.pos.peak)
  <1>0. /\ PositionOK(pos) /\ price \in Prices /\ order \in Orders
        /\ \A a \in {"buy", "close", "trim", "take"} : a \in Actions
    BY DEF HoldingInv, BooksOK, Control, Actions
  <1>1. ASSUME Save, pos'.held => pos.peak <= pos'.peak PROVE Goal
    BY <1>1 DEF Save
  <1>2. ASSUME Save, Continues(pos, pos') PROVE Goal
    BY <1>1, <1>2 DEF Continues
  <1>3. ASSUME NEW action \in Actions, Filled(action) PROVE Goal
    BY <1>0, <1>2, <1>3, BookedPositions DEF Filled
  <1>4. ASSUME NEW after \in {pos, Marked}, NEW action \in Actions,
               Failed(after) \/ Late(after, action)
        PROVE  Goal
    <2>1. pos' = after /\ Save
      BY <1>4 DEF Failed, Late
    <2> QED
      BY <1>0, <1>2, <1>4, <2>1, SelfContinues, MarkContinues
  <1>5. ASSUME ReconcileOrder \/ ReconcileUnlogged PROVE Goal
    <2>1. order.action \in Actions
      BY <1>0, <1>5, SentOrders DEF ReconcileOrder, ReconcileUnlogged, Settles
    <2>2. \/ Filled(order.action) \/ Failed(pos)
          \/ pos' \in Booked(pos, order.action) /\ Save
      BY <1>5 DEF ReconcileOrder, ReconcileUnlogged
    <2> QED
      BY <1>0, <1>2, <1>3, <1>4, <2>1, <2>2, BookedPositions
  <1>6. ASSUME NEW before \in {pos, Marked}, NEW action \in Actions, Unsaved(before, action)
        PROVE  Goal
    <2>1. disk' = disk \/ disk'.pos = before
      BY <1>6 DEF Unsaved
    <2>2. pos.peak <= before.peak
      BY <1>0, MarkedPosition DEF PositionOK, Positions
    <2> QED
      BY <2>1, <2>2
  <1>7. ASSUME Start \/ BeginTick PROVE Goal
    <2>1. ReconcileOrder \/ ReconcileUnlogged \/ (pos' = pos /\ Save) \/ disk' = disk
      BY <1>7 DEF Start, BeginTick
    <2> QED
      BY <1>0, <1>2, <1>5, <2>1, SelfContinues
  <1>8. ASSUME StopFills \/ Buy \/ Reduce("close") \/ Reduce("trim") PROVE Goal
    BY <1>0, <1>3, <1>4, <1>8 DEF StopFills, Buy, Reduce
  <1>9. ASSUME StopMisses \/ TakeMisses PROVE Goal
    BY <1>0, <1>4, <1>9 DEF StopMisses, TakeMisses
  <1>10. ASSUME TakeFills \/ TakeSlips \/ NoteTake \/ Hold PROVE Goal
    <2>1. /\ Save
          /\ pos' \in {pos, Marked, [Marked EXCEPT !.takes = @ + 1], [pos EXCEPT !.taken = TRUE]}
      BY <1>10 DEF TakeFills, TakeSlips, NoteTake, Hold
    <2>2. pos.peak <= pos'.peak
      BY <1>0, <2>1, MarkedPosition DEF PositionOK, Positions
    <2> QED
      BY <1>1, <2>1, <2>2
  <1>11. ASSUME ProtectUnsaved \/ TradeUnsaved PROVE Goal
    BY <1>0, <1>6, <1>11 DEF ProtectUnsaved, TradeUnsaved
  <1>12. ASSUME \/ ReconcileUnsaved \/ RefreshUniverse \/ SkipRefresh \/ Unquoted \/ Watch
                \/ NoteUnsaved \/ TickError \/ Crash \/ UNCHANGED vars
         PROVE  Goal
    <2>1. disk' = disk
      BY <1>12 DEF ReconcileUnsaved, RefreshUniverse, SkipRefresh, Unquoted, Watch,
                   NoteUnsaved, TickError, Crash, vars
    <2> QED
      BY <2>1
  <1> QED
    BY <1>7, <1>8, <1>9, <1>10, <1>11, <1>12 DEF Next

\* The saved protection of a position only tightens.
THEOREM StopsRatchet == Spec => StopRatchets
  <1>1. HoldingInv /\ HoldingInv' /\ [Next]_vars =>
          [(pos.held /\ disk.pos.held /\ disk'.pos.held /\ disk.pos.avg = disk'.pos.avg) =>
             \A p \in Prices : StopHit(disk.pos.avg, disk.pos.peak, p)
                                   => StopHit(disk'.pos.avg, disk'.pos.peak, p)]_vars
    <2> SUFFICES ASSUME HoldingInv, HoldingInv', [Next]_vars, pos.held,
                        disk.pos.held, disk'.pos.held, disk.pos.avg = disk'.pos.avg,
                        NEW p \in Prices, StopHit(disk.pos.avg, disk.pos.peak, p)
                 PROVE  StopHit(disk'.pos.avg, disk'.pos.peak, p)
      OBVIOUS
    <2>1. /\ disk.pos.avg \in Nat /\ disk.pos.peak \in Nat /\ disk'.pos.peak \in Nat
          /\ pos.peak \in Nat /\ disk.pos.peak <= pos.peak
      BY DEF HoldingInv, BooksOK, PositionOK, Positions
    <2>2. disk.pos.peak <= disk'.pos.peak
      BY <2>1, PeaksRise
    <2>3. p \in Nat
      BY HoldingConstants
    <2> QED
      BY <2>1, <2>2, <2>3, StopsTighten
  <1> QED
    BY <1>1, HoldingInductive, PTL DEF Spec, StopRatchets
=============================
