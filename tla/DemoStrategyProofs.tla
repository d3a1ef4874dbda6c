---- MODULE DemoStrategyProofs ----
(***************************************************************************)
(* Theorems about DemoStrategy, for every length of the day and of a signal *)
(* bar, every lot size, every limit of the strategy and every number of     *)
(* orders kept from two on.                                                 *)
(*                                                                          *)
(* In every state at most one order matters, the one the state waits for.   *)
(* The inductive invariant says what can have become of it, how the         *)
(* position, the result and the counters relate to it, and how long the     *)
(* position can have been bare.                                             *)
(***************************************************************************)
EXTENDS DemoStrategy, SumTheorems, FiniteSetTheorems, TLAPS

SyncStates == {"ENTRY_SYNC_VALID", "ENTRY_SYNC_LATE"}
StopStates == {"HOLDING", "STOP_REPLACE_CANCEL", "STOP_FILL_SYNC", "EXIT_CANCEL_STOP"}
SaleStates == StopStates \cup {"EXIT_WAIT_FILL"}

\* Every id is kept exactly in the states that wait for its order.
IdsFit ==
    /\ entryOrder # 0 <=> state \in EntryStates
    /\ stopOrder # 0 <=> state \in StopStates
    /\ exitOrder # 0 <=> state = "EXIT_WAIT_FILL"

\* The order the state waits for; 0 is none.
Current == IF state \in EntryStates THEN entryOrder
           ELSE IF state \in StopStates THEN stopOrder
           ELSE IF state = "EXIT_WAIT_FILL" THEN exitOrder ELSE 0

\* No other order works, and the bar has cleared their slots away.
OthersAreOver ==
    \A s \in Slots \ {Current} : ~IsOpen(book[s]) /\ (turn = "strategy" => book[s] = NoOrder)

\* How much of an order traded agrees with its status.
Consistent(o) ==
    /\ o.filled <= o.total
    /\ o.status = "SUBMITTED" => 0 < o.total
    /\ o.status \in {"SUBMITTED", "CANCELLED_ALL", "FAILED"} => o.filled = 0
    /\ o.status \in {"FILLED_PART", "CANCELLED_PART"} => 0 < o.filled /\ o.filled < o.total
    /\ o.status = "FILLED_ALL" => 0 < o.filled /\ o.filled = o.total

\* What can have become of the order o in the state st, when it is t's turn.
Fits(o, st, t) ==
    /\ Consistent(o)
    /\ st \in EntryStates => o.kind = "ENTRY"
    /\ st \in StopStates => o.kind = "STOP"
    /\ st = "EXIT_WAIT_FILL" => o.kind = "EXIT"
    /\ st = "ENTRY_ACTIVE" =>
          /\ t = "market" => o.status = "SUBMITTED"
          /\ o.status \in {"SUBMITTED", "FILLED_PART", "FILLED_ALL", "FAILED", "DISABLED"}
          /\ o.status = "DISABLED" => o.filled = 0
    /\ st = "ENTRY_CANCEL_PENDING" => o.status \in {"CANCELLED_PART", "CANCELLED_ALL"}
    /\ st \in SyncStates => o.status \in {"FILLED_ALL", "CANCELLED_PART"}
    /\ st = "HOLDING" =>
          /\ t = "market" => o.status \in Open
          /\ o.status \in Open \cup {"FILLED_ALL"}
    /\ st \in {"STOP_REPLACE_CANCEL", "EXIT_CANCEL_STOP"} =>
          o.status \in {"CANCELLED_PART", "CANCELLED_ALL", "FILLED_ALL"}
    /\ st = "STOP_FILL_SYNC" => o.status = "FILLED_ALL"
    /\ st = "EXIT_WAIT_FILL" => o.status \in Open \cup {"FILLED_ALL", "DISABLED"}

\* How many of its shares the result has taken in.
Read(tr, st) == IF st = "EXIT_WAIT_FILL" THEN tr.exitFill ELSE tr.stopFill

\* The position q and the open trade tr, in the state st with the order o and a
\* lot of l shares.
Adds(q, tr, o, st, l) ==
    /\ st \in FlatStates => q = 0 /\ tr.due = 0 /\ ~tr.active /\ ~tr.force
    /\ st \in EntryStates =>
          /\ q = o.filled /\ tr.due = q
          /\ ~tr.active
          /\ tr.force => q > 0
    /\ st = "EXIT_SUBMIT" => tr.active /\ tr.due = q
    /\ st \in SaleStates =>
          /\ tr.active
          /\ Left(o) <= q /\ q - Left(o) < l
          /\ Read(tr, st) <= o.filled
          /\ tr.due = q + o.filled - Read(tr, st)
    /\ st \in {"STOP_REPLACE_CANCEL", "EXIT_CANCEL_STOP"} => q > 0

\* The bars n the position has been bare.
Bare(n, tr, st) ==
    /\ st \in FlatStates \cup {"ENTRY_ACTIVE", "HOLDING", "STOP_FILL_SYNC"} => n = 0
    /\ st \in {"ENTRY_CANCEL_PENDING", "STOP_REPLACE_CANCEL"} => n <= 1
    /\ st \in SyncStates => n <= 2
    /\ st = "EXIT_SUBMIT" => n <= BareBars
    /\ st = "EXIT_CANCEL_STOP" =>
          n <= 1 + tr.endWait /\ (tr.endWait = 0 \/ tr.endWait < PositionSyncBars)
    /\ st = "EXIT_WAIT_FILL" =>
          n <= tr.exitWait /\ (tr.exitWait = 0 \/ tr.exitWait < PositionSyncBars)

\* The entries n of the day, k of which are counted.
Within(n, k, o, st) ==
    /\ n <= MaxDailyTrades
    /\ st \in EntryStates => k < MaxDailyTrades
    /\ n <= k \/ (st \in EntryStates /\ o.filled > 0 /\ n <= k + 1)

CurrentOrder == IF Current = 0 THEN NoOrder ELSE book[Current]

DemoInv ==
    /\ TypeOK /\ IdsFit /\ OthersAreOver
    /\ Current # 0 => Fits(CurrentOrder, state, turn)
    /\ Adds(qty, trade, CurrentOrder, state, lot)
    /\ Bare(exposed, trade, state)
    /\ Within(opened, daily.trades, CurrentOrder, state)

\* What every strategy step does beside handle_data.
Frame ==
    /\ turn = "strategy" /\ turn' = "market"
    /\ exposed' = IF Exposed(qty, book') THEN exposed + 1 ELSE 0
    /\ UNCHANGED <<minute, fresh, qty, lot, opened>>

Cancelled(o) ==
    IF ~IsOpen(o) THEN o
    ELSE [o EXCEPT !.status = IF @ = "FILLED_PART" THEN "CANCELLED_PART" ELSE "CANCELLED_ALL"]

(***************************************************************************)
(* The operators of the model.                                              *)
(***************************************************************************)
LEMMA Numbers ==
    /\ LastMinute \in Nat \ {0} /\ SignalMinutes \in Nat \ {0}
    /\ MaxGap \in Nat \ {0} /\ MaxLots \in Nat \ {0}
    /\ PositionSyncBars \in Nat /\ MaxDailyTrades \in Nat
    /\ TopStop \in Nat /\ TopStop > 2
  BY DemoAssumption

\* Selling in whole lots leaves less than one.
LEMMA WholeLots ==
    ASSUME NEW n \in Nat, NEW l \in Nat \ {0}
    PROVE  /\ (n \div l) * l \in Nat /\ (n \div l) * l <= n /\ n - (n \div l) * l < l
           /\ n >= l <=> (n \div l) * l > 0
<1>1. n = l * (n \div l) + (n % l) /\ n % l \in 0..(l - 1)
  OBVIOUS
<1>2. l * (n \div l) = (n \div l) * l /\ n \div l \in Nat
  BY <1>1
<1>3. n \div l = 0 \/ n \div l >= 1
  BY <1>1
<1>4. n \div l >= 1 => (n \div l) * l >= l
  BY <1>1
<1>5. n \div l = 0 => (n \div l) * l = 0
  BY <1>1
<1> QED
  BY <1>1, <1>2, <1>3, <1>4, <1>5

\* There is always a slot for one more order.
LEMMA RoomForOne ==
    ASSUME DemoInv, turn = "strategy"
    PROVE  FreeSlot \in Slots \ {Current} /\ book[FreeSlot] = NoOrder
<1>1. Slots \subseteq Nat \ {0} /\ IsFiniteSet(Slots) /\ Cardinality(Slots) > 1
  BY DemoAssumption
<1>2. \A s \in Slots \ {Current} : book[s] = NoOrder
  BY DEF DemoInv, OthersAreOver
<1>3. Slots \ {Current} # {}
  <2> SUFFICES ASSUME Slots \subseteq {Current} PROVE FALSE
    OBVIOUS
  <2>1. IsFiniteSet({Current}) /\ Cardinality({Current}) = 1
    BY FS_Singleton
  <2>2. Cardinality(Slots) <= Cardinality({Current}) /\ Cardinality(Slots) \in Nat
    BY <1>1, <2>1, FS_Subset, FS_CardinalityType
  <2> QED
    BY <1>1, <2>1, <2>2
<1> DEFINE free == {s \in Slots : book[s] = NoOrder}
<1>4. free # {} /\ free \in SUBSET Nat
  BY <1>1, <1>2, <1>3
<1>5. \E m \in free : \A n \in free : m <= n
  <2> HIDE DEF free
  <2> QED
    BY <1>4, LeastNatural
<1>6. FreeSlot \in free
  BY <1>5 DEF FreeSlot, Min
<1>7. Current # 0 => book[Current] # NoOrder
  BY DEF DemoInv, Fits, CurrentOrder, NoOrder, IdsFit, Current, FlatStates
<1> QED
  BY <1>1, <1>6, <1>7

LEMMA CurrentIs ==
    ASSUME DemoInv
    PROVE  /\ Current \in Slots \cup {0} /\ 0 \notin Slots /\ lot \in Nat \ {0}
           /\ Current # 0 <=> state \in EntryStates \cup SaleStates
           /\ Current # 0 => /\ Current \in Slots /\ CurrentOrder = book[Current]
                             /\ CurrentOrder \in Orders /\ Consistent(CurrentOrder)
           /\ Current = 0 => CurrentOrder = NoOrder
           /\ state \in EntryStates => Current = entryOrder /\ entryOrder # 0
           /\ state \in StopStates => Current = stopOrder /\ stopOrder # 0
           /\ state = "EXIT_WAIT_FILL" => Current = exitOrder /\ exitOrder # 0
           /\ state \notin EntryStates => entryOrder = 0
           /\ state \notin StopStates => stopOrder = 0
           /\ state # "EXIT_WAIT_FILL" => exitOrder = 0
<1>1. 0 \notin Slots /\ lot \in Nat \ {0}
  BY DemoAssumption DEF DemoInv, TypeOK
<1>2. /\ state \in EntryStates => Current = entryOrder /\ entryOrder # 0
      /\ state \in StopStates => Current = stopOrder /\ stopOrder # 0
      /\ state = "EXIT_WAIT_FILL" => Current = exitOrder /\ exitOrder # 0
      /\ state \notin EntryStates \cup SaleStates => Current = 0
      /\ state \notin EntryStates => entryOrder = 0
      /\ state \notin StopStates => stopOrder = 0
      /\ state # "EXIT_WAIT_FILL" => exitOrder = 0
  BY DEF DemoInv, IdsFit, Current, EntryStates, StopStates, SaleStates
<1>3. {entryOrder, stopOrder, exitOrder} \subseteq Slots \cup {0} /\ book \in [Slots -> Orders]
  BY DEF DemoInv, TypeOK
<1>4. Current \in Slots \cup {0}
  BY <1>2, <1>3 DEF SaleStates
<1>5. Current # 0 => Consistent(CurrentOrder)
  BY DEF DemoInv, Fits
<1> QED
  BY <1>1, <1>2, <1>3, <1>4, <1>5 DEF CurrentOrder, SaleStates

\* Nothing is promised to another sale when the strategy sells.
LEMMA NothingPromised ==
    ASSUME DemoInv, turn = "strategy", state \notin SaleStates \/ ~IsOpen(CurrentOrder)
    PROVE  /\ WorkingSales(book) = {}
           /\ SaleAccepted(qty) <=> qty >= lot
           /\ Rounded(qty) \in Nat /\ Rounded(qty) <= qty /\ qty - Rounded(qty) < lot
<1>1. \A s \in Slots \ {Current} : ~IsOpen(book[s])
  BY DEF DemoInv, OthersAreOver
<1>2. Current \in Slots => ~(IsOpen(book[Current]) /\ book[Current].kind # "ENTRY")
  <2>1. CASE state \in EntryStates
    BY <2>1, CurrentIs DEF DemoInv, Fits
  <2>2. CASE state \notin EntryStates
    BY <2>2, CurrentIs
  <2> QED
    BY <2>1, <2>2
<1>3. WorkingSales(book) = {}
  BY <1>1, <1>2 DEF WorkingSales
<1>4. Promised = 0
  BY <1>3, SumEmpty DEF Promised
<1>5. qty \in Nat /\ lot \in Nat \ {0}
  BY CurrentIs DEF DemoInv, TypeOK
<1>6. /\ Rounded(qty) \in Nat /\ Rounded(qty) <= qty /\ qty - Rounded(qty) < lot
      /\ qty >= lot <=> Rounded(qty) > 0
  BY <1>5, WholeLots DEF Rounded
<1> QED
  BY <1>3, <1>4, <1>5, <1>6 DEF SaleAccepted

\* How long the position has been bare after a strategy step.
LEMMA BareAfter ==
    ASSUME Frame, OthersAreOver', Current' \in Slots \cup {0}, 0 \notin Slots
    PROVE  exposed' = IF qty >= lot /\ ~(IsOpen(CurrentOrder') /\ CurrentOrder'.kind # "ENTRY")
                      THEN exposed + 1 ELSE 0
<1>1. \A s \in Slots \ {Current'} : ~IsOpen(book'[s])
  BY DEF OthersAreOver
<1>2. WorkingSales(book') = {} <=> ~(IsOpen(CurrentOrder') /\ CurrentOrder'.kind # "ENTRY")
  <2>1. CASE Current' = 0
    <3>1. ~IsOpen(CurrentOrder')
      BY <2>1 DEF CurrentOrder, IsOpen, NoOrder, Open
    <3> QED
      BY <2>1, <3>1, <1>1 DEF WorkingSales
  <2>2. CASE Current' # 0
    BY <2>2, <1>1 DEF WorkingSales, CurrentOrder
  <2> QED
    BY <2>1, <2>2
<1> QED
  BY <1>2 DEF Frame, Exposed

LEMMA Cancelling ==
    ASSUME NEW o \in Orders, Consistent(o)
    PROVE  /\ Cancelled(o) \in Orders /\ Consistent(Cancelled(o)) /\ ~IsOpen(Cancelled(o))
           /\ Cancelled(o).kind = o.kind /\ Cancelled(o).filled = o.filled
           /\ Cancelled(o).total = o.total
           /\ o.status = "SUBMITTED" => Cancelled(o).status = "CANCELLED_ALL"
           /\ o.status = "FILLED_PART" => Cancelled(o).status = "CANCELLED_PART"
           /\ o.status \notin Open => Cancelled(o) = o
  BY DEF Cancelled, Orders, Consistent, IsOpen, Open, CancelTerminal

\* The order is kept, or cancelled.
LEMMA Keeps ==
    ASSUME DemoInv, Frame, Current # 0, Current' = Current,
           book' = book \/ book' = WithoutOrder(Current)
    PROVE  /\ book' \in [Slots -> Orders] /\ OthersAreOver'
           /\ book' = book => CurrentOrder' = CurrentOrder
           /\ book' = WithoutOrder(Current) => CurrentOrder' = Cancelled(CurrentOrder)
<1>1. /\ Current \in Slots /\ CurrentOrder = book[Current] /\ CurrentOrder \in Orders
      /\ Consistent(CurrentOrder) /\ book \in [Slots -> Orders] /\ 0 \notin Slots
  BY CurrentIs DEF DemoInv, TypeOK
<1>2. CurrentOrder' = book'[Current]
  BY DEF CurrentOrder
<1>3. WithoutOrder(Current) = [book EXCEPT ![Current] = Cancelled(CurrentOrder)]
  <2>1. CASE IsOpen(book[Current])
    BY <1>1, <2>1 DEF WithoutOrder, Cancelled
  <2>2. CASE ~IsOpen(book[Current])
    BY <1>1, <2>2 DEF WithoutOrder, Cancelled
  <2> QED
    BY <2>1, <2>2
<1>4. Cancelled(CurrentOrder) \in Orders
  BY <1>1, Cancelling
<1>5. \A s \in Slots \ {Current} : book'[s] = book[s] /\ ~IsOpen(book[s])
  BY <1>1, <1>3 DEF DemoInv, OthersAreOver
<1>6. OthersAreOver'
  BY <1>5 DEF OthersAreOver, Frame
<1> QED
  BY <1>1, <1>2, <1>3, <1>4, <1>6

\* The order is over and no longer waited for.
LEMMA Drops ==
    ASSUME DemoInv, Frame, ~IsOpen(CurrentOrder), Current' = 0, book' = book
    PROVE  book' \in [Slots -> Orders] /\ OthersAreOver' /\ CurrentOrder' = NoOrder
<1>1. \A s \in Slots : ~IsOpen(book[s])
  BY CurrentIs DEF DemoInv, OthersAreOver
<1> QED
  BY <1>1 DEF OthersAreOver, Frame, CurrentOrder, DemoInv, TypeOK

\* A new order takes the place of one that is over.
LEMMA Places ==
    ASSUME DemoInv, Frame, ~IsOpen(CurrentOrder), NEW kind \in {"ENTRY", "STOP", "EXIT"},
           NEW n, Rounded(n) \in Nat, NEW level \in 0..TopStop,
           book' = WithOrder(kind, n, level), Current' = FreeSlot
    PROVE  /\ book' \in [Slots -> Orders] /\ OthersAreOver' /\ FreeSlot \in Slots
           /\ CurrentOrder' = [kind |-> kind, total |-> Rounded(n), filled |-> 0,
                               level |-> level, status |-> "SUBMITTED"]
<1> DEFINE new == [kind |-> kind, total |-> Rounded(n), filled |-> 0,
                   level |-> level, status |-> "SUBMITTED"]
<1>1. FreeSlot \in Slots /\ book \in [Slots -> Orders] /\ 0 \notin Slots
  BY RoomForOne, CurrentIs DEF DemoInv, TypeOK, Frame
<1>2. new \in Orders
  BY DEF Orders, Open
<1>3. book' = [book EXCEPT ![FreeSlot] = new]
  BY DEF WithOrder
<1> HIDE DEF new
<1>4. \A s \in Slots : ~IsOpen(book[s])
  BY CurrentIs DEF DemoInv, OthersAreOver
<1>5. \A s \in Slots \ {Current'} : ~IsOpen(book'[s])
  BY <1>1, <1>3, <1>4
<1>6. OthersAreOver'
  BY <1>5 DEF OthersAreOver, Frame
<1>7. CurrentOrder' = new
  BY <1>1, <1>3 DEF CurrentOrder
<1> QED
  BY <1>1, <1>2, <1>3, <1>6, <1>7 DEF new

(***************************************************************************)
(* The market step.                                                         *)
(***************************************************************************)
\* What a bar makes of the order a state waits for.
LEMMA BarOrder ==
    ASSUME NEW o \in Orders, NEW st \in EntryStates \cup SaleStates, Fits(o, st, "market"),
           NEW newDay \in BOOLEAN, NEW p \in AfterBar(o, newDay)
    PROVE  /\ p \in Orders /\ Fits(p, st, "strategy")
           /\ p.kind = o.kind /\ p.total = o.total /\ p.filled >= o.filled
           /\ p.filled # o.filled =>
                 IsOpen(o) /\ (o.kind = "ENTRY" => ~newDay /\ st = "ENTRY_ACTIVE")
<1>1. CASE ~IsOpen(o)
  <2>1. p = o
    BY <1>1 DEF AfterBar
  <2>2. Fits(o, st, "strategy")
    BY DEF Fits, EntryStates, SaleStates, StopStates, SyncStates
  <2> QED
    BY <2>1, <2>2 DEF Orders
<1>2. CASE IsOpen(o)
  <2>1. /\ o.filled \in Nat /\ o.total \in Nat /\ o.filled <= o.total
        /\ st \in {"ENTRY_ACTIVE", "HOLDING", "EXIT_WAIT_FILL"}
        /\ st = "ENTRY_ACTIVE" => o.filled = 0 /\ o.kind = "ENTRY"
        /\ st = "HOLDING" => o.kind = "STOP"
        /\ st = "EXIT_WAIT_FILL" => o.kind = "EXIT"
    BY <1>2 DEF Fits, Consistent, Orders, IsOpen, Open, EntryStates, SaleStates, StopStates,
                SyncStates
  <2>2. \/ p = o
        \/ p = [o EXCEPT !.status = "DISABLED"] /\ newDay /\ o.kind # "STOP"
        \/ \E n \in 1..Left(o) : p = Traded(o, n) /\ (o.kind = "STOP" \/ ~newDay)
        \/ p = [o EXCEPT !.status = "FAILED"] /\ o.kind = "ENTRY"
    BY <1>2 DEF AfterBar
  <2>3. CASE p = o
    BY <2>1, <2>3, <1>2 DEF Fits, IsOpen, Open, Consistent, EntryStates, SaleStates, StopStates,
                            SyncStates
  <2>4. CASE p = [o EXCEPT !.status = "DISABLED"] /\ newDay /\ o.kind # "STOP"
    <3>1. /\ p \in Orders /\ p.kind = o.kind /\ p.total = o.total /\ p.filled = o.filled
          /\ p.status = "DISABLED"
      BY <2>4 DEF Orders, CancelTerminal
    <3> QED
      BY <2>1, <2>4, <3>1 DEF Fits, Consistent, EntryStates, StopStates, SyncStates
  <2>5. ASSUME NEW n \in 1..Left(o), p = Traded(o, n), o.kind = "STOP" \/ ~newDay
        PROVE  /\ p \in Orders /\ Fits(p, st, "strategy")
               /\ p.kind = o.kind /\ p.total = o.total /\ p.filled >= o.filled
               /\ p.filled # o.filled =>
                     IsOpen(o) /\ (o.kind = "ENTRY" => ~newDay /\ st = "ENTRY_ACTIVE")
    <3>1. Left(o) = o.total - o.filled
      BY DEF Left
    <3>2. n \in Nat /\ n > 0 /\ o.filled + n <= o.total /\ (n = Left(o) <=> o.filled + n = o.total)
      BY <2>1, <3>1
    <3>3. /\ p.kind = o.kind /\ p.total = o.total /\ p.filled = o.filled + n
          /\ p.level = o.level
          /\ p.status = IF n = Left(o) THEN "FILLED_ALL" ELSE "FILLED_PART"
          /\ p = [kind |-> p.kind, total |-> p.total, filled |-> p.filled, level |-> p.level,
                  status |-> p.status]
      BY <2>5 DEF Traded, Orders
    <3>4. p.filled \in Nat /\ p.filled > 0 /\ p.filled > o.filled /\ p.filled <= p.total
      BY <2>1, <3>2, <3>3
    <3>5. /\ p.status \in {"FILLED_ALL", "FILLED_PART"}
          /\ p.status = "FILLED_ALL" => p.filled = p.total
          /\ p.status = "FILLED_PART" => p.filled < p.total
      BY <2>1, <3>2, <3>3
    <3>6. p \in Orders
      BY <3>3, <3>4, <3>5 DEF Orders, Open
    <3>7. Fits(p, st, "strategy")
      BY <2>1, <3>3, <3>4, <3>5 DEF Fits, Consistent, EntryStates, StopStates, SyncStates, Open
    <3> QED
      BY <1>2, <2>1, <2>5, <3>3, <3>4, <3>6, <3>7
  <2>6. CASE p = [o EXCEPT !.status = "FAILED"] /\ o.kind = "ENTRY"
    <3>1. /\ p \in Orders /\ p.kind = o.kind /\ p.total = o.total /\ p.filled = o.filled
          /\ p.status = "FAILED"
      BY <2>6 DEF Orders, CancelTerminal
    <3> QED
      BY <2>1, <2>6, <3>1 DEF Fits, Consistent, EntryStates, StopStates, SyncStates
  <2> QED
    BY <2>2, <2>3, <2>4, <2>5, <2>6
<1> QED
  BY <1>1, <1>2

\* The orders after a bar: the current one, and none beside it.
LEMMA BarBook ==
    ASSUME DemoInv, turn = "market", NEW newDay \in BOOLEAN, NEW b \in BooksAfterBar(newDay)
    PROVE  /\ b \in [Slots -> Orders]
           /\ \A s \in Slots \ {Current} : b[s] = NoOrder /\ Tidy(book)[s] = NoOrder
           /\ Current # 0 => /\ Tidy(book)[Current] = CurrentOrder
                             /\ b[Current] \in AfterBar(CurrentOrder, newDay)
                             /\ Fits(CurrentOrder, state, "market")
                             /\ state \in EntryStates \cup SaleStates
<1>1. /\ 0 \notin Slots /\ {entryOrder, stopOrder, exitOrder} \subseteq {Current, 0}
      /\ Current # 0 => /\ Current \in {entryOrder, stopOrder, exitOrder} \cap Slots
                        /\ CurrentOrder = book[Current]
                        /\ state \in EntryStates \cup SaleStates
  BY CurrentIs DEF Current, SaleStates
<1>2. \A s \in Slots \ {Current} : ~IsOpen(book[s])
  BY DEF DemoInv, OthersAreOver
<1>3. \A s \in Slots \ {Current} : Tidy(book)[s] = NoOrder
  BY <1>1, <1>2 DEF Tidy
<1>4. Current # 0 => Tidy(book)[Current] = CurrentOrder
  BY <1>1 DEF Tidy
<1>5. /\ b = [s \in Slots |-> b[s]]
      /\ \A s \in Slots : b[s] \in AfterBar(Tidy(book)[s], newDay)
  BY DEF BooksAfterBar
<1>6. AfterBar(NoOrder, newDay) = {NoOrder}
  BY DEF AfterBar, NoOrder, IsOpen, Open
<1>7. \A s \in Slots \ {Current} : b[s] = NoOrder
  BY <1>3, <1>5, <1>6
<1>8. Current # 0 => Fits(CurrentOrder, state, "market")
  BY DEF DemoInv
<1>9. Current # 0 => b[Current] \in AfterBar(CurrentOrder, newDay)
  BY <1>1, <1>4, <1>5
<1>10. NoOrder \in Orders
  BY Numbers DEF NoOrder, Orders
<1>11. Current # 0 => b[Current] \in Orders
  BY <1>1, <1>8, <1>9, BarOrder, CurrentIs
<1>12. \A s \in Slots : b[s] \in Orders
  BY <1>1, <1>7, <1>10, <1>11
<1> QED
  BY <1>1, <1>3, <1>4, <1>5, <1>7, <1>8, <1>9, <1>12

\* What it trades is what the current order trades.
LEMMA BarTrades ==
    ASSUME DemoInv, turn = "market", NEW newDay \in BOOLEAN, NEW b \in BooksAfterBar(newDay),
           NEW kinds \in SUBSET {"ENTRY", "STOP", "EXIT"}
    PROVE  TradedBetween(Tidy(book), b, kinds) =
               IF Current # 0 /\ CurrentOrder.kind \in kinds
               THEN b[Current].filled - CurrentOrder.filled ELSE 0
<1> DEFINE f == [s \in Slots |-> IF b[s].kind \in kinds
                                 THEN b[s].filled - Tidy(book)[s].filled ELSE 0]
<1>1. IsFiniteSet(Slots)
  BY DemoAssumption
<1>2. TradedBetween(Tidy(book), b, kinds) = SumFunctionOnSet(f, Slots)
  BY DEF TradedBetween, SumFunction, SumFunctionOnSet, FoldFunction
<1>3. \A s \in Slots \ {Current} : f[s] = 0
  BY BarBook DEF NoOrder
<1>4. CASE Current = 0
  <2>1. \A s \in Slots : f[s] = 0
    BY <1>3, <1>4, CurrentIs
  <2> HIDE DEF f
  <2> QED
    BY <1>1, <1>2, <1>4, <2>1, SumOfNothing
<1>5. CASE Current # 0
  <2>1. Current \in Slots /\ CurrentOrder \in Orders /\ Tidy(book)[Current] = CurrentOrder
    BY <1>5, CurrentIs, BarBook
  <2>2. b[Current].kind = CurrentOrder.kind /\ b[Current] \in Orders
    BY <1>5, <2>1, BarBook, BarOrder
  <2>3. f[Current] = IF CurrentOrder.kind \in kinds
                     THEN b[Current].filled - CurrentOrder.filled ELSE 0
    BY <2>1, <2>2
  <2>4. f[Current] \in Int
    BY <2>1, <2>2, <2>3 DEF Orders
  <2> HIDE DEF f
  <2>5. SumFunctionOnSet(f, Slots) = f[Current]
    BY <1>1, <1>3, <2>1, <2>4, SumOfOne
  <2> QED
    BY <1>2, <1>5, <2>3, <2>5
<1> QED
  BY <1>4, <1>5

\* At most one entry begins to trade.
LEMMA BarBegins ==
    ASSUME DemoInv, turn = "market", NEW newDay \in BOOLEAN, NEW b \in BooksAfterBar(newDay)
    PROVE  LET began == {s \in Slots : /\ b[s].kind = "ENTRY" /\ b[s].filled > 0
                                       /\ Tidy(book)[s].filled = 0}
           IN  Cardinality(began) =
                   IF /\ Current # 0 /\ CurrentOrder.kind = "ENTRY"
                      /\ CurrentOrder.filled = 0 /\ b[Current].filled > 0
                   THEN 1 ELSE 0
<1> DEFINE began == {s \in Slots : /\ b[s].kind = "ENTRY" /\ b[s].filled > 0
                                   /\ Tidy(book)[s].filled = 0}
<1>1. \A s \in Slots \ {Current} : s \notin began
  BY BarBook DEF NoOrder
<1>2. Current # 0 => /\ Current \in Slots /\ Tidy(book)[Current] = CurrentOrder
                    /\ b[Current].kind = CurrentOrder.kind
  BY CurrentIs, BarBook, BarOrder
<1>3. Current \in began <=> /\ Current # 0 /\ CurrentOrder.kind = "ENTRY"
                           /\ CurrentOrder.filled = 0 /\ b[Current].filled > 0
  BY <1>2, CurrentIs
<1>4. began \subseteq {Current}
  BY <1>1
<1> HIDE DEF began
<1>5. began = IF Current \in began THEN {Current} ELSE {}
  BY <1>4
<1>6. Cardinality(began) = IF Current \in began THEN 1 ELSE 0
  BY <1>5, FS_Singleton, FS_EmptySet
<1>7. Cardinality(began) = IF /\ Current # 0 /\ CurrentOrder.kind = "ENTRY"
                              /\ CurrentOrder.filled = 0 /\ b[Current].filled > 0
                           THEN 1 ELSE 0
  BY <1>3, <1>6
<1> QED
  BY <1>7 DEF began

LEMMA BarStep ==
    ASSUME DemoInv, NEW m \in 1..LastMinute, NEW newDay \in BOOLEAN, NextBar(m, newDay)
    PROVE  DemoInv'
<1>1. turn = "market" /\ turn' = "strategy" /\ minute' = m
  BY DEF NextBar
<1>2. PICK b \in BooksAfterBar(newDay) :
        LET bought == TradedBetween(Tidy(book), b, {"ENTRY"})
            sold == TradedBetween(Tidy(book), b, {"STOP", "EXIT"})
            began == {s \in Slots : /\ b[s].kind = "ENTRY" /\ b[s].filled > 0
                                    /\ Tidy(book)[s].filled = 0}
        IN  /\ sold <= qty
            /\ book' = b
            /\ qty' = qty + bought - sold
            /\ opened' = (IF newDay THEN 0 ELSE opened) + Cardinality(began)
            /\ trade' = [trade EXCEPT !.force = @ \/ (m \in FlatMinutes /\ qty' > 0),
                                     !.due = @ + bought]
  BY DEF NextBar
<1> DEFINE o == CurrentOrder
           p == IF Current = 0 THEN NoOrder ELSE b[Current]
           bought == IF state \in EntryStates THEN p.filled - o.filled ELSE 0
           sold == IF state \in SaleStates THEN p.filled - o.filled ELSE 0
           begun == IF state \in EntryStates /\ o.filled = 0 /\ p.filled > 0 THEN 1 ELSE 0
\* Which order is waited for stays as it is.
<1>3. /\ ids' = ids /\ lot' = lot /\ entry' = entry /\ exposed' = exposed
      /\ daily' = IF newDay THEN FreshDay ELSE daily
      /\ IF newDay /\ Idle THEN state' = "WAIT_H1" /\ pattern' = NoPattern
         ELSE state' = state /\ pattern' = pattern
  BY DEF NextBar
<1>4. Idle => state \in FlatStates
  BY DEF DemoInv, TypeOK, IdsFit, Adds, Idle, States, TradeStates, EntryStates, StopStates
<1>5. state' = state \/ (state \in FlatStates /\ state' = "WAIT_H1")
  BY <1>3, <1>4
<1>6. Current' = Current /\ IdsFit'
  BY <1>3, <1>5 DEF DemoInv, IdsFit, Current, ids, FlatStates, EntryStates, StopStates
<1>7. CurrentOrder' = p
  BY <1>2, <1>6 DEF CurrentOrder
\* The order, before and after the bar.
<1>8. /\ Current # 0 <=> state \in EntryStates \cup SaleStates
      /\ Current = 0 => o = NoOrder /\ p = NoOrder
  BY CurrentIs
<1>9. Current # 0 => /\ o \in Orders /\ Fits(o, state, "market")
                     /\ p \in Orders /\ Fits(p, state, "strategy")
                     /\ p.kind = o.kind /\ p.total = o.total /\ p.filled >= o.filled
                     /\ p.filled # o.filled =>
                           (o.kind = "ENTRY" => ~newDay /\ state = "ENTRY_ACTIVE")
  BY <1>1, <1>8, CurrentIs, BarBook, BarOrder
<1>10. /\ state \in EntryStates => o.kind = "ENTRY"
       /\ state \in SaleStates => o.kind \in {"STOP", "EXIT"}
       /\ state \in EntryStates => state \notin SaleStates
  BY <1>8, <1>9 DEF Fits, EntryStates, SaleStates, StopStates
<1>11. /\ sold <= qty /\ book' = b /\ qty' = qty + bought - sold
       /\ opened' = (IF newDay THEN 0 ELSE opened) + begun
       /\ trade' = [trade EXCEPT !.force = @ \/ (m \in FlatMinutes /\ qty' > 0),
                                !.due = @ + bought]
  <2>1. /\ TradedBetween(Tidy(book), b, {"ENTRY"}) = bought
        /\ TradedBetween(Tidy(book), b, {"STOP", "EXIT"}) = sold
    BY <1>1, <1>8, <1>10, BarTrades
  <2>2. Cardinality({s \in Slots : /\ b[s].kind = "ENTRY" /\ b[s].filled > 0
                                   /\ Tidy(book)[s].filled = 0}) = begun
    BY <1>1, <1>8, <1>10, BarBegins
  <2> HIDE DEF bought, sold, begun
  <2> QED
    BY <1>2, <2>1, <2>2
<1> HIDE DEF o, p
<1>12. /\ bought \in Int /\ sold \in Int /\ bought >= 0 /\ begun \in {0, 1}
       /\ qty \in Nat /\ opened \in Nat /\ trade \in Trades /\ daily \in Days
  BY <1>8, <1>9 DEF DemoInv, TypeOK, Orders
<1>13. /\ trade' \in Trades /\ trade'.due = trade.due + bought
       /\ trade'.active = trade.active /\ trade'.stopFill = trade.stopFill
       /\ trade'.exitFill = trade.exitFill /\ trade'.endWait = trade.endWait
       /\ trade'.exitWait = trade.exitWait
       /\ trade'.force => trade.force \/ qty' > 0
  <2> HIDE DEF bought, sold, begun
  <2> DEFINE wish == trade.force \/ (m \in FlatMinutes /\ qty' > 0)
             sum == trade.due + bought
  <2>1. wish \in BOOLEAN
    OBVIOUS
  <2>2. sum \in Int
    BY <1>12 DEF Trades
  <2>3. trade' = [trade EXCEPT !.force = wish, !.due = sum]
    BY <1>11
  <2>4. wish => trade.force \/ qty' > 0
    OBVIOUS
  <2> HIDE DEF wish, sum
  <2>0. trade \in Trades
    BY <1>12
  <2>5. /\ trade' \in Trades /\ trade'.due = sum /\ trade'.force = wish
        /\ trade'.active = trade.active
        /\ trade'.stopFill = trade.stopFill /\ trade'.exitFill = trade.exitFill
        /\ trade'.endWait = trade.endWait /\ trade'.exitWait = trade.exitWait
    BY ONLY <2>0, <2>1, <2>2, <2>3 DEF Trades
  <2> QED
    BY <2>4, <2>5 DEF sum
<1>14. TypeOK'
  <2>1. qty' \in Nat /\ opened' \in Nat
    <3> HIDE DEF bought, sold, begun
    <3> QED
      BY <1>11, <1>12
  <2>2. fresh' \in BOOLEAN
    BY DEF NextBar
  <2>3. book' \in [Slots -> Orders]
    BY <1>1, <1>2, BarBook
  <2>4. daily' \in Days /\ pattern' \in Patterns /\ state' \in States
    BY <1>3, <1>5 DEF DemoInv, TypeOK, FreshDay, Days, NoPattern, Patterns, States, FlatStates
  <2> QED
    BY <1>1, <1>3, <1>13, <2>1, <2>2, <2>3, <2>4 DEF DemoInv, TypeOK, ids
<1>15. OthersAreOver'
  BY <1>1, <1>2, <1>6, BarBook DEF OthersAreOver, NoOrder, IsOpen, Open
<1>16. Current' # 0 => Fits(CurrentOrder', state', turn')
  BY <1>1, <1>5, <1>6, <1>7, <1>8, <1>9 DEF FlatStates, EntryStates, SaleStates, StopStates
<1>17. Adds(qty', trade', CurrentOrder', state', lot')
  <2>1. CASE state \in FlatStates
    <3>1. state' \in FlatStates /\ bought = 0 /\ sold = 0
      BY <1>5, <2>1 DEF FlatStates, EntryStates, SaleStates, StopStates
    <3>2. qty' = 0 /\ trade'.due = 0 /\ ~trade'.active /\ ~trade'.force
      BY <1>11, <1>12, <1>13, <2>1, <3>1 DEF DemoInv, Adds
    <3> QED
      BY <3>1, <3>2 DEF Adds, FlatStates, EntryStates, SaleStates, StopStates
  <2>2. CASE state \in EntryStates
    <3>1. state' = state /\ sold = 0 /\ bought = p.filled - o.filled
      BY <1>5, <2>2 DEF FlatStates, EntryStates, SaleStates, StopStates
    <3>2. qty = o.filled /\ trade.due = qty /\ ~trade.active /\ (trade.force => qty > 0)
      BY <2>2 DEF DemoInv, Adds, o
    <3>3. p \in Orders /\ o \in Orders /\ p.filled >= o.filled
      BY <1>8, <1>9, <2>2
    <3>4. qty' = p.filled /\ trade'.due = qty' /\ ~trade'.active /\ (trade'.force => qty' > 0)
      BY <1>11, <1>13, <3>1, <3>2, <3>3 DEF Orders
    <3> QED
      BY <1>7, <2>2, <3>1, <3>4 DEF Adds, FlatStates, EntryStates, SaleStates, StopStates
  <2>3. CASE state \in SaleStates
    <3>1. state' = state /\ bought = 0 /\ sold = p.filled - o.filled
      BY <1>5, <2>3 DEF FlatStates, EntryStates, SaleStates, StopStates
    <3>2. /\ p \in Orders /\ o \in Orders /\ p.total = o.total /\ p.filled >= o.filled
          /\ state \in {"STOP_REPLACE_CANCEL", "EXIT_CANCEL_STOP"} => p.filled = o.filled
      <4>1. state \in {"STOP_REPLACE_CANCEL", "EXIT_CANCEL_STOP"} => ~IsOpen(o)
        BY <1>8, <1>9, <2>3 DEF Fits, IsOpen, Open
      <4>2. ~IsOpen(o) => p = o
        BY <1>1, <1>8, <2>3, BarBook DEF AfterBar, o, p
      <4> QED
        BY <1>8, <1>9, <2>3, <4>1, <4>2
    <3>3. /\ trade.active /\ Left(o) <= qty /\ qty - Left(o) < lot
          /\ Read(trade, state) <= o.filled
          /\ trade.due = qty + o.filled - Read(trade, state)
          /\ state \in {"STOP_REPLACE_CANCEL", "EXIT_CANCEL_STOP"} => qty > 0
      BY <2>3 DEF DemoInv, Adds, o
    <3>4. Read(trade', state) = Read(trade, state) /\ Read(trade, state) \in Nat
      BY <1>12, <1>13 DEF Read, Trades
    <3>5. /\ qty' = qty - (p.filled - o.filled) /\ trade'.due = trade.due
          /\ Left(o) = o.total - o.filled /\ Left(p) = o.total - p.filled
          /\ o.filled \in Nat /\ p.filled \in Nat /\ o.total \in Nat /\ lot \in Nat
          /\ trade.due \in Int
      <4>1. o.filled \in Nat /\ p.filled \in Nat /\ o.total \in Nat
        BY <3>2 DEF Orders
      <4>2. lot \in Nat /\ trade.due \in Int
        BY <1>12, CurrentIs DEF Trades
      <4>3. qty' = qty - (p.filled - o.filled)
        BY <1>11, <1>12, <3>1, <4>1
      <4>4. trade'.due = trade.due
        BY <1>13, <3>1, <4>2
      <4> QED
        BY <3>2, <4>1, <4>2, <4>3, <4>4 DEF Left
    <3> HIDE DEF bought, sold, begun
    <3>6. /\ Left(p) <= qty' /\ qty' - Left(p) < lot
          /\ Read(trade', state) <= p.filled
          /\ trade'.due = qty' + p.filled - Read(trade', state)
          /\ state \in {"STOP_REPLACE_CANCEL", "EXIT_CANCEL_STOP"} => qty' > 0
      BY <1>12, <3>2, <3>3, <3>4, <3>5
    <3> QED
      BY <1>3, <1>7, <1>13, <2>3, <3>1, <3>3, <3>6
         DEF Adds, FlatStates, EntryStates, SaleStates, StopStates
  <2>4. CASE state = "EXIT_SUBMIT"
    <3>1. state' = state /\ bought = 0 /\ sold = 0
      BY <1>5, <2>4 DEF FlatStates, EntryStates, SaleStates, StopStates
    <3>2. trade'.active /\ trade'.due = qty'
      BY <1>11, <1>12, <1>13, <2>4, <3>1 DEF DemoInv, Adds, Trades
    <3> QED
      BY <2>4, <3>1, <3>2 DEF Adds, FlatStates, EntryStates, SaleStates, StopStates
  <2> QED
    BY <2>1, <2>2, <2>3, <2>4
       DEF DemoInv, TypeOK, States, TradeStates, SaleStates, StopStates
<1>18. Bare(exposed', trade', state')
  BY <1>3, <1>5, <1>13
     DEF DemoInv, Bare, FlatStates, EntryStates, SaleStates, StopStates, SyncStates
<1>19. Within(opened', daily'.trades, CurrentOrder', state')
  <2>1. /\ opened <= MaxDailyTrades /\ (state \in EntryStates => daily.trades < MaxDailyTrades)
        /\ \/ opened <= daily.trades
           \/ state \in EntryStates /\ o.filled > 0 /\ opened <= daily.trades + 1
    BY DEF DemoInv, Within, o
  <2>2. /\ state' \in EntryStates <=> state \in EntryStates
        /\ daily.trades \in Nat /\ MaxDailyTrades \in Nat
        /\ daily'.trades = IF newDay THEN 0 ELSE daily.trades
    BY <1>3, <1>5, <1>12, Numbers DEF FlatStates, EntryStates, FreshDay, Days
  <2>3. state \in EntryStates =>
          /\ o.filled \in Nat /\ p.filled \in Nat /\ p.filled >= o.filled
          /\ newDay => p.filled = o.filled
    BY <1>8, <1>9, <1>10 DEF Orders
  <2>4. newDay => begun = 0
    BY <2>3
  <2>5. CASE newDay
    BY <1>7, <1>11, <2>1, <2>2, <2>3, <2>4, <2>5 DEF Within
  <2>6. CASE ~newDay /\ begun = 1
    BY <1>7, <1>11, <1>12, <2>1, <2>2, <2>3, <2>6 DEF Within
  <2>7. CASE ~newDay /\ begun = 0
    BY <1>7, <1>11, <1>12, <2>1, <2>2, <2>3, <2>7 DEF Within
  <2> QED
    BY <1>12, <2>5, <2>6, <2>7
<1> QED
  BY <1>6, <1>14, <1>15, <1>16, <1>17, <1>18, <1>19 DEF DemoInv

LEMMA MarketInv ==
    ASSUME DemoInv, MarketStep
    PROVE  DemoInv'
<1>0. minute \in 1..LastMinute
  BY DEF DemoInv, TypeOK
<1>1. \A a, c \in Nat : Min({a, c}) \in Nat /\ Min({a, c}) <= c
  <2> TAKE a, c \in Nat
  <2>1. \E x \in {a, c} : \A y \in {a, c} : x <= y
    BY a <= c \/ c <= a
  <2>2. Min({a, c}) \in {a, c} /\ \A y \in {a, c} : Min({a, c}) <= y
    BY <2>1 DEF Min
  <2> QED
    BY <2>2
<1>2. ASSUME NEW m \in (minute + 1)..Min({minute + MaxGap, LastMinute}), NextBar(m, FALSE)
      PROVE  DemoInv'
  <2>1. minute + MaxGap \in Nat /\ LastMinute \in Nat /\ minute \in Nat
    BY <1>0, Numbers
  <2>2. Min({minute + MaxGap, LastMinute}) \in Nat /\ Min({minute + MaxGap, LastMinute}) <= LastMinute
    BY <1>1, <2>1
  <2>3. m \in 1..LastMinute
    BY <2>1, <2>2
  <2> QED
    BY <1>2, <2>3, BarStep
<1>3. ASSUME NEW m \in 1..Min({MaxGap, LastMinute}), NextBar(m, TRUE)
      PROVE  DemoInv'
  <2>1. MaxGap \in Nat /\ LastMinute \in Nat
    BY Numbers
  <2>2. Min({MaxGap, LastMinute}) \in Nat /\ Min({MaxGap, LastMinute}) <= LastMinute
    BY <1>1, <2>1
  <2>3. m \in 1..LastMinute
    BY <2>1, <2>2
  <2> QED
    BY <1>3, <2>3, BarStep
<1> QED
  BY <1>2, <1>3 DEF MarketStep

LEMMA InitInv == Init => DemoInv
<1> SUFFICES ASSUME Init PROVE DemoInv
  OBVIOUS
<1>1. TypeOK
  <2>1. NoOrder \in Orders /\ NoEntry \in Entries /\ NoPattern \in Patterns
        /\ NoTrade \in Trades /\ FreshDay \in Days
    BY Numbers DEF NoOrder, NoEntry, NoPattern, NoTrade, FreshDay, Orders, Entries, Patterns,
                   Trades, Days
  <2>2. book \in [Slots -> Orders]
    BY <2>1 DEF Init
  <2>3. minute \in 1..LastMinute
    BY Numbers DEF Init
  <2> QED
    BY <2>1, <2>2, <2>3 DEF Init, TypeOK, States, FlatStates
<1>2. IdsFit /\ Current = 0 /\ CurrentOrder = NoOrder
  BY DEF Init, IdsFit, Current, CurrentOrder, EntryStates, StopStates
<1>3. OthersAreOver
  BY DEF Init, OthersAreOver, IsOpen, Open, NoOrder
<1>4. Adds(qty, trade, CurrentOrder, state, lot)
  BY DEF Init, Adds, NoTrade, FlatStates, EntryStates, SaleStates, StopStates
<1>5. Bare(exposed, trade, state)
  BY DEF Init, Bare, SyncStates
<1>6. Within(opened, daily.trades, CurrentOrder, state)
  BY Numbers DEF Init, Within, FreshDay, EntryStates
<1> QED
  BY <1>1, <1>2, <1>3, <1>4, <1>5, <1>6 DEF DemoInv

(***************************************************************************)
(* Looking for a pattern, and buying.                                       *)
(***************************************************************************)
\* No wait for an order begins or ends: nothing is owned, and nothing ordered.
LEMMA FlatStep ==
    ASSUME DemoInv, Frame, state \in FlatStates, state' \in FlatStates, pattern' \in Patterns,
           UNCHANGED <<book, ids, entry, trade, daily>>
    PROVE  DemoInv'
<1>1. Current = 0 /\ CurrentOrder = NoOrder /\ ids = <<0, 0, 0>>
  BY CurrentIs DEF FlatStates, EntryStates, SaleStates, StopStates, ids
<1>2. Current' = 0 /\ IdsFit'
  BY <1>1 DEF IdsFit, Current, ids, FlatStates, EntryStates, StopStates
<1>3. book' \in [Slots -> Orders] /\ OthersAreOver' /\ CurrentOrder' = NoOrder
  BY <1>1, <1>2, Drops DEF NoOrder, IsOpen, Open
<1>4. qty = 0 /\ Adds(qty', trade', CurrentOrder', state', lot')
  BY <1>1, <1>3
     DEF DemoInv, Adds, Frame, FlatStates, EntryStates, SaleStates, StopStates
<1>5. exposed' = 0
  BY <1>2, <1>3, <1>4, CurrentIs, BareAfter
<1>6. TypeOK'
  BY <1>3, <1>5 DEF DemoInv, TypeOK, Frame, ids, States
<1>7. Bare(exposed', trade', state')
  BY <1>5 DEF Bare, FlatStates, SyncStates
<1>8. Within(opened', daily'.trades, CurrentOrder', state')
  BY <1>1, <1>3 DEF DemoInv, Within, Frame, FlatStates, EntryStates
<1> QED
  BY <1>2, <1>3, <1>4, <1>6, <1>7, <1>8 DEF DemoInv

LEMMA FlatActions ==
    ASSUME DemoInv, Frame,
           PatternBlocked \/ PatternIdles \/ FindH1 \/ AwaitH1Failure \/ SeekSecondBottom
    PROVE  DemoInv'
<1>1. state \in FlatStates /\ UNCHANGED <<book, ids, entry, trade, daily>>
  BY DEF PatternBlocked, PatternIdles, FindH1, AwaitH1Failure, SeekSecondBottom, Searching,
         ScansSecondBottom
<1>2. pattern \in Patterns /\ NoPattern \in Patterns
  BY DEF DemoInv, TypeOK, NoPattern, Patterns
<1>3. CASE PatternBlocked \/ PatternIdles \/ FindH1
  <2>1. state' \in FlatStates /\ pattern' \in Patterns
    BY <1>1, <1>2, <1>3 DEF PatternBlocked, PatternIdles, FindH1, Enter, GiveUp, FlatStates
  <2> QED
    BY <1>1, <2>1, FlatStep
<1>4. CASE AwaitH1Failure
  <2>1. state' \in FlatStates /\ pattern' \in Patterns
    BY <1>1, <1>2, <1>4 DEF AwaitH1Failure, Enter, GiveUp, FlatStates, Patterns
  <2> QED
    BY <1>1, <2>1, FlatStep
<1>5. CASE SeekSecondBottom
  <2>1. Legs \in Nat /\ Legs - 1 \in Nat
    BY <1>2 DEF Legs, Patterns
  <2>2. state' \in FlatStates /\ pattern' \in Patterns
    BY <1>1, <1>2, <1>5, <2>1 DEF SeekSecondBottom, Enter, GiveUp, FlatStates, Patterns
  <2> QED
    BY <1>1, <2>2, FlatStep
<1> QED
  BY <1>3, <1>4, <1>5

LEMMA PlanEntryInv ==
    ASSUME DemoInv, Frame, PlanEntry
    PROVE  DemoInv'
<1>1. /\ state \in FlatStates /\ CanOpen /\ entryOrder' = FreeSlot /\ state' = "ENTRY_ACTIVE"
      /\ entry' = [NoEntry EXCEPT !.expire = minute + SignalMinutes]
      /\ pattern' = [bars |-> Legs, attempts |-> pattern.attempts + 1]
      /\ UNCHANGED <<stopOrder, exitOrder, trade, daily>>
  BY DEF PlanEntry, ScansSecondBottom, Searching, Enter
<1>2. PICK lots \in 1..MaxLots : book' = WithOrder("ENTRY", lots * lot, 0)
  BY DEF PlanEntry
<1>3. Current = 0 /\ CurrentOrder = NoOrder /\ ids = <<0, 0, 0>> /\ lot \in Nat \ {0}
  BY <1>1, CurrentIs DEF FlatStates, EntryStates, SaleStates, StopStates, ids
<1>4. FreeSlot \in Slots /\ 0 \notin Slots
  BY RoomForOne, CurrentIs DEF Frame
<1>5. Current' = FreeSlot /\ IdsFit'
  BY <1>1, <1>3, <1>4 DEF IdsFit, Current, ids, EntryStates, StopStates
<1>6. Rounded(lots * lot) \in Nat /\ Rounded(lots * lot) > 0
  <2>1. lots * lot \in Nat /\ lots * lot >= lot
    BY <1>3, Numbers
  <2> QED
    BY <1>3, <2>1, WholeLots DEF Rounded
<1> DEFINE new == [kind |-> "ENTRY", total |-> Rounded(lots * lot), filled |-> 0,
                   level |-> 0, status |-> "SUBMITTED"]
<1>7. book' \in [Slots -> Orders] /\ OthersAreOver' /\ CurrentOrder' = new
  BY <1>2, <1>3, <1>5, <1>6, Places, Numbers DEF NoOrder, IsOpen, Open
<1>8. Fits(CurrentOrder', state', turn')
  BY <1>1, <1>6, <1>7 DEF Fits, Consistent, Frame, EntryStates, StopStates, SyncStates
<1>9. qty = 0 /\ Adds(qty', trade', CurrentOrder', state', lot')
  BY <1>1, <1>7 DEF DemoInv, Adds, Frame, FlatStates, EntryStates, SaleStates, StopStates
<1>10. exposed' = 0
  BY <1>3, <1>4, <1>5, <1>7, <1>9, BareAfter
<1>11. TypeOK'
  <2>1. entry' \in Entries
    <3>1. minute + SignalMinutes \in Nat
      BY Numbers DEF DemoInv, TypeOK
    <3> QED
      BY <1>1, <3>1 DEF Entries, NoEntry
  <2>2. pattern' \in Patterns
    BY <1>1 DEF DemoInv, TypeOK, Patterns, Legs
  <2> QED
    BY <1>1, <1>4, <1>7, <1>10, <2>1, <2>2 DEF DemoInv, TypeOK, Frame, States, EntryStates
<1>12. Bare(exposed', trade', state')
  BY <1>1, <1>10 DEF Bare, SyncStates
<1>13. Within(opened', daily'.trades, CurrentOrder', state')
  BY <1>1, <1>3, <1>7 DEF DemoInv, Within, CanOpen, Frame, FlatStates, EntryStates
<1> QED
  BY <1>5, <1>7, <1>8, <1>9, <1>11, <1>12, <1>13 DEF DemoInv

(***************************************************************************)
(* Entry orders.                                                            *)
(***************************************************************************)
\* The purchase is waited for, cancelled or taken over.
LEMMA EntryStep ==
    ASSUME DemoInv, Frame, state \in EntryStates, state' \in EntryStates,
           UNCHANGED <<ids, trade, pattern>>,
           book' = book \/ book' = WithoutOrder(entryOrder),
           entry' \in Entries, daily' \in Days, daily'.trades = daily.trades,
           Fits(CurrentOrder', state', "market"),
           state' = "ENTRY_ACTIVE" => qty = 0,
           state = "ENTRY_ACTIVE" \/ (state = "ENTRY_CANCEL_PENDING" /\ state' \in SyncStates)
    PROVE  DemoInv'
<1>1. Current = entryOrder /\ Current # 0
  BY CurrentIs
<1>2. Current' = Current /\ IdsFit'
  BY <1>1 DEF DemoInv, IdsFit, Current, ids, EntryStates, StopStates
<1>3. /\ book' \in [Slots -> Orders] /\ OthersAreOver'
      /\ CurrentOrder' \in {CurrentOrder, Cancelled(CurrentOrder)}
  BY <1>1, <1>2, Keeps
<1>4. CurrentOrder'.filled = CurrentOrder.filled
  BY <1>1, <1>3, CurrentIs, Cancelling
<1>5. Adds(qty', trade', CurrentOrder', state', lot')
  BY <1>4 DEF DemoInv, Adds, Frame, FlatStates, EntryStates, SaleStates, StopStates
<1>6. exposed' \in {0, exposed + 1} /\ (qty = 0 => exposed' = 0)
  BY <1>2, <1>3, CurrentIs, BareAfter
<1>7. TypeOK'
  <2>1. exposed' \in Nat
    BY <1>6 DEF DemoInv, TypeOK
  <2> QED
    BY <1>3, <2>1 DEF DemoInv, TypeOK, Frame, ids, States
<1>8. Bare(exposed', trade', state')
  BY <1>6 DEF DemoInv, TypeOK, Bare, FlatStates, EntryStates, SyncStates
<1>9. Within(opened', daily'.trades, CurrentOrder', state')
  BY <1>4 DEF DemoInv, Within, Frame
<1> QED
  BY <1>2, <1>3, <1>5, <1>7, <1>8, <1>9 DEF DemoInv, Frame

\* Nothing of it traded.
LEMMA EntryOverStep ==
    ASSUME DemoInv, Frame, state \in EntryStates, ~IsOpen(CurrentOrder),
           CurrentOrder.filled = 0, EntryOver, UNCHANGED <<book, stopOrder, exitOrder, trade, daily>>
    PROVE  DemoInv'
<1>1. /\ state' \in {"WAIT_H1", "WAIT_SECOND_BOTTOM"} /\ pattern' \in Patterns
      /\ entryOrder' = 0 /\ entry' = NoEntry
  BY DEF EntryOver, Enter, DemoInv, TypeOK, NoPattern, Patterns
<1>2. Current' = 0 /\ IdsFit' /\ stopOrder = 0 /\ exitOrder = 0
  BY <1>1, CurrentIs DEF IdsFit, Current, ids, EntryStates, StopStates
<1>3. book' \in [Slots -> Orders] /\ OthersAreOver' /\ CurrentOrder' = NoOrder
  BY <1>2, Drops
<1>4. qty = 0 /\ Adds(qty', trade', CurrentOrder', state', lot')
  BY <1>1, <1>3
     DEF DemoInv, Adds, Frame, FlatStates, EntryStates, SaleStates, StopStates
<1>5. exposed' = 0
  BY <1>2, <1>3, <1>4, CurrentIs, BareAfter
<1>6. TypeOK'
  <2>1. NoEntry \in Entries
    BY DEF NoEntry, Entries
  <2> QED
    BY <1>1, <1>2, <1>3, <1>5, <2>1 DEF DemoInv, TypeOK, Frame, States, FlatStates
<1>7. Bare(exposed', trade', state')
  BY <1>1, <1>5 DEF Bare, SyncStates
<1>8. Within(opened', daily'.trades, CurrentOrder', state')
  BY <1>1, <1>3 DEF DemoInv, TypeOK, Days, Within, Frame, EntryStates
<1> QED
  BY <1>2, <1>3, <1>4, <1>6, <1>7, <1>8 DEF DemoInv

LEMMA EntryActiveInv ==
    ASSUME DemoInv, Frame, EntryActive
    PROVE  DemoInv'
<1> DEFINE o == CurrentOrder
<1>1. /\ state = "ENTRY_ACTIVE" /\ book[entryOrder] = o /\ Current = entryOrder /\ Current # 0
      /\ o \in Orders /\ Consistent(o) /\ o.kind = "ENTRY" /\ qty = o.filled
      /\ o.status \in {"SUBMITTED", "FILLED_PART", "FILLED_ALL", "FAILED", "DISABLED"}
      /\ o.status = "DISABLED" => o.filled = 0
      /\ UNCHANGED <<stopOrder, exitOrder, trade>>
  BY CurrentIs DEF DemoInv, Fits, Adds, EntryActive, EntryStates
<1>2. o.filled \in Nat /\ minute \in Nat /\ entry \in Entries /\ daily \in Days
  BY <1>1 DEF DemoInv, TypeOK, Orders
<1> HIDE DEF o
<1>3. entryOrder' = entryOrder => ids' = ids /\ (state' \in EntryStates => Current' = Current)
  BY <1>1 DEF ids, Current
<1>4. CASE o.filled > 0
  <2>1. entry' = [entry EXCEPT !.valid = minute <= entry.expire]
    BY <1>1, <1>4 DEF EntryActive
  <2>2. entry' \in Entries /\ entry'.valid \in BOOLEAN
    <3>1. (minute <= entry.expire) \in BOOLEAN
      OBVIOUS
    <3> QED
      BY <1>2, <2>1, <3>1 DEF Entries
  <2>3. CASE o.status = "FILLED_ALL"
    <3>1. EntryDone(entry'.valid) /\ book' = book
      BY <1>1, <1>4, <2>3 DEF EntryActive
    <3>2. /\ state' \in SyncStates /\ daily' \in Days /\ daily'.trades = daily.trades
          /\ entryOrder' = entryOrder /\ pattern' = pattern
      BY <1>2, <2>2, <3>1 DEF EntryDone, Enter, SyncStates, Days
    <3>3. CurrentOrder' = o
      BY <1>1, <1>3, <3>1, <3>2, Keeps DEF o, SyncStates, EntryStates
    <3>4. Fits(CurrentOrder', state', "market")
      BY <1>1, <2>3, <3>2, <3>3 DEF Fits, SyncStates, EntryStates, StopStates
    <3> QED
      BY <1>1, <1>3, <2>2, <3>1, <3>2, <3>4, EntryStep DEF SyncStates, EntryStates
  <2>4. CASE o.status # "FILLED_ALL"
    <3>1. /\ state' = "ENTRY_CANCEL_PENDING" /\ book' = WithoutOrder(entryOrder)
          /\ UNCHANGED <<entryOrder, pattern, daily>>
      BY <1>1, <1>4, <2>4 DEF EntryActive, Enter
    <3>2. o.status = "FILLED_PART"
      BY <1>1, <1>4, <2>4 DEF Consistent
    <3>3. CurrentOrder' = Cancelled(o)
      BY <1>1, <1>3, <3>1, Keeps DEF o, EntryStates
    <3>4. Fits(CurrentOrder', state', "market")
      BY <1>1, <3>1, <3>2, <3>3, Cancelling DEF Fits, SyncStates, EntryStates, StopStates
    <3> QED
      BY <1>1, <1>2, <1>3, <2>2, <3>1, <3>4, EntryStep DEF EntryStates
  <2> QED
    BY <2>3, <2>4
<1>5. CASE ~(o.filled > 0)
  <2>1. o.filled = 0 /\ qty = 0 /\ ~(o.filled > 0 \/ qty > 0)
    BY <1>1, <1>2, <1>5
  <2>2. CASE o.status \in CancelTerminal
    <3>1. EntryOver /\ UNCHANGED <<book, daily>>
      BY <1>1, <2>1, <2>2 DEF EntryActive
    <3> QED
      BY <1>1, <2>1, <2>2, <3>1, EntryOverStep DEF o, CancelTerminal, IsOpen, Open, EntryStates
  <2>3. CASE o.status \notin CancelTerminal
    <3>1. o.status = "SUBMITTED"
      BY <1>1, <2>1, <2>3 DEF CancelTerminal, Consistent
    <3>2. CASE minute >= entry.expire
      <4>1. /\ state' = "ENTRY_CANCEL_PENDING" /\ book' = WithoutOrder(entryOrder)
            /\ entry' = [entry EXCEPT !.expired = TRUE, !.valid = FALSE]
            /\ UNCHANGED <<entryOrder, pattern, daily>>
        BY <1>1, <2>1, <2>3, <3>2 DEF EntryActive, Enter
      <4>2. CurrentOrder' = Cancelled(o)
        BY <1>1, <1>3, <4>1, Keeps DEF o, EntryStates
      <4>3. Fits(CurrentOrder', state', "market")
        BY <1>1, <3>1, <4>1, <4>2, Cancelling DEF Fits, SyncStates, EntryStates, StopStates
      <4>4. entry' \in Entries
        BY <1>2, <4>1 DEF Entries
      <4> QED
        BY <1>1, <1>2, <1>3, <4>1, <4>3, <4>4, EntryStep DEF EntryStates
    <3>3. CASE ~(minute >= entry.expire)
      <4>1. UNCHANGED <<state, entry, book, entryOrder, pattern, daily>>
        BY <1>1, <2>1, <2>3, <3>3 DEF EntryActive
      <4>2. CurrentOrder' = o
        BY <1>1, <1>3, <4>1, Keeps DEF o, EntryStates
      <4>3. Fits(CurrentOrder', state', "market")
        BY <1>1, <3>1, <4>1, <4>2 DEF Fits, SyncStates, EntryStates, StopStates
      <4> QED
        BY <1>1, <1>2, <1>3, <2>1, <4>1, <4>3, EntryStep DEF EntryStates
    <3> QED
      BY <3>2, <3>3
  <2> QED
    BY <2>2, <2>3
<1> QED
  BY <1>4, <1>5

LEMMA EntryCancelPendingInv ==
    ASSUME DemoInv, Frame, EntryCancelPending
    PROVE  DemoInv'
<1> DEFINE o == CurrentOrder
           expired == entry.expired \/ ForcedOut
           valid == IF ForcedOut THEN FALSE
                    ELSE entry.valid \/ (PartTraded(o) /\ ~entry.expired)
<1>1. /\ state = "ENTRY_CANCEL_PENDING" \/ (state = "ENTRY_ACTIVE" /\ qty = 0)
      /\ book[entryOrder] = o /\ Current = entryOrder /\ Current # 0
      /\ o \in Orders /\ Consistent(o) /\ o.kind = "ENTRY" /\ qty = o.filled
      /\ Fits(o, state, "strategy")
      /\ UNCHANGED <<stopOrder, exitOrder, trade>>
  BY CurrentIs DEF DemoInv, Fits, Adds, EntryCancelPending, ForcedOut, EntryStates, Frame
<1>2. o.filled \in Nat /\ entry \in Entries /\ daily \in Days
  BY <1>1 DEF DemoInv, TypeOK, Orders
<1>3. expired \in BOOLEAN /\ valid \in BOOLEAN
  BY <1>2 DEF Entries
<1>4. IF o.status = "FILLED_ALL" \/ (o.status \in CancelTerminal /\ PartTraded(o))
      THEN /\ entry' = [entry EXCEPT !.expired = expired, !.valid = valid]
           /\ EntryDone(valid)
           /\ UNCHANGED book
      ELSE IF o.status \in CancelTerminal
      THEN EntryOver /\ UNCHANGED <<book, daily>>
      ELSE /\ Enter("ENTRY_CANCEL_PENDING")
           /\ entry' = [entry EXCEPT !.expired = expired, !.valid = valid]
           /\ book' = WithoutOrder(entryOrder)
           /\ UNCHANGED <<entryOrder, pattern, daily>>
  BY <1>1 DEF EntryCancelPending
<1>5. entryOrder' = entryOrder => ids' = ids /\ (state' \in EntryStates => Current' = Current)
  BY <1>1 DEF ids, Current, EntryStates
<1> HIDE DEF o, expired, valid
<1>6. CASE state = "ENTRY_CANCEL_PENDING" /\ o.status = "CANCELLED_PART"
  <2>1. /\ entry' = [entry EXCEPT !.expired = expired, !.valid = valid]
        /\ EntryDone(valid) /\ book' = book
    BY <1>1, <1>4, <1>6 DEF Consistent, PartTraded, CancelTerminal
  <2>2. entry' \in Entries
    BY <1>2, <1>3, <2>1 DEF Entries
  <2>3. /\ state' \in SyncStates /\ daily' \in Days /\ daily'.trades = daily.trades
        /\ entryOrder' = entryOrder /\ pattern' = pattern
    BY <1>2, <1>3, <2>1 DEF EntryDone, Enter, SyncStates, Days
  <2>4. CurrentOrder' = o
    BY <1>1, <1>5, <2>1, <2>3, Keeps DEF o, SyncStates, EntryStates
  <2>5. Fits(CurrentOrder', state', "market")
    BY <1>1, <1>6, <2>3, <2>4 DEF Fits, SyncStates, EntryStates, StopStates
  <2> QED
    BY <1>1, <1>5, <1>6, <2>1, <2>2, <2>3, <2>5, EntryStep DEF SyncStates, EntryStates
<1>7. CASE o.filled = 0 /\ o.status \in CancelTerminal
  <2>1. ~PartTraded(o) /\ o.status # "FILLED_ALL"
    BY <1>1, <1>7 DEF PartTraded, CancelTerminal
  <2>2. EntryOver /\ UNCHANGED <<book, daily>>
    BY <1>4, <1>7, <2>1
  <2> QED
    BY <1>1, <1>7, <2>2, EntryOverStep DEF o, CancelTerminal, IsOpen, Open, EntryStates
<1>8. CASE state = "ENTRY_ACTIVE" /\ o.status = "SUBMITTED"
  <2>1. /\ entry' = [entry EXCEPT !.expired = expired, !.valid = valid]
        /\ state' = "ENTRY_CANCEL_PENDING" /\ book' = WithoutOrder(entryOrder)
        /\ UNCHANGED <<entryOrder, pattern, daily>>
    BY <1>4, <1>8 DEF Enter, CancelTerminal
  <2>2. entry' \in Entries
    BY <1>2, <1>3, <2>1 DEF Entries
  <2>3. CurrentOrder' = Cancelled(o)
    BY <1>1, <1>5, <2>1, Keeps DEF o, EntryStates
  <2>4. Fits(CurrentOrder', state', "market")
    BY <1>1, <1>8, <2>1, <2>3, Cancelling DEF Fits, SyncStates, EntryStates, StopStates
  <2> QED
    BY <1>1, <1>2, <1>5, <1>8, <2>1, <2>2, <2>4, EntryStep DEF EntryStates
<1> QED
  BY <1>1, <1>2, <1>6, <1>7, <1>8 DEF Fits, Consistent, CancelTerminal

(***************************************************************************)
(* Selling: how an order to sell is placed, given up and settled.           *)
(***************************************************************************)
LEMMA BareBarsBound ==
    BareBars \in Nat /\ BareBars >= 3 /\ BareBars >= PositionSyncBars + 1
<1>1. 3 \in Nat /\ PositionSyncBars + 1 \in Nat
  BY Numbers
<1>2. \E x \in {3, PositionSyncBars + 1} : \A y \in {3, PositionSyncBars + 1} : x >= y
  BY <1>1, 3 >= PositionSyncBars + 1 \/ PositionSyncBars + 1 >= 3
<1> QED
  BY <1>1, <1>2 DEF BareBars, Max

\* The largest of zero and a number, and of two numbers.
LEMMA LargerOf ==
    ASSUME NEW a \in Int, NEW c \in Int
    PROVE  Max({a, c}) = IF a >= c THEN a ELSE c
<1>1. \E x \in {a, c} : \A y \in {a, c} : x >= y
  BY a >= c \/ c >= a
<1>2. Max({a, c}) \in {a, c} /\ \A y \in {a, c} : Max({a, c}) >= y
  BY <1>1 DEF Max
<1> QED
  BY <1>2

LEMMA NoTradeIs ==
    NoTrade \in Trades /\ ~NoTrade.active /\ ~NoTrade.force
  BY Numbers DEF NoTrade, Trades

\* Nothing is left to sell: the order for the whole position is over.
LEMMA SoldOut ==
    ASSUME DemoInv, qty = 0, state \in SaleStates
    PROVE  ~IsOpen(CurrentOrder)
<1>1. CurrentOrder \in Orders /\ Consistent(CurrentOrder)
  BY CurrentIs
<1>2. Left(CurrentOrder) <= 0
  BY DEF DemoInv, Adds
<1> QED
  BY <1>1, <1>2 DEF Left, IsOpen, Open, Consistent, Orders

\* The trade t leaves at market, and no order of it is left.
LEMMA LeavesStep ==
    ASSUME DemoInv, Frame, ~IsOpen(CurrentOrder),
           state' = "EXIT_SUBMIT", entryOrder' = 0, stopOrder' = 0, exitOrder' = 0, book' = book,
           trade' \in Trades, trade'.active, trade'.due = qty,
           entry' \in Entries, pattern' \in Patterns, daily' \in Days,
           qty >= lot => exposed + 1 <= BareBars, opened <= daily'.trades
    PROVE  DemoInv'
<1>1. Current' = 0 /\ IdsFit'
  BY DEF IdsFit, Current, EntryStates, StopStates
<1>2. book' \in [Slots -> Orders] /\ OthersAreOver' /\ CurrentOrder' = NoOrder
  BY <1>1, Drops
<1>3. Adds(qty', trade', CurrentOrder', state', lot')
  BY DEF Adds, Frame, FlatStates, EntryStates, SaleStates, StopStates
<1>4. exposed' \in Nat /\ exposed' <= BareBars
  BY <1>1, <1>2, CurrentIs, BareAfter, BareBarsBound DEF DemoInv, TypeOK
<1>5. TypeOK'
  BY <1>2, <1>4 DEF DemoInv, TypeOK, Frame, States, TradeStates
<1>6. Bare(exposed', trade', state')
  BY <1>4 DEF Bare, FlatStates, SyncStates
<1>7. Within(opened', daily'.trades, CurrentOrder', state')
  BY DEF DemoInv, Within, Frame, EntryStates
<1> QED
  BY <1>1, <1>2, <1>3, <1>5, <1>6, <1>7 DEF DemoInv

\* A trade is over.
LEMMA SettlesStep ==
    ASSUME DemoInv, Frame, state \in SaleStates \cup {"EXIT_SUBMIT"}, qty = 0,
           NEW t \in Trades, t.due = 0, Settle(t), exitOrder' = 0
    PROVE  DemoInv'
<1>1. /\ trade' = Forgotten(t) /\ CountResult /\ state' = "WAIT_H1" /\ pattern' = NoPattern
      /\ stopOrder' = 0 /\ book' = book /\ entryOrder' = entryOrder /\ entry' = entry
  BY DEF Settle, Enter
<1>2. entryOrder = 0 /\ state \notin EntryStates
  BY CurrentIs DEF EntryStates, SaleStates, StopStates
<1>3. Current' = 0 /\ IdsFit'
  BY <1>1, <1>2 DEF IdsFit, Current, EntryStates, StopStates
<1>4. ~IsOpen(CurrentOrder)
  <2>1. CASE state = "EXIT_SUBMIT"
    BY <2>1, CurrentIs DEF EntryStates, SaleStates, StopStates, NoOrder, IsOpen, Open
  <2> QED
    BY <2>1, SoldOut
<1>5. book' \in [Slots -> Orders] /\ OthersAreOver' /\ CurrentOrder' = NoOrder
  BY <1>1, <1>3, <1>4, Drops
<1>6. trade' \in Trades /\ trade'.due = 0 /\ ~trade'.active /\ ~trade'.force
  <2>1. trade' = [NoTrade EXCEPT !.due = t.due]
    BY <1>1 DEF Forgotten
  <2> QED
    BY <2>1, NoTradeIs DEF Trades
<1>7. daily' \in Days /\ daily'.trades = daily.trades
  <2>1. PICK loss \in BOOLEAN : \E ruined \in IF loss THEN {daily.ruined, TRUE}
                                              ELSE {daily.ruined, FALSE} :
          daily' = [daily EXCEPT !.losses = IF loss THEN @ + 1 ELSE 0, !.ruined = ruined]
    BY <1>1 DEF CountResult
  <2>2. daily \in Days
    BY DEF DemoInv, TypeOK
  <2>3. PICK ruined \in BOOLEAN :
          daily' = [daily EXCEPT !.losses = IF loss THEN @ + 1 ELSE 0, !.ruined = ruined]
    BY <2>1, <2>2 DEF Days
  <2> DEFINE losses == IF loss THEN daily.losses + 1 ELSE 0
  <2>4. losses \in Nat
    BY <2>2 DEF Days
  <2>5. daily' = [daily EXCEPT !.losses = losses, !.ruined = ruined]
    BY <2>3
  <2> HIDE DEF losses
  <2> QED
    BY <2>2, <2>4, <2>5 DEF Days
<1>8. Adds(qty', trade', CurrentOrder', state', lot')
  BY <1>1, <1>6 DEF Adds, Frame, FlatStates, EntryStates, SaleStates, StopStates
<1>9. exposed' = 0
  BY <1>3, <1>5, CurrentIs, BareAfter
<1>10. TypeOK'
  BY <1>1, <1>2, <1>5, <1>6, <1>7, <1>9
     DEF DemoInv, TypeOK, Frame, States, FlatStates, NoPattern, Patterns
<1>11. Bare(exposed', trade', state')
  BY <1>1, <1>9 DEF Bare, SyncStates
<1>12. Within(opened', daily'.trades, CurrentOrder', state')
  BY <1>1, <1>2, <1>7 DEF DemoInv, Within, Frame, EntryStates
<1> QED
  BY <1>1, <1>3, <1>5, <1>8, <1>10, <1>11, <1>12 DEF DemoInv, FlatStates, EntryStates

\* The whole position is offered.
LEMMA SellsStep ==
    ASSUME DemoInv, Frame, ~IsOpen(CurrentOrder), SaleAccepted(qty),
           NEW kind \in {"STOP", "EXIT"}, NEW level \in 0..TopStop,
           book' = WithOrder(kind, qty, level), entryOrder' = 0,
           IF kind = "STOP"
           THEN state' = "HOLDING" /\ stopOrder' = FreeSlot /\ exitOrder' = 0 /\ trade'.stopFill = 0
           ELSE /\ state' = "EXIT_WAIT_FILL" /\ exitOrder' = FreeSlot /\ stopOrder' = 0
                /\ trade'.exitFill = 0 /\ trade'.exitWait = 0,
           trade' \in Trades, trade'.active, trade'.due = qty,
           entry' \in Entries, pattern' \in Patterns, daily' \in Days, opened <= daily'.trades
    PROVE  DemoInv'
<1>1. FreeSlot \in Slots /\ 0 \notin Slots
  BY RoomForOne, CurrentIs DEF Frame
<1>2. Current' = FreeSlot /\ IdsFit' /\ state' \in {"HOLDING", "EXIT_WAIT_FILL"}
  BY <1>1 DEF IdsFit, Current, EntryStates, StopStates
<1>3. /\ Rounded(qty) \in Nat /\ Rounded(qty) <= qty /\ qty - Rounded(qty) < lot
      /\ Rounded(qty) > 0
  BY NothingPromised DEF Frame, SaleAccepted
<1> DEFINE new == [kind |-> kind, total |-> Rounded(qty), filled |-> 0,
                   level |-> level, status |-> "SUBMITTED"]
<1>4. book' \in [Slots -> Orders] /\ OthersAreOver' /\ CurrentOrder' = new
  BY <1>2, <1>3, Places
<1>5. Fits(CurrentOrder', state', turn')
  BY <1>2, <1>3, <1>4
     DEF Fits, Consistent, Frame, EntryStates, StopStates, SyncStates, Open
<1>6. Adds(qty', trade', CurrentOrder', state', lot')
  <2>1. Left(new) = Rounded(qty) /\ new.filled = 0
    BY <1>3 DEF Left
  <2>2. Read(trade', state') = 0
    BY <1>2 DEF Read
  <2>3. qty' = qty /\ lot' = lot /\ qty \in Nat
    BY DEF Frame, DemoInv, TypeOK
  <2> HIDE DEF new
  <2> QED
    BY <1>2, <1>3, <1>4, <2>1, <2>2, <2>3
       DEF Adds, FlatStates, EntryStates, SaleStates, StopStates
<1>7. exposed' = 0
  <2>1. IsOpen(CurrentOrder') /\ CurrentOrder'.kind # "ENTRY"
    BY <1>4 DEF IsOpen, Open
  <2> QED
    BY <1>1, <1>2, <1>4, <2>1, BareAfter
<1>8. TypeOK'
  BY <1>1, <1>2, <1>4, <1>7 DEF DemoInv, TypeOK, Frame, States, TradeStates
<1>9. Bare(exposed', trade', state')
  BY <1>2, <1>7 DEF Bare, TypeOK, DemoInv, Trades, SyncStates
<1>10. Within(opened', daily'.trades, CurrentOrder', state')
  BY <1>2 DEF DemoInv, Within, Frame, EntryStates
<1> QED
  BY <1>2, <1>4, <1>5, <1>6, <1>8, <1>9, <1>10 DEF DemoInv

\* The position gets a stop, or the trade leaves because it is less than a lot.
LEMMA ProtectStep ==
    ASSUME DemoInv, Frame, ~IsOpen(CurrentOrder), entryOrder' = 0, exitOrder' = 0,
           NEW t \in Trades, t.active, t.due = qty, NEW day \in Days, Protect(t, day),
           entry' \in Entries, pattern' \in Patterns, opened <= day.trades
    PROVE  DemoInv'
<1>1. CASE SaleAccepted(qty)
  <2>1. /\ book' = WithOrder("STOP", qty, t.stop) /\ stopOrder' = FreeSlot
        /\ trade' = [t EXCEPT !.stopFill = 0] /\ daily' = day /\ state' = "HOLDING"
    BY <1>1 DEF Protect, Enter
  <2>2. /\ trade' \in Trades /\ trade'.active /\ trade'.due = qty /\ trade'.stopFill = 0
        /\ t.stop \in 0..TopStop
    BY <2>1 DEF Trades
  <2> QED
    BY <1>1, <2>1, <2>2, SellsStep
<1>2. CASE ~SaleAccepted(qty)
  <2>1. /\ stopOrder' = 0 /\ trade' = t /\ daily' = [day EXCEPT !.error = TRUE]
        /\ state' = "EXIT_SUBMIT" /\ book' = book
    BY <1>2 DEF Protect, Enter
  <2>2. ~(qty >= lot)
    BY <1>2, NothingPromised DEF Frame
  <2>3. daily' \in Days /\ daily'.trades = day.trades
    BY <2>1 DEF Days
  <2> QED
    BY <2>1, <2>2, <2>3, LeavesStep
<1> QED
  BY <1>1, <1>2

LEMMA EntrySyncInv ==
    ASSUME DemoInv, Frame, EntrySync
    PROVE  DemoInv'
<1>1. /\ state \in SyncStates /\ state \in EntryStates
      /\ entryOrder' = 0 /\ entry' = NoEntry /\ pattern' = pattern
      /\ stopOrder = 0 /\ exitOrder = 0
  BY CurrentIs DEF EntrySync, SyncStates, EntryStates, StopStates
<1> DEFINE counted == [daily EXCEPT !.trades = @ + 1]
<1>2. counted \in Days /\ counted.trades = daily.trades + 1 /\ opened <= counted.trades
  <2>1. daily \in Days /\ opened \in Nat /\ opened <= daily.trades + 1
    BY DEF DemoInv, TypeOK, Within, Days
  <2> QED
    BY <2>1 DEF Days
<1>3. ~IsOpen(CurrentOrder)
  BY <1>1, CurrentIs DEF DemoInv, Fits, IsOpen, Open, SyncStates
<1>4. trade \in Trades /\ trade.due = qty /\ exposed \in Nat /\ exposed <= 2
  BY <1>1 DEF DemoInv, TypeOK, Adds, Bare
<1>5. entry' \in Entries /\ pattern' \in Patterns
  BY <1>1 DEF NoEntry, Entries, DemoInv, TypeOK
<1>6. TakenOver \in Trades /\ TakenOver.active /\ TakenOver.due = qty
  <2>1. PlannedStop \in 0..TopStop
    BY Numbers DEF PlannedStop
  <2> QED
    BY <1>4, <2>1, NoTradeIs DEF TakenOver, Trades
<1>7. PICK bad \in BOOLEAN :
        IF bad \/ state = "ENTRY_SYNC_LATE" \/ ForceFlat
        THEN /\ trade' = [TakenOver EXCEPT !.exitFill = 0, !.exitWait = 0, !.endWait = 0]
             /\ stopOrder' = 0 /\ exitOrder' = 0
             /\ daily' = counted
             /\ state' = "EXIT_SUBMIT"
             /\ UNCHANGED book
        ELSE Protect(TakenOver, counted) /\ UNCHANGED exitOrder
  BY DEF EntrySync, Enter
<1> HIDE DEF counted
<1>8. CASE bad \/ state = "ENTRY_SYNC_LATE" \/ ForceFlat
  <2>1. trade' \in Trades /\ trade'.active /\ trade'.due = qty
    <3>1. trade' = [TakenOver EXCEPT !.exitFill = 0, !.exitWait = 0, !.endWait = 0]
      BY <1>7, <1>8
    <3> QED
      BY <1>6, <3>1 DEF Trades
  <2>2. exposed + 1 <= BareBars
    BY <1>4, BareBarsBound
  <2> QED
    BY <1>1, <1>2, <1>3, <1>5, <1>7, <1>8, <2>1, <2>2, LeavesStep
<1>9. CASE ~(bad \/ state = "ENTRY_SYNC_LATE" \/ ForceFlat)
  <2>1. Protect(TakenOver, counted) /\ exitOrder' = 0
    BY <1>1, <1>7, <1>9
  <2> QED
    BY <1>1, <1>2, <1>3, <1>5, <1>6, <2>1, ProtectStep
<1> QED
  BY <1>8, <1>9

(***************************************************************************)
(* The protective stop: held, replaced, filled or taken out of the book.    *)
(***************************************************************************)
\* The result of the trade t agrees with what the order of the state traded.
Accounted(t) ==
    /\ t \in Trades /\ t.active
    /\ t.stopFill <= CurrentOrder.filled
    /\ t.due = qty + CurrentOrder.filled - t.stopFill

LEMMA StopFacts ==
    ASSUME DemoInv, state \in StopStates
    PROVE  /\ Current = stopOrder /\ stopOrder # 0 /\ book[stopOrder] = CurrentOrder
           /\ CurrentOrder \in Orders /\ Consistent(CurrentOrder) /\ CurrentOrder.kind = "STOP"
           /\ CurrentOrder.filled \in Nat /\ CurrentOrder.total \in Nat
           /\ Left(CurrentOrder) = CurrentOrder.total - CurrentOrder.filled
           /\ Left(CurrentOrder) <= qty /\ qty - Left(CurrentOrder) < lot
           /\ qty \in Nat /\ lot \in Nat \ {0} /\ exposed \in Nat
           /\ trade \in Trades /\ Accounted(trade)
           /\ entryOrder = 0 /\ exitOrder = 0
           /\ opened <= daily.trades /\ daily \in Days
           /\ entry \in Entries /\ pattern \in Patterns
<1>1. state \in SaleStates /\ state \notin EntryStates /\ state # "EXIT_WAIT_FILL"
  BY DEF SaleStates, StopStates, EntryStates
<1>2. /\ Current = stopOrder /\ stopOrder # 0 /\ book[stopOrder] = CurrentOrder
      /\ CurrentOrder \in Orders /\ Consistent(CurrentOrder)
      /\ entryOrder = 0 /\ exitOrder = 0 /\ lot \in Nat \ {0}
  BY <1>1, CurrentIs
<1>3. CurrentOrder.kind = "STOP"
  BY <1>2 DEF DemoInv, Fits
<1>4. /\ Left(CurrentOrder) <= qty /\ qty - Left(CurrentOrder) < lot
      /\ trade.active /\ trade.stopFill <= CurrentOrder.filled
      /\ trade.due = qty + CurrentOrder.filled - trade.stopFill
  BY <1>1 DEF DemoInv, Adds, Read
<1>5. /\ trade \in Trades /\ qty \in Nat /\ exposed \in Nat /\ daily \in Days
      /\ entry \in Entries /\ pattern \in Patterns
  BY DEF DemoInv, TypeOK
<1>6. opened <= daily.trades
  BY <1>1 DEF DemoInv, Within
<1> QED
  BY <1>2, <1>3, <1>4, <1>5, <1>6 DEF Accounted, Left, Orders

\* Reading the stop brings the result up to the position.
LEMMA StopReads ==
    ASSUME DemoInv, state \in StopStates, NEW t, Accounted(t)
    PROVE  /\ StopBooked(t) = [t EXCEPT !.due = qty, !.stopFill = CurrentOrder.filled]
           /\ Accounted(StopBooked(t)) /\ StopBooked(t).due = qty
           /\ StopBooked(t).endWait = t.endWait
<1> DEFINE n == CurrentOrder.filled
<1>1. /\ stopOrder # 0 /\ book[stopOrder] = CurrentOrder /\ n \in Nat /\ qty \in Nat
  BY StopFacts
<1>2. t \in Trades /\ t.stopFill \in Nat /\ t.stopFill <= n /\ t.due = qty + n - t.stopFill
  BY DEF Accounted, Trades
<1>3. Max({0, n - t.stopFill}) = n - t.stopFill /\ Max({t.stopFill, n}) = n
  BY <1>1, <1>2, LargerOf
<1>4. t.due - (n - t.stopFill) = qty
  BY <1>1, <1>2
<1>5. StopBooked(t) = [[t EXCEPT !.due = t.due - Max({0, n - t.stopFill})]
                          EXCEPT !.stopFill = Max({t.stopFill, n})]
  BY <1>1, <1>2 DEF StopBooked, Booked, Trades
<1>6. StopBooked(t) = [t EXCEPT !.due = qty, !.stopFill = n]
  BY <1>2, <1>3, <1>4, <1>5
<1> HIDE DEF n
<1>7. /\ StopBooked(t) \in Trades /\ StopBooked(t).due = qty /\ StopBooked(t).stopFill = n
      /\ StopBooked(t).active = t.active /\ StopBooked(t).endWait = t.endWait
  <2>1. n \in Nat /\ qty \in Int /\ t \in Trades
    BY <1>1, <1>2
  <2> DEFINE u == StopBooked(t)
  <2>2. u = [t EXCEPT !.due = qty, !.stopFill = n]
    BY <1>6
  <2> HIDE DEF u
  <2>3. u \in Trades
    BY ONLY <2>1, <2>2 DEF Trades
  <2>4. u.due = qty /\ u.stopFill = n
    BY ONLY <2>1, <2>2 DEF Trades
  <2>5. u.endWait = t.endWait
    BY ONLY <2>1, <2>2 DEF Trades
  <2>6. u.active = t.active
    BY ONLY <2>1, <2>2 DEF Trades
  <2> QED
    BY <2>3, <2>4, <2>5, <2>6 DEF u
<1>8. StopBooked(t).due = qty + n - StopBooked(t).stopFill /\ t.active
  BY <1>1, <1>7 DEF Accounted
<1> QED
  BY <1>1, <1>6, <1>7, <1>8 DEF Accounted, n

\* The stop is kept or cancelled, and goes on being waited for.
LEMMA StopStep ==
    ASSUME DemoInv, Frame, state \in StopStates, state' \in StopStates,
           UNCHANGED <<ids, entry, pattern, daily>>,
           book' = book \/ book' = WithoutOrder(stopOrder),
           Accounted(trade'), Fits(CurrentOrder', state', "market"),
           state' \in {"STOP_REPLACE_CANCEL", "EXIT_CANCEL_STOP"} => qty > 0,
           \/ state' \in {"HOLDING", "STOP_FILL_SYNC"}
           \/ state = "HOLDING" /\ state' = "STOP_REPLACE_CANCEL"
           \/ state = "HOLDING" /\ state' = "EXIT_CANCEL_STOP" /\ trade'.endWait = 0
           \/ /\ state = "EXIT_CANCEL_STOP" /\ state' = "EXIT_CANCEL_STOP"
              /\ \/ CurrentOrder.status = "FILLED_ALL" /\ trade'.endWait = trade.endWait
                 \/ trade'.endWait = trade.endWait + 1 /\ trade'.endWait < PositionSyncBars
    PROVE  DemoInv'
<1>1. Current = stopOrder /\ Current # 0
  BY StopFacts
<1>2. Current' = Current /\ IdsFit'
  BY <1>1 DEF DemoInv, IdsFit, Current, ids, EntryStates, StopStates
<1>3. /\ book' \in [Slots -> Orders] /\ OthersAreOver'
      /\ CurrentOrder' \in {CurrentOrder, Cancelled(CurrentOrder)}
  BY <1>1, <1>2, Keeps
<1>4. /\ CurrentOrder'.filled = CurrentOrder.filled /\ CurrentOrder'.total = CurrentOrder.total
      /\ CurrentOrder'.kind = "STOP"
      /\ CurrentOrder.status = "FILLED_ALL" => CurrentOrder'.status = "FILLED_ALL"
      /\ Left(CurrentOrder') = Left(CurrentOrder)
  BY <1>1, <1>3, StopFacts, Cancelling DEF Left, Open
<1>5. Adds(qty', trade', CurrentOrder', state', lot')
  BY <1>4, StopFacts
     DEF Accounted, Adds, Read, Frame, FlatStates, EntryStates, SaleStates, StopStates
<1>6. /\ exposed' \in {0, exposed + 1} /\ exposed' \in Nat
      /\ IsOpen(CurrentOrder') \/ CurrentOrder'.status = "FILLED_ALL" => exposed' = 0
  <2>1. exposed' = IF qty >= lot /\ ~(IsOpen(CurrentOrder') /\ CurrentOrder'.kind # "ENTRY")
                   THEN exposed + 1 ELSE 0
    BY <1>2, <1>3, CurrentIs, BareAfter
  <2>2. CurrentOrder'.status = "FILLED_ALL" => ~(qty >= lot)
    <3>1. CurrentOrder'.status = "FILLED_ALL" => Left(CurrentOrder) = 0
      BY <1>4, StopFacts DEF Fits, Consistent
    <3> QED
      BY <3>1, StopFacts
  <2> QED
    BY <1>4, <2>1, <2>2, StopFacts
<1>7. TypeOK'
  BY <1>3, <1>6 DEF DemoInv, TypeOK, Frame, ids, States, StopStates, TradeStates, Accounted
<1>8. Bare(exposed', trade', state')
  <2>1. CASE state' \in {"HOLDING", "STOP_FILL_SYNC"}
    <3>1. exposed' = 0
      BY <1>6, <2>1 DEF Fits, IsOpen
    <3> QED
      BY <2>1, <3>1 DEF Bare, SyncStates
  <2>2. CASE state = "HOLDING"
    <3>1. exposed' \in {0, 1}
      BY <1>6, <2>2 DEF DemoInv, Bare
    <3>2. CASE state' = "STOP_REPLACE_CANCEL"
      BY <3>1, <3>2 DEF Bare, SyncStates, FlatStates
    <3>3. CASE state' = "EXIT_CANCEL_STOP" /\ trade'.endWait = 0
      BY <3>1, <3>3 DEF Bare, SyncStates, FlatStates
    <3> QED
      BY <2>1, <2>2, <3>2, <3>3
  <2>3. CASE state = "EXIT_CANCEL_STOP" /\ state' = "EXIT_CANCEL_STOP"
    <3>1. /\ exposed <= 1 + trade.endWait /\ (trade.endWait = 0 \/ trade.endWait < PositionSyncBars)
          /\ trade.endWait \in Nat
      BY <2>3, StopFacts DEF DemoInv, Bare, Trades
    <3>2. exposed' <= 1 + trade'.endWait
      BY <1>4, <1>6, <2>3, <3>1, StopFacts
    <3> QED
      BY <2>3, <3>1, <3>2 DEF Bare, SyncStates, FlatStates
  <2> QED
    BY <2>1, <2>2, <2>3
<1>9. Within(opened', daily'.trades, CurrentOrder', state')
  BY StopFacts DEF DemoInv, Within, Frame, EntryStates, StopStates
<1> QED
  BY <1>2, <1>3, <1>5, <1>7, <1>8, <1>9 DEF DemoInv, Frame

\* What the cancelled stop of a position that is held is waited for as.
LEMMA HeldStopIsCancelled ==
    ASSUME DemoInv, Frame, state = "HOLDING", state' \in {"STOP_REPLACE_CANCEL", "EXIT_CANCEL_STOP"},
           ids' = ids, book' = WithoutOrder(stopOrder)
    PROVE  Fits(CurrentOrder', state', "market")
<1>1. /\ Current = stopOrder /\ Current # 0 /\ CurrentOrder \in Orders
      /\ Consistent(CurrentOrder) /\ CurrentOrder.kind = "STOP"
      /\ CurrentOrder.status \in Open \cup {"FILLED_ALL"}
  BY StopFacts DEF DemoInv, Fits, StopStates
<1>2. Current' = Current
  BY <1>1 DEF Current, ids, EntryStates, StopStates
<1>3. CurrentOrder' = Cancelled(CurrentOrder)
  BY <1>1, <1>2, Keeps
<1> QED
  BY <1>1, <1>3, Cancelling DEF Fits, Open, EntryStates, StopStates, SyncStates

LEMMA HoldingReplaces ==
    ASSUME DemoInv, Frame, state = "HOLDING", qty > 0, NEW t, Accounted(t),
           NEW level \in 0..TopStop, Replace(t, level), UNCHANGED <<entryOrder, entry, pattern>>
    PROVE  DemoInv'
<1>1. /\ trade' = [t EXCEPT !.pending = level, !.replaceExit = FALSE]
      /\ book' = WithoutOrder(stopOrder) /\ state' = "STOP_REPLACE_CANCEL"
      /\ UNCHANGED <<ids, daily>>
  BY DEF Replace, Enter, ids
<1>2. Accounted(trade')
  BY <1>1, StopFacts DEF Accounted, Trades
<1>3. Fits(CurrentOrder', state', "market")
  BY <1>1, HeldStopIsCancelled
<1> QED
  BY <1>1, <1>2, <1>3, StopStep DEF StopStates

LEMMA HoldingLeaves ==
    ASSUME DemoInv, Frame, state = "HOLDING", qty > 0, NEW t, Accounted(t),
           LeaveAtMarket(t), UNCHANGED <<entryOrder, entry, pattern>>
    PROVE  DemoInv'
<1>1. stopOrder # 0 /\ exitOrder = 0
  BY StopFacts DEF StopStates
<1>2. /\ trade' = [t EXCEPT !.exitFill = 0, !.exitWait = 0, !.endWait = 0]
      /\ book' = WithoutOrder(stopOrder) /\ state' = "EXIT_CANCEL_STOP"
      /\ UNCHANGED <<ids, daily>>
  BY <1>1 DEF LeaveAtMarket, Leaving, Enter, ids
<1>3. Accounted(trade') /\ trade'.endWait = 0
  BY <1>2, StopFacts DEF Accounted, Trades
<1>4. Fits(CurrentOrder', state', "market")
  BY <1>2, HeldStopIsCancelled
<1> QED
  BY <1>2, <1>3, <1>4, StopStep DEF StopStates

LEMMA HoldingStays ==
    ASSUME DemoInv, Frame, state = "HOLDING", IsOpen(CurrentOrder), Accounted(trade'),
           UNCHANGED <<book, state, ids, entry, pattern, daily>>
    PROVE  DemoInv'
<1>1. Current' = Current /\ Current # 0
  BY StopFacts DEF Current, ids, StopStates
<1>2. CurrentOrder' = CurrentOrder
  BY <1>1, Keeps
<1>3. Fits(CurrentOrder', state', "market")
  BY <1>2, StopFacts DEF DemoInv, Fits, IsOpen, StopStates, EntryStates, SyncStates
<1> QED
  BY <1>3, StopStep DEF StopStates

\* The trades that the block of HOLDING hands on agree with what their stop traded.
LEMMA HeldTrades ==
    ASSUME DemoInv, state = "HOLDING"
    PROVE  /\ \A t \in Excursion \cup Seen \cup Standing : Accounted(t) /\ t \in Trades
           /\ Standing # {} => IsOpen(CurrentOrder)
<1>1. Accounted(trade) /\ trade \in Trades /\ stopOrder # 0 /\ book[stopOrder] = CurrentOrder
  BY StopFacts DEF StopStates
<1>2. ASSUME NEW t \in Excursion PROVE Accounted(t) /\ t \in Trades
  <2>1. PICK m \in trade.mfe..2 : t = [trade EXCEPT !.mfe = m]
    BY DEF Excursion
  <2>2. m \in 0..2
    BY <1>1 DEF Trades
  <2>3. t \in Trades
    BY <1>1, <2>1, <2>2 DEF Trades
  <2>4. t.active = trade.active /\ t.stopFill = trade.stopFill /\ t.due = trade.due
    BY <1>1, <2>1 DEF Trades
  <2> QED
    BY <1>1, <2>3, <2>4 DEF Accounted
<1>3. ASSUME NEW t \in Seen PROVE Accounted(t) /\ t \in Trades
  <2>1. PICK u \in Excursion : t = StopBooked([u EXCEPT !.stage = Stage(u)])
    BY <1>1 DEF Seen
  <2>2. Accounted(u) /\ u \in Trades
    BY <1>2
  <2> DEFINE stage == Stage(u)
  <2>3. stage \in 0..2
    BY <2>2 DEF Stage, Trades
  <2> HIDE DEF stage
  <2> DEFINE v == [u EXCEPT !.stage = stage]
  <2>4. v \in Trades
    BY <2>2, <2>3 DEF Trades
  <2>5. v.active = u.active /\ v.stopFill = u.stopFill /\ v.due = u.due
    BY <2>2 DEF Trades
  <2>6. Accounted(v) /\ t = StopBooked(v)
    BY <2>1, <2>2, <2>4, <2>5 DEF Accounted, stage
  <2> HIDE DEF v
  <2>7. Accounted(StopBooked(v))
    BY <2>6, StopReads DEF StopStates
  <2> QED
    BY <2>6, <2>7 DEF Accounted
<1>4. ASSUME NEW t \in Standing PROVE Accounted(t) /\ t \in Trades /\ IsOpen(CurrentOrder)
  <2>1. PICK u \in Seen : t = [u EXCEPT !.mismatch = Mismatch(u)]
    BY DEF Standing
  <2>2. IsOpen(CurrentOrder)
    BY <1>1 DEF Standing
  <2>3. Accounted(u) /\ u \in Trades
    BY <1>3
  <2> DEFINE n == Mismatch(u)
  <2>4. n \in Nat
    BY <2>3 DEF Mismatch, Trades
  <2> HIDE DEF n
  <2>5. t = [u EXCEPT !.mismatch = n]
    BY <2>1 DEF n
  <2>6. t \in Trades
    BY <2>3, <2>4, <2>5 DEF Trades
  <2>7. t.active = u.active /\ t.stopFill = u.stopFill /\ t.due = u.due
    BY <2>3, <2>5 DEF Trades
  <2> QED
    BY <2>2, <2>3, <2>6, <2>7 DEF Accounted
<1> QED
  BY <1>2, <1>3, <1>4

LEMMA Levels ==
    {PlannedStop, SignalStop, CostStop} \subseteq 0..TopStop
    /\ \A n : StageStop(n) \in {SignalStop, CostStop}
  BY Numbers DEF PlannedStop, SignalStop, CostStop, StageStop

LEMMA HoldingSettlesInv ==
    ASSUME DemoInv, Frame, HoldingSettles
    PROVE  DemoInv'
<1>1. /\ state = "HOLDING" /\ state \in StopStates /\ state \in SaleStates /\ qty = 0
      /\ Settle(StopBooked(trade)) /\ exitOrder' = exitOrder
  BY DEF HoldingSettles, StopStates, SaleStates
<1>2. Accounted(trade) /\ exitOrder = 0
  BY <1>1, StopFacts
<1>3. StopBooked(trade) \in Trades /\ StopBooked(trade).due = 0
  BY <1>1, <1>2, StopReads DEF Accounted
<1> QED
  BY <1>1, <1>2, <1>3, SettlesStep

LEMMA HoldingForcedInv ==
    ASSUME DemoInv, Frame, HoldingForced
    PROVE  DemoInv'
<1>1. state = "HOLDING" /\ qty > 0 /\ LeaveAtMarket(trade)
      /\ UNCHANGED <<entryOrder, entry, pattern>>
  BY DEF HoldingForced
<1>2. Accounted(trade)
  BY <1>1, StopFacts DEF StopStates
<1> QED
  BY <1>1, <1>2, HoldingLeaves

LEMMA HoldingProtectsInv ==
    ASSUME DemoInv, Frame, HoldingProtects
    PROVE  DemoInv'
<1>1. state = "HOLDING" /\ qty > 0 /\ UNCHANGED <<entryOrder, entry, pattern>>
  BY DEF HoldingProtects, Holding
<1>2. PICK t \in Excursion : Replace([t EXCEPT !.stage = Stage(t)], StageStop(Stage(t)))
  BY DEF HoldingProtects
<1>3. Accounted(t) /\ t \in Trades
  BY <1>1, HeldTrades
<1> DEFINE stage == Stage(t)
           u == [t EXCEPT !.stage = stage]
<1>4. stage \in 0..2
  BY <1>3 DEF Stage, Trades
<1> HIDE DEF stage
<1>5. u \in Trades
  BY <1>3, <1>4 DEF Trades
<1>6. u.active = t.active /\ u.stopFill = t.stopFill /\ u.due = t.due
  BY <1>3 DEF Trades
<1>7. Accounted(u)
  BY <1>3, <1>5, <1>6 DEF Accounted
<1>8. Replace(u, StageStop(stage)) /\ StageStop(stage) \in 0..TopStop
  BY <1>2, Levels DEF stage
<1> HIDE DEF u
<1> QED
  BY <1>1, <1>7, <1>8, HoldingReplaces

LEMMA HoldingReadsStopInv ==
    ASSUME DemoInv, Frame, HoldingReadsStop
    PROVE  DemoInv'
<1>1. state = "HOLDING" /\ qty > 0 /\ UNCHANGED <<entryOrder, entry, pattern>>
  BY DEF HoldingReadsStop, Holding
<1>2. /\ stopOrder # 0 /\ book[stopOrder] = CurrentOrder /\ Current = stopOrder
      /\ CurrentOrder \in Orders /\ CurrentOrder.status \in Open \cup {"FILLED_ALL"}
      /\ CurrentOrder.kind = "STOP" /\ Consistent(CurrentOrder)
  BY <1>1, StopFacts DEF DemoInv, Fits, StopStates
<1>3. PICK t \in Seen :
        IF CurrentOrder.status = "FILLED_ALL"
        THEN /\ trade' = t /\ state' = "STOP_FILL_SYNC"
             /\ UNCHANGED <<book, stopOrder, exitOrder, daily>>
        ELSE /\ Mismatch(t) > StopPartialGrace
             /\ Replace([t EXCEPT !.mismatch = Mismatch(t)], t.stop)
  <2>1. CurrentOrder.status \notin CancelTerminal
    BY <1>2 DEF Open, CancelTerminal
  <2> QED
    BY <1>2, <2>1 DEF HoldingReadsStop, Enter
<1>4. Accounted(t) /\ t \in Trades
  BY <1>1, HeldTrades
<1>5. CASE CurrentOrder.status = "FILLED_ALL"
  <2>1. /\ trade' = t /\ state' = "STOP_FILL_SYNC" /\ book' = book
        /\ UNCHANGED <<ids, entry, pattern, daily>>
    BY <1>1, <1>3, <1>5 DEF ids
  <2>2. Current' = Current
    BY <1>1, <2>1 DEF Current, ids, EntryStates, StopStates
  <2>3. CurrentOrder' = CurrentOrder
    BY <1>2, <2>1, <2>2, Keeps
  <2>4. Fits(CurrentOrder', state', "market")
    BY <1>2, <1>5, <2>1, <2>3 DEF Fits, StopStates, EntryStates, SyncStates
  <2> QED
    BY <1>1, <1>4, <2>1, <2>4, StopStep DEF StopStates
<1>6. CASE CurrentOrder.status # "FILLED_ALL"
  <2> DEFINE n == Mismatch(t)
             u == [t EXCEPT !.mismatch = n]
  <2>1. n \in Nat
    BY <1>4 DEF Mismatch, Trades
  <2> HIDE DEF n
  <2>2. u \in Trades
    BY <1>4, <2>1 DEF Trades
  <2>3. u.active = t.active /\ u.stopFill = t.stopFill /\ u.due = t.due
    BY <1>4 DEF Trades
  <2>4. Accounted(u)
    BY <1>4, <2>2, <2>3 DEF Accounted
  <2>5. Replace(u, t.stop) /\ t.stop \in 0..TopStop
    BY <1>3, <1>4, <1>6 DEF n, Trades
  <2> HIDE DEF u
  <2> QED
    BY <1>1, <2>4, <2>5, HoldingReplaces
<1> QED
  BY <1>5, <1>6

LEMMA HoldingWaitsInv ==
    ASSUME DemoInv, Frame, HoldingWaits
    PROVE  DemoInv'
<1>1. state = "HOLDING" /\ UNCHANGED <<book, state, ids, entry, pattern, daily>>
  BY DEF HoldingWaits, Holding
<1>2. trade' \in Standing
  BY DEF HoldingWaits
<1>3. Accounted(trade') /\ IsOpen(CurrentOrder)
  BY <1>1, <1>2, HeldTrades
<1> QED
  BY <1>1, <1>3, HoldingStays

LEMMA HoldingTakesTargetInv ==
    ASSUME DemoInv, Frame, HoldingTakesTarget
    PROVE  DemoInv'
<1>1. state = "HOLDING" /\ qty > 0 /\ UNCHANGED <<entryOrder, entry, pattern>>
  BY DEF HoldingTakesTarget, Holding
<1>2. PICK t \in Standing : LeaveAtMarket(t)
  BY DEF HoldingTakesTarget
<1>3. Accounted(t)
  BY <1>1, HeldTrades
<1> QED
  BY <1>1, <1>2, <1>3, HoldingLeaves

LEMMA HoldingNewSignalBarInv ==
    ASSUME DemoInv, Frame, HoldingNewSignalBar
    PROVE  DemoInv'
<1>1. state = "HOLDING" /\ qty > 0 /\ UNCHANGED <<entryOrder, entry, pattern>>
  BY DEF HoldingNewSignalBar, Holding
<1> DEFINE Older(u) == [u EXCEPT !.hold = @ + 1]
<1>2. PICK u \in Standing : \E t \in {Older(u)} :
        \/ LeaveAtMarket(t)
        \/ trade' = t /\ UNCHANGED <<book, state, stopOrder, exitOrder, daily>>
        \/ \E level \in (t.stop + 1)..TopStop : Replace(t, level)
  BY DEF HoldingNewSignalBar
<1> DEFINE t == Older(u)
<1>2a. \/ LeaveAtMarket(t)
       \/ trade' = t /\ UNCHANGED <<book, state, stopOrder, exitOrder, daily>>
       \/ \E level \in (t.stop + 1)..TopStop : Replace(t, level)
  BY <1>2
<1>3. Accounted(u) /\ u \in Trades /\ IsOpen(CurrentOrder)
  BY <1>1, HeldTrades
<1>4. t \in Trades /\ t.active = u.active /\ t.stopFill = u.stopFill /\ t.due = u.due
  <2>1. t = [u EXCEPT !.hold = u.hold + 1] /\ u.hold + 1 \in Nat
    BY <1>3 DEF Trades
  <2>2. t \in Trades
    BY <1>3, <2>1 DEF Trades
  <2> QED
    BY <1>3, <2>1, <2>2 DEF Trades
<1>5. Accounted(t)
  BY <1>3, <1>4 DEF Accounted
<1> HIDE DEF t, Older
<1>6. CASE LeaveAtMarket(t)
  BY <1>1, <1>5, <1>6, HoldingLeaves
<1>7. CASE trade' = t /\ UNCHANGED <<book, state, stopOrder, exitOrder, daily>>
  <2>1. UNCHANGED <<book, state, ids, entry, pattern, daily>>
    BY <1>1, <1>7 DEF ids
  <2> QED
    BY <1>1, <1>3, <1>5, <1>7, <2>1, HoldingStays
<1>8. ASSUME NEW level \in (t.stop + 1)..TopStop, Replace(t, level) PROVE DemoInv'
  <2>1. level \in 0..TopStop
    BY <1>4, Numbers DEF Trades
  <2> QED
    BY <1>1, <1>5, <1>8, <2>1, HoldingReplaces
<1> QED
  BY <1>2a, <1>6, <1>7, <1>8

LEMMA StopReplaceCancelInv ==
    ASSUME DemoInv, Frame, StopReplaceCancel
    PROVE  DemoInv'
<1> DEFINE o == CurrentOrder
           read == StopBooked(trade)
<1>1. /\ state = "STOP_REPLACE_CANCEL" /\ state \in StopStates /\ book[stopOrder] = o
      /\ Current = stopOrder /\ Current # 0 /\ o \in Orders /\ Consistent(o) /\ o.kind = "STOP"
      /\ o.status \in {"CANCELLED_PART", "CANCELLED_ALL", "FILLED_ALL"} /\ qty > 0
      /\ exposed <= 1 /\ exposed \in Nat /\ entryOrder = 0 /\ exitOrder = 0
      /\ daily \in Days /\ opened <= daily.trades /\ entry \in Entries /\ pattern \in Patterns
      /\ UNCHANGED <<entryOrder, entry, pattern>>
  BY StopFacts DEF StopReplaceCancel, StopStates, DemoInv, Fits, Adds, Bare
<1>2. Accounted(read) /\ read \in Trades /\ read.due = qty /\ read.active
  BY <1>1, StopFacts, StopReads DEF Accounted
<1>3. ~IsOpen(o)
  BY <1>1 DEF IsOpen, Open
<1>4a. PICK leave \in {read.replaceExit \/ read.force, TRUE} :
        IF qty = 0
        THEN /\ trade' = [read EXCEPT !.active = FALSE, !.force = FALSE]
             /\ CountResult
             /\ Enter("WAIT_H1")
             /\ stopOrder' = 0
             /\ UNCHANGED <<book, exitOrder>>
        ELSE IF book[stopOrder].status \notin CancelTerminal
        THEN /\ trade' = [read EXCEPT !.replaceExit = leave]
             /\ Enter(IF IsOpen(book[stopOrder]) THEN state ELSE "STOP_FILL_SYNC")
             /\ book' = WithoutOrder(stopOrder)
             /\ UNCHANGED <<stopOrder, exitOrder, daily>>
        ELSE IF leave
        THEN /\ trade' = Leaving([read EXCEPT !.pending = 0, !.replaceExit = FALSE])
             /\ stopOrder' = 0 /\ exitOrder' = 0
             /\ Enter("EXIT_SUBMIT")
             /\ UNCHANGED <<book, daily>>
        ELSE /\ Protect([read EXCEPT !.stop = read.pending, !.pending = 0], daily)
             /\ UNCHANGED exitOrder
  BY DEF StopReplaceCancel
<1>4. IF o.status \notin CancelTerminal
      THEN /\ trade' = [read EXCEPT !.replaceExit = leave]
           /\ state' = "STOP_FILL_SYNC"
           /\ book' = WithoutOrder(stopOrder)
           /\ UNCHANGED <<stopOrder, exitOrder, daily>>
      ELSE IF leave
      THEN /\ trade' = Leaving([read EXCEPT !.pending = 0, !.replaceExit = FALSE])
           /\ stopOrder' = 0 /\ exitOrder' = 0
           /\ state' = "EXIT_SUBMIT"
           /\ UNCHANGED <<book, daily>>
      ELSE /\ Protect([read EXCEPT !.stop = read.pending, !.pending = 0], daily)
           /\ UNCHANGED exitOrder
  <2>1. qty # 0 /\ book[stopOrder] = o
    BY <1>1
  <2> HIDE DEF read, o
  <2> QED
    BY <1>3, <1>4a, <2>1 DEF Enter
<1>5. leave \in BOOLEAN
  BY <1>2 DEF Trades
<1> HIDE DEF read
<1>6. CASE o.status \notin CancelTerminal
  <2>1. /\ trade' = [read EXCEPT !.replaceExit = leave] /\ state' = "STOP_FILL_SYNC"
        /\ book' = WithoutOrder(stopOrder) /\ UNCHANGED <<ids, entry, pattern, daily>>
    BY <1>1, <1>4, <1>6 DEF ids
  <2>2. o.status = "FILLED_ALL"
    BY <1>1, <1>6 DEF CancelTerminal
  <2>3. Current' = Current
    BY <1>1, <2>1 DEF Current, ids, EntryStates, StopStates
  <2>4. CurrentOrder' = o
    BY <1>1, <1>3, <2>1, <2>3, Keeps, Cancelling DEF IsOpen
  <2>5. Fits(CurrentOrder', state', "market")
    BY <1>1, <2>1, <2>2, <2>4 DEF Fits, StopStates, EntryStates, SyncStates
  <2>6. trade' \in Trades
    BY <1>2, <1>5, <2>1 DEF Trades
  <2>7. trade'.active = read.active /\ trade'.due = read.due /\ trade'.stopFill = read.stopFill
    BY <1>2, <2>1 DEF Trades
  <2>8. Accounted(trade')
    BY <1>2, <2>6, <2>7 DEF Accounted
  <2> QED
    BY <1>1, <2>1, <2>5, <2>8, StopStep DEF StopStates
<1>7. CASE o.status \in CancelTerminal /\ leave
  <2> DEFINE t == [read EXCEPT !.pending = 0, !.replaceExit = FALSE]
  <2>1. t \in Trades
    <3>1. 0 \in 0..TopStop /\ FALSE \in BOOLEAN
      BY Numbers
    <3> QED
      BY <1>2, <3>1 DEF Trades
  <2>1a. t.active /\ t.due = qty
    BY <1>2 DEF Trades
  <2>2. /\ trade' = Leaving(t) /\ stopOrder' = 0 /\ exitOrder' = 0
        /\ state' = "EXIT_SUBMIT" /\ book' = book /\ daily' = daily
    BY <1>4, <1>7
  <2> HIDE DEF t
  <2>3. trade' \in Trades /\ trade'.active /\ trade'.due = qty
    BY <2>1, <2>1a, <2>2 DEF Leaving, Trades
  <2>4. exposed + 1 <= BareBars
    BY <1>1, BareBarsBound
  <2>5. entryOrder' = 0 /\ entry' \in Entries /\ pattern' \in Patterns
    BY <1>1
  <2> QED
    BY <1>1, <1>3, <2>2, <2>3, <2>4, <2>5, LeavesStep DEF o
<1>8. CASE o.status \in CancelTerminal /\ ~leave
  <2> DEFINE t == [read EXCEPT !.stop = read.pending, !.pending = 0]
  <2>1. t \in Trades
    <3>1. 0 \in 0..TopStop /\ read.pending \in 0..TopStop
      BY <1>2, Numbers DEF Trades
    <3> QED
      BY <1>2, <3>1 DEF Trades
  <2>2. t.active /\ t.due = qty
    BY <1>2 DEF Trades
  <2>3. Protect(t, daily) /\ exitOrder' = exitOrder
    BY <1>4, <1>8
  <2> HIDE DEF t
  <2>4. entryOrder' = 0 /\ entry' \in Entries /\ pattern' \in Patterns
    BY <1>1
  <2> QED
    BY <1>1, <1>3, <2>1, <2>2, <2>3, <2>4, ProtectStep DEF o
<1> QED
  BY <1>6, <1>7, <1>8

LEMMA StopFillSyncInv ==
    ASSUME DemoInv, Frame, StopFillSync
    PROVE  DemoInv'
<1>1. /\ state = "STOP_FILL_SYNC" /\ state \in StopStates /\ state \in SaleStates
      /\ exitOrder' = exitOrder
      /\ IF qty = 0 THEN Settle(StopBooked(trade))
         ELSE /\ trade' = StopBooked(trade)
              /\ UNCHANGED <<book, state, entryOrder, stopOrder, entry, pattern, daily>>
  BY DEF StopFillSync, StopStates, SaleStates
<1>2. /\ Current = stopOrder /\ Current # 0 /\ exitOrder = 0
      /\ Fits(CurrentOrder, state, "strategy")
  BY <1>1, StopFacts DEF DemoInv, Frame
<1>3. /\ Accounted(StopBooked(trade)) /\ StopBooked(trade) \in Trades
      /\ StopBooked(trade).due = qty
  BY <1>1, StopFacts, StopReads DEF Accounted
<1>4. CASE qty = 0
  BY <1>1, <1>2, <1>3, <1>4, SettlesStep
<1>5. CASE qty # 0
  <2>1. /\ trade' = StopBooked(trade) /\ book' = book /\ state' = state
        /\ UNCHANGED <<ids, entry, pattern, daily>>
    BY <1>1, <1>5 DEF ids
  <2>2. Current' = Current
    BY <1>1, <2>1 DEF Current, ids
  <2>3. CurrentOrder' = CurrentOrder
    BY <1>2, <2>1, <2>2, Keeps
  <2>4. Fits(CurrentOrder', state', "market")
    BY <1>1, <1>2, <2>1, <2>3 DEF Fits, StopStates, EntryStates, SyncStates
  <2> QED
    BY <1>1, <1>3, <2>1, <2>4, StopStep
<1> QED
  BY <1>4, <1>5

(***************************************************************************)
(* Leaving at market.                                                       *)
(***************************************************************************)
LEMMA ExitCancelStopInv ==
    ASSUME DemoInv, Frame, ExitCancelStop
    PROVE  DemoInv'
<1> DEFINE o == CurrentOrder
           read == StopBooked(trade)
           lagging == o.filled > 0 /\ qty > Left(o) /\ StillSyncing(trade.endWait)
<1>1. /\ state = "EXIT_CANCEL_STOP" /\ state \in StopStates /\ book[stopOrder] = o
      /\ Current = stopOrder /\ Current # 0 /\ o \in Orders /\ Consistent(o) /\ o.kind = "STOP"
      /\ o.status \in {"CANCELLED_PART", "CANCELLED_ALL", "FILLED_ALL"} /\ qty > 0
      /\ entryOrder = 0 /\ exitOrder = 0 /\ trade \in Trades /\ exposed \in Nat
      /\ daily \in Days /\ opened <= daily.trades /\ entry \in Entries /\ pattern \in Patterns
      /\ Fits(o, state, "strategy")
      /\ UNCHANGED <<entryOrder, exitOrder, entry, pattern, daily>>
  BY StopFacts DEF ExitCancelStop, StopStates, DemoInv, Fits, Adds, Frame
<1>2. /\ Accounted(read) /\ read \in Trades /\ read.due = qty /\ read.active
      /\ read.endWait = trade.endWait /\ trade.endWait \in Nat
  BY <1>1, StopFacts, StopReads DEF Accounted, Trades
<1>3. ~IsOpen(o)
  BY <1>1 DEF IsOpen, Open
<1>4. exposed <= 1 + trade.endWait /\ (trade.endWait = 0 \/ trade.endWait < PositionSyncBars)
  BY <1>1 DEF DemoInv, Bare
<1>5. IF o.status \in CancelTerminal /\ ~lagging
      THEN /\ state' = "EXIT_SUBMIT" /\ stopOrder' = 0
           /\ trade' = [read EXCEPT !.endWait = 0] /\ book' = book
      ELSE /\ trade' = IF lagging /\ o.status \in CancelTerminal
                       THEN [read EXCEPT !.endWait = @ + 1] ELSE read
           /\ book' = WithoutOrder(stopOrder)
           /\ state' = state /\ stopOrder' = stopOrder
  BY <1>1 DEF ExitCancelStop, Enter
<1> HIDE DEF read, lagging
<1>6. CASE o.status \in CancelTerminal /\ ~lagging
  <2>1. /\ state' = "EXIT_SUBMIT" /\ stopOrder' = 0
        /\ trade' = [read EXCEPT !.endWait = 0] /\ book' = book
    BY <1>5, <1>6
  <2>2. trade' \in Trades /\ trade'.active /\ trade'.due = qty
    BY <1>2, <2>1 DEF Trades
  <2>3. exposed + 1 <= BareBars
    BY <1>1, <1>2, <1>4, BareBarsBound, Numbers
  <2> QED
    BY <1>1, <1>3, <2>1, <2>2, <2>3, LeavesStep DEF o
<1>7. CASE ~(o.status \in CancelTerminal /\ ~lagging)
  <2>1. /\ trade' = IF lagging /\ o.status \in CancelTerminal
                    THEN [read EXCEPT !.endWait = @ + 1] ELSE read
        /\ book' = WithoutOrder(stopOrder) /\ state' = state
        /\ UNCHANGED <<ids, entry, pattern, daily>>
    BY <1>1, <1>5, <1>7 DEF ids
  <2>2. Current' = Current
    BY <1>1, <2>1 DEF Current, ids
  <2>3. CurrentOrder' = o
    BY <1>1, <1>3, <2>1, <2>2, Keeps, Cancelling DEF IsOpen
  <2>4. Fits(CurrentOrder', state', "market")
    BY <1>1, <2>1, <2>3 DEF Fits, StopStates, EntryStates, SyncStates
  <2>5. CASE o.status \in CancelTerminal
    <3>1. trade' = [read EXCEPT !.endWait = read.endWait + 1] /\ StillSyncing(trade.endWait)
      BY <1>7, <2>1, <2>5 DEF lagging
    <3>2. trade' \in Trades /\ trade'.endWait = trade.endWait + 1
      BY <1>2, <3>1 DEF Trades
    <3>3. /\ trade'.active = read.active /\ trade'.due = read.due
          /\ trade'.stopFill = read.stopFill
      BY <1>2, <3>1 DEF Trades
    <3>4. Accounted(trade')
      BY <1>2, <3>2, <3>3 DEF Accounted
    <3>5. trade'.endWait < PositionSyncBars
      BY <3>1, <3>2 DEF StillSyncing
    <3> QED
      BY <1>1, <2>1, <2>4, <3>2, <3>4, <3>5, StopStep
  <2>6. CASE o.status \notin CancelTerminal
    <3>1. trade' = read /\ o.status = "FILLED_ALL"
      BY <1>1, <2>1, <2>6 DEF CancelTerminal
    <3> QED
      BY <1>1, <1>2, <2>1, <2>4, <3>1, StopStep
  <2> QED
    BY <2>5, <2>6
<1> QED
  BY <1>6, <1>7

LEMMA ExitSubmitInv ==
    ASSUME DemoInv, Frame, ExitSubmit
    PROVE  DemoInv'
<1>1. /\ state = "EXIT_SUBMIT" /\ ids = <<0, 0, 0>> /\ Current = 0 /\ ~IsOpen(CurrentOrder)
      /\ trade \in Trades /\ trade.active /\ trade.due = qty /\ qty \in Nat
      /\ daily \in Days /\ opened <= daily.trades /\ entry \in Entries /\ pattern \in Patterns
  <2>1. state = "EXIT_SUBMIT"
    BY DEF ExitSubmit
  <2>2. /\ ids = <<0, 0, 0>> /\ Current = 0 /\ ~IsOpen(CurrentOrder)
    BY <2>1, CurrentIs
       DEF ids, EntryStates, SaleStates, StopStates, NoOrder, IsOpen, Open
  <2>3. trade.active /\ trade.due = qty /\ opened <= daily.trades
    BY <2>1 DEF DemoInv, Adds, Within, EntryStates
  <2> QED
    BY <2>1, <2>2, <2>3 DEF DemoInv, TypeOK
<1>2. CASE qty = 0
  <2>1. Settle(trade) /\ exitOrder' = 0
    BY <1>2 DEF ExitSubmit
  <2> QED
    BY <1>1, <1>2, <2>1, SettlesStep
<1>3. CASE qty # 0
  <2>1. UNCHANGED <<entryOrder, stopOrder, entry, pattern>>
    BY <1>3 DEF ExitSubmit
  <2>2. CASE SaleAccepted(qty)
    <3>1. /\ book' = WithOrder("EXIT", qty, 0) /\ exitOrder' = FreeSlot
          /\ trade' = [trade EXCEPT !.exitFill = 0, !.exitWait = 0]
          /\ state' = "EXIT_WAIT_FILL" /\ daily' = daily
      BY <1>3, <2>2 DEF ExitSubmit, Enter
    <3>2. /\ trade' \in Trades /\ trade'.active /\ trade'.due = qty
          /\ trade'.exitFill = 0 /\ trade'.exitWait = 0
      BY <1>1, <3>1 DEF Trades
    <3>3. 0 \in 0..TopStop /\ entryOrder' = 0 /\ stopOrder' = 0
      BY <1>1, <2>1, Numbers DEF ids
    <3> QED
      BY <1>1, <2>1, <2>2, <3>1, <3>2, <3>3, SellsStep
  <2>3. CASE ~SaleAccepted(qty)
    <3>1. daily' = [daily EXCEPT !.error = TRUE] /\ UNCHANGED <<book, exitOrder, trade, state>>
      BY <1>3, <2>3 DEF ExitSubmit
    <3>2. ~(qty >= lot)
      BY <1>1, <2>3, NothingPromised DEF Frame, SaleStates, StopStates
    <3>3. daily' \in Days /\ daily'.trades = daily.trades
      BY <1>1, <3>1 DEF Days
    <3>4. entryOrder' = 0 /\ stopOrder' = 0 /\ exitOrder' = 0
      BY <1>1, <2>1, <3>1 DEF ids
    <3> QED
      BY <1>1, <2>1, <3>1, <3>2, <3>3, <3>4, LeavesStep
  <2> QED
    BY <2>2, <2>3
<1> QED
  BY <1>2, <1>3

\* The sale of the exit goes on being waited for.
LEMMA ExitStays ==
    ASSUME DemoInv, Frame, state = "EXIT_WAIT_FILL", UNCHANGED <<book, state, ids, entry, pattern, daily>>,
           trade' \in Trades, trade'.active, trade'.due = qty,
           trade'.exitFill = CurrentOrder.filled,
           \/ CurrentOrder.status # "DISABLED" /\ trade'.exitWait = trade.exitWait
           \/ trade'.exitWait = trade.exitWait + 1 /\ trade'.exitWait < PositionSyncBars
    PROVE  DemoInv'
<1>1. /\ Current # 0 /\ Current' = Current /\ IdsFit' /\ CurrentOrder \in Orders
      /\ Consistent(CurrentOrder)
  BY CurrentIs DEF DemoInv, Current, IdsFit, ids
<1>2. book' \in [Slots -> Orders] /\ OthersAreOver' /\ CurrentOrder' = CurrentOrder
  BY <1>1, Keeps
<1>3. Fits(CurrentOrder', state', turn')
  BY <1>1, <1>2 DEF DemoInv, Fits, Frame, StopStates, EntryStates, SyncStates
<1>4. /\ Left(CurrentOrder) <= qty /\ qty - Left(CurrentOrder) < lot /\ qty \in Nat
      /\ exposed <= trade.exitWait /\ (trade.exitWait = 0 \/ trade.exitWait < PositionSyncBars)
      /\ trade.exitWait \in Nat /\ exposed \in Nat
  BY DEF DemoInv, TypeOK, Adds, Bare, Trades, SaleStates
<1>5. Adds(qty', trade', CurrentOrder', state', lot')
  <2>1. trade'.due = qty + CurrentOrder.filled - trade'.exitFill /\ CurrentOrder.filled \in Nat
    BY <1>1, <1>4 DEF Orders
  <2> QED
    BY <1>2, <1>4, <2>1 DEF Adds, Read, Frame, FlatStates, EntryStates
<1>6. /\ exposed' \in {0, exposed + 1} /\ exposed' \in Nat
      /\ CurrentOrder.status # "DISABLED" => exposed' = 0
  <2>1. exposed' = IF qty >= lot /\ ~(IsOpen(CurrentOrder') /\ CurrentOrder'.kind # "ENTRY")
                   THEN exposed + 1 ELSE 0
    BY <1>1, <1>2, CurrentIs, BareAfter
  <2>2. CurrentOrder.kind = "EXIT" /\ CurrentOrder.status \in Open \cup {"FILLED_ALL", "DISABLED"}
    BY <1>1 DEF DemoInv, Fits
  <2>3. CurrentOrder.status = "FILLED_ALL" => ~(qty >= lot)
    <3>1. CurrentOrder.status = "FILLED_ALL" => Left(CurrentOrder) = 0
      BY <1>1 DEF Consistent, Left, Orders
    <3>2. lot \in Nat
      BY CurrentIs
    <3> QED
      BY <1>4, <3>1, <3>2
  <2> QED
    BY <1>2, <1>4, <2>1, <2>2, <2>3 DEF IsOpen
<1>7. TypeOK'
  BY <1>2, <1>6 DEF DemoInv, TypeOK, Frame, ids
<1>8. Bare(exposed', trade', state')
  <2>1. exposed' <= trade'.exitWait /\ (trade'.exitWait = 0 \/ trade'.exitWait < PositionSyncBars)
    BY <1>4, <1>6
  <2> QED
    BY <2>1 DEF Bare, FlatStates, SyncStates
<1>9. Within(opened', daily'.trades, CurrentOrder', state')
  BY <1>2 DEF DemoInv, Within, Frame
<1> QED
  BY <1>1, <1>2, <1>3, <1>5, <1>7, <1>8, <1>9 DEF DemoInv

LEMMA ExitWaitFillInv ==
    ASSUME DemoInv, Frame, ExitWaitFill
    PROVE  DemoInv'
<1> DEFINE o == CurrentOrder
           read == [Booked(trade, o, trade.exitFill)
                    EXCEPT !.exitFill = Max({trade.exitFill, o.filled})]
<1>1. /\ state = "EXIT_WAIT_FILL" /\ state \in SaleStates /\ book[exitOrder] = o
      /\ Current = exitOrder /\ Current # 0 /\ o \in Orders /\ Consistent(o)
      /\ entryOrder = 0 /\ stopOrder = 0 /\ trade \in Trades /\ exposed \in Nat
      /\ daily \in Days /\ entry \in Entries /\ pattern \in Patterns
  <2>1. state = "EXIT_WAIT_FILL"
    BY DEF ExitWaitFill
  <2> QED
    BY <2>1, CurrentIs DEF SaleStates, EntryStates, StopStates, DemoInv, TypeOK
<1>2. /\ trade.active /\ trade.exitFill <= o.filled
      /\ trade.due = qty + o.filled - trade.exitFill
      /\ o.filled \in Nat /\ trade.exitFill \in Nat /\ trade.due \in Int /\ qty \in Nat
      /\ opened <= daily.trades
  <2>1. o.filled \in Nat /\ trade.exitFill \in Nat /\ trade.due \in Int /\ qty \in Nat
    BY <1>1 DEF Orders, Trades, DemoInv, TypeOK
  <2> QED
    BY <1>1, <2>1 DEF DemoInv, Adds, Read, Within, EntryStates
<1>3. read = [trade EXCEPT !.due = qty, !.exitFill = o.filled]
  <2>1. Max({0, o.filled - trade.exitFill}) = o.filled - trade.exitFill
    BY <1>2, LargerOf
  <2>2. Max({trade.exitFill, o.filled}) = o.filled
    BY <1>2, LargerOf
  <2>3. trade.due - (o.filled - trade.exitFill) = qty
    BY <1>2
  <2> QED
    BY <1>1, <2>1, <2>2, <2>3 DEF Booked, Trades
<1>4. IF qty = 0 THEN Settle(read) /\ exitOrder' = 0
      ELSE /\ IF o.status \in CancelTerminal
              THEN IF o.filled > 0 /\ StillSyncing(trade.exitWait)
                   THEN /\ trade' = [read EXCEPT !.exitWait = @ + 1]
                        /\ UNCHANGED <<exitOrder, state>>
                   ELSE /\ trade' = [read EXCEPT !.exitFill = 0, !.exitWait = 0]
                        /\ exitOrder' = 0
                        /\ state' = "EXIT_SUBMIT"
              ELSE /\ trade' = read
                   /\ UNCHANGED <<exitOrder, state>>
           /\ UNCHANGED <<book, entryOrder, stopOrder, entry, pattern, daily>>
  <2>1. [Booked(trade, o, trade.exitFill) EXCEPT !.exitFill = Max({@, o.filled})] = read
    BY <1>1 DEF Booked, Trades
  <2> HIDE DEF read
  <2> QED
    BY <1>1, <2>1 DEF ExitWaitFill, Enter
<1> HIDE DEF read
<1>5. /\ read \in Trades /\ read.active /\ read.due = qty /\ read.exitFill = o.filled
      /\ read.exitWait = trade.exitWait /\ trade.exitWait \in Nat
  <2>1. qty \in Int /\ o.filled \in Nat /\ trade \in Trades /\ trade.active
    BY <1>1, <1>2
  <2> HIDE DEF o
  <2>2. read \in Trades
    BY ONLY <2>1, <1>3 DEF Trades
  <2>3. /\ read.active /\ read.due = qty /\ read.exitFill = o.filled
        /\ read.exitWait = trade.exitWait /\ trade.exitWait \in Nat
    BY ONLY <2>1, <1>3 DEF Trades
  <2> QED
    BY <2>2, <2>3
<1>6. CASE qty = 0
  BY <1>1, <1>4, <1>5, <1>6, SettlesStep
<1>7. CASE qty # 0 /\ o.status \notin CancelTerminal
  <2>1. trade' = read /\ UNCHANGED <<book, state, ids, entry, pattern, daily>>
    BY <1>4, <1>7 DEF ids
  <2>2. o.status # "DISABLED"
    BY <1>7 DEF CancelTerminal
  <2> QED
    BY <1>1, <1>5, <2>1, <2>2, ExitStays
<1>8. CASE qty # 0 /\ o.status \in CancelTerminal /\ o.filled > 0 /\ StillSyncing(trade.exitWait)
  <2>1. /\ trade' = [read EXCEPT !.exitWait = read.exitWait + 1]
        /\ UNCHANGED <<book, state, ids, entry, pattern, daily>>
    BY <1>4, <1>8 DEF ids
  <2>2. trade' \in Trades
    BY <1>5, <2>1 DEF Trades
  <2>3. /\ trade'.active /\ trade'.due = qty /\ trade'.exitFill = o.filled
        /\ trade'.exitWait = trade.exitWait + 1
    BY <1>5, <2>1 DEF Trades
  <2>4. trade'.exitWait < PositionSyncBars
    BY <1>8, <2>3 DEF StillSyncing
  <2> QED
    BY <1>1, <2>1, <2>2, <2>3, <2>4, ExitStays
<1>9. CASE qty # 0 /\ o.status \in CancelTerminal
           /\ ~(o.filled > 0 /\ StillSyncing(trade.exitWait))
  <2>1. /\ trade' = [read EXCEPT !.exitFill = 0, !.exitWait = 0]
        /\ exitOrder' = 0 /\ state' = "EXIT_SUBMIT"
        /\ UNCHANGED <<book, entryOrder, stopOrder, entry, pattern, daily>>
    BY <1>4, <1>9
  <2>2. trade' \in Trades
    BY <1>5, <2>1 DEF Trades
  <2>3. trade'.active /\ trade'.due = qty
    BY <1>5, <2>1 DEF Trades
  <2>4. exposed <= trade.exitWait /\ (trade.exitWait = 0 \/ trade.exitWait < PositionSyncBars)
    BY <1>1 DEF DemoInv, Bare
  <2>5. exposed + 1 <= BareBars
    BY <1>1, <1>5, <2>4, BareBarsBound, Numbers
  <2>6. ~IsOpen(o)
    BY <1>9 DEF IsOpen, Open, CancelTerminal
  <2> QED
    BY <1>1, <1>2, <2>1, <2>2, <2>3, <2>5, <2>6, LeavesStep
<1> QED
  BY <1>6, <1>7, <1>8, <1>9

(***************************************************************************)
(* The theorems.                                                            *)
(***************************************************************************)
LEMMA StrategyInv ==
    ASSUME DemoInv, StrategyStep
    PROVE  DemoInv'
<1>1. Frame /\ HandleData
  BY DEF StrategyStep, Frame
<1>2. CASE EntryActive
  BY <1>1, <1>2, EntryActiveInv
<1>3. CASE EntryCancelPending
  BY <1>1, <1>3, EntryCancelPendingInv
<1>4. CASE EntrySync
  BY <1>1, <1>4, EntrySyncInv
<1>5. CASE ExitCancelStop
  BY <1>1, <1>5, ExitCancelStopInv
<1>6. CASE ExitSubmit
  BY <1>1, <1>6, ExitSubmitInv
<1>7. CASE ExitWaitFill
  BY <1>1, <1>7, ExitWaitFillInv
<1>8. CASE StopReplaceCancel
  BY <1>1, <1>8, StopReplaceCancelInv
<1>9. CASE StopFillSync
  BY <1>1, <1>9, StopFillSyncInv
<1>10. CASE HoldingSettles
  BY <1>1, <1>10, HoldingSettlesInv
<1>11. CASE HoldingForced
  BY <1>1, <1>11, HoldingForcedInv
<1>12. CASE HoldingProtects
  BY <1>1, <1>12, HoldingProtectsInv
<1>13. CASE HoldingReadsStop
  BY <1>1, <1>13, HoldingReadsStopInv
<1>14. CASE HoldingWaits
  BY <1>1, <1>14, HoldingWaitsInv
<1>15. CASE HoldingTakesTarget
  BY <1>1, <1>15, HoldingTakesTargetInv
<1>16. CASE HoldingNewSignalBar
  BY <1>1, <1>16, HoldingNewSignalBarInv
<1>17. CASE PatternBlocked \/ PatternIdles \/ FindH1 \/ AwaitH1Failure \/ SeekSecondBottom
  BY <1>1, <1>17, FlatActions
<1>18. CASE PlanEntry
  BY <1>1, <1>18, PlanEntryInv
<1> QED
  BY <1>1, <1>2, <1>3, <1>4, <1>5, <1>6, <1>7, <1>8, <1>9, <1>10, <1>11, <1>12, <1>13,
     <1>14, <1>15, <1>16, <1>17, <1>18 DEF HandleData

\* A step that changes nothing keeps the invariant.
LEMMA StutterInv ==
    ASSUME DemoInv, UNCHANGED vars
    PROVE  DemoInv'
<1>1. /\ UNCHANGED <<turn, minute, fresh, qty, lot, book, state, entryOrder, stopOrder, exitOrder>>
      /\ UNCHANGED <<entry, pattern, trade, daily, opened, exposed>>
  BY DEF vars, clock, ids
<1>2. Current' = Current
  BY <1>1 DEF Current
<1>3. CurrentOrder' = CurrentOrder
  BY <1>1, <1>2 DEF CurrentOrder
<1> QED
  BY <1>1, <1>2, <1>3 DEF DemoInv, TypeOK, IdsFit, OthersAreOver

\* In every state at most one order matters, the one the state waits for, and
\* the position, the result, the ids, the waiting counters and the counters of
\* the day agree with what became of it (self.state and its ids in handle_data).
THEOREM OneOrderAtATime == Spec => []DemoInv
<1>1. Init => DemoInv
  BY InitInv
<1>2. DemoInv /\ [Next]_vars => DemoInv'
  BY MarketInv, StrategyInv, StutterInv DEF Next
<1> QED
  BY <1>1, <1>2, PTL DEF Spec

\* What the strategy keeps between two bars always has its type: the book, the
\* state, the ids, the entry, the pattern, the trade and the counters.
THEOREM DemoTypes == Spec => []TypeOK
<1>1. DemoInv => TypeOK
  BY DEF DemoInv
<1> QED
  BY <1>1, OneOrderAtATime, PTL

\* Between two bars every order working at the broker is the one the state waits
\* for, and a strategy that looks for a pattern owns nothing: no block of
\* handle_data drops an id whose order can still trade.
THEOREM NothingIsEverOrphaned == Spec => []NothingIsOrphaned
<1>1. DemoInv => NothingIsOrphaned
  <2> SUFFICES ASSUME DemoInv, turn = "market" PROVE NothingIsOrphaned
    BY DEF NothingIsOrphaned
  <2>1. ASSUME NEW s \in Slots, IsOpen(book[s])
        PROVE  \/ s = entryOrder /\ state = "ENTRY_ACTIVE"
               \/ s = stopOrder /\ state = "HOLDING" /\ book[s].kind = "STOP"
               \/ s = exitOrder /\ state = "EXIT_WAIT_FILL" /\ book[s].kind = "EXIT"
    <3>1. s = Current /\ Current # 0 /\ CurrentOrder = book[s] /\ book[s].status \in Open
      BY <2>1, CurrentIs DEF DemoInv, OthersAreOver, IsOpen
    <3>2. Fits(book[s], state, turn) /\ state \in EntryStates \cup SaleStates
      BY <3>1, CurrentIs DEF DemoInv
    <3>3. CASE state \in EntryStates
      BY <3>1, <3>2, <3>3, CurrentIs DEF Fits, EntryStates, SyncStates, Open
    <3>4. CASE state \in StopStates
      BY <3>1, <3>2, <3>4, CurrentIs DEF Fits, StopStates, Open
    <3>5. CASE state = "EXIT_WAIT_FILL"
      BY <3>1, <3>2, <3>5, CurrentIs DEF Fits
    <3> QED
      BY <3>2, <3>3, <3>4, <3>5 DEF SaleStates
  <2>2. ASSUME state \in FlatStates
        PROVE  qty = 0 /\ ids = <<0, 0, 0>> /\ ~trade.active /\ ~trade.force
    <3>1. qty = 0 /\ ~trade.active /\ ~trade.force
      BY <2>2 DEF DemoInv, Adds
    <3>2. state \notin EntryStates \cup SaleStates
      BY <2>2 DEF FlatStates, EntryStates, SaleStates, StopStates
    <3> QED
      BY <3>1, <3>2, CurrentIs DEF ids, SaleStates
  <2> QED
    BY <2>1, <2>2 DEF NothingIsOrphaned
<1> QED
  BY <1>1, OneOrderAtATime, PTL

\* However the stop is moved, the exit renewed and the day changed, a position
\* the broker would sell is never bare for more bars than PositionSyncBars + 1,
\* or three: every wait of handle_data that has no sale in the book is counted.
THEOREM HeldIsAlwaysProtected == Spec => []HeldIsProtected
<1>1. DemoInv => HeldIsProtected
  <2> SUFFICES ASSUME DemoInv PROVE exposed <= BareBars
    BY DEF HeldIsProtected
  <2>1. state \in States /\ trade.endWait \in Nat /\ trade.exitWait \in Nat /\ exposed \in Nat
    BY DEF DemoInv, TypeOK, Trades
  <2>2. Bare(exposed, trade, state)
    BY DEF DemoInv
  <2>3. CASE state \in FlatStates \cup EntryStates
    BY <2>1, <2>2, <2>3, BareBarsBound DEF Bare, FlatStates, EntryStates, SyncStates
  <2>4. CASE state \in TradeStates
    BY <2>1, <2>2, <2>4, BareBarsBound, Numbers DEF Bare, TradeStates
  <2> QED
    BY <2>1, <2>3, <2>4 DEF States
<1> QED
  BY <1>1, OneOrderAtATime, PTL

\* Whichever orders sold a trade, in whichever parts and over however many
\* bars, its result takes every share in exactly once (the accounted-fill
\* counters of handle_data and trade_realized_pnl).
THEOREM EverySaleIsAlwaysBookedOnce == Spec => []EverySaleIsBookedOnce
<1>1. DemoInv => EverySaleIsBookedOnce
  <2> SUFFICES ASSUME DemoInv PROVE trade.due >= qty /\ (state \in FlatStates => trade.due = 0)
    BY DEF EverySaleIsBookedOnce
  <2>1. state \in States /\ qty \in Nat /\ Adds(qty, trade, CurrentOrder, state, lot)
    BY DEF DemoInv, TypeOK
  <2>2. CASE state \in FlatStates
    BY <2>1, <2>2 DEF Adds
  <2>3. CASE state \in EntryStates \cup {"EXIT_SUBMIT"}
    BY <2>1, <2>3 DEF Adds, FlatStates, EntryStates
  <2>4. CASE state \in SaleStates
    <3>1. CurrentOrder.filled \in Nat
      BY <2>4, CurrentIs DEF Orders
    <3>2. Read(trade, state) \in Nat
      BY DEF DemoInv, TypeOK, Read, Trades
    <3>3. Read(trade, state) <= CurrentOrder.filled
          /\ trade.due = qty + CurrentOrder.filled - Read(trade, state)
      BY <2>1, <2>4 DEF Adds
    <3>4. state \notin FlatStates
      BY <2>4 DEF SaleStates, StopStates, FlatStates
    <3> QED
      BY <2>1, <3>1, <3>2, <3>3, <3>4
  <2> QED
    BY <2>1, <2>2, <2>3, <2>4 DEF States, TradeStates, SaleStates, StopStates
<1> QED
  BY <1>1, OneOrderAtATime, PTL

\* Whatever order purchases, bars without a signal and changes of day come in,
\* no day sees more entries than MaxDailyTrades (can_open_new_trade is asked
\* when the purchase is placed, the trade is counted when it is taken over).
THEOREM EntriesAreAlwaysLimited == Spec => []EntriesAreLimited
<1>1. DemoInv => EntriesAreLimited
  BY DEF DemoInv, Within, EntriesAreLimited
<1> QED
  BY <1>1, OneOrderAtATime, PTL
====
