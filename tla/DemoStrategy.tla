---- MODULE DemoStrategy ----
(***************************************************************************)
(* The intraday strategy of src/strategies/demo.py on the next-bar broker.  *)
(*                                                                          *)
(* A bar is two steps.  The market step is the broker's process_bar and the *)
(* preamble of handle_data (day change, windows, force flag); the strategy  *)
(* step is the block of handle_data that self.state selects, down to its    *)
(* return.  Every order is remembered by the slot of `book' that the code's *)
(* order id names, 0 being the empty id.                                    *)
(*                                                                          *)
(* Prices are abstracted to what the control reads: whether an order traded,*)
(* how far the trade has moved in its favour (none, 0.6R, 1R), and the level*)
(* of the protective stop.  What a candle pattern says is a free choice.    *)
(* trade_realized_pnl is kept as `due', the shares bought that no result has *)
(* taken in yet.                                                            *)
(***************************************************************************)
EXTENDS Integers, FiniteSets, FiniteSetsExt, Functions

CONSTANTS
    LastMinute,        \* minutes of a trading day: 1..LastMinute
    EntryMinutes,      \* in_entry_window
    FlatMinutes,       \* force_flat_time
    SignalMinutes,     \* length of a signal bar, 5 in the code
    MaxGap,            \* bound on the minutes without a bar
    LotSizes, MaxLots, \* lot_size of the symbol; bound on planned_lots
    Slots,             \* bound on the orders kept; two are enough
    MaxSignalAttempts, MaxDailyTrades, MaxConsecutiveLosses,
    H1MaxWait, SecondBottomMaxWait,
    PositionSyncBars, StopPartialGrace,
    FastFailBars, NoProgressBars, MaxHoldBars,
    TopStop            \* bound on the levels a stop can be raised to

ASSUME DemoAssumption ==
    /\ {LastMinute, SignalMinutes, MaxGap, MaxLots} \subseteq Nat \ {0}
    /\ EntryMinutes \subseteq 1..LastMinute
    /\ FlatMinutes \subseteq (1..LastMinute) \ EntryMinutes
    /\ LotSizes \subseteq Nat \ {0} /\ LotSizes # {}
    /\ Slots \subseteq Nat \ {0} /\ IsFiniteSet(Slots) /\ Cardinality(Slots) > 1
    /\ {MaxSignalAttempts, MaxDailyTrades, MaxConsecutiveLosses, H1MaxWait,
        SecondBottomMaxWait, PositionSyncBars, StopPartialGrace, FastFailBars,
        NoProgressBars, MaxHoldBars} \subseteq Nat
    /\ TopStop \in Nat /\ TopStop > 2

VARIABLES
    turn,        \* who acts next: "market" or "strategy"
    minute,      \* minute_of_day of the bar
    fresh,       \* is_new_5m
    qty,         \* strategy_qty: the position at the broker
    lot,
    book,        \* the broker's orders, by slot
    state,
    entryOrder, stopOrder, exitOrder,  \* the order ids the strategy keeps
    entry,       \* entry_expire_minute, entry_fill_valid, entry_expired
    pattern,     \* h1_wait_bars or second_leg_bars, and signal_attempts
    trade,       \* the fields of the open trade
    daily,       \* the counters of the trading day
    opened,      \* observer: entry orders that traded on this trading day
    exposed      \* observer: bars the position has gone without a working sale

ids == <<entryOrder, stopOrder, exitOrder>>
clock == <<turn, minute, fresh>>
vars == <<clock, qty, lot, book, state, ids, entry, pattern, trade, daily, opened, exposed>>

FlatStates == {"WAIT_H1", "WAIT_H1_FAILURE", "WAIT_SECOND_BOTTOM"}
EntryStates == {"ENTRY_ACTIVE", "ENTRY_CANCEL_PENDING", "ENTRY_SYNC_VALID", "ENTRY_SYNC_LATE"}
TradeStates == {"HOLDING", "STOP_REPLACE_CANCEL", "STOP_FILL_SYNC",
                "EXIT_CANCEL_STOP", "EXIT_SUBMIT", "EXIT_WAIT_FILL"}
States == FlatStates \cup EntryStates \cup TradeStates

Open == {"SUBMITTED", "FILLED_PART"}
CancelTerminal == {"CANCELLED_PART", "CANCELLED_ALL", "FAILED", "DISABLED"}
NoOrder == [kind |-> "none", total |-> 0, filled |-> 0, level |-> 0, status |-> "none"]

NoEntry == [expire |-> -1, valid |-> FALSE, expired |-> FALSE]
NoPattern == [bars |-> 0, attempts |-> 0]
FreshDay == [trades |-> 0, losses |-> 0, ruined |-> FALSE, error |-> FALSE]
NoTrade == [active |-> FALSE, due |-> 0, stop |-> 0, stage |-> 0, mfe |-> 0,
            hold |-> 0, pending |-> 0, stopFill |-> 0, mismatch |-> 0, replaceExit |-> FALSE,
            exitFill |-> 0, exitWait |-> 0, endWait |-> 0, force |-> FALSE]

\* Levels of the protective stop: below both bottoms, below the signal bar, at cost.
PlannedStop == 0
SignalStop == 1
CostStop == 2

Orders == [kind : {"none", "ENTRY", "STOP", "EXIT"}, total : Nat, filled : Nat,
           level : 0..TopStop, status : {"none", "FILLED_ALL"} \cup Open \cup CancelTerminal]
Entries == [expire : Nat \cup {-1}, valid : BOOLEAN, expired : BOOLEAN]
Patterns == [bars : Nat, attempts : Nat]
Days == [trades : Nat, losses : Nat, ruined : BOOLEAN, error : BOOLEAN]
Trades == [active : BOOLEAN, due : Int, stop : 0..TopStop, stage : 0..2, mfe : 0..2,
           hold : Nat, pending : 0..TopStop, stopFill : Nat, mismatch : Nat,
           replaceExit : BOOLEAN, exitFill : Nat, exitWait : Nat, endWait : Nat,
           force : BOOLEAN]

TypeOK ==
    /\ turn \in {"market", "strategy"}
    /\ minute \in 1..LastMinute /\ fresh \in BOOLEAN
    /\ qty \in Nat /\ lot \in LotSizes
    /\ book \in [Slots -> Orders]
    /\ state \in States
    /\ {entryOrder, stopOrder, exitOrder} \subseteq Slots \cup {0}
    /\ entry \in Entries /\ pattern \in Patterns /\ daily \in Days /\ trade \in Trades
    /\ opened \in Nat /\ exposed \in Nat

Init ==
    /\ turn = "market" /\ minute = LastMinute /\ fresh = FALSE
    /\ qty = 0 /\ lot \in LotSizes
    /\ book = [s \in Slots |-> NoOrder]
    /\ state = "WAIT_H1"
    /\ entryOrder = 0 /\ stopOrder = 0 /\ exitOrder = 0
    /\ entry = NoEntry /\ pattern = NoPattern /\ trade = NoTrade /\ daily = FreshDay
    /\ opened = 0 /\ exposed = 0

-----------------------------------------------------------------------------
(* The broker, as the strategy sees it through the order API *)

IsOpen(ord) == ord.status \in Open
Left(ord) == ord.total - ord.filled
WorkingSales(b) == {s \in Slots : IsOpen(b[s]) /\ b[s].kind # "ENTRY"}

Traded(ord, n) ==
    [ord EXCEPT !.filled = @ + n,
                !.status = IF n = Left(ord) THEN "FILLED_ALL" ELSE "FILLED_PART"]

\* What a bar can make of an order: a DAY order ends with its trading day (only
\* the protective stop is GTC), any part of the rest trades, a purchase fails.
AfterBar(ord, newDay) ==
    IF ~IsOpen(ord) THEN {ord}
    ELSE IF newDay /\ ord.kind # "STOP" THEN {[ord EXCEPT !.status = "DISABLED"]}
    ELSE {ord} \cup {Traded(ord, n) : n \in 1..Left(ord)}
         \cup (IF ord.kind = "ENTRY" THEN {[ord EXCEPT !.status = "FAILED"]} ELSE {})

\* A finished order no id names is of no further interest.
Tidy(b) ==
    [s \in Slots |-> IF IsOpen(b[s]) \/ s \in {entryOrder, stopOrder, exitOrder}
                     THEN b[s] ELSE NoOrder]

BooksAfterBar(newDay) ==
    LET b == Tidy(book)
    IN  {c \in [Slots -> UNION {AfterBar(b[s], newDay) : s \in Slots}] :
            \A s \in Slots : c[s] \in AfterBar(b[s], newDay)}

\* Shares that orders of these kinds traded between two books.
TradedBetween(b, c, kinds) ==
    SumFunction([s \in Slots |-> IF c[s].kind \in kinds THEN c[s].filled - b[s].filled ELSE 0])

\* _submit rounds down to whole lots and refuses what is left below one lot;
\* Broker.submit refuses a sale of shares that are not there or are promised.
Rounded(n) == (n \div lot) * lot
Promised == SumFunctionOnSet([s \in Slots |-> Left(book[s])], WorkingSales(book))
SaleAccepted(n) == Rounded(n) > 0 /\ Rounded(n) <= qty - Promised

FreeSlot == Min({s \in Slots : book[s] = NoOrder})
WithOrder(kind, n, level) ==
    [book EXCEPT ![FreeSlot] = [kind |-> kind, total |-> Rounded(n), filled |-> 0,
                                level |-> level, status |-> "SUBMITTED"]]

\* Mutant: a cancelled order has one status, whether it traded or not.
WithoutOrderDetail(s) ==
    IF s = 0 \/ ~IsOpen(book[s]) THEN book
    ELSE [book EXCEPT ![s].status = "CANCELLED"]

\* cancel_order: at once, and nothing for an order that is not pending.
WithoutOrder(s) ==
    IF s = 0 \/ ~IsOpen(book[s]) THEN book
    ELSE [book EXCEPT ![s].status = IF @ = "FILLED_PART" THEN "CANCELLED_PART"
                                    ELSE "CANCELLED_ALL"]

-----------------------------------------------------------------------------
(* The market step *)

Bucket(m) == (m - 1) \div SignalMinutes

\* Nothing is open: the pattern may be forgotten at a change of day.
Idle == ~trade.active /\ entryOrder = 0 /\ stopOrder = 0 /\ exitOrder = 0

\* process_bar, then handle_data up to its state blocks.
NextBar(m, newDay) ==
    /\ turn = "market"
    /\ turn' = "strategy"
    /\ minute' = m
    /\ fresh' = (newDay \/ Bucket(m) # Bucket(minute))
    /\ \E b \in BooksAfterBar(newDay) :
        LET bought == TradedBetween(Tidy(book), b, {"ENTRY"})
            sold == TradedBetween(Tidy(book), b, {"STOP", "EXIT"})
            began == {s \in Slots : /\ b[s].kind = "ENTRY" /\ b[s].filled > 0
                                    /\ Tidy(book)[s].filled = 0}
        IN  /\ sold <= qty
            /\ book' = b
            /\ qty' = qty + bought - sold
            /\ opened' = (IF newDay THEN 0 ELSE opened) + Cardinality(began)
            /\ trade' = [trade EXCEPT !.force = @ \/ (m \in FlatMinutes /\ qty' > 0),
                                     !.due = @ + bought]
    /\ IF newDay /\ Idle THEN state' = "WAIT_H1" /\ pattern' = NoPattern
       ELSE UNCHANGED <<state, pattern>>
    /\ daily' = IF newDay THEN FreshDay ELSE daily
    /\ UNCHANGED <<lot, ids, entry, exposed>>

MarketStep ==
    \/ \E m \in (minute + 1)..Min({minute + MaxGap, LastMinute}) : NextBar(m, FALSE)
    \/ \E m \in 1..Min({MaxGap, LastMinute}) : NextBar(m, TRUE)

ForceFlat == minute \in FlatMinutes

-----------------------------------------------------------------------------
(* Entry orders: section 2 of handle_data *)

Enter(s) == state' = s

\* An entry order is over and nothing of it traded: wait for the next signal,
\* or give the pattern up.
EntryOver ==
    /\ entryOrder' = 0
    /\ entry' = NoEntry
    /\ IF pattern.attempts >= MaxSignalAttempts
       THEN Enter("WAIT_H1") /\ pattern' = NoPattern
       ELSE Enter("WAIT_SECOND_BOTTOM") /\ UNCHANGED pattern

\* All the order will trade has traded: the trade is taken over, in time or late.
EntryDone(valid) ==
    /\ IF valid THEN Enter("ENTRY_SYNC_VALID") /\ UNCHANGED daily
       ELSE Enter("ENTRY_SYNC_LATE") /\ daily' = [daily EXCEPT !.error = TRUE]
    /\ UNCHANGED <<entryOrder, pattern>>

\* The session ends before anything has traded: the block acts as if a
\* cancellation had been pending.
ForcedOut == ForceFlat /\ qty = 0

EntryActive ==
    LET ord == book[entryOrder]
    IN  /\ state = "ENTRY_ACTIVE" /\ ~ForcedOut
        /\ IF ord.filled > 0 \/ qty > 0
           THEN /\ entry' = [entry EXCEPT !.valid = minute <= entry.expire]
                /\ IF ord.status = "FILLED_ALL"
                   THEN EntryDone(entry'.valid) /\ UNCHANGED book
                   ELSE /\ Enter("ENTRY_CANCEL_PENDING")
                        /\ book' = WithoutOrder(entryOrder)
                        /\ UNCHANGED <<entryOrder, pattern, daily>>
           ELSE IF ord.status \in CancelTerminal
           THEN EntryOver /\ UNCHANGED <<book, daily>>
           ELSE /\ IF minute >= entry.expire
                   THEN /\ Enter("ENTRY_CANCEL_PENDING")
                        /\ entry' = [entry EXCEPT !.expired = TRUE, !.valid = FALSE]
                        /\ book' = WithoutOrder(entryOrder)
                   ELSE UNCHANGED <<state, entry, book>>
                /\ UNCHANGED <<entryOrder, pattern, daily>>
        /\ UNCHANGED <<stopOrder, exitOrder, trade>>

\* Mutant: a cancelled order is taken to have traded nothing.
CancelledMeansEmpty(ord) == FALSE

\* The cancelled order had traded a part.
PartTraded(ord) == ord.filled > 0 \/ qty > 0

\* The status is the one read before the cancellation of this call.
EntryCancelPending ==
    LET ord == book[entryOrder]
        expired == entry.expired \/ ForcedOut
        valid == IF ForcedOut THEN FALSE
                 ELSE entry.valid \/ (PartTraded(ord) /\ ~entry.expired)
    IN  /\ state = "ENTRY_CANCEL_PENDING" \/ (state = "ENTRY_ACTIVE" /\ ForcedOut)
        /\ IF ord.status = "FILLED_ALL" \/ (ord.status \in CancelTerminal /\ PartTraded(ord))
           THEN /\ entry' = [entry EXCEPT !.expired = expired, !.valid = valid]
                /\ EntryDone(valid)
                /\ UNCHANGED book
           ELSE IF ord.status \in CancelTerminal
           THEN EntryOver /\ UNCHANGED <<book, daily>>
           ELSE /\ Enter("ENTRY_CANCEL_PENDING")
                /\ entry' = [entry EXCEPT !.expired = expired, !.valid = valid]
                /\ book' = WithoutOrder(entryOrder)
                /\ UNCHANGED <<entryOrder, pattern, daily>>
        /\ UNCHANGED <<stopOrder, exitOrder, trade>>

\* A protective stop for the whole position, or the way out when it is refused.
Protect(t, day) ==
    IF SaleAccepted(qty)
    THEN /\ book' = WithOrder("STOP", qty, t.stop)
         /\ stopOrder' = FreeSlot
         /\ trade' = [t EXCEPT !.stopFill = 0]
         /\ daily' = day
         /\ Enter("HOLDING")
    ELSE /\ stopOrder' = 0
         /\ trade' = t
         /\ daily' = [day EXCEPT !.error = TRUE]
         /\ Enter("EXIT_SUBMIT")
         /\ UNCHANGED book

\* The trade as the position shows it; the counters of the exit are left over.
TakenOver == [NoTrade EXCEPT !.active = TRUE, !.stop = PlannedStop, !.due = trade.due,
                             !.force = trade.force, !.pending = trade.pending,
                             !.exitFill = trade.exitFill, !.exitWait = trade.exitWait,
                             !.endWait = trade.endWait]

\* A trade that is late or too close to its target leaves at once.  The fill
\* never exceeds the limit price, so the slippage test of the code never fires.
EntrySync ==
    /\ state \in {"ENTRY_SYNC_VALID", "ENTRY_SYNC_LATE"}
    /\ qty > 0
    /\ entryOrder' = 0
    /\ entry' = NoEntry
    /\ \E bad \in BOOLEAN :
        LET counted == [daily EXCEPT !.trades = @ + 1]
        IN  IF bad \/ state = "ENTRY_SYNC_LATE" \/ ForceFlat
            THEN /\ trade' = [TakenOver EXCEPT !.exitFill = 0, !.exitWait = 0, !.endWait = 0]
                 /\ stopOrder' = 0 /\ exitOrder' = 0
                 /\ daily' = counted
                 /\ Enter("EXIT_SUBMIT")
                 /\ UNCHANGED book
            ELSE Protect(TakenOver, counted) /\ UNCHANGED exitOrder
    /\ UNCHANGED pattern

-----------------------------------------------------------------------------
(* The end of a trade, common to sections 3, 4 and 5 *)

\* Mutant: fills already booked are booked again.
BookedTwice(t, ord, accounted) ==
    [t EXCEPT !.due = @ - ord.filled]

\* trade_realized_pnl takes the shares the order traded since it was last read.
Booked(t, ord, accounted) ==
    [t EXCEPT !.due = @ - Max({0, ord.filled - accounted})]

StopBooked(t) ==
    IF stopOrder = 0 THEN t
    ELSE LET ord == book[stopOrder]
         IN  [Booked(t, ord, t.stopFill) EXCEPT !.stopFill = Max({@, ord.filled})]

\* What the next trade finds: every field but those EntrySync sets anew is reset.
Forgotten(t) == [NoTrade EXCEPT !.due = t.due]

\* The result counts towards the limits of the day: a loss, or the end of a
\* row of losses; a gain may lift the day above its limit again.
CountResult ==
    \E loss \in BOOLEAN :
        \E ruined \in IF loss THEN {daily.ruined, TRUE} ELSE {daily.ruined, FALSE} :
            daily' = [daily EXCEPT !.losses = IF loss THEN @ + 1 ELSE 0, !.ruined = ruined]

Settle(t) ==
    /\ trade' = Forgotten(t)
    /\ CountResult
    /\ Enter("WAIT_H1")
    /\ pattern' = NoPattern
    /\ stopOrder' = 0
    /\ UNCHANGED <<book, entryOrder, entry>>

-----------------------------------------------------------------------------
(* Leaving at market: section 3 *)

\* The way out of a trade: its counters start again.
Leaving(t) == [t EXCEPT !.exitFill = 0, !.exitWait = 0, !.endWait = 0]

\* Mutant: a position that does not follow the fills is waited for forever.
WaitsForever(waited) == TRUE

\* The position has this many bars to follow the fills of a cancelled sale.
StillSyncing(waited) == waited + 1 < PositionSyncBars

\* The stop is taken out of the book before the position is sold.
ExitCancelStop ==
    LET ord == book[stopOrder]
        read == StopBooked(trade)
        \* the position has not followed the fills of the stop yet
        lagging == ord.filled > 0 /\ qty > Left(ord) /\ StillSyncing(trade.endWait)
    IN  /\ state = "EXIT_CANCEL_STOP"
        /\ IF qty = 0 \/ (ord.status \in CancelTerminal /\ ~lagging)
           THEN /\ Enter("EXIT_SUBMIT")
                /\ stopOrder' = 0
                /\ trade' = IF qty = 0 THEN read ELSE [read EXCEPT !.endWait = 0]
                /\ UNCHANGED book
           ELSE /\ trade' = IF lagging /\ ord.status \in CancelTerminal
                            THEN [read EXCEPT !.endWait = @ + 1] ELSE read
                /\ book' = WithoutOrder(stopOrder)
                /\ UNCHANGED <<state, stopOrder>>
        /\ UNCHANGED <<entryOrder, exitOrder, entry, pattern, daily>>

\* The whole position is sold at market; a refusal is tried again on the next bar.
ExitSubmit ==
    /\ state = "EXIT_SUBMIT"
    /\ IF qty = 0 THEN Settle(trade) /\ exitOrder' = 0
       ELSE
          /\ IF SaleAccepted(qty)
             THEN /\ book' = WithOrder("EXIT", qty, 0)
                  /\ exitOrder' = FreeSlot
                  /\ trade' = [trade EXCEPT !.exitFill = 0, !.exitWait = 0]
                  /\ Enter("EXIT_WAIT_FILL")
                  /\ UNCHANGED daily
             ELSE /\ daily' = [daily EXCEPT !.error = TRUE]
                  /\ UNCHANGED <<book, exitOrder, trade, state>>
          /\ UNCHANGED <<entryOrder, stopOrder, entry, pattern>>

ExitWaitFill ==
    LET ord == book[exitOrder]
        read == [Booked(trade, ord, trade.exitFill) EXCEPT !.exitFill = Max({@, ord.filled})]
    IN  /\ state = "EXIT_WAIT_FILL"
        /\ IF qty = 0 THEN Settle(read) /\ exitOrder' = 0
           ELSE
              /\ IF ord.status \in CancelTerminal
                 THEN IF ord.filled > 0 /\ StillSyncing(trade.exitWait)
                      THEN /\ trade' = [read EXCEPT !.exitWait = @ + 1]
                           /\ UNCHANGED <<exitOrder, state>>
                      ELSE /\ trade' = [read EXCEPT !.exitFill = 0, !.exitWait = 0]
                           /\ exitOrder' = 0
                           /\ Enter("EXIT_SUBMIT")
                 ELSE /\ trade' = read
                      /\ UNCHANGED <<exitOrder, state>>
              /\ UNCHANGED <<book, entryOrder, stopOrder, entry, pattern, daily>>

-----------------------------------------------------------------------------
(* Replacing the protective stop, and waiting for its fill: section 4 *)

\* The old stop is out of the book: the new one takes its place, unless the
\* target was reached or the session ended while it was being cancelled.
StopReplaceCancel ==
    LET ord == book[stopOrder]
        read == StopBooked(trade)
    IN  /\ state = "STOP_REPLACE_CANCEL"
        /\ \E leave \in {read.replaceExit \/ read.force, TRUE} :
            IF qty = 0
            THEN /\ trade' = [read EXCEPT !.active = FALSE, !.force = FALSE]
                 /\ CountResult
                 /\ Enter("WAIT_H1")
                 /\ stopOrder' = 0
                 /\ UNCHANGED <<book, exitOrder>>
            ELSE IF ord.status \notin CancelTerminal
            THEN /\ trade' = [read EXCEPT !.replaceExit = leave]
                 /\ Enter(IF IsOpen(ord) THEN state ELSE "STOP_FILL_SYNC")
                 /\ book' = WithoutOrder(stopOrder)
                 /\ UNCHANGED <<stopOrder, exitOrder, daily>>
            ELSE IF leave
            THEN /\ trade' = Leaving([read EXCEPT !.pending = 0, !.replaceExit = FALSE])
                 /\ stopOrder' = 0 /\ exitOrder' = 0
                 /\ Enter("EXIT_SUBMIT")
                 /\ UNCHANGED <<book, daily>>
            ELSE /\ Protect([read EXCEPT !.stop = read.pending, !.pending = 0], daily)
                 /\ UNCHANGED exitOrder
        /\ UNCHANGED <<entryOrder, entry, pattern>>

StopFillSync ==
    /\ state = "STOP_FILL_SYNC"
    /\ IF qty = 0 THEN Settle(StopBooked(trade))
       ELSE /\ trade' = StopBooked(trade)
            /\ UNCHANGED <<book, state, entryOrder, stopOrder, entry, pattern, daily>>
    /\ UNCHANGED exitOrder

-----------------------------------------------------------------------------
(* Holding a position: section 5.  The actions follow the order of the block, *)
(* each one the returns it can reach; what an earlier part changed is Seen.   *)

HoldingSettles ==
    /\ state = "HOLDING" /\ qty = 0
    /\ Settle(StopBooked(trade))
    /\ UNCHANGED exitOrder

\* Every way out of HOLDING that leaves a stop in the book cancels it first.
LeaveAtMarket(t) ==
    /\ trade' = Leaving(t)
    /\ exitOrder' = 0
    /\ book' = WithoutOrder(stopOrder)
    /\ Enter(IF stopOrder = 0 THEN "EXIT_SUBMIT" ELSE "EXIT_CANCEL_STOP")
    /\ UNCHANGED <<stopOrder, daily>>

HoldingForced ==
    /\ state = "HOLDING" /\ qty > 0 /\ trade.force
    /\ LeaveAtMarket(trade)
    /\ UNCHANGED <<entryOrder, entry, pattern>>

Holding == state = "HOLDING" /\ qty > 0 /\ ~trade.force

\* The excursion so far has armed this stage of the profit protection.
Stage(t) ==
    IF t.stage < 2 /\ t.mfe = 2 THEN 2 ELSE IF t.stage < 1 /\ t.mfe = 1 THEN 1 ELSE t.stage
StageStop(n) == IF n = 2 THEN CostStop ELSE SignalStop

\* The new stage asks for a higher stop than the one in force.
Raises(t) == Stage(t) > t.stage /\ StageStop(Stage(t)) > t.stop

\* The trade once its best price is noted.
Excursion == {[trade EXCEPT !.mfe = m] : m \in trade.mfe..2}

\* The stop is cancelled to be replaced by a higher one.
Replace(t, level) ==
    /\ trade' = [t EXCEPT !.pending = level, !.replaceExit = FALSE]
    /\ book' = WithoutOrder(stopOrder)
    /\ Enter("STOP_REPLACE_CANCEL")
    /\ UNCHANGED <<stopOrder, exitOrder, daily>>

HoldingProtects ==
    /\ Holding /\ stopOrder # 0
    /\ \E t \in Excursion :
        /\ Raises(t)
        /\ Replace([t EXCEPT !.stage = Stage(t)], StageStop(Stage(t)))
    /\ UNCHANGED <<entryOrder, entry, pattern>>

\* No profit protection to put into force: the trade as the stop shows it.
Seen ==
    {StopBooked([t EXCEPT !.stage = IF stopOrder # 0 \/ ~Raises(t) THEN Stage(t) ELSE @]) :
        t \in {u \in Excursion : stopOrder = 0 \/ ~Raises(u)}}

\* The part of the stop that is left does not fit the position.
Mismatch(t) ==
    LET ord == book[stopOrder]
    IN  IF ord.status # "FILLED_PART" THEN t.mismatch
        ELSE IF Left(ord) # qty THEN t.mismatch + 1 ELSE 0

HoldingReadsStop ==
    /\ Holding
    /\ \E t \in Seen :
        LET ord == book[stopOrder]
        IN  IF stopOrder = 0 THEN Protect(t, daily) /\ UNCHANGED exitOrder
            ELSE IF ord.status = "FILLED_ALL"
            THEN /\ trade' = t
                 /\ Enter("STOP_FILL_SYNC")
                 /\ UNCHANGED <<book, stopOrder, exitOrder, daily>>
            ELSE IF ord.status \in CancelTerminal
            THEN /\ trade' = [t EXCEPT !.stopFill = 0]
                 /\ stopOrder' = 0
                 /\ UNCHANGED <<book, state, exitOrder, daily>>
            ELSE /\ Mismatch(t) > StopPartialGrace
                 /\ Replace([t EXCEPT !.mismatch = Mismatch(t)], t.stop)
    /\ UNCHANGED <<entryOrder, entry, pattern>>

\* The stop is in the book and fits.
Standing ==
    IF stopOrder = 0 \/ ~IsOpen(book[stopOrder]) THEN {}
    ELSE {[t EXCEPT !.mismatch = Mismatch(t)] :
             t \in {u \in Seen : Mismatch(u) <= StopPartialGrace}}

\* The bar touches the stop, or asks for nothing.
HoldingWaits ==
    /\ Holding
    /\ \E t \in Standing : trade' = t
    /\ UNCHANGED <<book, state, ids, entry, pattern, daily>>

\* The measured move is reached.
HoldingTakesTarget ==
    /\ Holding
    /\ \E t \in Standing : LeaveAtMarket(t)
    /\ UNCHANGED <<entryOrder, entry, pattern>>

\* A new signal bar: the trade failed fast, made no progress, has lasted long
\* enough, or a confirmed higher low raises the stop.  A trade is never entered
\* and held in the same signal bar that is new, so entry_5m_key is not kept.
HoldingNewSignalBar ==
    /\ Holding /\ fresh
    /\ \E t \in {[u EXCEPT !.hold = @ + 1] : u \in Standing} :
        \/ /\ \/ t.hold <= FastFailBars /\ t.mfe = 0
              \/ t.hold >= NoProgressBars /\ t.mfe = 0
              \/ t.hold >= MaxHoldBars
           /\ LeaveAtMarket(t)
        \/ /\ t.hold < MaxHoldBars
           /\ trade' = t
           /\ UNCHANGED <<book, state, stopOrder, exitOrder, daily>>
        \/ /\ t.hold < MaxHoldBars
           /\ t.mfe >= 1
           /\ \E level \in (t.stop + 1)..TopStop : Replace(t, level)
    /\ UNCHANGED <<entryOrder, entry, pattern>>

-----------------------------------------------------------------------------
(* Looking for a pattern: sections 6 to 11 *)

Blocked == minute \notin EntryMinutes

\* Mutant: one trade more than the limit.
CanOpenOnceMore ==
    /\ ~daily.error
    /\ daily.trades <= MaxDailyTrades
    /\ ~daily.ruined
    /\ daily.losses < MaxConsecutiveLosses

CanOpen ==
    /\ ~daily.error
    /\ daily.trades < MaxDailyTrades
    /\ ~daily.ruined
    /\ daily.losses < MaxConsecutiveLosses

GiveUp == Enter("WAIT_H1") /\ pattern' = NoPattern

\* Outside the entry window an unfinished pattern is dropped.
PatternBlocked ==
    /\ state \in FlatStates /\ Blocked
    /\ IF state # "WAIT_H1" THEN GiveUp ELSE UNCHANGED <<state, pattern>>
    /\ UNCHANGED <<book, ids, entry, trade, daily>>

Searching == state \in FlatStates /\ ~Blocked

\* No new signal bar, or too few of them to read a pattern.
PatternIdles ==
    /\ Searching
    /\ UNCHANGED <<book, state, ids, entry, pattern, trade, daily>>

\* The first leg down and its H1 bar are found.
FindH1 ==
    /\ Searching /\ fresh
    /\ state = "WAIT_H1" /\ CanOpen
    /\ Enter("WAIT_H1_FAILURE")
    /\ pattern' = NoPattern
    /\ UNCHANGED <<book, ids, entry, trade, daily>>

\* H1 has not failed yet: it is waited for, outrun or given up.  A failure is
\* part of the scan that follows it in the same call.
AwaitH1Failure ==
    /\ Searching /\ fresh
    /\ state = "WAIT_H1_FAILURE"
    /\ \/ GiveUp
       \/ /\ pattern.bars < H1MaxWait
          /\ pattern' = [pattern EXCEPT !.bars = @ + 1]
          /\ UNCHANGED state
    /\ UNCHANGED <<book, ids, entry, trade, daily>>

\* The legs of the second bottom counted so far, were this bar scanned.
Legs == (IF state = "WAIT_H1_FAILURE" THEN 1 ELSE pattern.bars) + 1

ScansSecondBottom ==
    /\ Searching /\ fresh
    /\ state \in {"WAIT_H1_FAILURE", "WAIT_SECOND_BOTTOM"}

\* No second bottom on this bar: the day is closed for entries, the first
\* bottom is broken or the wait too long, or the bar is no signal.
SeekSecondBottom ==
    /\ ScansSecondBottom
    /\ \/ /\ CanOpen
          /\ GiveUp
       \/ /\ CanOpen => Legs <= SecondBottomMaxWait
          /\ Enter("WAIT_SECOND_BOTTOM")
          /\ pattern' = [pattern EXCEPT !.bars = IF CanOpen THEN Legs ELSE Legs - 1]
    /\ UNCHANGED <<book, ids, entry, trade, daily>>

\* A second bottom with room to its target: a stop-limit purchase for the day.
\* The broker may refuse it for want of cash, which is SeekSecondBottom.
PlanEntry ==
    /\ ScansSecondBottom /\ CanOpen
    /\ Legs <= SecondBottomMaxWait
    /\ \E lots \in 1..MaxLots :
        book' = WithOrder("ENTRY", lots * lot, 0)
    /\ entryOrder' = FreeSlot
    /\ entry' = [NoEntry EXCEPT !.expire = minute + SignalMinutes]
    /\ pattern' = [bars |-> Legs, attempts |-> pattern.attempts + 1]
    /\ Enter("ENTRY_ACTIVE")
    /\ UNCHANGED <<stopOrder, exitOrder, trade, daily>>

-----------------------------------------------------------------------------
HandleData ==
    \/ EntryActive \/ EntryCancelPending \/ EntrySync
    \/ ExitCancelStop \/ ExitSubmit \/ ExitWaitFill
    \/ StopReplaceCancel \/ StopFillSync
    \/ HoldingSettles \/ HoldingForced \/ HoldingProtects \/ HoldingReadsStop
    \/ HoldingWaits \/ HoldingTakesTarget \/ HoldingNewSignalBar
    \/ PatternBlocked \/ PatternIdles \/ FindH1 \/ AwaitH1Failure
    \/ SeekSecondBottom \/ PlanEntry

\* A position of at least one lot without a sale in the book.
Exposed(q, b) == q >= lot /\ WorkingSales(b) = {}

StrategyStep ==
    /\ turn = "strategy"
    /\ HandleData
    /\ turn' = "market"
    /\ exposed' = IF Exposed(qty, book') THEN exposed + 1 ELSE 0
    /\ UNCHANGED <<minute, fresh, qty, lot, opened>>

Next == MarketStep \/ StrategyStep

Spec == Init /\ [][Next]_vars

-----------------------------------------------------------------------------
(* Properties *)

\* Between two bars every order working at the broker is the one order the
\* state waits for, and a state that looks for a pattern owns nothing: no
\* share, no order, no open trade and no wish to leave (the ids that
\* handle_data clears and the day change that may reset the machine).
NothingIsOrphaned ==
    turn = "market" =>
        /\ \A s \in Slots : IsOpen(book[s]) =>
            \/ s = entryOrder /\ state \in {"ENTRY_ACTIVE"}
            \/ s = stopOrder /\ state = "HOLDING" /\ book[s].kind = "STOP"
            \/ s = exitOrder /\ state = "EXIT_WAIT_FILL" /\ book[s].kind = "EXIT"
        /\ state \in FlatStates =>
            qty = 0 /\ ids = <<0, 0, 0>> /\ ~trade.active /\ ~trade.force

\* A position the broker would sell is never long without a sale in the book:
\* taking a trade over, moving its stop and renewing an exit that a change of
\* day ended each leave it bare, and never for more bars than these.
BareBars == Max({3, PositionSyncBars + 1})
HeldIsProtected == exposed <= BareBars

\* The result of a trade takes in every share it bought exactly once, whichever
\* orders sold it in whichever parts: no more than was sold while it lasts, and
\* everything once the strategy looks for a pattern again.
EverySaleIsBookedOnce ==
    turn = "market" => trade.due >= qty /\ (state \in FlatStates => trade.due = 0)

\* No trading day sees more entries than the limit, although a purchase is only
\* counted when the strategy has taken it over, perhaps on the following day.
EntriesAreLimited == opened <= MaxDailyTrades
====
