---- MODULE Broker ----
(***************************************************************************)
(* The single-symbol, next-bar simulated broker (broker.py) as a backtest   *)
(* (runtime.py) drives it: the strategy calls the order API in initialize() *)
(* and after every bar, and process_bar visits the pending orders of a bar  *)
(* one by one.                                                              *)
(*                                                                          *)
(* An order is an index into `orders', in order of submission.              *)
(* Broker.pending_orders is always in that order (submit appends, removal   *)
(* keeps the order), so it is the set `pending', visited by smallest index. *)
(* Average price and entry fees of the position are kept as amounts: basis  *)
(* is average_price * |quantity|.  A call the broker refuses (ValueError)   *)
(* changes nothing and has no step.                                         *)
(***************************************************************************)
EXTENDS FillPricing, Sequences, FiniteSets

CONSTANTS
    InitialCash,
    AllowShort,      \* BOOLEAN
    DailyBars,       \* bar_type is K_DAY or K_WEEK
    Bars,            \* the OHLC bars the market may deliver
    MaxBars,         \* length of the backtest
    WarmupBars,      \* bars before the first handle_data
    Tickets,         \* orders a strategy may place: all but their quantity
    Amendments,      \* changes a strategy may make to a pending order
    MaxQuantity,     \* bound on the quantities a strategy asks for
    MaxOrders        \* bound on the orders of a backtest

BarRecord == [open : Nat, high : Nat, low : Nat, close : Nat, capacity : Nat]
TicketRecord ==
    [side : OrderSide, type : OrderType, limit : Nat, stop : Nat,
     trailType : {"none", "AMOUNT", "RATIO"}, trail : Nat, spread : Nat,
     tif : {"DAY", "GTC"}]

ASSUME BrokerAssumption ==
    /\ InitialCash \in Nat \ {0}
    /\ AllowShort \in BOOLEAN
    /\ DailyBars \in BOOLEAN
    /\ {MaxBars, WarmupBars, MaxQuantity, MaxOrders} \subseteq Nat
    /\ Bars \subseteq BarRecord
    /\ Tickets \subseteq TicketRecord
    /\ Amendments \subseteq [limit : Nat, stop : Nat, trail : Nat, spread : Nat]

VARIABLES
    index,       \* current_index
    day,         \* trading date of the current bar
    bar,         \* the current bar
    phase,       \* where the backtest is, see Phases
    cash,
    position,    \* [quantity, basis, fees]
    netPnl,      \* sum of net_pnl over the closed trades
    totalFees,
    orders,      \* every order ever submitted
    pending,     \* pending_orders
    todo,        \* pending orders process_bar has not visited yet
    deferred,    \* _deferred_submissions
    fills

account == <<cash, position, netPnl, totalFees, fills>>
book == <<orders, pending, deferred>>
market == <<index, day, bar>>
vars == <<account, book, market, phase, todo>>

Phases == {"initialize", "matching", "opening", "strategy", "warmup", "aborted", "done"}
Open == {"SUBMITTED", "FILLED_PART"}
OrderStatus == Open \cup {"FILLED_ALL", "CANCELLED_PART", "CANCELLED_ALL", "FAILED",
                          "DISABLED"}
Flat == [quantity |-> 0, basis |-> 0, fees |-> 0]
NoFollowUp == [side |-> "none", quantity |-> 0]

Abs(n) == IF n < 0 THEN -n ELSE n
Remaining(ord) == ord.quantity - ord.filled

FollowUp == [side : OrderSide, quantity : Nat] \cup {NoFollowUp}
Order ==
    [side : OrderSide, type : OrderType, quantity : Nat, filled : Nat, limit : Nat,
     stop : Nat, trailType : {"none", "AMOUNT", "RATIO"}, trail : Nat, spread : Nat,
     tif : {"DAY", "GTC"}, index : Nat, day : Nat, active : Nat \cup {-1},
     reserved : Int, status : OrderStatus, triggered : BOOLEAN, reference : Nat,
     followUp : FollowUp, closes : Nat]

TypeOK ==
    /\ index \in Nat /\ day \in Nat
    /\ bar \in Bars
    /\ phase \in Phases
    /\ cash \in Int /\ netPnl \in Int /\ totalFees \in Nat
    /\ position \in [quantity : Int, basis : Int, fees : Int]
    /\ orders \in Seq(Order)
    /\ pending \subseteq DOMAIN orders
    /\ todo \subseteq pending
    /\ phase \notin {"matching", "aborted"} => todo = {}
    /\ deferred \in Seq([side : OrderSide, quantity : Nat, closes : Nat])
    /\ fills \in Seq([order : Nat, index : Nat, day : Nat, side : OrderSide,
                      price : Int, quantity : Nat, fee : Nat])

Init ==
    /\ index = 0 /\ day = 0
    /\ bar \in Bars
    /\ phase = "initialize"
    /\ cash = InitialCash /\ netPnl = 0 /\ totalFees = 0
    /\ position = Flat
    /\ orders = <<>> /\ pending = {} /\ todo = {} /\ deferred = <<>> /\ fills = <<>>

-----------------------------------------------------------------------------
(* Reservations *)

PendingOn(sides) == {o \in pending : orders[o].side \in sides}

ReservedBuyCash ==
    SumFunctionOnSet([o \in DOMAIN orders |-> orders[o].reserved], PendingOn(Buys))

AvailableCash == Max({0, cash - ReservedBuyCash})

\* The shares a set of orders has still to trade, one element for each.
Shares(set) == UNION {{o} \X ((orders[o].filled + 1)..orders[o].quantity) : o \in set}

PendingSellQuantity == Cardinality(Shares(PendingOn({"SELL"})))

MaxSellQuantity == Max({0, position.quantity - PendingSellQuantity})

\* Mutant: the fee is left out of the reservation.
EstimatedWithoutFee(side, type, limit, stop, mark, quantity) ==
    LET reference == IF limit # 0 THEN limit ELSE IF stop # 0 THEN stop ELSE mark
        price == IF type = "LIMIT" THEN reference ELSE Slipped(reference, side)
    IN  IF side \notin Buys THEN 0 ELSE quantity * price

\* _estimate_reserved_cash.
EstimatedReserve(side, type, limit, stop, mark, quantity) ==
    LET reference == IF limit # 0 THEN limit ELSE IF stop # 0 THEN stop ELSE mark
        price == IF type = "LIMIT" THEN reference ELSE Slipped(reference, side)
    IN  IF side \notin Buys THEN 0
        ELSE quantity * price + Fee(price, quantity)

-----------------------------------------------------------------------------
(* The order API *)

\* Broker.submit accepts the order.
Acceptable(ticket, quantity) ==
    /\ EstimatedReserve(ticket.side, ticket.type, ticket.limit, ticket.stop,
                        bar.close, quantity) <= AvailableCash
    /\ ticket.side = "SELL" => quantity <= MaxSellQuantity

NewOrder(ticket, quantity, followUp, closes) ==
    [side |-> ticket.side, type |-> ticket.type, quantity |-> quantity, filled |-> 0,
     limit |-> ticket.limit, stop |-> ticket.stop, trailType |-> ticket.trailType,
     trail |-> ticket.trail, spread |-> ticket.spread, tif |-> ticket.tif,
     index |-> index, day |-> day,
     active |-> IF ticket.tif = "DAY" /\ ~DailyBars THEN day ELSE -1,
     reserved |-> EstimatedReserve(ticket.side, ticket.type, ticket.limit, ticket.stop,
                                   bar.close, quantity),
     status |-> "SUBMITTED", triggered |-> FALSE, reference |-> 0,
     followUp |-> followUp, closes |-> closes]

MarketTicket(side) ==
    [side |-> side, type |-> "MARKET", limit |-> 0, stop |-> 0, trailType |-> "none",
     trail |-> 0, spread |-> 0, tif |-> "DAY"]

\* The strategy has control: in initialize(), or in handle_data().
StrategyRuns == phase \in {"initialize", "strategy"}

Submit(ticket, quantity) ==
    /\ StrategyRuns
    /\ Len(orders) < MaxOrders
    /\ Acceptable(ticket, quantity)
    /\ orders' = Append(orders, NewOrder(ticket, quantity, NoFollowUp, 0))
    /\ pending' = pending \cup {Len(orders) + 1}
    /\ UNCHANGED <<account, market, phase, todo, deferred>>

\* The status of an order taken out of the book by a cancellation.
CancelledOrders(set) ==
    [o \in DOMAIN orders |->
        IF o \notin set THEN orders[o]
        ELSE [orders[o] EXCEPT
                !.status = IF orders[o].filled > 0 THEN "CANCELLED_PART" ELSE "CANCELLED_ALL"]]

\* cancel_order, cancel_symbol with or without a side, and cancel_all.
Cancel(set) ==
    /\ StrategyRuns
    /\ set # {} /\ set \subseteq pending
    /\ orders' = CancelledOrders(set)
    /\ pending' = pending \ set
    /\ UNCHANGED <<account, market, phase, todo, deferred>>

CancelSome ==
    \E set \in {{o} : o \in pending}
               \cup {PendingOn({"BUY"}), PendingOn({"SELL"}), pending} :
        Cancel(set)

Amended(old, new) == IF new = 0 THEN old ELSE new

\* The reservation modify_order gives the order: in proportion while it has no
\* price of its own, estimated anew otherwise.
ModifiedReserve(ord, quantity, limit, stop) ==
    IF ord.side \notin Buys THEN ord.reserved
    ELSE IF limit = 0 /\ stop = 0
    THEN IF Remaining(ord) > 0
         THEN (ord.reserved * (quantity - ord.filled)) \div Remaining(ord)
         ELSE 0
    ELSE EstimatedReserve(ord.side, ord.type, limit, stop, 0, quantity - ord.filled)

\* Mutant: the new quantity is held against the position, without the shares
\* other orders are to sell.
SellableIgnoringOthers(ord, quantity) ==
    ord.side = "SELL" => quantity - ord.filled <= position.quantity

\* A SELL order may not grow beyond the shares no other order is to sell.
Sellable(ord, quantity) ==
    ord.side = "SELL" => quantity - ord.filled <= MaxSellQuantity + Remaining(ord)

Modify(o, quantity, amendment) ==
    LET ord == orders[o]
        limit == Amended(ord.limit, amendment.limit)
        stop == Amended(ord.stop, amendment.stop)
        reserve == ModifiedReserve(ord, quantity, limit, stop)
    IN  /\ StrategyRuns
        /\ o \in pending
        /\ quantity >= ord.filled
        /\ ord.side \in Buys => reserve <= AvailableCash + ord.reserved
        /\ Sellable(ord, quantity)
        /\ orders' = [orders EXCEPT ![o] =
                [ord EXCEPT !.quantity = quantity, !.limit = limit, !.stop = stop,
                            !.reserved = reserve,
                            !.trail = Amended(@, amendment.trail),
                            !.spread = Amended(@, amendment.spread)]]
        /\ UNCHANGED <<account, market, phase, todo, pending, deferred>>

\* reverse_positions: cancel everything, close the position at market and ask
\* for the opposite position once the closing order has filled.  The
\* cancellation stays when the position cannot be reversed or closed.
Reverse ==
    LET long == position.quantity > 0
        quantity == Abs(position.quantity)
        closing == MarketTicket(IF long THEN "SELL" ELSE "BUY_BACK")
        followUp == [side |-> IF long THEN "SELL_SHORT" ELSE "BUY", quantity |-> quantity]
        reserve == EstimatedReserve(closing.side, "MARKET", 0, 0, bar.close, quantity)
    IN  /\ StrategyRuns
        /\ Len(orders) < MaxOrders
        /\ IF /\ quantity > 0
              /\ long => AllowShort
              /\ reserve <= Max({0, cash})
           THEN /\ orders' = Append(CancelledOrders(pending),
                                    NewOrder(closing, quantity, followUp, 0))
                /\ pending' = {Len(orders) + 1}
           ELSE /\ orders' = CancelledOrders(pending)
                /\ pending' = {}
        /\ UNCHANGED <<account, market, phase, todo, deferred>>

-----------------------------------------------------------------------------
(* Executions *)

\* _validate_position_change: why a fill is refused.
Refused(side, price, quantity) ==
    CASE side = "BUY" -> \/ position.quantity < 0
                         \/ quantity * price + Fee(price, quantity) > cash
      [] side = "SELL" -> quantity > position.quantity
      [] side = "SELL_SHORT" -> ~AllowShort \/ position.quantity > 0
      [] side = "BUY_BACK" -> quantity > -position.quantity

\* The part of an amount that goes with part of the position.
Share(amount, part, whole) == (amount * part) \div whole

Increase(delta, price, fee) ==
    /\ position' = [quantity |-> position.quantity + delta,
                    basis |-> position.basis + price * Abs(delta),
                    fees |-> position.fees + fee]
    /\ UNCHANGED netPnl

\* Mutant: the entry fees stay with the position.
DecreaseKeepingFees(delta, price, fee) ==
    LET old == Abs(position.quantity)
        closed == Abs(delta)
        cost == Share(position.basis, closed, old)
        gross == IF position.quantity > 0 THEN price * closed - cost
                 ELSE cost - price * closed
    IN  /\ netPnl' = netPnl + gross - fee
        /\ position' = IF closed = old THEN Flat
                       ELSE [quantity |-> position.quantity + delta,
                             basis |-> position.basis - cost,
                             fees |-> position.fees]

\* _decrease_position: the trade takes its share of the cost and of the entry fees.
Decrease(delta, price, fee) ==
    LET old == Abs(position.quantity)
        closed == Abs(delta)
        cost == Share(position.basis, closed, old)
        entryFee == Share(position.fees, closed, old)
        gross == IF position.quantity > 0 THEN price * closed - cost
                 ELSE cost - price * closed
    IN  /\ netPnl' = netPnl + gross - entryFee - fee
        /\ position' = IF closed = old THEN Flat
                       ELSE [quantity |-> position.quantity + delta,
                             basis |-> position.basis - cost,
                             fees |-> position.fees - entryFee]

\* Mutant: the fee of a sale is credited.
CashFlowCreditingFees(side, price, quantity) ==
    IF side \in Buys THEN -(quantity * price + Fee(price, quantity))
    ELSE quantity * price + Fee(price, quantity)

\* What a fill adds to the cash.
CashFlow(side, price, quantity) ==
    IF side \in Buys THEN -(quantity * price + Fee(price, quantity))
    ELSE quantity * price - Fee(price, quantity)

\* The account after `quantity' shares traded at `price' for order o.
Settle(o, side, price, quantity) ==
    LET fee == Fee(price, quantity)
        delta == IF side \in Buys THEN quantity ELSE -quantity
    IN  /\ cash' = cash + CashFlow(side, price, quantity)
        /\ totalFees' = totalFees + fee
        /\ IF position.quantity = 0 \/ (position.quantity > 0) = (delta > 0)
           THEN Increase(delta, price, fee)
           ELSE Decrease(delta, price, fee)
        /\ fills' = Append(fills, [order |-> o, index |-> index, day |-> day, side |-> side,
                                   price |-> price, quantity |-> quantity, fee |-> fee])

\* The order after `quantity' of its remaining shares traded.
Filled(ord, quantity) ==
    LET rest == Remaining(ord) - quantity
    IN  [ord EXCEPT !.filled = @ + quantity,
                    !.reserved = (@ * rest) \div Remaining(ord),
                    !.status = IF rest = 0 THEN "FILLED_ALL" ELSE "FILLED_PART"]

-----------------------------------------------------------------------------
(* process_bar *)

\* The next bar; the bars of initialize() and of the first process_bar are one.
OpenBar ==
    /\ \/ /\ phase = "initialize"
          /\ UNCHANGED market
       \/ /\ phase \in {"strategy", "warmup"}
          /\ index + 1 < MaxBars
          /\ index' = index + 1
          /\ bar' \in Bars
          /\ day' \in IF DailyBars THEN {day + 1} ELSE {day, day + 1}
    /\ phase' = "matching"
    /\ todo' = pending
    /\ deferred' = <<>>
    /\ UNCHANGED <<account, orders, pending>>

\* Only bars after the submission can trade an order.
Eligible(ord) == index > ord.index

\* Mutant: a DAY order survives its trading day.
ExpiredNever(ord) == FALSE

\* A DAY order lives until the end of its first active trading day.
Expired(ord) == ord.active # -1 /\ ord.tif = "DAY" /\ day # ord.active

\* The order once process_bar has noted its active date and shown it the bar.
Shown(ord) ==
    Observed([ord EXCEPT !.active = IF @ = -1 THEN day ELSE @], bar)

\* The bar offers a price and, in the volume models, shares.
Tradable(ord) == FillPrice(ord, bar) > 0 /\ HasCapacity(bar)

\* process_bar visits the pending orders in the order of their submission.
Visit(o) ==
    /\ phase = "matching"
    /\ o \in todo
    /\ \A p \in todo : o <= p
    /\ todo' = todo \ {o}

Remains(o) ==
    LET ord == orders[o]
    IN  /\ Visit(o)
        /\ \/ /\ ~Eligible(ord)
              /\ UNCHANGED orders
           \/ /\ Eligible(ord)
              /\ ~Expired(ord)
              /\ ~Tradable(Shown(ord))
              /\ orders' = [orders EXCEPT ![o] = Shown(ord)]
        /\ UNCHANGED <<account, market, phase, pending, deferred>>

Expire(o) ==
    LET ord == orders[o]
    IN  /\ Visit(o)
        /\ Eligible(ord)
        /\ Expired(ord)
        /\ orders' = [orders EXCEPT ![o].status = "DISABLED"]
        /\ pending' = pending \ {o}
        /\ UNCHANGED <<account, market, phase, deferred>>

\* Mutant: the opening leg of a reversal is also sent after a partial close.
DeferredOnAnyFill(o, ord) ==
    IF ord.followUp # NoFollowUp
    THEN Append(deferred, [side |-> ord.followUp.side, quantity |-> ord.followUp.quantity,
                           closes |-> o])
    ELSE deferred

\* The opening leg of a reversal is sent once the closing order has filled.
DeferredAfter(o, ord) ==
    IF ord.status = "FILLED_ALL" /\ ord.followUp # NoFollowUp
    THEN Append(deferred, [side |-> ord.followUp.side, quantity |-> ord.followUp.quantity,
                           closes |-> o])
    ELSE deferred

\* _execute.
Execute(o, ord, price, quantity) ==
    LET filled == Filled(ord, quantity)
    IN  /\ quantity > 0
        /\ ~Refused(ord.side, price, quantity)
        /\ Settle(o, ord.side, price, quantity)
        /\ orders' = [orders EXCEPT ![o] = filled]
        /\ pending' = IF filled.status = "FILLED_PART" THEN pending ELSE pending \ {o}
        /\ deferred' = DeferredAfter(o, filled)
        /\ UNCHANGED phase

\* _validate_position_change fails the order.
Reject(o, ord, price, quantity) ==
    /\ quantity > 0
    /\ Refused(ord.side, price, quantity)
    /\ orders' = [orders EXCEPT ![o] = [ord EXCEPT !.status = "FAILED"]]
    /\ pending' = pending \ {o}
    /\ UNCHANGED <<account, phase, deferred>>

\* An order without remaining shares: ExecutionDecision raises ValueError,
\* which nothing catches before the end of the backtest.
Abort(o, ord, quantity) ==
    /\ quantity = 0
    /\ phase' = "aborted"
    /\ orders' = [orders EXCEPT ![o] = ord]
    /\ UNCHANGED <<account, pending, deferred>>

\* The visited order trades as the execution model decides.
Trade(o) ==
    LET ord == Shown(orders[o])
        price == DecidedPrice(ord, bar, FillPrice(ord, bar))
        quantity == DecidedQuantity(Remaining(ord), bar)
    IN  /\ Visit(o)
        /\ Eligible(ord)
        /\ ~Expired(ord)
        /\ Tradable(ord)
        /\ \/ Execute(o, ord, price, quantity)
           \/ Reject(o, ord, price, quantity)
           \/ Abort(o, ord, quantity)
        /\ UNCHANGED market

EndMatching ==
    /\ phase = "matching"
    /\ todo = {}
    /\ phase' = "opening"
    /\ UNCHANGED <<account, book, market, todo>>

\* The opening leg of a reversal, at market from the next bar; a refused one is logged.
OpenFollowUp ==
    LET leg == Head(deferred)
        ticket == MarketTicket(leg.side)
    IN  /\ phase = "opening"
        /\ deferred # <<>>
        /\ deferred' = Tail(deferred)
        /\ IF Acceptable(ticket, leg.quantity)
           THEN /\ orders' = Append(orders, NewOrder(ticket, leg.quantity, NoFollowUp,
                                                     leg.closes))
                /\ pending' = pending \cup {Len(orders) + 1}
           ELSE UNCHANGED <<orders, pending>>
        /\ UNCHANGED <<account, market, phase, todo>>

\* handle_data runs, unless the bar belongs to the warm-up.
EndOpening ==
    /\ phase = "opening"
    /\ deferred = <<>>
    /\ phase' = IF index >= WarmupBars THEN "strategy" ELSE "warmup"
    /\ UNCHANGED <<account, book, market, todo>>

\* liquidate, after the last bar: everything is cancelled and the position is
\* closed at the close of that bar.
Liquidate ==
    LET side == IF position.quantity > 0 THEN "SELL" ELSE "BUY_BACK"
        quantity == Abs(position.quantity)
        price == Slipped(bar.close, side)
        closing == [NewOrder(MarketTicket(side), quantity, NoFollowUp, 0)
                        EXCEPT !.active = -1, !.reserved = 0]
    IN  /\ phase = "strategy"
        /\ index + 1 = MaxBars
        /\ phase' = "done"
        /\ pending' = {}
        /\ IF quantity = 0
           THEN /\ orders' = CancelledOrders(pending)
                /\ UNCHANGED account
           ELSE /\ orders' = Append(CancelledOrders(pending), Filled(closing, quantity))
                /\ Settle(Len(orders) + 1, side, price, quantity)
        /\ UNCHANGED <<market, todo, deferred>>

Next ==
    \/ \E ticket \in Tickets, quantity \in 1..MaxQuantity : Submit(ticket, quantity)
    \/ CancelSome
    \/ \E o \in pending, quantity \in 1..MaxQuantity, amendment \in Amendments :
          Modify(o, quantity, amendment)
    \/ Reverse
    \/ OpenBar
    \/ \E o \in todo : Remains(o) \/ Expire(o) \/ Trade(o)
    \/ EndMatching
    \/ OpenFollowUp
    \/ EndOpening
    \/ Liquidate

Spec == Init /\ [][Next]_vars

-----------------------------------------------------------------------------
(* Properties *)

SignedBasis == IF position.quantity < 0 THEN -position.basis ELSE position.basis

\* The books balance: what the account gained or lost in cash is the realised
\* result of its trades, less what is tied up in the open position and the
\* entry fees that position still carries (_increase_position,
\* _decrease_position, _execute).  In particular the trades of a flat account
\* explain its cash to the cent.
BooksBalance == cash = InitialCash + netPnl - SignedBasis - position.fees

SignedQuantity(f) == IF f.side \in Buys THEN f.quantity ELSE -f.quantity
FillsOf(o) == {i \in DOMAIN fills : fills[i].order = o}

\* The fills are the ledger: they alone explain the cash, the position, the
\* fees, and how much of each order is filled.
FillsExplainTheAccount ==
    LET fees == [i \in DOMAIN fills |-> fills[i].fee]
        traded == [i \in DOMAIN fills |-> fills[i].quantity]
        moved == [i \in DOMAIN fills |-> SignedQuantity(fills[i])]
        paid == [i \in DOMAIN fills |-> moved[i] * fills[i].price + fees[i]]
    IN  /\ cash = InitialCash - SumFunction(paid)
        /\ position.quantity = SumFunction(moved)
        /\ totalFees = SumFunction(fees)
        /\ \A o \in DOMAIN orders : orders[o].filled = SumFunctionOnSet(traded, FillsOf(o))

\* No share is promised twice: the shares pending SELL orders have still to sell
\* are in the long position, through partial fills, modifications and reversals
\* (submit, modify_order, max_sell_quantity).
PendingSellsAreCovered ==
    PendingSellQuantity <= Max({0, position.quantity})

\* So an accepted SELL order is never refused when it trades.
AcceptedSellsTrade ==
    \A o \in DOMAIN orders : orders[o].side = "SELL" => orders[o].status # "FAILED"

\* An order is in pending_orders exactly while its status is open, its status
\* says how much of it is filled, and it never trades more than it asks for.
StatusMatchesFills ==
    \A o \in DOMAIN orders :
        LET ord == orders[o]
        IN  /\ o \in pending <=> ord.status \in Open
            /\ ord.filled <= ord.quantity
            /\ ord.status \in {"SUBMITTED", "CANCELLED_ALL"} => ord.filled = 0
            /\ ord.status \in {"FILLED_PART", "CANCELLED_PART"} => ord.filled > 0
            /\ ord.status = "FILLED_ALL" => ord.filled = ord.quantity

\* An order trades only in bars after the one it was submitted in, and a DAY
\* order on one trading day only: that of its submission when the bars are
\* intraday.  The liquidation at the end of the test is the one exception.
FillsAreTimely ==
    \A i \in DOMAIN fills :
        LET f == fills[i]
            ord == orders[f.order]
        IN  \/ phase = "done" /\ i = Len(fills)
            \/ /\ f.index > ord.index
               /\ ord.tif = "DAY" =>
                    /\ ~DailyBars => f.day = ord.day
                    /\ \A k \in DOMAIN fills : fills[k].order = f.order => fills[k].day = f.day

\* A reversal opens the opposite position at most once, and only after the
\* closing order filled completely.
ReversalsOpenOnce ==
    /\ \A o \in DOMAIN orders :
          orders[o].closes # 0 => orders[orders[o].closes].status = "FILLED_ALL"
    /\ \A o, p \in DOMAIN orders :
          orders[o].closes # 0 /\ orders[o].closes = orders[p].closes => o = p

\* The buys that trade once a price is touched, and the limits and prices such an
\* order may be given.
Touching == {t \in Tickets : t.side \in Buys /\ t.type = "MARKET_IF_TOUCHED"}
Limits == {t.limit : t \in Touching} \cup {a.limit : a \in Amendments}
Stops == {t.stop : t \in Touching} \cup {a.stop : a \in Amendments}

\* When reservations are enough: buys are limited or if-touched, and what an
\* if-touched one is reserved at is not below the price that triggers it; orders
\* trade in one piece, and a sale is worth its fee.  Otherwise a market or stop
\* order may gap above its reservation, and each partial fill pays the minimum
\* commission again.
FundedTerms ==
    /\ ExecutionModel = "deterministic" /\ ~AllowShort
    /\ CommissionBps <= 10000 /\ SlippageBps <= 10000
    /\ \A b \in Bars : /\ b.low <= b.open /\ b.low <= b.close
                       /\ Slipped(b.low, "SELL") >= MinCommission
    /\ \A t \in Tickets : t.side \in Buys =>
          \/ t.type \in Limited \ Trailing /\ t.limit # 0
          \/ t \in Touching /\ t.stop # 0
    /\ \A limit \in Limits, stop \in Stops : limit # 0 => stop <= limit

\* The cash reserved for pending buys is there, and no buy fails for the lack of
\* it, in every instance of FundedTerms.
BuysAreFunded ==
    /\ ReservedBuyCash <= cash
    /\ \A o \in DOMAIN orders : orders[o].side = "BUY" => orders[o].status # "FAILED"

\* LIMIT and STOP_LIMIT orders never trade at a price worse than the limit they
\* have at that moment, whatever the gap, the slippage or the execution model.
LimitsAreHonoured ==
    [][\A i \in DOMAIN fills' \ DOMAIN fills :
          LET f == fills'[i]
              ord == orders'[f.order]
          IN  ord.type \in {"LIMIT", "STOP_LIMIT"} => AtOrBetter(f.side, f.price, ord.limit)
      ]_vars

\* An order that left the book never changes again.
FinishedOrdersAreFinal ==
    [][\A o \in DOMAIN orders \ pending : o \notin pending' /\ orders'[o] = orders[o]]_vars
====
