---- MODULE BrokerProofs ----
(***************************************************************************)
(* Theorems about Broker, for every set of bars and tickets and every       *)
(* length of the backtest: type correctness, the balance of the books, the  *)
(* agreement of order statuses with fills, the coverage of pending SELL     *)
(* orders, the finality of finished orders, the fills as the ledger of the  *)
(* account, their timeliness, reversals that open once, and the funds of    *)
(* pending buys.                                                            *)
(***************************************************************************)
EXTENDS Broker, SumTheorems, FiniteSetTheorems, TLAPS

-----------------------------------------------------------------------------
(* Arithmetic of the pricing operators *)

\* The larger of two integers.
LEMMA MaxOfTwo ==
    ASSUME NEW a \in Int, NEW b \in Int
    PROVE  Max({a, b}) = IF a >= b THEN a ELSE b
<1> DEFINE m == IF a >= b THEN a ELSE b
<1>1. m \in {a, b} /\ \A y \in {a, b} : m >= y
  OBVIOUS
<1>2. \A x \in {a, b} : (\A y \in {a, b} : x >= y) => x = m
  OBVIOUS
<1> QED
  BY <1>1, <1>2 DEF Max

\* The smaller of two integers.
LEMMA MinOfTwo ==
    ASSUME NEW a \in Int, NEW b \in Int
    PROVE  Min({a, b}) = IF a <= b THEN a ELSE b
<1> DEFINE m == IF a <= b THEN a ELSE b
<1>1. m \in {a, b} /\ \A y \in {a, b} : m =< y
  OBVIOUS
<1>2. \A x \in {a, b} : (\A y \in {a, b} : x =< y) => x = m
  OBVIOUS
<1> QED
  BY <1>1, <1>2 DEF Min

\* Fees are never negative.
LEMMA FeeType ==
    ASSUME NEW price \in Int, NEW quantity \in Int
    PROVE  Fee(price, quantity) \in Nat
<1> DEFINE share == (price * quantity * CommissionBps) \div 10000
<1>1. CommissionBps \in Nat /\ MinCommission \in Nat
  BY PricingAssumption
<1>2. price * quantity * CommissionBps \in Int
  BY <1>1
<1>3. share \in Int
  BY <1>2
<1>4. Fee(price, quantity) = IF MinCommission >= share THEN MinCommission ELSE share
  BY <1>1, <1>3, MaxOfTwo DEF Fee
<1> QED
  BY <1>1, <1>3, <1>4

LEMMA SlippedType ==
    ASSUME NEW price \in Int, NEW side
    PROVE  Slipped(price, side) \in Int
<1>1. SlippageBps \in Nat /\ FixedTick \in Nat
  BY PricingAssumption
<1>2. (price * SlippageBps) \div 10000 \in Int
  <2>1. price * SlippageBps \in Int
    BY <1>1
  <2> QED
    BY <2>1
<1> QED
  BY <1>1, <1>2 DEF Slipped

\* A limit price bounds the price it caps.
LEMMA CappedIsAtOrBetter ==
    ASSUME NEW side, NEW p \in Int, NEW limit \in Int
    PROVE  /\ Capped(side, p, limit) \in Int
           /\ AtOrBetter(side, Capped(side, p, limit), limit)
  BY DEF Capped, AtOrBetter

LEMMA BaseTypes ==
    ASSUME NEW side, NEW p \in Int, NEW b \in BarRecord
    PROVE  /\ LimitBase(side, p, b) \in Int
           /\ StopBase(side, p, b) \in Int
<1>1. b.open \in Int /\ b.high \in Int /\ b.low \in Int
  BY DEF BarRecord
<1>2. LimitBase(side, p, b) \in {b.open, p, 0}
  BY DEF LimitBase
<1>3. StopBase(side, p, b) \in {b.open, p, 0}
  BY DEF StopBase
<1> QED
  BY <1>1, <1>2, <1>3

LEMMA ReserveType ==
    ASSUME NEW side, NEW type, NEW limit \in Nat, NEW stop \in Nat, NEW mark \in Nat,
           NEW quantity \in Int
    PROVE  EstimatedReserve(side, type, limit, stop, mark, quantity) \in Int
<1> DEFINE reference == IF limit # 0 THEN limit ELSE IF stop # 0 THEN stop ELSE mark
           price == IF type = "LIMIT" THEN reference ELSE Slipped(reference, side)
<1>1. reference \in Int
  OBVIOUS
<1>2. price \in Int
  BY <1>1, SlippedType
<1>3. Fee(price, quantity) \in Int
  <2> HIDE DEF price
  <2>1. Fee(price, quantity) \in Nat
    BY <1>2, FeeType
  <2> QED
    BY <2>1
<1>4. quantity * price \in Int
  BY <1>2
<1> QED
  BY <1>3, <1>4 DEF EstimatedReserve

LEMMA ShareType ==
    ASSUME NEW amount \in Int, NEW part \in Int, NEW whole \in Int, whole > 0
    PROVE  Share(amount, part, whole) \in Int
<1>1. amount * part \in Int
  OBVIOUS
<1> QED
  BY <1>1 DEF Share

\* Closing the whole position takes the whole amount.
LEMMA WholeShare ==
    ASSUME NEW amount \in Int, NEW whole \in Int, whole > 0
    PROVE  Share(amount, whole, whole) = amount
<1> DEFINE q == (amount * whole) \div whole
<1>1. amount * whole \in Int
  OBVIOUS
<1>2. q \in Int /\ whole * q <= amount * whole /\ amount * whole < whole * q + whole
  BY <1>1
<1> QED
  BY <1>2 DEF Share

-----------------------------------------------------------------------------
(* Types of the records *)

LEMMA BarType == ASSUME TypeOK PROVE bar \in BarRecord
  BY BrokerAssumption DEF TypeOK

\* Showing a bar to an order changes its activation, trigger and water mark only.
LEMMA ShownFrame ==
    ASSUME NEW ord \in Order, TypeOK
    PROVE  /\ Shown(ord) \in Order
           /\ Shown(ord).filled = ord.filled /\ Shown(ord).quantity = ord.quantity
           /\ Shown(ord).side = ord.side /\ Shown(ord).status = ord.status
           /\ Shown(ord).reserved = ord.reserved
           /\ Shown(ord).followUp = ord.followUp
<1> DEFINE active == [ord EXCEPT !.active = IF @ = -1 THEN day ELSE @]
<1>1. bar \in BarRecord /\ day \in Nat
  BY BarType DEF TypeOK
<1>2. active \in Order
  BY <1>1 DEF Order
<1>3. WaterMark(active, bar) \in Nat
  <2> HIDE DEF active
  <2>1. active.reference \in Nat /\ bar.low \in Nat /\ bar.high \in Nat
    BY <1>1, <1>2 DEF Order, BarRecord
  <2>2. Min({active.reference, bar.low}) \in Nat
    BY <2>1, MinOfTwo
  <2>3. Max({active.reference, bar.high}) \in Nat
    BY <2>1, MaxOfTwo
  <2> QED
    BY <2>1, <2>2, <2>3 DEF WaterMark
<1>4. Observed(active, bar) \in Order
  <2> HIDE DEF active
  <2> QED
    BY <1>2, <1>3 DEF Observed, Order
<1> QED
  BY <1>4 DEF Shown, Observed, Order

LEMMA TrailingTypes ==
    ASSUME NEW ord \in Order
    PROVE  TrailingStop(ord) \in Int /\ TrailingLimit(ord) \in Int
<1>1. ord.reference \in Nat /\ ord.trail \in Nat /\ ord.spread \in Nat
  BY DEF Order
<1>2. (ord.reference * ord.trail) \div 100 \in Int
  <2>1. ord.reference * ord.trail \in Int
    BY <1>1
  <2> QED
    BY <2>1
<1>3. TrailingStop(ord) \in Int
  BY <1>1, <1>2 DEF TrailingStop
<1> QED
  BY <1>1, <1>3 DEF TrailingLimit

LEMMA FillPriceType ==
    ASSUME NEW ord \in Order, NEW b \in BarRecord
    PROVE  FillPrice(ord, b) \in Int
<1>1. ord.limit \in Int /\ ord.stop \in Int /\ b.open \in Int /\ ord.type \in OrderType
  BY DEF Order, BarRecord
<1>2. LimitPrice(ord, b) \in Int
  BY <1>1, BaseTypes, SlippedType, CappedIsAtOrBetter DEF LimitPrice
<1>3. CASE ord.type \in {"LIMIT", "STOP_LIMIT"}
  BY <1>2, <1>3 DEF FillPrice
<1>4. CASE ord.type \notin {"LIMIT", "STOP_LIMIT"}
  <2>1. BasePrice(ord, b) \in Int
    BY <1>1, <1>4, BaseTypes, TrailingTypes DEF BasePrice, OrderType
  <2> QED
    BY <2>1, <1>4, SlippedType DEF FillPrice
<1> QED
  BY <1>3, <1>4

LEMMA DecidedTypes ==
    ASSUME NEW ord \in Order, NEW b \in BarRecord, NEW p \in Int, NEW remaining \in Int
    PROVE  /\ DecidedPrice(ord, b, p) \in Int
           /\ DecidedQuantity(remaining, b) \in Int
           /\ DecidedQuantity(remaining, b) <= remaining
<1>1. ord.limit \in Int /\ b.close \in Int /\ b.high \in Int /\ b.low \in Int /\ b.capacity \in Int
  BY DEF Order, BarRecord
<1>2. Min({b.high, Max({p, b.close})}) \in Int
  BY <1>1, MaxOfTwo, MinOfTwo
<1>3. Max({b.low, Min({p, b.close})}) \in Int
  BY <1>1, MaxOfTwo, MinOfTwo
<1>4. DecidedPrice(ord, b, p) \in Int
  BY <1>1, <1>2, <1>3, CappedIsAtOrBetter DEF DecidedPrice
<1>5. Min({remaining, b.capacity}) = IF remaining <= b.capacity THEN remaining ELSE b.capacity
  BY <1>1, MinOfTwo
<1> QED
  BY <1>1, <1>4, <1>5 DEF DecidedQuantity

LEMMA NewOrderType ==
    ASSUME TypeOK, NEW ticket \in TicketRecord, NEW quantity \in Nat,
           NEW followUp \in FollowUp, NEW closes \in Nat
    PROVE  NewOrder(ticket, quantity, followUp, closes) \in Order
<1>1. bar.close \in Nat /\ index \in Nat /\ day \in Nat
  BY BarType DEF TypeOK, BarRecord
<1>2. ticket.limit \in Nat /\ ticket.stop \in Nat
  BY DEF TicketRecord
<1>3. EstimatedReserve(ticket.side, ticket.type, ticket.limit, ticket.stop,
                       bar.close, quantity) \in Int
  BY <1>1, <1>2, ReserveType
<1> QED
  BY <1>1, <1>3 DEF NewOrder, Order, TicketRecord, OrderStatus, Open

LEMMA MarketTicketType ==
    ASSUME NEW side \in OrderSide
    PROVE  MarketTicket(side) \in TicketRecord
  BY DEF MarketTicket, TicketRecord, OrderType

\* An execution adds its quantity to the filled part and nothing to the order.
LEMMA FilledFrame ==
    ASSUME NEW ord \in Order, NEW quantity \in Nat, quantity > 0, quantity <= Remaining(ord)
    PROVE  /\ Filled(ord, quantity) \in Order
           /\ Filled(ord, quantity).filled = ord.filled + quantity
           /\ Filled(ord, quantity).quantity = ord.quantity
           /\ Filled(ord, quantity).side = ord.side
           /\ Filled(ord, quantity).followUp = ord.followUp
           /\ Filled(ord, quantity).status =
                IF Remaining(ord) = quantity THEN "FILLED_ALL" ELSE "FILLED_PART"
<1>1. ord.filled \in Nat /\ ord.quantity \in Nat /\ ord.reserved \in Int
  BY DEF Order
<1>2. Remaining(ord) \in Int /\ Remaining(ord) > 0
  BY <1>1 DEF Remaining
<1>3. (ord.reserved * (Remaining(ord) - quantity)) \div Remaining(ord) \in Int
  <2>1. ord.reserved * (Remaining(ord) - quantity) \in Int
    BY <1>1, <1>2
  <2> QED
    BY <1>2, <2>1
<1> DEFINE rest == Remaining(ord) - quantity
           reserved == (ord.reserved * rest) \div Remaining(ord)
           status == IF rest = 0 THEN "FILLED_ALL" ELSE "FILLED_PART"
<1>4. Filled(ord, quantity) = [ord EXCEPT !.filled = ord.filled + quantity,
                                          !.reserved = reserved, !.status = status]
  BY DEF Filled
<1>5. reserved \in Int /\ status \in OrderStatus /\ ord.filled + quantity \in Nat
  BY <1>1, <1>3 DEF OrderStatus, Open
<1>6. rest = 0 <=> Remaining(ord) = quantity
  BY <1>2
<1> HIDE DEF reserved, rest, status
<1>7. /\ Filled(ord, quantity).filled = ord.filled + quantity
      /\ Filled(ord, quantity).quantity = ord.quantity
      /\ Filled(ord, quantity).side = ord.side
      /\ Filled(ord, quantity).followUp = ord.followUp
      /\ Filled(ord, quantity).status = status
  BY <1>4 DEF Order
<1>8. Filled(ord, quantity) \in Order
  BY <1>4, <1>5 DEF Order
<1> QED
  BY <1>6, <1>7, <1>8 DEF status

LEMMA CancelledFrame ==
    ASSUME orders \in Seq(Order), NEW set
    PROVE  /\ CancelledOrders(set) \in Seq(Order)
           /\ Len(CancelledOrders(set)) = Len(orders)
           /\ DOMAIN CancelledOrders(set) = DOMAIN orders
           /\ \A o \in DOMAIN orders :
                /\ o \notin set => CancelledOrders(set)[o] = orders[o]
                /\ o \in set => CancelledOrders(set)[o] =
                     [orders[o] EXCEPT !.status =
                        IF orders[o].filled > 0 THEN "CANCELLED_PART" ELSE "CANCELLED_ALL"]
<1>1. \A o \in DOMAIN orders : CancelledOrders(set)[o] \in Order
  <2> TAKE o \in DOMAIN orders
  <2>1. orders[o] \in Order
    OBVIOUS
  <2> QED
    BY <2>1 DEF CancelledOrders, Order, OrderStatus
<1>2. DOMAIN orders = 1..Len(orders) /\ Len(orders) \in Nat
  OBVIOUS
<1>3. CancelledOrders(set) \in [1..Len(orders) -> Order]
  BY <1>1, <1>2 DEF CancelledOrders
<1> QED
  BY <1>2, <1>3 DEF CancelledOrders

-----------------------------------------------------------------------------
(* Type correctness *)

LEMMA CashFlowType ==
    ASSUME NEW side, NEW price \in Int, NEW quantity \in Int
    PROVE  CashFlow(side, price, quantity) \in Int
<1>1. Fee(price, quantity) \in Nat
  BY FeeType
<1>2. quantity * price \in Int
  OBVIOUS
<1> QED
  BY <1>1, <1>2 DEF CashFlow

LEMMA SettleTypes ==
    ASSUME TypeOK, NEW o \in Nat, NEW side \in OrderSide, NEW price \in Int,
           NEW quantity \in Nat, quantity > 0, Settle(o, side, price, quantity)
    PROVE  /\ cash' \in Int /\ netPnl' \in Int /\ totalFees' \in Nat
           /\ position' \in [quantity : Int, basis : Int, fees : Int]
           /\ fills' \in Seq([order : Nat, index : Nat, day : Nat, side : OrderSide,
                              price : Int, quantity : Nat, fee : Nat])
<1> DEFINE fee == Fee(price, quantity)
           delta == IF side \in Buys THEN quantity ELSE -quantity
           fill == [order |-> o, index |-> index, day |-> day, side |-> side,
                    price |-> price, quantity |-> quantity, fee |-> fee]
<1>1. fee \in Nat
  BY FeeType
<1>2. delta \in Int /\ delta # 0
  OBVIOUS
<1>3. /\ cash \in Int /\ netPnl \in Int /\ totalFees \in Nat /\ index \in Nat /\ day \in Nat
      /\ position.quantity \in Int /\ position.basis \in Int /\ position.fees \in Int
      /\ fills \in Seq([order : Nat, index : Nat, day : Nat, side : OrderSide,
                        price : Int, quantity : Nat, fee : Nat])
  BY DEF TypeOK
<1>4. /\ cash' = cash + CashFlow(side, price, quantity)
      /\ totalFees' = totalFees + fee
      /\ fills' = Append(fills, fill)
  BY DEF Settle
<1>5. fill \in [order : Nat, index : Nat, day : Nat, side : OrderSide,
                price : Int, quantity : Nat, fee : Nat]
  BY <1>1, <1>3
<1>6. netPnl' \in Int /\ position' \in [quantity : Int, basis : Int, fees : Int]
  <2> HIDE DEF fee, delta
  <2>1. price * Abs(delta) \in Int /\ Abs(delta) \in Int
    <3>1. Abs(delta) \in Int
      BY <1>2 DEF Abs
    <3> QED
      BY <3>1
  <2>2. CASE Increase(delta, price, fee)
    <3> DEFINE cost == price * Abs(delta)
    <3>1. /\ position' = [quantity |-> position.quantity + delta,
                          basis |-> position.basis + cost, fees |-> position.fees + fee]
          /\ netPnl' = netPnl
      BY <2>2 DEF Increase
    <3>2. cost \in Int
      BY <2>1
    <3> HIDE DEF cost
    <3>3. position.quantity + delta \in Int /\ position.basis + cost \in Int
          /\ position.fees + fee \in Int
      BY ONLY <1>1, <1>2, <1>3, <3>2
    <3>4. position' \in [quantity : Int, basis : Int, fees : Int]
      BY ONLY <3>1, <3>3
    <3> QED
      BY <1>3, <3>1, <3>4
  <2>3. CASE position.quantity # 0 /\ Decrease(delta, price, fee)
    <3>1. Abs(position.quantity) \in Int /\ Abs(position.quantity) > 0
      <4>1. position.quantity \in Int /\ position.quantity # 0
        BY <1>3, <2>3
      <4> QED
        BY ONLY <4>1 DEF Abs
    <3>2. /\ Share(position.basis, Abs(delta), Abs(position.quantity)) \in Int
          /\ Share(position.fees, Abs(delta), Abs(position.quantity)) \in Int
      BY <1>3, <2>1, <3>1, ShareType
    <3> DEFINE cost == Share(position.basis, Abs(delta), Abs(position.quantity))
               entryFee == Share(position.fees, Abs(delta), Abs(position.quantity))
               proceeds == price * Abs(delta)
               gross == IF position.quantity > 0 THEN proceeds - cost ELSE cost - proceeds
    <3>3. /\ netPnl' = netPnl + gross - entryFee - fee
          /\ position' \in {Flat, [quantity |-> position.quantity + delta,
                                   basis |-> position.basis - cost,
                                   fees |-> position.fees - entryFee]}
      BY <2>3 DEF Decrease
    <3>4. cost \in Int /\ entryFee \in Int /\ proceeds \in Int
      BY <2>1, <3>2
    <3> HIDE DEF cost, entryFee, proceeds
    <3>5. gross \in Int
      BY <3>4
    <3> HIDE DEF gross
    <3>6. position.quantity + delta \in Int /\ position.basis - cost \in Int
          /\ position.fees - entryFee \in Int /\ netPnl + gross - entryFee - fee \in Int
      BY ONLY <1>1, <1>2, <1>3, <3>4, <3>5
    <3>7. Flat \in [quantity : Int, basis : Int, fees : Int]
      BY DEF Flat
    <3>8. position' \in [quantity : Int, basis : Int, fees : Int]
      BY ONLY <3>3, <3>6, <3>7
    <3> QED
      BY <3>3, <3>6, <3>8
  <2>4. Increase(delta, price, fee) \/ (position.quantity # 0 /\ Decrease(delta, price, fee))
    BY DEF Settle, fee, delta
  <2> QED
    BY <2>2, <2>3, <2>4
<1>7. cash' \in Int
  BY <1>3, <1>4, CashFlowType
<1>8. totalFees' \in Nat
  BY <1>1, <1>3, <1>4
<1> HIDE DEF fill
<1>9. fills' \in Seq([order : Nat, index : Nat, day : Nat, side : OrderSide,
                      price : Int, quantity : Nat, fee : Nat])
  BY <1>3, <1>4, <1>5
<1> QED
  BY <1>6, <1>7, <1>8, <1>9

\* A new order at the end of the book.
LEMMA AppendedOrder ==
    ASSUME NEW book1 \in Seq(Order), NEW ord \in Order
    PROVE  /\ Append(book1, ord) \in Seq(Order)
           /\ DOMAIN Append(book1, ord) = DOMAIN book1 \cup {Len(book1) + 1}
           /\ Len(book1) + 1 \notin DOMAIN book1
           /\ Append(book1, ord)[Len(book1) + 1] = ord
           /\ \A o \in DOMAIN book1 : Append(book1, ord)[o] = book1[o]
  OBVIOUS

LEMMA ReplacedOrder ==
    ASSUME orders \in Seq(Order), NEW o \in DOMAIN orders, NEW ord \in Order
    PROVE  /\ [orders EXCEPT ![o] = ord] \in Seq(Order)
           /\ DOMAIN [orders EXCEPT ![o] = ord] = DOMAIN orders
           /\ [orders EXCEPT ![o] = ord][o] = ord
           /\ \A p \in DOMAIN orders \ {o} : [orders EXCEPT ![o] = ord][p] = orders[p]
  OBVIOUS

LEMMA InitTypes == Init => TypeOK
  BY BrokerAssumption DEF Init, TypeOK, Phases, Flat

\* The order liquidate closes a position with.
LEMMA ClosingOrder ==
    ASSUME TypeOK, NEW side \in OrderSide, NEW quantity \in Nat
    PROVE  LET closing == [NewOrder(MarketTicket(side), quantity, NoFollowUp, 0)
                              EXCEPT !.active = -1, !.reserved = 0]
           IN  /\ closing \in Order /\ Remaining(closing) = quantity
               /\ closing.filled = 0 /\ closing.quantity = quantity /\ closing.side = side
<1> DEFINE new == NewOrder(MarketTicket(side), quantity, NoFollowUp, 0)
           closing == [new EXCEPT !.active = -1, !.reserved = 0]
<1>1. NoFollowUp \in FollowUp
  BY DEF NoFollowUp, FollowUp
<1>2. new \in Order
  BY <1>1, MarketTicketType, NewOrderType
<1>3. new.quantity = quantity /\ new.filled = 0 /\ new.side = side
  BY DEF NewOrder, MarketTicket
<1> HIDE DEF new
<1>4. closing \in Order
  <2>1. -1 \in Nat \cup {-1} /\ 0 \in Int
    OBVIOUS
  <2> QED
    BY <1>2, <2>1 DEF Order
<1>5. /\ Remaining(closing) = quantity
      /\ closing.filled = 0 /\ closing.quantity = quantity /\ closing.side = side
  BY <1>2, <1>3 DEF Order, Remaining
<1> QED
  BY <1>4, <1>5 DEF new

LEMMA StepTypes == TypeOK /\ [Next]_vars => TypeOK'
<1> SUFFICES ASSUME TypeOK, [Next]_vars
             PROVE  TypeOK'
  OBVIOUS
<1>0. orders \in Seq(Order) /\ DOMAIN orders = 1..Len(orders) /\ Len(orders) \in Nat
  BY DEF TypeOK
<1>1. ASSUME NEW ticket \in Tickets, NEW quantity \in 1..MaxQuantity, Submit(ticket, quantity)
      PROVE  TypeOK'
  <2> DEFINE new == NewOrder(ticket, quantity, NoFollowUp, 0)
  <2>1. ticket \in TicketRecord /\ quantity \in Nat /\ NoFollowUp \in FollowUp
    BY BrokerAssumption DEF NoFollowUp, FollowUp
  <2>2. new \in Order
    BY <2>1, NewOrderType
  <2>3. orders' = Append(orders, new) /\ pending' = pending \cup {Len(orders) + 1}
    BY <1>1 DEF Submit
  <2> HIDE DEF new
  <2>4. orders' \in Seq(Order) /\ pending' \subseteq DOMAIN orders' /\ todo \subseteq pending'
    BY <1>0, <2>2, <2>3, AppendedOrder DEF TypeOK
  <2> QED
    BY <1>1, <2>4 DEF Submit, TypeOK, account, market
<1>2. CASE CancelSome
  <2> PICK set : Cancel(set)
    BY <1>2 DEF CancelSome
  <2>1. todo = {}
    BY DEF Cancel, StrategyRuns, TypeOK
  <2>2. orders' \in Seq(Order) /\ DOMAIN orders' = DOMAIN orders /\ pending' \subseteq pending
    BY <1>0, CancelledFrame DEF Cancel
  <2> QED
    BY <2>1, <2>2 DEF Cancel, TypeOK, account, market
<1>3. ASSUME NEW o \in pending, NEW quantity \in 1..MaxQuantity, NEW amendment \in Amendments,
             Modify(o, quantity, amendment)
      PROVE  TypeOK'
  <2> DEFINE ord == orders[o]
             limit == Amended(ord.limit, amendment.limit)
             stop == Amended(ord.stop, amendment.stop)
             reserve == ModifiedReserve(ord, quantity, limit, stop)
             new == [ord EXCEPT !.quantity = quantity, !.limit = limit, !.stop = stop,
                                !.reserved = reserve,
                                !.trail = Amended(@, amendment.trail),
                                !.spread = Amended(@, amendment.spread)]
  <2>a. o \in DOMAIN orders
    BY <1>0 DEF TypeOK
  <2>b. quantity \in Nat
    BY BrokerAssumption
  <2>1. o \in DOMAIN orders /\ ord \in Order /\ quantity \in Nat
    BY ONLY <1>0, <2>a, <2>b
  <2>2. amendment \in [limit : Nat, stop : Nat, trail : Nat, spread : Nat]
    BY BrokerAssumption
  <2>3. limit \in Nat /\ stop \in Nat
    BY <2>1, <2>2 DEF Amended, Order
  <2>4. reserve \in Int
    <3> HIDE DEF ord, limit, stop
    <3>1. ord.filled \in Nat /\ ord.quantity \in Nat /\ ord.reserved \in Int
      BY <2>1 DEF Order
    <3>2. EstimatedReserve(ord.side, ord.type, limit, stop, 0, quantity - ord.filled) \in Int
      BY <2>1, <2>3, <3>1, ReserveType
    <3>3. ASSUME Remaining(ord) > 0
          PROVE  (ord.reserved * (quantity - ord.filled)) \div Remaining(ord) \in Int
      <4>1. ord.reserved * (quantity - ord.filled) \in Int /\ Remaining(ord) \in Int
        BY <2>1, <3>1 DEF Remaining
      <4> QED
        BY <3>3, <4>1
    <3> QED
      BY <3>1, <3>2, <3>3 DEF ModifiedReserve
  <2>5. new \in Order
    <3> HIDE DEF limit, stop, reserve, ord
    <3> QED
      BY <2>1, <2>2, <2>3, <2>4 DEF Order, Amended
  <2>6. orders' = [orders EXCEPT ![o] = new]
    BY <1>3 DEF Modify
  <2> HIDE DEF new
  <2>7. orders' \in Seq(Order) /\ DOMAIN orders' = DOMAIN orders
    BY <1>0, <2>1, <2>5, <2>6, ReplacedOrder
  <2> QED
    BY <1>3, <2>7 DEF Modify, TypeOK, account, market
<1>4. CASE Reverse
  <2>1. ASSUME orders' = CancelledOrders(pending), pending' = {}
        PROVE  orders' \in Seq(Order) /\ pending' \subseteq DOMAIN orders'
    BY <1>0, <2>1, CancelledFrame
  <2>2. ASSUME NEW closing \in TicketRecord, NEW quantity \in Nat, NEW followUp \in FollowUp,
               orders' = Append(CancelledOrders(pending), NewOrder(closing, quantity, followUp, 0)),
               pending' = {Len(orders) + 1}
        PROVE  orders' \in Seq(Order) /\ pending' \subseteq DOMAIN orders'
    BY <1>0, <2>2, CancelledFrame, NewOrderType, AppendedOrder
  <2> DEFINE long == position.quantity > 0
             quantity == Abs(position.quantity)
             closing == MarketTicket(IF long THEN "SELL" ELSE "BUY_BACK")
             followUp == [side |-> IF long THEN "SELL_SHORT" ELSE "BUY", quantity |-> quantity]
  <2>3. quantity \in Nat /\ closing \in TicketRecord /\ followUp \in FollowUp
    BY MarketTicketType DEF TypeOK, Abs, FollowUp, OrderSide
  <2>4. orders' \in Seq(Order) /\ pending' \subseteq DOMAIN orders'
    <3>1. \/ orders' = CancelledOrders(pending) /\ pending' = {}
          \/ /\ orders' = Append(CancelledOrders(pending), NewOrder(closing, quantity, followUp, 0))
             /\ pending' = {Len(orders) + 1}
      BY <1>4 DEF Reverse
    <3> HIDE DEF quantity, closing, followUp
    <3> QED
      BY <2>1, <2>2, <2>3, <3>1
  <2>5. todo = {}
    BY <1>4 DEF Reverse, StrategyRuns, TypeOK
  <2> QED
    BY <1>4, <2>4, <2>5 DEF Reverse, TypeOK, account, market
<1>5. CASE OpenBar
  <2>1. index' \in Nat /\ day' \in Nat /\ bar' \in Bars
    BY <1>5 DEF OpenBar, TypeOK, market
  <2> QED
    BY <1>5, <2>1 DEF OpenBar, TypeOK, account, Phases
<1>6. ASSUME NEW o \in todo, NEW ord \in Order, Visit(o), orders' = [orders EXCEPT ![o] = ord],
             pending' \in {pending, pending \ {o}}
      PROVE  /\ orders' \in Seq(Order) /\ pending' \subseteq DOMAIN orders' /\ todo' \subseteq pending'
  <2>1. o \in DOMAIN orders
    BY DEF TypeOK
  <2>2. orders' \in Seq(Order) /\ DOMAIN orders' = DOMAIN orders
    BY <1>0, <1>6, <2>1, ReplacedOrder
  <2> QED
    BY <1>6, <2>2 DEF Visit, TypeOK
<1>7. ASSUME NEW o \in todo, Remains(o)
      PROVE  TypeOK'
  <2>1. orders[o] \in Order
    BY <1>0 DEF TypeOK
  <2>2. CASE UNCHANGED orders
    BY <1>7, <2>2 DEF Remains, Visit, TypeOK, account, market
  <2>3. CASE orders' = [orders EXCEPT ![o] = Shown(orders[o])]
    <3>1. Shown(orders[o]) \in Order
      BY <2>1, ShownFrame
    <3>2. orders' \in Seq(Order) /\ pending' \subseteq DOMAIN orders' /\ todo' \subseteq pending'
      BY <1>6, <1>7, <2>3, <3>1 DEF Remains
    <3> QED
      BY <1>7, <3>2 DEF Remains, Visit, TypeOK, account, market
  <2> QED
    BY <1>7, <2>2, <2>3 DEF Remains
<1>8. ASSUME NEW o \in todo, Expire(o)
      PROVE  TypeOK'
  <2> DEFINE new == [orders[o] EXCEPT !.status = "DISABLED"]
  <2>1. orders[o] \in Order
    BY <1>0 DEF TypeOK
  <2>2. new \in Order
    BY <2>1 DEF Order, OrderStatus
  <2>3. orders' = [orders EXCEPT ![o] = new] /\ Visit(o) /\ pending' = pending \ {o}
    BY <1>8 DEF Expire
  <2> HIDE DEF new
  <2>4. orders' \in Seq(Order) /\ pending' \subseteq DOMAIN orders' /\ todo' \subseteq pending'
    BY <1>6, <2>2, <2>3
  <2> QED
    BY <1>8, <2>4 DEF Expire, Visit, TypeOK, account, market
<1>9. ASSUME NEW o \in todo, Trade(o)
      PROVE  TypeOK'
  <2> DEFINE ord == Shown(orders[o])
             price == DecidedPrice(ord, bar, FillPrice(ord, bar))
             quantity == DecidedQuantity(Remaining(ord), bar)
  <2>1. orders[o] \in Order /\ o \in DOMAIN orders /\ o \in Nat
    BY <1>0 DEF TypeOK
  <2>2. ord \in Order
    BY <2>1, ShownFrame
  <2> HIDE DEF ord
  <2>3. Remaining(ord) \in Int
    BY <2>2 DEF Remaining, Order
  <2>4. price \in Int /\ quantity \in Int /\ quantity <= Remaining(ord)
    BY <2>2, <2>3, BarType, FillPriceType, DecidedTypes
  <2>5. /\ Visit(o) /\ UNCHANGED market
        /\ Execute(o, ord, price, quantity) \/ Reject(o, ord, price, quantity)
           \/ Abort(o, ord, quantity)
    BY <1>9 DEF Trade, ord
  <2> HIDE DEF price, quantity
  <2>6. CASE Execute(o, ord, price, quantity)
    <3>1. quantity > 0 /\ quantity \in Nat /\ ord.side \in OrderSide
      BY <2>2, <2>4, <2>6 DEF Execute, Order
    <3>2. Filled(ord, quantity) \in Order /\ Filled(ord, quantity).followUp = ord.followUp
      BY <2>2, <2>4, <3>1, FilledFrame
    <3>3. orders' \in Seq(Order) /\ pending' \subseteq DOMAIN orders' /\ todo' \subseteq pending'
      BY <1>6, <2>5, <2>6, <3>2 DEF Execute
    <3>4. /\ cash' \in Int /\ netPnl' \in Int /\ totalFees' \in Nat
          /\ position' \in [quantity : Int, basis : Int, fees : Int]
          /\ fills' \in Seq([order : Nat, index : Nat, day : Nat, side : OrderSide,
                             price : Int, quantity : Nat, fee : Nat])
      BY <2>1, <2>4, <2>6, <3>1, SettleTypes DEF Execute
    <3>5. deferred' \in Seq([side : OrderSide, quantity : Nat, closes : Nat])
      <4> DEFINE Leg == [side : OrderSide, quantity : Nat, closes : Nat]
                 leg == [side |-> ord.followUp.side, quantity |-> ord.followUp.quantity,
                         closes |-> o]
      <4>1. ord.followUp \in FollowUp
        BY <2>2 DEF Order
      <4>2. deferred \in Seq(Leg)
        BY DEF TypeOK
      <4>3. deferred' = deferred \/ (ord.followUp # NoFollowUp /\ deferred' = Append(deferred, leg))
        BY <2>6, <3>2 DEF Execute, DeferredAfter
      <4>4. ord.followUp # NoFollowUp => leg \in Leg
        BY <2>1, <4>1 DEF FollowUp
      <4> HIDE DEF Leg, leg
      <4>5. deferred' \in Seq(Leg)
        BY <4>2, <4>3, <4>4
      <4> QED
        BY <4>5 DEF Leg
    <3> QED
      BY <2>5, <2>6, <3>3, <3>4, <3>5 DEF Execute, Visit, TypeOK, market
  <2>7. CASE Reject(o, ord, price, quantity)
    <3> DEFINE new == [ord EXCEPT !.status = "FAILED"]
    <3>1. new \in Order
      BY <2>2 DEF Order, OrderStatus
    <3>2. orders' = [orders EXCEPT ![o] = new] /\ pending' = pending \ {o}
      BY <2>7 DEF Reject
    <3> HIDE DEF new
    <3>3. orders' \in Seq(Order) /\ pending' \subseteq DOMAIN orders' /\ todo' \subseteq pending'
      BY <1>6, <2>5, <3>1, <3>2
    <3> QED
      BY <2>5, <2>7, <3>3 DEF Reject, Visit, TypeOK, account, market
  <2>8. CASE Abort(o, ord, quantity)
    <3>1. orders' \in Seq(Order) /\ pending' \subseteq DOMAIN orders' /\ todo' \subseteq pending'
      BY <1>6, <2>2, <2>5, <2>8 DEF Abort
    <3> QED
      BY <2>5, <2>8, <3>1 DEF Abort, Visit, TypeOK, account, market, Phases
  <2> QED
    BY <2>5, <2>6, <2>7, <2>8
<1>10. CASE EndMatching
  BY <1>10 DEF EndMatching, TypeOK, account, book, market, Phases
<1>11. CASE OpenFollowUp
  <2> DEFINE leg == Head(deferred)
             new == NewOrder(MarketTicket(leg.side), leg.quantity, NoFollowUp, leg.closes)
  <2> DEFINE Leg == [side : OrderSide, quantity : Nat, closes : Nat]
  <2>1. leg \in Leg /\ Tail(deferred) \in Seq(Leg)
    <3>1. deferred \in Seq(Leg) /\ deferred # <<>>
      BY <1>11 DEF OpenFollowUp, TypeOK
    <3> HIDE DEF Leg
    <3> QED
      BY <3>1
  <2>2. new \in Order
    <3> HIDE DEF leg
    <3>1. NoFollowUp \in FollowUp
      BY DEF NoFollowUp, FollowUp
    <3> QED
      BY <2>1, <3>1, MarketTicketType, NewOrderType
  <2>3. \/ orders' = Append(orders, new) /\ pending' = pending \cup {Len(orders) + 1}
        \/ UNCHANGED <<orders, pending>>
    BY <1>11 DEF OpenFollowUp
  <2> HIDE DEF new
  <2>4. orders' \in Seq(Order) /\ pending' \subseteq DOMAIN orders' /\ todo \subseteq pending'
    <3>1. pending \subseteq DOMAIN orders /\ todo \subseteq pending
      BY DEF TypeOK
    <3>2. CASE orders' = Append(orders, new) /\ pending' = pending \cup {Len(orders) + 1}
      BY <1>0, <2>2, <3>1, <3>2, AppendedOrder
    <3>3. CASE UNCHANGED <<orders, pending>>
      BY <1>0, <3>1, <3>3
    <3> QED
      BY <2>3, <3>2, <3>3
  <2> QED
    BY <1>11, <2>1, <2>4 DEF OpenFollowUp, TypeOK, account, market
<1>12. CASE EndOpening
  BY <1>12 DEF EndOpening, TypeOK, account, book, market, Phases
<1>13. CASE Liquidate
  <2> DEFINE side == IF position.quantity > 0 THEN "SELL" ELSE "BUY_BACK"
             quantity == Abs(position.quantity)
             price == Slipped(bar.close, side)
             closing == [NewOrder(MarketTicket(side), quantity, NoFollowUp, 0)
                            EXCEPT !.active = -1, !.reserved = 0]
  <2>1. quantity \in Nat /\ side \in OrderSide
    BY DEF TypeOK, Abs, OrderSide
  <2>2. price \in Int
    BY BarType, SlippedType DEF BarRecord
  <2>3. closing \in Order /\ Remaining(closing) = quantity
    <3> HIDE DEF quantity, side
    <3> QED
      BY <2>1, ClosingOrder
  <2>4. todo = {} /\ pending' = {} /\ phase' = "done"
    BY <1>13 DEF Liquidate, TypeOK
  <2>5. CASE quantity = 0
    <3>1. orders' \in Seq(Order)
      BY <1>0, <1>13, <2>5, CancelledFrame DEF Liquidate
    <3> QED
      BY <1>13, <2>4, <2>5, <3>1 DEF Liquidate, TypeOK, account, market, Phases
  <2>6. CASE quantity # 0
    <3>1. /\ orders' = Append(CancelledOrders(pending), Filled(closing, quantity))
          /\ Settle(Len(orders) + 1, side, price, quantity)
      BY <1>13, <2>6 DEF Liquidate
    <3> HIDE DEF closing, quantity, side, price
    <3>2. Filled(closing, quantity) \in Order
      BY <2>1, <2>3, <2>6, FilledFrame
    <3>3. orders' \in Seq(Order)
      BY <1>0, <3>1, <3>2, CancelledFrame, AppendedOrder
    <3>4. /\ cash' \in Int /\ netPnl' \in Int /\ totalFees' \in Nat
          /\ position' \in [quantity : Int, basis : Int, fees : Int]
          /\ fills' \in Seq([order : Nat, index : Nat, day : Nat, side : OrderSide,
                             price : Int, quantity : Nat, fee : Nat])
      <4>1. Len(orders) + 1 \in Nat /\ quantity > 0
        BY <1>0, <2>1, <2>6
      <4> QED
        BY <2>1, <2>2, <3>1, <4>1, SettleTypes
    <3>5. UNCHANGED <<market, todo, deferred>>
      BY <1>13 DEF Liquidate
    <3> QED
      BY <2>4, <3>3, <3>4, <3>5 DEF TypeOK, market, Phases
  <2> QED
    BY <2>5, <2>6
<1>14. CASE UNCHANGED vars
  BY <1>14 DEF vars, account, book, market, TypeOK
<1> QED
  BY <1>1, <1>2, <1>3, <1>4, <1>5, <1>7, <1>8, <1>9, <1>10, <1>11, <1>12, <1>13, <1>14 DEF Next

\* Every reachable state of a backtest is well typed.
THEOREM TypeCorrect == Spec => []TypeOK
<1>1. Init => TypeOK
  BY InitTypes
<1>2. TypeOK /\ [Next]_vars => TypeOK'
  BY StepTypes
<1> QED
  BY <1>1, <1>2, PTL DEF Spec

-----------------------------------------------------------------------------
(* Statuses, fills and the finality of finished orders *)

\* What StatusMatchesFills says of one order.
Consistent(ord) ==
    /\ ord.filled <= ord.quantity
    /\ ord.status \in {"SUBMITTED", "CANCELLED_ALL"} => ord.filled = 0
    /\ ord.status \in {"FILLED_PART", "CANCELLED_PART"} => ord.filled > 0
    /\ ord.status = "FILLED_ALL" => ord.filled = ord.quantity

\* An order fails only because the account refuses shares it has left to trade.
RefusedFor(old, new) ==
    /\ new.side = old.side
    /\ \E price \in Int, quantity \in Nat :
          quantity > 0 /\ quantity <= Remaining(old) /\ Refused(old.side, price, quantity)

\* What a step may do to the orders: nothing to those outside the book.
OrderStep ==
    /\ \A o \in DOMAIN orders :
          /\ o \in DOMAIN orders'
          /\ \/ orders'[o] = orders[o] /\ (o \in pending' <=> o \in pending)
             \/ /\ o \in pending
                /\ Consistent(orders'[o])
                /\ o \in pending' <=> orders'[o].status \in Open
                /\ orders'[o].status = "FAILED" => RefusedFor(orders[o], orders'[o])
    /\ \A o \in DOMAIN orders' \ DOMAIN orders :
          /\ Consistent(orders'[o])
          /\ o \in pending' <=> orders'[o].status \in Open
          /\ orders'[o].status # "FAILED"

LEMMA CancelStep ==
    ASSUME TypeOK, StatusMatchesFills, NEW set \in SUBSET pending
    PROVE  /\ Len(CancelledOrders(set)) = Len(orders)
           /\ DOMAIN CancelledOrders(set) = DOMAIN orders
           /\ \A o \in DOMAIN orders \ set : CancelledOrders(set)[o] = orders[o]
           /\ \A o \in set : /\ Consistent(CancelledOrders(set)[o])
                             /\ CancelledOrders(set)[o].status \notin Open \cup {"FAILED"}
<1>1. orders \in Seq(Order)
  BY DEF TypeOK
<1>2. ASSUME NEW o \in set
      PROVE  /\ Consistent(CancelledOrders(set)[o])
             /\ CancelledOrders(set)[o].status \notin Open \cup {"FAILED"}
  <2>1. o \in DOMAIN orders /\ orders[o] \in Order
    BY <1>1 DEF TypeOK
  <2>2. orders[o].filled <= orders[o].quantity /\ orders[o].filled \in Nat
    BY <2>1 DEF StatusMatchesFills, Order
  <2> DEFINE status == IF orders[o].filled > 0 THEN "CANCELLED_PART" ELSE "CANCELLED_ALL"
             new == [orders[o] EXCEPT !.status = status]
  <2>3. CancelledOrders(set)[o] = new
    BY <1>1, <2>1, CancelledFrame
  <2>4. new.filled = orders[o].filled /\ new.quantity = orders[o].quantity /\ new.status = status
    BY <2>1 DEF Order
  <2> QED
    BY <2>2, <2>3, <2>4 DEF Consistent, Open
<1> QED
  BY <1>1, <1>2, CancelledFrame

\* An order enters the book with nothing filled.
LEMMA SubmittedOrder ==
    ASSUME NEW ticket, NEW quantity \in Nat, NEW followUp, NEW closes
    PROVE  /\ Consistent(NewOrder(ticket, quantity, followUp, closes))
           /\ NewOrder(ticket, quantity, followUp, closes).status \in Open
  BY DEF NewOrder, Consistent, Open

LEMMA VisitedOrder ==
    ASSUME TypeOK, NEW o \in pending, NEW ord,
           orders' = [orders EXCEPT ![o] = ord], pending' \in {pending, pending \ {o}},
           Consistent(ord), o \in pending' <=> ord.status \in Open,
           ord.status = "FAILED" => RefusedFor(orders[o], ord)
    PROVE  OrderStep
<1>1. orders \in Seq(Order) /\ o \in DOMAIN orders
  BY DEF TypeOK
<1>2. DOMAIN orders' = DOMAIN orders /\ orders'[o] = ord
      /\ \A p \in DOMAIN orders \ {o} : orders'[p] = orders[p]
  BY <1>1
<1> QED
  BY <1>1, <1>2 DEF OrderStep

LEMMA OrderSteps ==
    ASSUME TypeOK, StatusMatchesFills, [Next]_vars
    PROVE  OrderStep
<1>0. /\ orders \in Seq(Order) /\ DOMAIN orders = 1..Len(orders) /\ Len(orders) \in Nat
      /\ pending \subseteq DOMAIN orders /\ todo \subseteq pending
      /\ \A o \in DOMAIN orders : Consistent(orders[o]) /\ (o \in pending <=> orders[o].status \in Open)
  BY DEF TypeOK, StatusMatchesFills, Consistent
<1>1. ASSUME NEW ord, orders' = Append(orders, ord), pending' = pending \cup {Len(orders) + 1},
             Consistent(ord), ord.status \in Open
      PROVE  OrderStep
  <2>1. /\ DOMAIN orders' = DOMAIN orders \cup {Len(orders) + 1}
        /\ Len(orders) + 1 \notin DOMAIN orders
        /\ orders'[Len(orders) + 1] = ord
        /\ \A o \in DOMAIN orders : orders'[o] = orders[o]
    BY <1>0, <1>1
  <2> QED
    BY <1>0, <1>1, <2>1 DEF OrderStep, Open
<1>2. ASSUME NEW ticket \in Tickets, NEW quantity \in 1..MaxQuantity, Submit(ticket, quantity)
      PROVE  OrderStep
  <2>1. quantity \in Nat
    BY BrokerAssumption
  <2> QED
    BY <1>1, <1>2, <2>1, SubmittedOrder DEF Submit
<1>3. CASE CancelSome
  <2> PICK set : Cancel(set)
    BY <1>3 DEF CancelSome
  <2> QED
    BY <1>0, CancelStep DEF Cancel, OrderStep
<1>4. ASSUME NEW o \in pending, NEW quantity \in 1..MaxQuantity, NEW amendment \in Amendments,
             Modify(o, quantity, amendment)
      PROVE  OrderStep
  <2> DEFINE ord == orders[o]
             limit == Amended(ord.limit, amendment.limit)
             stop == Amended(ord.stop, amendment.stop)
             reserve == ModifiedReserve(ord, quantity, limit, stop)
             new == [ord EXCEPT !.quantity = quantity, !.limit = limit, !.stop = stop,
                                !.reserved = reserve,
                                !.trail = Amended(@, amendment.trail),
                                !.spread = Amended(@, amendment.spread)]
  <2>1. ord \in Order /\ Consistent(ord) /\ ord.status \in Open
    BY <1>0
  <2>2. orders' = [orders EXCEPT ![o] = new] /\ pending' = pending /\ quantity >= ord.filled
    BY <1>4 DEF Modify
  <2>3. new.filled = ord.filled /\ new.status = ord.status /\ new.quantity = quantity
    <3> HIDE DEF ord, limit, stop, reserve
    <3> QED
      BY <2>1 DEF Order
  <2> HIDE DEF new
  <2>4. Consistent(new) /\ new.status \in Open
    BY <2>1, <2>2, <2>3 DEF Consistent, Open, Order
  <2> QED
    BY <2>2, <2>4, VisitedOrder DEF Open
<1>5. CASE Reverse
  <2>1. CASE orders' = CancelledOrders(pending) /\ pending' = {}
    BY <1>0, <2>1, CancelStep DEF OrderStep
  <2>2. ASSUME NEW ord, orders' = Append(CancelledOrders(pending), ord),
               pending' = {Len(orders) + 1}, Consistent(ord), ord.status \in Open
        PROVE  OrderStep
    <3>1. /\ CancelledOrders(pending) \in Seq(Order)
          /\ Len(CancelledOrders(pending)) = Len(orders)
      BY <1>0, CancelledFrame
    <3>2. /\ DOMAIN orders' = DOMAIN orders \cup {Len(orders) + 1}
          /\ orders'[Len(orders) + 1] = ord
          /\ \A o \in DOMAIN orders : orders'[o] = CancelledOrders(pending)[o]
      BY <1>0, <2>2, <3>1
    <3> QED
      BY <1>0, <2>2, <3>2, CancelStep DEF OrderStep, Open
  <2> DEFINE quantity == Abs(position.quantity)
  <2>3. quantity \in Nat
    BY DEF Abs, TypeOK
  <2>4. \/ orders' = CancelledOrders(pending) /\ pending' = {}
        \/ \E closing, followUp :
             /\ orders' = Append(CancelledOrders(pending), NewOrder(closing, quantity, followUp, 0))
             /\ pending' = {Len(orders) + 1}
    BY <1>5 DEF Reverse
  <2> QED
    BY <2>1, <2>2, <2>3, <2>4, SubmittedOrder
<1>6. CASE OpenBar
  BY <1>6 DEF OpenBar, OrderStep
<1>7. ASSUME NEW o \in todo, Remains(o)
      PROVE  OrderStep
  <2>1. o \in pending /\ o \in DOMAIN orders /\ orders[o] \in Order /\ pending' = pending
    BY <1>0, <1>7 DEF Remains
  <2>2. CASE UNCHANGED orders
    BY <2>1, <2>2 DEF OrderStep
  <2>3. CASE orders' = [orders EXCEPT ![o] = Shown(orders[o])]
    <3>1. Consistent(Shown(orders[o])) /\ Shown(orders[o]).status \in Open
      BY <1>0, <2>1, ShownFrame DEF Consistent
    <3> QED
      BY <2>1, <2>3, <3>1, VisitedOrder DEF Open
  <2> QED
    BY <1>7, <2>2, <2>3 DEF Remains
<1>8. ASSUME NEW o \in todo, Expire(o)
      PROVE  OrderStep
  <2> DEFINE new == [orders[o] EXCEPT !.status = "DISABLED"]
  <2>1. o \in pending /\ o \in DOMAIN orders /\ orders[o] \in Order /\ Consistent(orders[o])
    BY <1>0
  <2>2. orders' = [orders EXCEPT ![o] = new] /\ pending' = pending \ {o}
    BY <1>8 DEF Expire
  <2>3. Consistent(new) /\ new.status \notin Open \cup {"FAILED"}
    BY <2>1 DEF Consistent, Open, Order
  <2> HIDE DEF new
  <2> QED
    BY <2>1, <2>2, <2>3, VisitedOrder
<1>9. ASSUME NEW o \in todo, Trade(o)
      PROVE  OrderStep
  <2> DEFINE ord == Shown(orders[o])
             price == DecidedPrice(ord, bar, FillPrice(ord, bar))
             quantity == DecidedQuantity(Remaining(ord), bar)
  <2>1. o \in pending /\ o \in DOMAIN orders /\ orders[o] \in Order /\ Consistent(orders[o])
        /\ orders[o].status \in Open
    BY <1>0
  <2>2. ord \in Order /\ Consistent(ord) /\ ord.status \in Open
    BY <2>1, ShownFrame DEF Consistent
  <2> HIDE DEF ord
  <2>3. Remaining(ord) \in Int /\ ord.filled \in Nat /\ ord.quantity \in Nat
    BY <2>2 DEF Remaining, Order
  <2>4. price \in Int /\ quantity \in Int /\ quantity <= Remaining(ord)
    BY <2>2, <2>3, BarType, FillPriceType, DecidedTypes
  <2>5. Execute(o, ord, price, quantity) \/ Reject(o, ord, price, quantity)
           \/ Abort(o, ord, quantity)
    BY <1>9 DEF Trade, ord
  <2> HIDE DEF price, quantity
  <2>6. CASE Execute(o, ord, price, quantity)
    <3> DEFINE new == Filled(ord, quantity)
    <3>1. quantity > 0 /\ quantity \in Nat
      BY <2>4, <2>6 DEF Execute
    <3>2. /\ new.filled = ord.filled + quantity /\ new.quantity = ord.quantity
          /\ new.status = IF Remaining(ord) = quantity THEN "FILLED_ALL" ELSE "FILLED_PART"
      BY <2>2, <2>4, <3>1, FilledFrame
    <3>3. /\ orders' = [orders EXCEPT ![o] = new]
          /\ pending' = IF new.status = "FILLED_PART" THEN pending ELSE pending \ {o}
      BY <2>6 DEF Execute
    <3> HIDE DEF new
    <3>4. Consistent(new)
      BY <2>3, <2>4, <3>1, <3>2 DEF Consistent, Remaining
    <3>5. o \in pending' <=> new.status \in Open
      BY <2>1, <3>2, <3>3 DEF Open
    <3>6. new.status # "FAILED"
      BY <3>2
    <3> QED
      BY <2>1, <3>3, <3>4, <3>5, <3>6, VisitedOrder
  <2>7. CASE Reject(o, ord, price, quantity)
    <3> DEFINE new == [ord EXCEPT !.status = "FAILED"]
    <3>1. Consistent(new) /\ new.status \notin Open
      BY <2>2 DEF Consistent, Open, Order
    <3>2. orders' = [orders EXCEPT ![o] = new] /\ pending' = pending \ {o}
      BY <2>7 DEF Reject
    <3>3. RefusedFor(orders[o], new)
      <4>1. new.side = ord.side /\ ord.side = orders[o].side /\ Remaining(ord) = Remaining(orders[o])
        BY <2>1, <2>2, ShownFrame DEF ord, Order, Remaining
      <4>2. quantity \in Nat /\ quantity > 0 /\ Refused(ord.side, price, quantity)
        BY <2>4, <2>7 DEF Reject
      <4> HIDE DEF new
      <4> QED
        BY <2>4, <4>1, <4>2 DEF RefusedFor
    <3> HIDE DEF new
    <3> QED
      BY <2>1, <3>1, <3>2, <3>3, VisitedOrder
  <2>8. CASE Abort(o, ord, quantity)
    BY <2>1, <2>2, <2>8, VisitedOrder DEF Abort, Open
  <2> QED
    BY <2>5, <2>6, <2>7, <2>8
<1>10. CASE EndMatching \/ EndOpening
  BY <1>10 DEF EndMatching, EndOpening, book, OrderStep
<1>11. CASE OpenFollowUp
  <2> DEFINE Leg == [side : OrderSide, quantity : Nat, closes : Nat]
             leg == Head(deferred)
             new == NewOrder(MarketTicket(leg.side), leg.quantity, NoFollowUp, leg.closes)
  <2>1. deferred \in Seq(Leg) /\ deferred # <<>>
    BY <1>11 DEF OpenFollowUp, TypeOK
  <2>2. leg \in Leg
    <3> HIDE DEF Leg
    <3> QED
      BY <2>1
  <2>3. Consistent(new) /\ new.status \in Open
    BY <2>2, SubmittedOrder
  <2>4. \/ orders' = Append(orders, new) /\ pending' = pending \cup {Len(orders) + 1}
        \/ UNCHANGED <<orders, pending>>
    BY <1>11 DEF OpenFollowUp
  <2> HIDE DEF new
  <2>5. CASE UNCHANGED <<orders, pending>>
    BY <2>5 DEF OrderStep
  <2> QED
    BY <1>1, <2>3, <2>4, <2>5
<1>12. CASE Liquidate
  <2> DEFINE side == IF position.quantity > 0 THEN "SELL" ELSE "BUY_BACK"
             quantity == Abs(position.quantity)
             closing == [NewOrder(MarketTicket(side), quantity, NoFollowUp, 0)
                            EXCEPT !.active = -1, !.reserved = 0]
             new == Filled(closing, quantity)
  <2>1. quantity \in Nat
    BY DEF TypeOK, Abs
  <2>2. pending' = {}
    BY <1>12 DEF Liquidate
  <2>3. CASE quantity = 0
    <3>1. orders' = CancelledOrders(pending)
      BY <1>12, <2>3 DEF Liquidate
    <3> QED
      BY <1>0, <2>2, <3>1, CancelStep DEF OrderStep
  <2>4. CASE quantity # 0
    <3>1. orders' = Append(CancelledOrders(pending), new)
      BY <1>12, <2>4 DEF Liquidate
    <3>2. /\ closing \in Order /\ Remaining(closing) = quantity
          /\ closing.filled = 0 /\ closing.quantity = quantity
      <4>1. side \in OrderSide
        BY DEF OrderSide
      <4> HIDE DEF quantity, side
      <4> QED
        BY <2>1, <4>1, ClosingOrder
    <3>3. Consistent(new) /\ new.status \notin Open \cup {"FAILED"}
      <4> HIDE DEF closing, quantity
      <4> QED
        BY <2>1, <2>4, <3>2, FilledFrame DEF Consistent, Open
    <3> HIDE DEF new
    <3>4. /\ CancelledOrders(pending) \in Seq(Order)
          /\ Len(CancelledOrders(pending)) = Len(orders)
      BY <1>0, CancelledFrame
    <3>5. /\ DOMAIN orders' = DOMAIN orders \cup {Len(orders) + 1}
          /\ orders'[Len(orders) + 1] = new
          /\ \A o \in DOMAIN orders : orders'[o] = CancelledOrders(pending)[o]
      BY <1>0, <3>1, <3>4
    <3> QED
      BY <1>0, <2>2, <3>3, <3>5, CancelStep DEF OrderStep
  <2> QED
    BY <2>3, <2>4
<1>13. CASE UNCHANGED vars
  BY <1>13 DEF vars, book, OrderStep
<1> QED
  BY <1>2, <1>3, <1>4, <1>5, <1>6, <1>7, <1>8, <1>9, <1>10, <1>11, <1>12, <1>13 DEF Next

\* An order is pending exactly while its status is open, its status says how
\* much of it is filled, and it is never overfilled.
THEOREM StatusesMatchFills == Spec => []StatusMatchesFills
<1>1. Init => StatusMatchesFills
  BY DEF Init, StatusMatchesFills
<1>2. TypeOK /\ StatusMatchesFills /\ [Next]_vars => StatusMatchesFills'
  <2> SUFFICES ASSUME TypeOK, StatusMatchesFills, [Next]_vars, NEW o \in DOMAIN orders'
               PROVE  Consistent(orders'[o]) /\ (o \in pending' <=> orders'[o].status \in Open)
    BY DEF StatusMatchesFills, Consistent
  <2>1. OrderStep
    BY OrderSteps
  <2> QED
    BY <2>1 DEF OrderStep, StatusMatchesFills, Consistent
<1> QED
  BY <1>1, <1>2, TypeCorrect, PTL DEF Spec

\* An order that left the book never changes again: a cancellation, a
\* modification or a later bar does not reach it.
THEOREM FinishedOrdersStayFinal == Spec => FinishedOrdersAreFinal
<1>1. TypeOK /\ StatusMatchesFills /\ [Next]_vars =>
        [\A o \in DOMAIN orders \ pending : o \notin pending' /\ orders'[o] = orders[o]]_vars
  BY OrderSteps DEF OrderStep
<1> QED
  BY <1>1, TypeCorrect, StatusesMatchFills, PTL DEF Spec, FinishedOrdersAreFinal

-----------------------------------------------------------------------------
(* The balance of the books *)

\* A closed position carries neither cost nor fees: what makes BooksBalance
\* inductive, since the next position starts from them.
ClosedIsFlat == position.quantity = 0 => position.basis = 0 /\ position.fees = 0

\* A fill that does not turn the position around keeps the books balanced.
LEMMA SettleBalances ==
    ASSUME TypeOK, BooksBalance, ClosedIsFlat,
           NEW o \in Nat, NEW side \in OrderSide, NEW price \in Int,
           NEW quantity \in Nat, quantity > 0, Settle(o, side, price, quantity),
           side \notin Buys /\ position.quantity > 0 => quantity <= position.quantity,
           side \in Buys /\ position.quantity < 0 => quantity <= -position.quantity
    PROVE  BooksBalance' /\ ClosedIsFlat'
<1> DEFINE fee == Fee(price, quantity)
           delta == IF side \in Buys THEN quantity ELSE -quantity
           value == quantity * price
           q == position.quantity
<1>1. fee \in Nat /\ value \in Int /\ InitialCash \in Int
  BY FeeType, BrokerAssumption
<1>2. /\ cash \in Int /\ netPnl \in Int /\ q \in Int
      /\ position.basis \in Int /\ position.fees \in Int
  BY DEF TypeOK
<1>3. delta \in Int /\ Abs(delta) = quantity /\ (delta > 0 <=> side \in Buys)
  BY DEF Abs
<1>4. price * Abs(delta) = value
  BY <1>3
<1>5. cash' = IF side \in Buys THEN cash - value - fee ELSE cash + value - fee
  <2>1. cash' = cash + CashFlow(side, price, quantity)
    BY DEF Settle
  <2>2. CashFlow(side, price, quantity) = IF side \in Buys THEN -(value + fee) ELSE value - fee
    BY DEF CashFlow
  <2> HIDE DEF value, fee
  <2> QED
    BY <1>1, <1>2, <2>1, <2>2
<1>6. \/ (q = 0 \/ (q > 0) = (delta > 0)) /\ Increase(delta, price, fee)
      \/ q # 0 /\ (q > 0) # (delta > 0) /\ Decrease(delta, price, fee)
  BY DEF Settle
<1>7. cash = InitialCash + netPnl - (IF q < 0 THEN -position.basis ELSE position.basis)
             - position.fees
  BY DEF BooksBalance, SignedBasis
<1> SUFFICES /\ cash' = InitialCash + netPnl'
                        - (IF position'.quantity < 0 THEN -position'.basis ELSE position'.basis)
                        - position'.fees
             /\ position'.quantity = 0 => position'.basis = 0 /\ position'.fees = 0
  BY DEF BooksBalance, SignedBasis, ClosedIsFlat
<1> HIDE DEF value, fee
<1>8. CASE (q = 0 \/ (q > 0) = (delta > 0)) /\ Increase(delta, price, fee)
  <2>1. /\ position' = [quantity |-> q + delta, basis |-> position.basis + value,
                        fees |-> position.fees + fee]
        /\ netPnl' = netPnl
    BY <1>4, <1>8 DEF Increase
  <2>2. /\ position'.quantity = q + delta /\ position'.basis = position.basis + value
        /\ position'.fees = position.fees + fee
    BY <2>1
  <2>3. q = 0 => position.basis = 0 /\ position.fees = 0
    BY DEF ClosedIsFlat
  <2>4. CASE side \in Buys
    <3>1. q >= 0 /\ q + delta > 0
      BY <1>2, <1>3, <1>8, <2>4
    <3> QED
      BY <1>1, <1>2, <1>5, <1>7, <2>1, <2>2, <2>4, <3>1
  <2>5. CASE side \notin Buys
    <3>1. q <= 0 /\ q + delta < 0
      BY <1>2, <1>3, <1>8, <2>5
    <3> QED
      BY <1>1, <1>2, <1>5, <1>7, <2>1, <2>2, <2>3, <2>5, <3>1
  <2> QED
    BY <2>4, <2>5
<1>9. CASE q # 0 /\ (q > 0) # (delta > 0) /\ Decrease(delta, price, fee)
  <2> DEFINE cost == Share(position.basis, quantity, Abs(q))
             entryFee == Share(position.fees, quantity, Abs(q))
             gross == IF q > 0 THEN value - cost ELSE cost - value
  <2>1. Abs(q) \in Int /\ Abs(q) > 0 /\ quantity <= Abs(q)
        /\ Abs(q) = IF q > 0 THEN q ELSE -q
    BY <1>2, <1>3, <1>9 DEF Abs
  <2>2. cost \in Int /\ entryFee \in Int
    <3> DEFINE whole == Abs(q)
    <3>1. whole \in Int /\ whole > 0 /\ quantity \in Int
      BY <2>1
    <3> HIDE DEF whole
    <3>2. /\ Share(position.basis, quantity, whole) \in Int
          /\ Share(position.fees, quantity, whole) \in Int
      BY <1>2, <3>1, ShareType
    <3> QED
      BY <3>2 DEF whole
  <2>3. quantity = Abs(q) => cost = position.basis /\ entryFee = position.fees
    BY <1>2, <2>1, WholeShare
  <2>4. /\ netPnl' = netPnl + gross - entryFee - fee
        /\ position' = IF quantity = Abs(q) THEN Flat
                       ELSE [quantity |-> q + delta, basis |-> position.basis - cost,
                             fees |-> position.fees - entryFee]
    BY <1>3, <1>4, <1>9 DEF Decrease
  <2> HIDE DEF cost, entryFee
  <2>5. CASE quantity = Abs(q)
    <3>1. position'.quantity = 0 /\ position'.basis = 0 /\ position'.fees = 0
      BY <2>4, <2>5 DEF Flat
    <3> QED
      BY <1>1, <1>2, <1>3, <1>5, <1>7, <1>9, <2>2, <2>3, <2>4, <2>5, <3>1
  <2>6. CASE quantity < Abs(q)
    <3>1. /\ position'.quantity = q + delta /\ position'.basis = position.basis - cost
          /\ position'.fees = position.fees - entryFee
      BY <2>4, <2>6, <2>1
    <3>2. q + delta # 0 /\ (q + delta < 0 <=> q < 0)
      BY <1>2, <1>3, <1>9, <2>1, <2>6
    <3> QED
      BY <1>1, <1>2, <1>3, <1>5, <1>7, <1>9, <2>2, <2>4, <3>1, <3>2
  <2> QED
    BY <2>1, <2>5, <2>6
<1> QED
  BY <1>6, <1>8, <1>9

\* An order the broker does not refuse cannot turn the position around.
LEMMA AllowedFillsFit ==
    ASSUME TypeOK, NEW side \in OrderSide, NEW price \in Int, NEW quantity \in Nat,
           ~Refused(side, price, quantity)
    PROVE  /\ side \notin Buys /\ position.quantity > 0 => quantity <= position.quantity
           /\ side \in Buys /\ position.quantity < 0 => quantity <= -position.quantity
<1>1. position.quantity \in Int
  BY DEF TypeOK
<1>2. CASE side = "BUY"
  BY <1>1, <1>2 DEF Refused, Buys
<1>3. CASE side = "SELL"
  BY <1>1, <1>3 DEF Refused, Buys
<1>4. CASE side = "SELL_SHORT"
  BY <1>1, <1>4 DEF Refused, Buys
<1>5. CASE side = "BUY_BACK"
  BY <1>1, <1>5 DEF Refused, Buys
<1> QED
  BY <1>2, <1>3, <1>4, <1>5 DEF OrderSide

LEMMA StepBalances ==
    ASSUME TypeOK, BooksBalance, ClosedIsFlat, [Next]_vars
    PROVE  BooksBalance' /\ ClosedIsFlat'
<1>1. ASSUME UNCHANGED account
      PROVE  BooksBalance' /\ ClosedIsFlat'
  BY <1>1 DEF account, BooksBalance, SignedBasis, ClosedIsFlat
<1>2. ASSUME NEW o \in todo, Trade(o)
      PROVE  BooksBalance' /\ ClosedIsFlat'
  <2> DEFINE ord == Shown(orders[o])
             price == DecidedPrice(ord, bar, FillPrice(ord, bar))
             quantity == DecidedQuantity(Remaining(ord), bar)
  <2>1. orders[o] \in Order /\ o \in Nat
    BY DEF TypeOK
  <2>2. ord \in Order
    BY <2>1, ShownFrame
  <2> HIDE DEF ord
  <2>3. Remaining(ord) \in Int
    BY <2>2 DEF Remaining, Order
  <2>4. price \in Int /\ quantity \in Int
    BY <2>2, <2>3, BarType, FillPriceType, DecidedTypes
  <2>5. Execute(o, ord, price, quantity) \/ Reject(o, ord, price, quantity)
           \/ Abort(o, ord, quantity)
    BY <1>2 DEF Trade, ord
  <2> HIDE DEF price, quantity
  <2>6. CASE Execute(o, ord, price, quantity)
    <3>1. quantity > 0 /\ quantity \in Nat /\ ord.side \in OrderSide
      BY <2>2, <2>4, <2>6 DEF Execute, Order
    <3>2. Settle(o, ord.side, price, quantity) /\ ~Refused(ord.side, price, quantity)
      BY <2>6 DEF Execute
    <3> QED
      BY <2>1, <2>4, <3>1, <3>2, AllowedFillsFit, SettleBalances
  <2>7. CASE Reject(o, ord, price, quantity) \/ Abort(o, ord, quantity)
    BY <1>1, <2>7 DEF Reject, Abort
  <2> QED
    BY <2>5, <2>6, <2>7
<1>3. CASE Liquidate
  <2> DEFINE side == IF position.quantity > 0 THEN "SELL" ELSE "BUY_BACK"
             quantity == Abs(position.quantity)
             price == Slipped(bar.close, side)
  <2>1. position.quantity \in Int
    BY DEF TypeOK
  <2>2. quantity \in Nat /\ side \in OrderSide
    BY <2>1 DEF Abs, OrderSide
  <2>3. price \in Int
    BY BarType, SlippedType DEF BarRecord
  <2>4. CASE quantity = 0
    BY <1>1, <1>3, <2>4 DEF Liquidate
  <2>5. CASE quantity # 0
    <3>1. Settle(Len(orders) + 1, side, price, quantity)
      BY <1>3, <2>5 DEF Liquidate
    <3>2. Len(orders) + 1 \in Nat
      BY DEF TypeOK
    <3>3. /\ side \notin Buys /\ position.quantity > 0 => quantity <= position.quantity
          /\ side \in Buys /\ position.quantity < 0 => quantity <= -position.quantity
      BY <2>1 DEF Abs, Buys
    <3> HIDE DEF side, quantity, price
    <3> QED
      BY <2>2, <2>3, <2>5, <3>1, <3>2, <3>3, SettleBalances
  <2> QED
    BY <2>4, <2>5
<1>4. ASSUME \/ \E ticket \in Tickets, quantity \in 1..MaxQuantity : Submit(ticket, quantity)
             \/ CancelSome \/ Reverse \/ OpenBar \/ EndMatching \/ OpenFollowUp \/ EndOpening
             \/ \E o \in pending, quantity \in 1..MaxQuantity, amendment \in Amendments :
                   Modify(o, quantity, amendment)
             \/ \E o \in todo : Remains(o) \/ Expire(o)
             \/ UNCHANGED vars
      PROVE  UNCHANGED account
  BY <1>4 DEF Submit, CancelSome, Cancel, Reverse, OpenBar, EndMatching, OpenFollowUp,
              EndOpening, Modify, Remains, Expire, vars
<1> QED
  BY <1>1, <1>2, <1>3, <1>4 DEF Next

\* The cash is always the initial cash plus the realised results, less what the
\* open position ties up: no sequence of partial opens, partial closes, rejections
\* and liquidations creates or loses money.
THEOREM BooksAlwaysBalance == Spec => []BooksBalance
<1>1. Init => BooksBalance /\ ClosedIsFlat
  BY BrokerAssumption DEF Init, Flat, BooksBalance, SignedBasis, ClosedIsFlat
<1>2. TypeOK /\ BooksBalance /\ ClosedIsFlat /\ [Next]_vars => (BooksBalance /\ ClosedIsFlat)'
  BY StepBalances
<1> QED
  BY <1>1, <1>2, TypeCorrect, PTL DEF Spec

-----------------------------------------------------------------------------
(* The coverage of pending SELL orders *)

\* The shares one order has still to trade, and those of the SELL orders among some.
SharesOf(o, ord) == {o} \X ((ord.filled + 1)..ord.quantity)
SellShares(book1, set) == UNION {SharesOf(o, book1[o]) : o \in {p \in set : book1[p].side = "SELL"}}
SellSize(book1, set, o) ==
    IF o \in set /\ book1[o].side = "SELL" THEN book1[o].quantity - book1[o].filled ELSE 0

SameShares(b1, b2, set) ==
    \A p \in set : /\ b2[p].side = b1[p].side
                   /\ b2[p].filled = b1[p].filled
                   /\ b2[p].quantity = b1[p].quantity
NotOverfilled(book1, set, o) ==
    o \in set => /\ book1[o].filled \in Nat /\ book1[o].quantity \in Nat
                 /\ book1[o].filled <= book1[o].quantity

LEMMA SharesOfSize ==
    ASSUME NEW o, NEW ord, ord.filled \in Nat, ord.quantity \in Nat, ord.filled <= ord.quantity
    PROVE  /\ IsFiniteSet(SharesOf(o, ord))
           /\ Cardinality(SharesOf(o, ord)) = ord.quantity - ord.filled
<1> DEFINE I == (ord.filled + 1)..ord.quantity
<1>1. IsFiniteSet(I) /\ Cardinality(I) = ord.quantity - ord.filled
  <2> DEFINE first == ord.filled + 1
             last == ord.quantity
  <2>1. first \in Int /\ last \in Int
    OBVIOUS
  <2> HIDE DEF first, last
  <2>2. /\ IsFiniteSet(first..last)
        /\ Cardinality(first..last) = IF first > last THEN 0 ELSE last - first + 1
    BY <2>1, FS_Interval
  <2>3. Cardinality(first..last) = ord.quantity - ord.filled
    BY <2>2 DEF first, last
  <2> QED
    BY <2>2, <2>3 DEF first, last
<1>2. IsFiniteSet({o}) /\ Cardinality({o}) = 1
  BY FS_Singleton
<1> HIDE DEF I
<1>3. IsFiniteSet({o} \X I) /\ Cardinality({o} \X I) = Cardinality({o}) * Cardinality(I)
  BY <1>1, <1>2, FS_Product
<1> QED
  BY <1>1, <1>2, <1>3 DEF SharesOf, I

\* Part of a finite set is replaced.
LEMMA Exchanged ==
    ASSUME NEW S, IsFiniteSet(S), NEW A \in SUBSET S, NEW B, IsFiniteSet(B), B \cap (S \ A) = {}
    PROVE  /\ IsFiniteSet((S \ A) \cup B)
           /\ Cardinality((S \ A) \cup B) = Cardinality(S) - Cardinality(A) + Cardinality(B)
           /\ Cardinality(S) \in Nat /\ Cardinality(A) \in Nat /\ Cardinality(B) \in Nat
           /\ Cardinality(A) <= Cardinality(S)
<1>1. IsFiniteSet(A) /\ Cardinality(A) <= Cardinality(S)
  BY FS_Subset
<1>2. Cardinality(S) \in Nat /\ Cardinality(A) \in Nat /\ Cardinality(B) \in Nat
  BY <1>1, FS_CardinalityType
<1>3. S \cap A = A /\ (S \ A) \cap B = {}
  OBVIOUS
<1>4. IsFiniteSet(S \ A) /\ Cardinality(S \ A) = Cardinality(S) - Cardinality(A)
  BY <1>3, FS_Difference
<1>5. Cardinality({}) = 0
  BY FS_EmptySet
<1>6. /\ IsFiniteSet((S \ A) \cup B)
      /\ Cardinality((S \ A) \cup B) = Cardinality(S \ A) + Cardinality(B) - 0
  BY <1>3, <1>4, <1>5, FS_Union
<1> QED
  BY <1>1, <1>2, <1>4, <1>6

\* Only order o differs between two books: the shares to sell differ by its own.
LEMMA OneOrderDiffers ==
    ASSUME NEW b1, NEW set1, NEW b2, NEW set2, NEW o,
           IsFiniteSet(SellShares(b1, set1)),
           set1 \ {o} = set2 \ {o},
           SameShares(b1, b2, set1 \ {o}),
           NotOverfilled(b1, set1, o), NotOverfilled(b2, set2, o)
    PROVE  /\ IsFiniteSet(SellShares(b2, set2))
           /\ Cardinality(SellShares(b2, set2)) =
                Cardinality(SellShares(b1, set1)) - SellSize(b1, set1, o) + SellSize(b2, set2, o)
           /\ Cardinality(SellShares(b1, set1)) \in Nat
           /\ SellSize(b1, set1, o) \in Nat /\ SellSize(b2, set2, o) \in Nat
           /\ SellSize(b1, set1, o) <= Cardinality(SellShares(b1, set1))
<1> DEFINE S1 == SellShares(b1, set1)
           S2 == SellShares(b2, set2)
           A == IF o \in set1 /\ b1[o].side = "SELL" THEN SharesOf(o, b1[o]) ELSE {}
           B == IF o \in set2 /\ b2[o].side = "SELL" THEN SharesOf(o, b2[o]) ELSE {}
           Rest == SellShares(b1, set1 \ {o})
<1>1. S1 = Rest \cup A
  BY DEF SellShares
<1>2. S2 = Rest \cup B
  <2>1. \A p \in set1 \ {o} : SharesOf(p, b2[p]) = SharesOf(p, b1[p])
    BY DEF SharesOf, SameShares
  <2>2. SellShares(b2, set2 \ {o}) = Rest
    BY <2>1 DEF SellShares, SameShares
  <2>3. S2 = SellShares(b2, set2 \ {o}) \cup B
    BY DEF SellShares
  <2> QED
    BY <2>2, <2>3
<1>3. \A x \in Rest : x[1] # o
  BY DEF SellShares, SharesOf
<1>4. \A x \in A \cup B : x[1] = o
  BY DEF SharesOf
<1>5. IsFiniteSet(A) /\ Cardinality(A) = SellSize(b1, set1, o)
  BY SharesOfSize, FS_EmptySet DEF SellSize, NotOverfilled
<1>6. IsFiniteSet(B) /\ Cardinality(B) = SellSize(b2, set2, o)
  BY SharesOfSize, FS_EmptySet DEF SellSize, NotOverfilled
<1> HIDE DEF S1, S2, A, B, Rest
<1>7. A \in SUBSET S1 /\ B \cap (S1 \ A) = {} /\ S2 = (S1 \ A) \cup B
  BY <1>1, <1>2, <1>3, <1>4
<1>8. IsFiniteSet(S1)
  BY DEF S1
<1>9. /\ IsFiniteSet(S2) /\ Cardinality(S2) = Cardinality(S1) - Cardinality(A) + Cardinality(B)
      /\ Cardinality(S1) \in Nat /\ Cardinality(A) \in Nat /\ Cardinality(B) \in Nat
      /\ Cardinality(A) <= Cardinality(S1)
  BY <1>6, <1>7, <1>8, Exchanged
<1> QED
  BY <1>5, <1>6, <1>9 DEF S1, S2

\* Orders leave the book, the others keep what they have to sell.
LEMMA OrdersLeave ==
    ASSUME NEW b1, NEW set1, NEW b2, NEW set2 \in SUBSET set1,
           IsFiniteSet(SellShares(b1, set1)),
           SameShares(b1, b2, set2)
    PROVE  /\ IsFiniteSet(SellShares(b2, set2))
           /\ Cardinality(SellShares(b2, set2)) <= Cardinality(SellShares(b1, set1))
           /\ Cardinality(SellShares(b2, set2)) \in Nat /\ Cardinality(SellShares(b1, set1)) \in Nat
<1>1. \A p \in set2 : SharesOf(p, b2[p]) = SharesOf(p, b1[p])
  BY DEF SharesOf, SameShares
<1>2. SellShares(b2, set2) \in SUBSET SellShares(b1, set1)
  BY <1>1 DEF SellShares, SameShares
<1> QED
  BY <1>2, FS_Subset, FS_CardinalityType

\* The invariant behind the coverage of SELL orders; without the finiteness of
\* the shares their number would say nothing.
SellsCovered == IsFiniteSet(Shares(PendingOn({"SELL"}))) /\ PendingSellsAreCovered

LEMMA SellSharesNow ==
    /\ Shares(PendingOn({"SELL"})) = SellShares(orders, pending)
    /\ PendingSellQuantity = Cardinality(SellShares(orders, pending))
  BY DEF Shares, PendingOn, SellShares, SharesOf, PendingSellQuantity

LEMMA SellSharesNext ==
    /\ Shares(PendingOn({"SELL"}))' = SellShares(orders', pending')
    /\ PendingSellQuantity' = Cardinality(SellShares(orders', pending'))
  BY DEF Shares, PendingOn, SellShares, SharesOf, PendingSellQuantity

\* What a pending SELL order has left to sell is in the position.
LEMMA OneOrderIsCovered ==
    ASSUME TypeOK, StatusMatchesFills, SellsCovered, NEW o \in pending, orders[o].side = "SELL"
    PROVE  Remaining(orders[o]) > 0 => Remaining(orders[o]) <= position.quantity
<1>1. o \in DOMAIN orders /\ orders[o] \in Order
  BY DEF TypeOK
<1>2. orders[o].filled \in Nat /\ orders[o].quantity \in Nat /\ orders[o].filled <= orders[o].quantity
  BY <1>1 DEF StatusMatchesFills, Order
<1>3. IsFiniteSet(SellShares(orders, pending))
  BY SellSharesNow DEF SellsCovered
<1>4. SellSize(orders, pending, o) <= Cardinality(SellShares(orders, pending))
  <2>1. SameShares(orders, orders, pending \ {o}) /\ NotOverfilled(orders, pending, o)
    BY <1>2 DEF SameShares, NotOverfilled
  <2> QED
    BY <1>3, <2>1, OneOrderDiffers
<1>5. Cardinality(SellShares(orders, pending)) \in Nat
  BY <1>3, FS_CardinalityType
<1>6. position.quantity \in Int
  BY DEF TypeOK
<1>7. Cardinality(SellShares(orders, pending)) <=
        IF 0 >= position.quantity THEN 0 ELSE position.quantity
  BY <1>6, SellSharesNow, MaxOfTwo DEF SellsCovered, PendingSellsAreCovered
<1> QED
  BY <1>2, <1>4, <1>5, <1>6, <1>7 DEF SellSize, Remaining

\* The coverage follows from how the shares to sell and the position change.
LEMMA StillCovered ==
    ASSUME TypeOK, TypeOK', SellsCovered,
           IsFiniteSet(SellShares(orders', pending')),
           LET old == Cardinality(SellShares(orders, pending))
               new == Cardinality(SellShares(orders', pending'))
               before == position.quantity
               after == position'.quantity
           IN  \/ new <= old /\ after >= before
               \/ new <= after
               \/ new <= 0
    PROVE  SellsCovered'
<1>1. position.quantity \in Int /\ position'.quantity \in Int
  BY DEF TypeOK
<1>2. /\ Cardinality(SellShares(orders, pending)) \in Nat
      /\ Cardinality(SellShares(orders', pending')) \in Nat
  BY SellSharesNow, FS_CardinalityType DEF SellsCovered
<1>3. Cardinality(SellShares(orders, pending)) <=
        IF 0 >= position.quantity THEN 0 ELSE position.quantity
  BY <1>1, SellSharesNow, MaxOfTwo DEF SellsCovered, PendingSellsAreCovered
<1>4. Max({0, position.quantity})' = IF 0 >= position'.quantity THEN 0 ELSE position'.quantity
  BY <1>1, MaxOfTwo
<1>5. PendingSellQuantity' <= Max({0, position.quantity})'
  BY <1>1, <1>2, <1>3, <1>4, SellSharesNext
<1> QED
  BY <1>5, SellSharesNext DEF SellsCovered, PendingSellsAreCovered

\* What submit accepts to sell no other order is to sell.
LEMMA AcceptedIsCovered ==
    ASSUME TypeOK, SellsCovered, NEW ticket, NEW quantity \in Nat, Acceptable(ticket, quantity),
           ticket.side = "SELL"
    PROVE  LET old == Cardinality(SellShares(orders, pending))
           IN  quantity > 0 => old + quantity <= position.quantity
<1>1. position.quantity \in Int
  BY DEF TypeOK
<1>2. Cardinality(SellShares(orders, pending)) \in Nat
  BY SellSharesNow, FS_CardinalityType DEF SellsCovered
<1>3. MaxSellQuantity = LET rest == position.quantity - Cardinality(SellShares(orders, pending))
                        IN  IF 0 >= rest THEN 0 ELSE rest
  BY <1>1, <1>2, SellSharesNow, MaxOfTwo DEF MaxSellQuantity
<1> QED
  BY <1>1, <1>2, <1>3 DEF Acceptable

\* A step that touches at most order o.
LEMMA OneOrderChanges ==
    ASSUME SellsCovered, NEW o,
           pending \ {o} = pending' \ {o},
           SameShares(orders, orders', pending \ {o}),
           NotOverfilled(orders, pending, o), NotOverfilled(orders', pending', o)
    PROVE  /\ IsFiniteSet(SellShares(orders', pending'))
           /\ Cardinality(SellShares(orders', pending')) =
                Cardinality(SellShares(orders, pending)) - SellSize(orders, pending, o)
                + SellSize(orders', pending', o)
           /\ Cardinality(SellShares(orders, pending)) \in Nat
           /\ SellSize(orders, pending, o) \in Nat /\ SellSize(orders', pending', o) \in Nat
           /\ SellSize(orders, pending, o) <= Cardinality(SellShares(orders, pending))
<1> DEFINE b1 == orders
           set1 == pending
           b2 == orders'
           set2 == pending'
<1>1. IsFiniteSet(SellShares(b1, set1))
  BY SellSharesNow DEF SellsCovered
<1>2. /\ set1 \ {o} = set2 \ {o}
      /\ SameShares(b1, b2, set1 \ {o})
      /\ NotOverfilled(b1, set1, o) /\ NotOverfilled(b2, set2, o)
  OBVIOUS
<1> HIDE DEF b1, set1, b2, set2
<1>3. /\ IsFiniteSet(SellShares(b2, set2))
      /\ Cardinality(SellShares(b2, set2)) =
           Cardinality(SellShares(b1, set1)) - SellSize(b1, set1, o) + SellSize(b2, set2, o)
      /\ Cardinality(SellShares(b1, set1)) \in Nat
      /\ SellSize(b1, set1, o) \in Nat /\ SellSize(b2, set2, o) \in Nat
      /\ SellSize(b1, set1, o) <= Cardinality(SellShares(b1, set1))
  BY <1>1, <1>2, OneOrderDiffers
<1> QED
  BY <1>3 DEF b1, set1, b2, set2

LEMMA SubmitCovers ==
    ASSUME TypeOK, TypeOK', SellsCovered, NEW ticket, NEW quantity \in Nat, NEW closes,
           Acceptable(ticket, quantity),
           orders' = Append(orders, NewOrder(ticket, quantity, NoFollowUp, closes)),
           pending' = pending \cup {Len(orders) + 1},
           UNCHANGED position
    PROVE  SellsCovered'
<1> DEFINE new == NewOrder(ticket, quantity, NoFollowUp, closes)
           o == Len(orders) + 1
<1>1. orders \in Seq(Order) /\ pending \subseteq DOMAIN orders
  BY DEF TypeOK
<1>2. new.side = ticket.side /\ new.filled = 0 /\ new.quantity = quantity
  BY DEF NewOrder
<1> HIDE DEF new
<1>3. /\ o \notin pending /\ orders'[o] = new
      /\ \A p \in pending : orders'[p] = orders[p]
  BY <1>1 DEF new
<1>4. pending' = pending \cup {o}
  OBVIOUS
<1>5. IsFiniteSet(SellShares(orders, pending))
  BY SellSharesNow DEF SellsCovered
<1> HIDE DEF o
<1>6. /\ IsFiniteSet(SellShares(orders', pending'))
      /\ Cardinality(SellShares(orders', pending')) =
           Cardinality(SellShares(orders, pending)) - SellSize(orders, pending, o)
           + SellSize(orders', pending', o)
      /\ Cardinality(SellShares(orders, pending)) \in Nat
  <2>1. pending \ {o} = pending' \ {o}
    BY <1>3, <1>4
  <2>2. /\ orders'[o].filled \in Nat /\ orders'[o].quantity \in Nat
        /\ orders'[o].filled <= orders'[o].quantity
    BY <1>2, <1>3
  <2>3. \A p \in pending \ {o} : /\ orders'[p].side = orders[p].side
                                 /\ orders'[p].filled = orders[p].filled
                                 /\ orders'[p].quantity = orders[p].quantity
    BY <1>3
  <2> QED
    BY <1>3, <2>1, <2>2, <2>3, OneOrderChanges DEF SameShares, NotOverfilled
<1>7. /\ SellSize(orders, pending, o) = 0
      /\ SellSize(orders', pending', o) = IF ticket.side = "SELL" THEN quantity ELSE 0
  BY <1>2, <1>3, <1>4 DEF SellSize
<1>8. position.quantity \in Int
  BY DEF TypeOK
<1>9. CASE ticket.side = "SELL" /\ quantity > 0
  <2>1. Cardinality(SellShares(orders, pending)) + quantity <= position.quantity
    BY <1>9, AcceptedIsCovered
  <2>2. Cardinality(SellShares(orders', pending')) <= position'.quantity
    BY <1>6, <1>7, <1>8, <1>9, <2>1
  <2> QED
    BY <1>6, <2>2, StillCovered
<1>10. CASE ~(ticket.side = "SELL" /\ quantity > 0)
  <2>1. Cardinality(SellShares(orders', pending')) <= Cardinality(SellShares(orders, pending))
        /\ position'.quantity >= position.quantity
    BY <1>6, <1>7, <1>8, <1>10
  <2> QED
    BY <1>6, <2>1, StillCovered
<1> QED
  BY <1>9, <1>10

\* Orders that only leave the book, or only change in other respects.
LEMMA LeavingCovers ==
    ASSUME TypeOK, TypeOK', SellsCovered, UNCHANGED position, pending' \subseteq pending,
           SameShares(orders, orders', pending')
    PROVE  SellsCovered'
<1>1. IsFiniteSet(SellShares(orders, pending))
  BY SellSharesNow DEF SellsCovered
<1>2. /\ IsFiniteSet(SellShares(orders', pending'))
      /\ Cardinality(SellShares(orders', pending')) <= Cardinality(SellShares(orders, pending))
  BY <1>1, OrdersLeave
<1>3. position'.quantity >= position.quantity
  BY DEF TypeOK
<1> QED
  BY <1>2, <1>3, StillCovered

LEMMA ModifyCovers ==
    ASSUME TypeOK, TypeOK', StatusMatchesFills, SellsCovered, NEW o \in pending,
           NEW quantity \in 1..MaxQuantity, NEW amendment \in Amendments,
           Modify(o, quantity, amendment)
    PROVE  SellsCovered'
<1> DEFINE ord == orders[o]
           limit == Amended(ord.limit, amendment.limit)
           stop == Amended(ord.stop, amendment.stop)
           reserve == ModifiedReserve(ord, quantity, limit, stop)
           new == [ord EXCEPT !.quantity = quantity, !.limit = limit, !.stop = stop,
                              !.reserved = reserve,
                              !.trail = Amended(@, amendment.trail),
                              !.spread = Amended(@, amendment.spread)]
<1>1. orders \in Seq(Order) /\ o \in DOMAIN orders /\ ord \in Order /\ quantity \in Nat
  <2>1. orders \in Seq(Order) /\ o \in DOMAIN orders
    BY DEF TypeOK
  <2>2. quantity \in Nat
    BY BrokerAssumption
  <2> QED
    BY <2>1, <2>2
<1>2. /\ orders' = [orders EXCEPT ![o] = new] /\ pending' = pending
      /\ quantity >= ord.filled /\ Sellable(ord, quantity) /\ position' = position
  BY DEF Modify, account
<1>3. new.filled = ord.filled /\ new.side = ord.side /\ new.quantity = quantity
  <2> HIDE DEF ord, limit, stop, reserve
  <2> QED
    BY <1>1 DEF Order
<1> HIDE DEF new
<1>4. orders'[o] = new /\ \A p \in pending \ {o} : orders'[p] = orders[p]
  BY <1>1, <1>2 DEF TypeOK
<1>5. ord.filled \in Nat /\ ord.quantity \in Nat /\ ord.filled <= ord.quantity
  BY <1>1 DEF StatusMatchesFills, Order
<1>6. IsFiniteSet(SellShares(orders, pending))
  BY SellSharesNow DEF SellsCovered
<1>7. /\ IsFiniteSet(SellShares(orders', pending'))
      /\ Cardinality(SellShares(orders', pending')) =
           Cardinality(SellShares(orders, pending)) - SellSize(orders, pending, o)
           + SellSize(orders', pending', o)
      /\ Cardinality(SellShares(orders, pending)) \in Nat
  <2>1. /\ orders'[o].filled \in Nat /\ orders'[o].quantity \in Nat
        /\ orders'[o].filled <= orders'[o].quantity
    BY <1>1, <1>2, <1>3, <1>4, <1>5
  <2>2. \A p \in pending \ {o} : /\ orders'[p].side = orders[p].side
                                 /\ orders'[p].filled = orders[p].filled
                                 /\ orders'[p].quantity = orders[p].quantity
    BY <1>4
  <2>3. orders[o].filled \in Nat /\ orders[o].quantity \in Nat /\ orders[o].filled <= orders[o].quantity
    BY <1>5
  <2> HIDE DEF ord
  <2> QED
    BY <1>2, <2>1, <2>2, <2>3, OneOrderChanges DEF SameShares, NotOverfilled
<1>8. position.quantity \in Int /\ Cardinality(SellShares(orders, pending)) \in Nat
  BY <1>7 DEF TypeOK
<1>9. CASE ord.side # "SELL"
  <2>1. SellSize(orders, pending, o) = 0 /\ SellSize(orders', pending', o) = 0
    BY <1>3, <1>4, <1>9 DEF SellSize
  <2>2. Cardinality(SellShares(orders', pending')) <= Cardinality(SellShares(orders, pending))
        /\ position'.quantity >= position.quantity
    BY <1>2, <1>7, <1>8, <2>1
  <2> QED
    BY <1>7, <2>2, StillCovered
<1>10. CASE ord.side = "SELL"
  <2>1. /\ SellSize(orders, pending, o) = ord.quantity - ord.filled
        /\ SellSize(orders', pending', o) = quantity - ord.filled
    BY <1>2, <1>3, <1>4, <1>10 DEF SellSize
  <2>2. MaxSellQuantity = LET rest == position.quantity - Cardinality(SellShares(orders, pending))
                          IN  IF 0 >= rest THEN 0 ELSE rest
    BY <1>8, SellSharesNow, MaxOfTwo DEF MaxSellQuantity
  <2>3. quantity - ord.filled <= MaxSellQuantity + (ord.quantity - ord.filled)
    BY <1>2, <1>10 DEF Sellable, Remaining
  <2> DEFINE old == Cardinality(SellShares(orders, pending))
             next == Cardinality(SellShares(orders', pending'))
             q == position.quantity
             filled == ord.filled
             before == ord.quantity
  <2>4. /\ old \in Int /\ q \in Int /\ filled \in Int /\ before \in Int /\ quantity \in Int
        /\ position'.quantity = q
    BY <1>1, <1>2, <1>5, <1>8
  <2>5. next = old - (before - filled) + (quantity - filled)
    BY <1>7, <2>1
  <2>6. \/ 0 >= q - old /\ quantity - filled <= before - filled
        \/ 0 < q - old /\ quantity - filled <= (q - old) + (before - filled)
    <3> HIDE DEF old, q
    <3>1. MaxSellQuantity = IF 0 >= q - old THEN 0 ELSE q - old
      BY <2>2 DEF old, q
    <3> HIDE DEF filled, before
    <3>2. quantity - filled <= MaxSellQuantity + (before - filled)
      BY <2>3 DEF filled, before
    <3> QED
      BY <2>4, <3>1, <3>2
  <2> HIDE DEF old, next, q, filled, before
  <2>7. next <= old \/ next <= q
    BY <2>4, <2>5, <2>6
  <2>8. \/ /\ Cardinality(SellShares(orders', pending')) <= Cardinality(SellShares(orders, pending))
           /\ position'.quantity >= position.quantity
        \/ Cardinality(SellShares(orders', pending')) <= position'.quantity
    BY <2>4, <2>7 DEF old, next, q
  <2> QED
    BY <1>7, <2>8, StillCovered
<1> QED
  BY <1>9, <1>10

\* A fill moves the position by its quantity.
LEMMA SettlePosition ==
    ASSUME TypeOK, NEW o, NEW side \in OrderSide, NEW price \in Int, NEW quantity \in Nat,
           quantity > 0, Settle(o, side, price, quantity)
    PROVE  position'.quantity = position.quantity + (IF side \in Buys THEN quantity ELSE -quantity)
<1> DEFINE fee == Fee(price, quantity)
           delta == IF side \in Buys THEN quantity ELSE -quantity
           q == position.quantity
<1>1. q \in Int /\ delta \in Int /\ delta # 0
  BY DEF TypeOK
<1>2. \/ Increase(delta, price, fee)
      \/ q # 0 /\ (q > 0) # (delta > 0) /\ Decrease(delta, price, fee)
  BY DEF Settle
<1> HIDE DEF fee, delta
<1>3. CASE Increase(delta, price, fee)
  BY <1>3 DEF Increase, delta
<1>4. CASE q # 0 /\ (q > 0) # (delta > 0) /\ Decrease(delta, price, fee)
  <2>1. position'.quantity = IF Abs(delta) = Abs(q) THEN 0 ELSE q + delta
    BY <1>4 DEF Decrease, Flat
  <2>2. Abs(delta) = Abs(q) => q + delta = 0
    BY <1>1, <1>4 DEF Abs
  <2> QED
    BY <2>1, <2>2 DEF delta
<1> QED
  BY <1>2, <1>3, <1>4

\* A working order is in the book, with the fields of an order.
LEMMA PendingIsBooked ==
    ASSUME TypeOK, NEW o \in pending
    PROVE  orders \in Seq(Order) /\ o \in DOMAIN orders /\ orders[o] \in Order
<1>1. orders \in Seq(Order) /\ o \in DOMAIN orders
  BY DEF TypeOK
<1> QED
  BY <1>1

LEMMA ExecuteCovers ==
    ASSUME TypeOK, TypeOK', StatusMatchesFills, SellsCovered, NEW o \in pending,
           NEW ord \in Order, ord.side = orders[o].side, ord.filled = orders[o].filled,
           ord.quantity = orders[o].quantity,
           NEW price \in Int, NEW quantity \in Int, quantity <= Remaining(ord),
           Execute(o, ord, price, quantity)
    PROVE  SellsCovered'
<1> DEFINE new == Filled(ord, quantity)
           old == Cardinality(SellShares(orders, pending))
           next == Cardinality(SellShares(orders', pending'))
           q == position.quantity
<1>1. orders \in Seq(Order) /\ o \in DOMAIN orders /\ orders[o] \in Order
  BY PendingIsBooked
<1>2. /\ orders[o].filled \in Nat /\ orders[o].quantity \in Nat
      /\ orders[o].filled <= orders[o].quantity
      /\ Remaining(ord) = orders[o].quantity - orders[o].filled
      /\ ord.side \in OrderSide
  BY <1>1 DEF StatusMatchesFills, Order, Remaining
<1>3. quantity > 0 /\ quantity \in Nat /\ ~Refused(ord.side, price, quantity)
      /\ Settle(o, ord.side, price, quantity)
  BY DEF Execute
<1>4. /\ orders' = [orders EXCEPT ![o] = new]
      /\ pending' = IF new.status = "FILLED_PART" THEN pending ELSE pending \ {o}
  BY DEF Execute
<1>5. /\ new.filled = orders[o].filled + quantity /\ new.quantity = orders[o].quantity
      /\ new.side = orders[o].side
      /\ new.status = IF Remaining(ord) = quantity THEN "FILLED_ALL" ELSE "FILLED_PART"
  BY <1>3, FilledFrame
<1> HIDE DEF new
<1>6. orders'[o] = new /\ \A p \in pending \ {o} : orders'[p] = orders[p]
  BY <1>1, <1>4 DEF TypeOK
<1>7. /\ IsFiniteSet(SellShares(orders', pending'))
      /\ next = old - SellSize(orders, pending, o) + SellSize(orders', pending', o)
      /\ old \in Nat
  <2>1. SameShares(orders, orders', pending \ {o}) /\ pending \ {o} = pending' \ {o}
    BY <1>4, <1>6 DEF SameShares
  <2>2. NotOverfilled(orders, pending, o) /\ NotOverfilled(orders', pending', o)
    BY <1>2, <1>3, <1>5, <1>6 DEF NotOverfilled
  <2> QED
    BY <2>1, <2>2, OneOrderChanges
<1>8. q \in Int /\ position'.quantity = q + (IF ord.side \in Buys THEN quantity ELSE -quantity)
  BY <1>2, <1>3, SettlePosition DEF TypeOK
<1>9. CASE ord.side = "SELL"
  <2>1. SellSize(orders, pending, o) = Remaining(ord)
        /\ SellSize(orders', pending', o) = Remaining(ord) - quantity
    BY <1>2, <1>3, <1>4, <1>5, <1>6, <1>9 DEF SellSize
  <2>2. q > 0
    <3>1. Remaining(orders[o]) = Remaining(ord) /\ Remaining(orders[o]) \in Int
      BY <1>2 DEF Remaining
    <3>2. Remaining(orders[o]) > 0
      BY <1>3, <3>1
    <3>3. Remaining(orders[o]) <= position.quantity
      BY <1>9, <3>2, OneOrderIsCovered
    <3> QED
      BY <1>8, <3>1, <3>2, <3>3
  <2>3. old <= q
    BY <1>8, <2>2, SellSharesNow, MaxOfTwo DEF SellsCovered, PendingSellsAreCovered
  <2>4. position'.quantity = q - quantity
    BY <1>8, <1>9 DEF Buys
  <2> HIDE DEF old, next
  <2>5. next <= position'.quantity
    BY <1>2, <1>3, <1>7, <1>8, <2>1, <2>3, <2>4
  <2> QED
    BY <1>7, <2>5, StillCovered DEF next
<1>10. CASE ord.side # "SELL"
  <2>1. SellSize(orders, pending, o) = 0 /\ SellSize(orders', pending', o) = 0
    BY <1>5, <1>6, <1>10 DEF SellSize
  <2>2. next <= old /\ next = old
    BY <1>7, <2>1
  <2>3. CASE ord.side \in Buys
    <3>1. position'.quantity >= position.quantity
      BY <1>3, <1>8, <2>3
    <3> QED
      BY <1>7, <2>2, <3>1, StillCovered
  <2>4. CASE ord.side = "SELL_SHORT"
    <3>1. q <= 0
      BY <1>3, <1>8, <2>4 DEF Refused
    <3>2. old <= 0
      BY <1>8, <3>1, SellSharesNow, MaxOfTwo DEF SellsCovered, PendingSellsAreCovered
    <3>3. next <= 0
      BY <2>2, <3>2
    <3> QED
      BY <1>7, <3>3, StillCovered
  <2> QED
    BY <1>2, <1>10, <2>3, <2>4 DEF OrderSide, Buys
<1> QED
  BY <1>9, <1>10

LEMMA StepCovers ==
    ASSUME TypeOK, TypeOK', StatusMatchesFills, SellsCovered, [Next]_vars
    PROVE  SellsCovered'
<1>0. /\ orders \in Seq(Order) /\ DOMAIN orders = 1..Len(orders) /\ Len(orders) \in Nat
      /\ pending \subseteq DOMAIN orders /\ todo \subseteq pending
  BY DEF TypeOK
<1>1. ASSUME NEW ticket \in Tickets, NEW quantity \in 1..MaxQuantity, Submit(ticket, quantity)
      PROVE  SellsCovered'
  <2>1. quantity \in Nat
    BY BrokerAssumption
  <2>2. /\ Acceptable(ticket, quantity) /\ UNCHANGED position
        /\ orders' = Append(orders, NewOrder(ticket, quantity, NoFollowUp, 0))
        /\ pending' = pending \cup {Len(orders) + 1}
    BY <1>1 DEF Submit, account
  <2> QED
    BY <2>1, <2>2, SubmitCovers
<1>2. CASE CancelSome
  <2> PICK set : Cancel(set)
    BY <1>2 DEF CancelSome
  <2>1. pending' \subseteq pending /\ UNCHANGED position
    BY DEF Cancel, account
  <2>2. SameShares(orders, orders', pending')
    BY <1>0, CancelledFrame DEF Cancel, SameShares
  <2> QED
    BY <2>1, <2>2, LeavingCovers
<1>3. ASSUME NEW o \in pending, NEW quantity \in 1..MaxQuantity, NEW amendment \in Amendments,
             Modify(o, quantity, amendment)
      PROVE  SellsCovered'
  BY <1>3, ModifyCovers
<1>4. ASSUME pending' = {}
      PROVE  SellsCovered'
  <2>1. SellShares(orders', pending') = {}
    BY <1>4 DEF SellShares
  <2>2. IsFiniteSet(SellShares(orders', pending')) /\ Cardinality(SellShares(orders', pending')) <= 0
    BY <2>1, FS_EmptySet
  <2> QED
    BY <2>2, StillCovered
<1>5. CASE Reverse
  <2> DEFINE quantity == Abs(position.quantity)
             side == IF position.quantity > 0 THEN "SELL" ELSE "BUY_BACK"
             o == Len(orders) + 1
  <2>1. quantity \in Nat /\ position.quantity \in Int /\ UNCHANGED position
    BY <1>5 DEF Abs, TypeOK, Reverse, account
  <2>2. \/ pending' = {}
        \/ \E followUp :
             /\ orders' = Append(CancelledOrders(pending),
                                 NewOrder(MarketTicket(side), quantity, followUp, 0))
             /\ pending' = {o}
    BY <1>5 DEF Reverse
  <2>3. ASSUME NEW followUp, pending' = {o},
               orders' = Append(CancelledOrders(pending),
                                NewOrder(MarketTicket(side), quantity, followUp, 0))
        PROVE  SellsCovered'
    <3> DEFINE new == NewOrder(MarketTicket(side), quantity, followUp, 0)
    <3>1. new.side = side /\ new.filled = 0 /\ new.quantity = quantity
      BY DEF NewOrder, MarketTicket
    <3> HIDE DEF new
    <3>2. CancelledOrders(pending) \in Seq(Order) /\ Len(CancelledOrders(pending)) = Len(orders)
      BY <1>0, CancelledFrame
    <3>3. orders'[o] = new
      BY <1>0, <2>3, <3>2 DEF new
    <3>4. CASE position.quantity > 0
      <4>1. SellShares(orders', pending') = SharesOf(o, new)
        BY <2>3, <3>1, <3>3, <3>4 DEF SellShares
      <4>2. IsFiniteSet(SharesOf(o, new)) /\ Cardinality(SharesOf(o, new)) = quantity
        BY <2>1, <3>1, SharesOfSize
      <4>3. quantity = position'.quantity
        BY <2>1, <3>4 DEF Abs
      <4>4. Cardinality(SellShares(orders', pending')) <= position'.quantity
        BY <2>1, <4>1, <4>2, <4>3
      <4> QED
        BY <4>1, <4>2, <4>4, StillCovered
    <3>5. CASE ~(position.quantity > 0)
      <4>1. SellShares(orders', pending') = {}
        BY <2>3, <3>1, <3>3, <3>5 DEF SellShares
      <4>2. IsFiniteSet(SellShares(orders', pending'))
            /\ Cardinality(SellShares(orders', pending')) <= 0
        BY <4>1, FS_EmptySet
      <4> QED
        BY <4>2, StillCovered
    <3> QED
      BY <3>4, <3>5
  <2> QED
    BY <1>4, <2>2, <2>3
<1>6. ASSUME UNCHANGED <<orders, pending, position>>
      PROVE  SellsCovered'
  BY <1>6, LeavingCovers DEF SameShares
<1>7. CASE OpenBar \/ EndMatching \/ EndOpening \/ UNCHANGED vars
  BY <1>6, <1>7 DEF OpenBar, EndMatching, EndOpening, vars, account, book
<1>8. ASSUME NEW o \in todo, NEW ord, orders[o] \in Order,
             orders' = [orders EXCEPT ![o] = ord], pending' \in {pending, pending \ {o}},
             ord.side = orders[o].side, ord.filled = orders[o].filled,
             ord.quantity = orders[o].quantity, UNCHANGED position
      PROVE  SellsCovered'
  <2>1. SameShares(orders, orders', pending') /\ pending' \subseteq pending
    BY <1>0, <1>8 DEF SameShares
  <2> QED
    BY <1>8, <2>1, LeavingCovers
<1>9. ASSUME NEW o \in todo, Remains(o)
      PROVE  SellsCovered'
  <2>1. orders[o] \in Order /\ pending' = pending /\ UNCHANGED position
    BY <1>0, <1>9 DEF Remains, account
  <2>2. CASE UNCHANGED orders
    BY <1>6, <2>1, <2>2
  <2>3. CASE orders' = [orders EXCEPT ![o] = Shown(orders[o])]
    BY <1>8, <2>1, <2>3, ShownFrame
  <2> QED
    BY <1>9, <2>2, <2>3 DEF Remains
<1>10. ASSUME NEW o \in todo, Expire(o)
       PROVE  SellsCovered'
  <2> DEFINE new == [orders[o] EXCEPT !.status = "DISABLED"]
  <2>1. orders[o] \in Order /\ pending' = pending \ {o} /\ UNCHANGED position
        /\ orders' = [orders EXCEPT ![o] = new]
    BY <1>0, <1>10 DEF Expire, account
  <2>2. new.side = orders[o].side /\ new.filled = orders[o].filled /\ new.quantity = orders[o].quantity
    BY <2>1 DEF Order
  <2> HIDE DEF new
  <2> QED
    BY <1>8, <2>1, <2>2
<1>11. ASSUME NEW o \in todo, Trade(o)
       PROVE  SellsCovered'
  <2> DEFINE ord == Shown(orders[o])
             price == DecidedPrice(ord, bar, FillPrice(ord, bar))
             quantity == DecidedQuantity(Remaining(ord), bar)
  <2>1. o \in pending /\ orders[o] \in Order
    BY <1>0
  <2>2. /\ ord \in Order /\ ord.side = orders[o].side /\ ord.filled = orders[o].filled
        /\ ord.quantity = orders[o].quantity
    BY <2>1, ShownFrame
  <2> HIDE DEF ord
  <2>3. Remaining(ord) \in Int
    BY <2>2 DEF Remaining, Order
  <2>4. price \in Int /\ quantity \in Int /\ quantity <= Remaining(ord)
    BY <2>2, <2>3, BarType, FillPriceType, DecidedTypes
  <2>5. Execute(o, ord, price, quantity) \/ Reject(o, ord, price, quantity)
           \/ Abort(o, ord, quantity)
    BY <1>11 DEF Trade, ord
  <2> HIDE DEF price, quantity
  <2>6. CASE Execute(o, ord, price, quantity)
    BY <2>1, <2>2, <2>4, <2>6, ExecuteCovers
  <2>7. CASE Reject(o, ord, price, quantity)
    <3> DEFINE new == [ord EXCEPT !.status = "FAILED"]
    <3>1. orders' = [orders EXCEPT ![o] = new] /\ pending' = pending \ {o} /\ UNCHANGED position
      BY <2>7 DEF Reject, account
    <3>2. new.side = orders[o].side /\ new.filled = orders[o].filled
          /\ new.quantity = orders[o].quantity
      BY <2>2 DEF Order
    <3> HIDE DEF new
    <3> QED
      BY <1>8, <2>1, <3>1, <3>2
  <2>8. CASE Abort(o, ord, quantity)
    BY <1>8, <2>1, <2>2, <2>8 DEF Abort, account
  <2> QED
    BY <2>5, <2>6, <2>7, <2>8
<1>12. CASE OpenFollowUp
  <2> DEFINE Leg == [side : OrderSide, quantity : Nat, closes : Nat]
             leg == Head(deferred)
             ticket == MarketTicket(leg.side)
  <2>1. deferred \in Seq(Leg) /\ deferred # <<>> /\ UNCHANGED position
    BY <1>12 DEF OpenFollowUp, TypeOK, account
  <2>2. leg \in Leg
    <3> HIDE DEF Leg
    <3> QED
      BY <2>1
  <2>3. leg.quantity \in Nat
    BY <2>2
  <2>4. \/ /\ Acceptable(ticket, leg.quantity)
           /\ orders' = Append(orders, NewOrder(ticket, leg.quantity, NoFollowUp, leg.closes))
           /\ pending' = pending \cup {Len(orders) + 1}
        \/ UNCHANGED <<orders, pending>>
    BY <1>12 DEF OpenFollowUp
  <2> HIDE DEF ticket, leg
  <2> QED
    BY <1>6, <2>1, <2>3, <2>4, SubmitCovers
<1>13. CASE Liquidate
  BY <1>4, <1>13 DEF Liquidate
<1> QED
  BY <1>1, <1>2, <1>3, <1>5, <1>7, <1>9, <1>10, <1>11, <1>12, <1>13 DEF Next

\* The invariant behind the next two theorems.
THEOREM SellsAlwaysCovered == Spec => []SellsCovered
<1>1. Init => SellsCovered
  <2> SUFFICES ASSUME Init PROVE SellsCovered
    OBVIOUS
  <2>1. Shares(PendingOn({"SELL"})) = {}
    BY DEF Init, Shares, PendingOn
  <2>2. IsFiniteSet(Shares(PendingOn({"SELL"}))) /\ PendingSellQuantity = 0
    BY <2>1, FS_EmptySet DEF PendingSellQuantity
  <2>3. Max({0, position.quantity}) = 0
    BY MaxOfTwo DEF Init, Flat
  <2> QED
    BY <2>2, <2>3 DEF SellsCovered, PendingSellsAreCovered
<1>2. TypeOK /\ TypeOK' /\ StatusMatchesFills /\ SellsCovered /\ [Next]_vars => SellsCovered'
  BY StepCovers
<1> QED
  BY <1>1, <1>2, TypeCorrect, StatusesMatchFills, PTL DEF Spec

\* No share is promised twice, through partial fills, modifications and reversals.
THEOREM SellsNeverOversubscribed == Spec => []PendingSellsAreCovered
<1>1. SellsCovered => PendingSellsAreCovered
  BY DEF SellsCovered
<1> QED
  BY <1>1, SellsAlwaysCovered, PTL

\* An accepted SELL order is never refused when it trades.
THEOREM AcceptedSellsAlwaysTrade == Spec => []AcceptedSellsTrade
<1>1. Init => AcceptedSellsTrade
  BY DEF Init, AcceptedSellsTrade
<1>2. TypeOK /\ StatusMatchesFills /\ SellsCovered /\ AcceptedSellsTrade /\ [Next]_vars
        => AcceptedSellsTrade'
  <2> SUFFICES ASSUME TypeOK, StatusMatchesFills, SellsCovered, AcceptedSellsTrade, [Next]_vars,
                      NEW o \in DOMAIN orders', orders'[o].side = "SELL",
                      orders'[o].status = "FAILED"
               PROVE  FALSE
    BY DEF AcceptedSellsTrade
  <2>1. OrderStep
    BY OrderSteps
  <2>2. o \in DOMAIN orders /\ orders'[o] # orders[o]
    BY <2>1 DEF OrderStep, AcceptedSellsTrade
  <2>3. o \in pending /\ RefusedFor(orders[o], orders'[o])
    BY <2>1, <2>2 DEF OrderStep
  <2>4. orders[o].side = "SELL"
    BY <2>3 DEF RefusedFor
  <2>5. PICK price \in Int, quantity \in Nat :
           /\ quantity > 0 /\ quantity <= Remaining(orders[o])
           /\ Refused(orders[o].side, price, quantity)
    BY <2>3 DEF RefusedFor
  <2>6. Remaining(orders[o]) \in Int /\ position.quantity \in Int
    <3>1. orders[o] \in Order /\ position.quantity \in Int
      BY <2>2 DEF TypeOK
    <3> QED
      BY <3>1 DEF Order, Remaining
  <2>7. Remaining(orders[o]) <= position.quantity
    BY <2>3, <2>4, <2>5, <2>6, OneOrderIsCovered
  <2>8. quantity > position.quantity
    BY <2>4, <2>5 DEF Refused
  <2> QED
    BY <2>5, <2>6, <2>7, <2>8
<1> QED
  BY <1>1, <1>2, TypeCorrect, StatusesMatchFills, SellsAlwaysCovered, PTL DEF Spec

-----------------------------------------------------------------------------
(* Limits *)

\* The price a limit order is decided at, from a candidate a bar offers it.
LEMMA DecidedPriceIsAtLimit ==
    ASSUME NEW ord \in Order, NEW b \in BarRecord, ord.type \in {"LIMIT", "STOP_LIMIT"},
           FillPrice(ord, b) > 0
    PROVE  AtOrBetter(ord.side, DecidedPrice(ord, b, FillPrice(ord, b)), ord.limit)
<1> DEFINE base == LimitBase(ord.side, ord.limit, b)
           candidate == FillPrice(ord, b)
           high == Min({b.high, Max({candidate, b.close})})
           low == Max({b.low, Min({candidate, b.close})})
<1>1. ord.limit \in Int /\ ord.limit >= 0 /\ b.high \in Int /\ b.low \in Nat /\ b.low \in Int /\ b.close \in Int
  BY DEF Order, BarRecord
<1>2. candidate \in Int /\ base \in Int /\ Slipped(base, ord.side) \in Int
  BY <1>1, FillPriceType, BaseTypes, SlippedType
<1>3. candidate = Capped(ord.side, Slipped(base, ord.side), ord.limit)
  BY DEF FillPrice, LimitPrice
<1>4. AtOrBetter(ord.side, candidate, ord.limit)
  <2> HIDE DEF candidate, base
  <2> QED
    BY <1>1, <1>2, <1>3, CappedIsAtOrBetter
<1>5. high \in Int /\ low \in Int /\ low >= b.low
  <2> HIDE DEF candidate
  <2>1. Max({candidate, b.close}) \in Int /\ Min({candidate, b.close}) \in Int
    BY <1>1, <1>2, MaxOfTwo, MinOfTwo
  <2>2. high = IF b.high <= Max({candidate, b.close}) THEN b.high ELSE Max({candidate, b.close})
    BY <1>1, <2>1, MinOfTwo
  <2>3. low = IF b.low >= Min({candidate, b.close}) THEN b.low ELSE Min({candidate, b.close})
    BY <1>1, <2>1, MaxOfTwo
  <2> HIDE DEF high, low
  <2> QED
    BY <1>1, <2>1, <2>2, <2>3
<1>6. CASE ExecutionModel # "conservative"
  BY <1>4, <1>6 DEF DecidedPrice
<1>7. CASE ExecutionModel = "conservative" /\ ord.limit # 0
  <2> DEFINE adverse == IF ord.side \in Buys THEN high ELSE low
  <2>1. DecidedPrice(ord, b, candidate) = Capped(ord.side, adverse, ord.limit)
    BY <1>7 DEF DecidedPrice, Limited
  <2>2. adverse \in Int
    BY <1>5
  <2> HIDE DEF adverse
  <2> QED
    BY <1>1, <2>1, <2>2, CappedIsAtOrBetter
<1>8. CASE ExecutionModel = "conservative" /\ ord.limit = 0
  <2>1. ord.side \notin Buys
    <3> HIDE DEF candidate, base
    <3> SUFFICES ASSUME ord.side \in Buys PROVE FALSE
      OBVIOUS
    <3>1. candidate <= 0
      BY <1>4, <1>8 DEF AtOrBetter
    <3> QED
      BY <1>2, <3>1 DEF candidate
  <2>2. DecidedPrice(ord, b, candidate) = low
    BY <1>8, <2>1 DEF DecidedPrice
  <2> HIDE DEF low
  <2> QED
    BY <1>1, <1>5, <1>8, <2>1, <2>2 DEF AtOrBetter
<1> QED
  BY <1>6, <1>7, <1>8

\* LIMIT and STOP_LIMIT orders never trade at a price worse than their limit,
\* whatever the bar, the slippage and the execution model.
THEOREM LimitsAlwaysHonoured == Spec => LimitsAreHonoured
<1> DEFINE Honoured == \A i \in DOMAIN fills' \ DOMAIN fills :
              LET f == fills'[i]
                  ord == orders'[f.order]
              IN  ord.type \in {"LIMIT", "STOP_LIMIT"} => AtOrBetter(f.side, f.price, ord.limit)
<1>1. TypeOK /\ [Next]_vars => [Honoured]_vars
  <2> SUFFICES ASSUME TypeOK, Next PROVE Honoured
    OBVIOUS
  <2>1. ASSUME UNCHANGED account PROVE Honoured
    BY <2>1 DEF account
  <2>2. ASSUME NEW o, NEW side, NEW price, NEW quantity, Settle(o, side, price, quantity),
               orders'[o].type \in {"LIMIT", "STOP_LIMIT"}
                 => AtOrBetter(side, price, orders'[o].limit)
        PROVE  Honoured
    <3> DEFINE fill == [order |-> o, index |-> index, day |-> day, side |-> side,
                        price |-> price, quantity |-> quantity, fee |-> Fee(price, quantity)]
    <3>1. fills' = Append(fills, fill)
      BY <2>2 DEF Settle
    <3>2. fill.order = o /\ fill.side = side /\ fill.price = price
      OBVIOUS
    <3> HIDE DEF fill
    <3>3. \A i \in DOMAIN fills' \ DOMAIN fills : fills'[i] = fill
      BY <3>1 DEF TypeOK
    <3> QED
      BY <2>2, <3>2, <3>3
  <2>3. ASSUME NEW o \in todo, Trade(o)
        PROVE  Honoured
    <3> DEFINE ord == Shown(orders[o])
               price == DecidedPrice(ord, bar, FillPrice(ord, bar))
               quantity == DecidedQuantity(Remaining(ord), bar)
    <3>1. orders[o] \in Order /\ o \in DOMAIN orders
      BY DEF TypeOK
    <3>2. ord \in Order /\ bar \in BarRecord
      BY <3>1, ShownFrame, BarType
    <3>3. FillPrice(ord, bar) > 0
      BY <2>3 DEF Trade, Tradable
    <3> HIDE DEF ord
    <3>4. ord.type \in {"LIMIT", "STOP_LIMIT"} => AtOrBetter(ord.side, price, ord.limit)
      BY <3>2, <3>3, DecidedPriceIsAtLimit
    <3>5. Execute(o, ord, price, quantity) \/ UNCHANGED account
      BY <2>3 DEF Trade, Reject, Abort, ord
    <3>6. CASE Execute(o, ord, price, quantity)
      <4> HIDE DEF price, quantity
      <4>1. /\ orders' = [orders EXCEPT ![o] = Filled(ord, quantity)]
            /\ Settle(o, ord.side, price, quantity)
        BY <3>6 DEF Execute
      <4>2. Filled(ord, quantity).type = ord.type /\ Filled(ord, quantity).limit = ord.limit
        BY <3>2 DEF Filled, Order
      <4>3. orders'[o] = Filled(ord, quantity)
        BY <3>1, <4>1 DEF TypeOK
      <4> QED
        BY <2>2, <3>4, <4>1, <4>2, <4>3
    <3> QED
      BY <2>1, <3>5, <3>6
  <2>4. CASE Liquidate
    <3> DEFINE side == IF position.quantity > 0 THEN "SELL" ELSE "BUY_BACK"
               quantity == Abs(position.quantity)
               price == Slipped(bar.close, side)
               closing == [NewOrder(MarketTicket(side), quantity, NoFollowUp, 0)
                              EXCEPT !.active = -1, !.reserved = 0]
    <3>1. \/ UNCHANGED account
          \/ /\ orders' = Append(CancelledOrders(pending), Filled(closing, quantity))
             /\ Settle(Len(orders) + 1, side, price, quantity)
      BY <2>4 DEF Liquidate
    <3>2. Filled(closing, quantity).type = "MARKET"
      BY DEF Filled, NewOrder, MarketTicket
    <3> HIDE DEF side, quantity, price, closing
    <3>3. CASE /\ orders' = Append(CancelledOrders(pending), Filled(closing, quantity))
               /\ Settle(Len(orders) + 1, side, price, quantity)
      <4>1. CancelledOrders(pending) \in Seq(Order) /\ Len(CancelledOrders(pending)) = Len(orders)
        BY CancelledFrame DEF TypeOK
      <4>2. orders'[Len(orders) + 1] = Filled(closing, quantity)
        BY <3>3, <4>1
      <4>3. orders'[Len(orders) + 1].type \notin {"LIMIT", "STOP_LIMIT"}
        BY <3>2, <4>2
      <4> QED
        BY <2>2, <3>3, <4>3
    <3> QED
      BY <2>1, <3>1, <3>3
  <2>5. ASSUME \/ \E ticket \in Tickets, quantity \in 1..MaxQuantity : Submit(ticket, quantity)
               \/ CancelSome \/ Reverse \/ OpenBar \/ EndMatching \/ OpenFollowUp \/ EndOpening
               \/ \E o \in pending, quantity \in 1..MaxQuantity, amendment \in Amendments :
                     Modify(o, quantity, amendment)
               \/ \E o \in todo : Remains(o) \/ Expire(o)
        PROVE  UNCHANGED account
    BY <2>5 DEF Submit, CancelSome, Cancel, Reverse, OpenBar, EndMatching, OpenFollowUp,
                EndOpening, Modify, Remains, Expire
  <2> QED
    BY <2>1, <2>3, <2>4, <2>5 DEF Next
<1> QED
  BY <1>1, TypeCorrect, PTL DEF Spec, LimitsAreHonoured

-----------------------------------------------------------------------------
(* The fills are the ledger, and they are timely *)

\* What an order keeps all its life.
SameIdentity(old, new) ==
    /\ new.index = old.index /\ new.day = old.day
    /\ new.tif = old.tif /\ new.closes = old.closes

\* An intraday DAY order is good for the day of its submission.
BornToday(ord) == ord.tif = "DAY" /\ ~DailyBars => ord.active = ord.day

\* A step without a fill.
QuietStep ==
    /\ UNCHANGED account
    /\ \A o \in DOMAIN orders :
          /\ o \in DOMAIN orders'
          /\ SameIdentity(orders[o], orders'[o])
          /\ orders'[o].filled = orders[o].filled
          /\ \/ orders'[o].active = orders[o].active
             \/ orders[o].active = -1 /\ orders'[o].active # -1
    /\ \A o \in DOMAIN orders' \ DOMAIN orders :
          orders'[o].filled = 0 /\ BornToday(orders'[o])

\* A pending order trades in a bar after its submission, a DAY order on its day.
FillStep(o, side, price, quantity) ==
    /\ Settle(o, side, price, quantity)
    /\ DOMAIN orders' = DOMAIN orders
    /\ \A p \in DOMAIN orders \ {o} : orders'[p] = orders[p]
    /\ SameIdentity(orders[o], orders'[o])
    /\ orders'[o].filled = orders[o].filled + quantity
    /\ index > orders[o].index
    /\ orders'[o].active = IF orders[o].active = -1 THEN day ELSE orders[o].active
    /\ orders[o].tif = "DAY" => orders'[o].active = day
    /\ phase' = phase

\* The liquidation trades with an order of its own.
ClosingStep(side, price, quantity) ==
    /\ Settle(Len(orders) + 1, side, price, quantity)
    /\ DOMAIN orders' = DOMAIN orders \cup {Len(orders) + 1}
    /\ \A p \in DOMAIN orders : /\ SameIdentity(orders[p], orders'[p])
                                /\ orders'[p].filled = orders[p].filled
                                /\ orders'[p].active = orders[p].active
    /\ orders'[Len(orders) + 1].filled = quantity
    /\ phase' = "done"

LedgerStep ==
    \/ UNCHANGED vars
    \/ phase # "done" /\ QuietStep
    \/ /\ phase # "done"
       /\ \E side \in OrderSide, price \in Int, quantity \in Nat \ {0} :
             \/ \E o \in DOMAIN orders : FillStep(o, side, price, quantity)
             \/ ClosingStep(side, price, quantity)

\* A cancellation leaves an order its identity, its fills and its day.
LEMMA CancelKeeps ==
    ASSUME orders \in Seq(Order), NEW set
    PROVE  \A o \in DOMAIN orders :
              /\ SameIdentity(orders[o], CancelledOrders(set)[o])
              /\ CancelledOrders(set)[o].filled = orders[o].filled
              /\ CancelledOrders(set)[o].active = orders[o].active
<1> TAKE o \in DOMAIN orders
<1> DEFINE status == IF orders[o].filled > 0 THEN "CANCELLED_PART" ELSE "CANCELLED_ALL"
<1>1. orders[o] \in Order
  OBVIOUS
<1>2. CancelledOrders(set)[o] \in {orders[o], [orders[o] EXCEPT !.status = status]}
  BY CancelledFrame
<1> HIDE DEF status
<1> QED
  BY <1>1, <1>2 DEF Order, SameIdentity

\* A new order has nothing filled, and an intraday one is good for this day.
LEMMA NewOrderIsFresh ==
    ASSUME NEW ticket, NEW quantity, NEW followUp, NEW closes
    PROVE  /\ NewOrder(ticket, quantity, followUp, closes).filled = 0
           /\ BornToday(NewOrder(ticket, quantity, followUp, closes))
  BY DEF NewOrder, BornToday

LEMMA QuietAppend ==
    ASSUME TypeOK, UNCHANGED account, NEW b \in Seq(Order), DOMAIN b = DOMAIN orders,
           \A o \in DOMAIN orders : /\ SameIdentity(orders[o], b[o])
                                    /\ b[o].filled = orders[o].filled
                                    /\ b[o].active = orders[o].active,
           NEW ord, orders' = Append(b, ord), ord.filled = 0, BornToday(ord)
    PROVE  QuietStep
<1>1. /\ DOMAIN orders' = DOMAIN b \cup {Len(b) + 1}
      /\ orders'[Len(b) + 1] = ord
      /\ \A o \in DOMAIN b : orders'[o] = b[o]
  OBVIOUS
<1> QED
  BY <1>1 DEF QuietStep

LEMMA QuietVisit ==
    ASSUME TypeOK, UNCHANGED account, NEW o \in DOMAIN orders, NEW ord,
           orders' = [orders EXCEPT ![o] = ord], SameIdentity(orders[o], ord),
           ord.filled = orders[o].filled,
           ord.active = orders[o].active \/ (orders[o].active = -1 /\ ord.active # -1)
    PROVE  QuietStep
<1>1. orders \in Seq(Order)
  BY DEF TypeOK
<1>2. DOMAIN orders' = DOMAIN orders /\ orders'[o] = ord
      /\ \A p \in DOMAIN orders \ {o} : orders'[p] = orders[p]
  BY <1>1
<1> QED
  BY <1>1, <1>2 DEF QuietStep, SameIdentity

\* Showing a bar to an order sets its day.
LEMMA ShownKeeps ==
    ASSUME NEW ord \in Order, TypeOK
    PROVE  /\ SameIdentity(ord, Shown(ord))
           /\ Shown(ord).active = IF ord.active = -1 THEN day ELSE ord.active
  BY DEF Shown, Observed, Order, SameIdentity

LEMMA LedgerSteps ==
    ASSUME TypeOK, [Next]_vars
    PROVE  LedgerStep
<1>0. /\ orders \in Seq(Order) /\ DOMAIN orders = 1..Len(orders) /\ Len(orders) \in Nat
      /\ pending \subseteq DOMAIN orders /\ todo \subseteq pending /\ day \in Nat
      /\ \A o \in DOMAIN orders : orders[o] \in Order
  BY DEF TypeOK
<1>1. \A o \in DOMAIN orders : SameIdentity(orders[o], orders[o])
  BY DEF SameIdentity
<1>2. ASSUME NEW ticket \in Tickets, NEW quantity \in 1..MaxQuantity, Submit(ticket, quantity)
      PROVE  phase # "done" /\ QuietStep
  <2>1. /\ UNCHANGED account /\ phase # "done"
        /\ orders' = Append(orders, NewOrder(ticket, quantity, NoFollowUp, 0))
    BY <1>2 DEF Submit, StrategyRuns
  <2> QED
    BY <1>0, <1>1, <2>1, NewOrderIsFresh, QuietAppend
<1>3. CASE CancelSome
  <2>1. PICK set : Cancel(set)
    BY <1>3 DEF CancelSome
  <2>2. orders' = CancelledOrders(set) /\ UNCHANGED account /\ phase # "done"
    BY <2>1 DEF Cancel, StrategyRuns
  <2>3. QuietStep
    BY <1>0, <2>2, CancelKeeps, CancelledFrame DEF QuietStep
  <2> QED
    BY <2>2, <2>3 DEF LedgerStep
<1>4. ASSUME NEW o \in pending, NEW quantity \in 1..MaxQuantity, NEW amendment \in Amendments,
             Modify(o, quantity, amendment)
      PROVE  phase # "done" /\ QuietStep
  <2> DEFINE ord == orders[o]
             limit == Amended(ord.limit, amendment.limit)
             stop == Amended(ord.stop, amendment.stop)
             reserve == ModifiedReserve(ord, quantity, limit, stop)
             new == [ord EXCEPT !.quantity = quantity, !.limit = limit, !.stop = stop,
                                !.reserved = reserve,
                                !.trail = Amended(@, amendment.trail),
                                !.spread = Amended(@, amendment.spread)]
  <2>1. ord \in Order /\ o \in DOMAIN orders
    BY <1>0
  <2>2. orders' = [orders EXCEPT ![o] = new] /\ UNCHANGED account /\ phase # "done"
    BY <1>4 DEF Modify, StrategyRuns
  <2>3. SameIdentity(ord, new) /\ new.filled = ord.filled /\ new.active = ord.active
    <3> HIDE DEF ord, limit, stop, reserve
    <3> QED
      BY <2>1 DEF Order, SameIdentity
  <2> HIDE DEF new
  <2> QED
    BY <2>1, <2>2, <2>3, QuietVisit
<1>5. CASE Reverse
  <2>0. UNCHANGED account /\ phase # "done"
    BY <1>5 DEF Reverse, StrategyRuns
  <2> DEFINE quantity == Abs(position.quantity)
  <2>1. \/ orders' = CancelledOrders(pending)
        \/ \E closing, followUp :
             orders' = Append(CancelledOrders(pending), NewOrder(closing, quantity, followUp, 0))
    BY <1>5 DEF Reverse
  <2>2. CASE orders' = CancelledOrders(pending)
    <3>1. DOMAIN orders' = DOMAIN orders
      BY <1>0, <2>2, CancelledFrame
    <3>2. \A o \in DOMAIN orders : /\ SameIdentity(orders[o], orders'[o])
                                   /\ orders'[o].filled = orders[o].filled
                                   /\ orders'[o].active = orders[o].active
      BY <1>0, <2>2, CancelKeeps
    <3>3. QuietStep
      BY <2>0, <3>1, <3>2 DEF QuietStep
    <3> QED
      BY <2>0, <3>3 DEF LedgerStep
  <2>3. ASSUME NEW closing, NEW followUp,
               orders' = Append(CancelledOrders(pending), NewOrder(closing, quantity, followUp, 0))
        PROVE  QuietStep
    BY <1>0, <2>0, <2>3, CancelKeeps, CancelledFrame, NewOrderIsFresh, QuietAppend
  <2> QED
    BY <2>0, <2>1, <2>2, <2>3 DEF LedgerStep
<1>6. CASE OpenBar \/ EndMatching \/ EndOpening
  <2>1. UNCHANGED <<account, orders>> /\ phase # "done"
    BY <1>6 DEF OpenBar, EndMatching, EndOpening, book
  <2> QED
    BY <1>1, <2>1 DEF QuietStep, LedgerStep
<1>7. ASSUME NEW o \in todo, Remains(o)
      PROVE  phase # "done" /\ QuietStep
  <2>1. o \in DOMAIN orders /\ orders[o] \in Order /\ UNCHANGED account /\ phase # "done"
    BY <1>0, <1>7 DEF Remains, Visit
  <2>2. CASE UNCHANGED orders
    BY <1>1, <2>1, <2>2 DEF QuietStep
  <2>3. CASE orders' = [orders EXCEPT ![o] = Shown(orders[o])]
    <3>1. Shown(orders[o]).active = orders[o].active
             \/ (orders[o].active = -1 /\ Shown(orders[o]).active # -1)
      BY <1>0, <2>1, ShownKeeps
    <3> QED
      BY <2>1, <2>3, <3>1, ShownFrame, ShownKeeps, QuietVisit
  <2> QED
    BY <1>7, <2>1, <2>2, <2>3 DEF Remains
<1>8. ASSUME NEW o \in todo, Expire(o)
      PROVE  phase # "done" /\ QuietStep
  <2> DEFINE new == [orders[o] EXCEPT !.status = "DISABLED"]
  <2>1. o \in DOMAIN orders /\ orders[o] \in Order
    BY <1>0
  <2>2. orders' = [orders EXCEPT ![o] = new] /\ UNCHANGED account /\ phase # "done"
    BY <1>8 DEF Expire, Visit
  <2>3. SameIdentity(orders[o], new) /\ new.filled = orders[o].filled /\ new.active = orders[o].active
    BY <2>1 DEF Order, SameIdentity
  <2> HIDE DEF new
  <2> QED
    BY <2>1, <2>2, <2>3, QuietVisit
<1>9. ASSUME NEW o \in todo, Trade(o)
      PROVE  LedgerStep
  <2> DEFINE ord == Shown(orders[o])
             price == DecidedPrice(ord, bar, FillPrice(ord, bar))
             quantity == DecidedQuantity(Remaining(ord), bar)
  <2>1. o \in DOMAIN orders /\ orders[o] \in Order /\ phase # "done"
    BY <1>0, <1>9 DEF Trade, Visit
  <2>2. /\ ord \in Order /\ ord.filled = orders[o].filled /\ SameIdentity(orders[o], ord)
        /\ ord.active = IF orders[o].active = -1 THEN day ELSE orders[o].active
    BY <2>1, ShownFrame, ShownKeeps
  <2>3. /\ index > ord.index /\ ~Expired(ord)
        /\ Execute(o, ord, price, quantity) \/ Reject(o, ord, price, quantity)
           \/ Abort(o, ord, quantity)
    <3>1. Eligible(ord)
      BY <1>9 DEF Trade
    <3> QED
      BY <1>9, <3>1 DEF Trade, Eligible
  <2> HIDE DEF ord
  <2>4. Remaining(ord) \in Int
    BY <2>2 DEF Remaining, Order
  <2>5. price \in Int /\ quantity \in Int /\ quantity <= Remaining(ord)
    BY <2>2, <2>4, BarType, FillPriceType, DecidedTypes
  <2>6. ord.active # -1
    BY <1>0, <2>2
  <2> HIDE DEF price, quantity
  <2>7. CASE Execute(o, ord, price, quantity)
    <3> DEFINE new == Filled(ord, quantity)
    <3>1. quantity \in Nat \ {0} /\ ord.side \in OrderSide
      BY <2>2, <2>5, <2>7 DEF Execute, Order
    <3>2. /\ new.filled = ord.filled + quantity /\ SameIdentity(ord, new)
          /\ new.active = ord.active
      <4>1. new.filled = ord.filled + quantity
        BY <2>2, <2>5, <3>1, FilledFrame
      <4>2. SameIdentity(ord, new) /\ new.active = ord.active
        BY <2>2 DEF Filled, Order, SameIdentity
      <4> QED
        BY <4>1, <4>2
    <3>3. /\ orders' = [orders EXCEPT ![o] = new] /\ Settle(o, ord.side, price, quantity)
          /\ phase' = phase
      BY <2>7 DEF Execute
    <3> HIDE DEF new
    <3>4. /\ DOMAIN orders' = DOMAIN orders /\ orders'[o] = new
          /\ \A p \in DOMAIN orders \ {o} : orders'[p] = orders[p]
      BY <1>0, <2>1, <3>3
    <3>5. ord.tif = "DAY" => ord.active = day
      BY <2>3, <2>6 DEF Expired
    <3>6. FillStep(o, ord.side, price, quantity)
      BY <2>2, <2>3, <3>2, <3>3, <3>4, <3>5 DEF FillStep, SameIdentity
    <3> QED
      BY <2>1, <2>5, <3>1, <3>6 DEF LedgerStep
  <2>8. CASE Reject(o, ord, price, quantity)
    <3> DEFINE new == [ord EXCEPT !.status = "FAILED"]
    <3>1. SameIdentity(ord, new) /\ new.filled = ord.filled /\ new.active = ord.active
      BY <2>2 DEF Order, SameIdentity
    <3>2. orders' = [orders EXCEPT ![o] = new] /\ UNCHANGED account
      BY <2>8 DEF Reject
    <3> HIDE DEF new
    <3>3. QuietStep
      BY <2>1, <2>2, <2>6, <3>1, <3>2, QuietVisit DEF SameIdentity
    <3> QED
      BY <2>1, <3>3 DEF LedgerStep
  <2>9. CASE Abort(o, ord, quantity)
    <3>1. QuietStep
      BY <2>1, <2>2, <2>6, <2>9, QuietVisit DEF Abort
    <3> QED
      BY <2>1, <3>1 DEF LedgerStep
  <2> QED
    BY <2>3, <2>7, <2>8, <2>9
<1>10. CASE OpenFollowUp
  <2>1. /\ UNCHANGED account /\ phase # "done"
        /\ \/ \E ticket, quantity, closes :
                 orders' = Append(orders, NewOrder(ticket, quantity, NoFollowUp, closes))
           \/ UNCHANGED orders
    BY <1>10 DEF OpenFollowUp
  <2>2. CASE UNCHANGED orders
    BY <1>1, <2>1, <2>2 DEF QuietStep, LedgerStep
  <2>3. ASSUME NEW ticket, NEW quantity, NEW closes,
               orders' = Append(orders, NewOrder(ticket, quantity, NoFollowUp, closes))
        PROVE  QuietStep
    BY <1>0, <1>1, <2>1, <2>3, NewOrderIsFresh, QuietAppend
  <2> QED
    BY <2>1, <2>2, <2>3 DEF LedgerStep
<1>11. CASE Liquidate
  <2> DEFINE side == IF position.quantity > 0 THEN "SELL" ELSE "BUY_BACK"
             quantity == Abs(position.quantity)
             price == Slipped(bar.close, side)
             closing == [NewOrder(MarketTicket(side), quantity, NoFollowUp, 0)
                            EXCEPT !.active = -1, !.reserved = 0]
             new == Filled(closing, quantity)
  <2>1. quantity \in Nat /\ side \in OrderSide
    BY DEF TypeOK, Abs, OrderSide
  <2>2. price \in Int
    BY BarType, SlippedType DEF BarRecord
  <2>3. phase # "done" /\ phase' = "done"
    BY <1>11 DEF Liquidate
  <2>4. CASE quantity = 0
    <3>1. orders' = CancelledOrders(pending) /\ UNCHANGED account
      BY <1>11, <2>4 DEF Liquidate
    <3>2. QuietStep
      BY <1>0, <3>1, CancelKeeps, CancelledFrame DEF QuietStep
    <3> QED
      BY <2>3, <3>2 DEF LedgerStep
  <2>5. CASE quantity # 0
    <3>1. /\ orders' = Append(CancelledOrders(pending), new)
          /\ Settle(Len(orders) + 1, side, price, quantity)
      BY <1>11, <2>5 DEF Liquidate
    <3>2. closing \in Order /\ Remaining(closing) = quantity /\ closing.filled = 0
      <4> HIDE DEF quantity, side
      <4> QED
        BY <2>1, ClosingOrder
    <3>3. new.filled = quantity
      <4> HIDE DEF closing, quantity
      <4> QED
        BY <2>1, <2>5, <3>2, FilledFrame
    <3> HIDE DEF new, price, quantity, side
    <3>4. /\ CancelledOrders(pending) \in Seq(Order)
          /\ Len(CancelledOrders(pending)) = Len(orders)
      BY <1>0, CancelledFrame
    <3>5. /\ DOMAIN orders' = DOMAIN orders \cup {Len(orders) + 1}
          /\ orders'[Len(orders) + 1] = new
          /\ \A o \in DOMAIN orders : orders'[o] = CancelledOrders(pending)[o]
      BY <1>0, <3>1, <3>4
    <3>6. ClosingStep(side, price, quantity)
      BY <1>0, <2>3, <3>1, <3>3, <3>5, CancelKeeps DEF ClosingStep
    <3> QED
      BY <2>1, <2>2, <2>3, <2>5, <3>6 DEF LedgerStep
  <2> QED
    BY <2>4, <2>5
<1> QED
  BY <1>2, <1>3, <1>4, <1>5, <1>6, <1>7, <1>8, <1>9, <1>10, <1>11 DEF Next, LedgerStep

Fill == [order : Nat, index : Nat, day : Nat, side : OrderSide,
         price : Int, quantity : Nat, fee : Nat]

\* The columns of a ledger l.
Fees(l) == [i \in DOMAIN l |-> l[i].fee]
Traded(l) == [i \in DOMAIN l |-> l[i].quantity]
Moved(l) == [i \in DOMAIN l |-> SignedQuantity(l[i])]
Paid(l) == [i \in DOMAIN l |-> SignedQuantity(l[i]) * l[i].price + l[i].fee]
Entries(l, o) == {i \in DOMAIN l : l[i].order = o}

Explained ==
    /\ cash = InitialCash - SumFunction(Paid(fills))
    /\ position.quantity = SumFunction(Moved(fills))
    /\ totalFees = SumFunction(Fees(fills))
    /\ \A o \in DOMAIN orders :
          orders[o].filled = SumFunctionOnSet(Traded(fills), Entries(fills, o))

LEMMA ExplainedIsTheProperty ==
    FillsExplainTheAccount <=> Explained
<1>1. \A i \in DOMAIN fills :
         Moved(fills)[i] * fills[i].price + Fees(fills)[i]
             = SignedQuantity(fills[i]) * fills[i].price + fills[i].fee
  BY DEF Moved, Fees
<1>2. [i \in DOMAIN fills |-> Moved(fills)[i] * fills[i].price + Fees(fills)[i]] = Paid(fills)
  BY <1>1 DEF Paid
<1> QED
  BY <1>2 DEF FillsExplainTheAccount, Explained, Fees, Traded, Moved, FillsOf, Entries

\* Sequence g of integers is sequence f of length n and one more.
Extended(f, n, g) ==
    /\ n \in Nat /\ DOMAIN f = 1..n /\ DOMAIN g = 1..(n + 1)
    /\ \A i \in 1..n : f[i] = g[i]
    /\ \A i \in 1..(n + 1) : g[i] \in Int

\* What one more fill adds to the sums of a ledger.
LEMMA SumOfOneMore ==
    ASSUME NEW f, NEW n, NEW g, Extended(f, n, g)
    PROVE  SumFunction(g) = SumFunction(f) + g[n + 1] /\ SumFunction(f) \in Int
<1>0. /\ n \in Nat /\ DOMAIN f = 1..n /\ DOMAIN g = 1..(n + 1)
      /\ \A i \in 1..n : f[i] = g[i]
      /\ \A i \in 1..(n + 1) : g[i] \in Int
  BY DEF Extended
<1>1. 1..(n + 1) = (1..n) \cup {n + 1}
  BY <1>0
<1> DEFINE S == 1..n
<1>2. S \in SUBSET (1..n) /\ \A i \in 1..n : f[i] \in Int
  BY <1>0
<1> HIDE DEF S
<1>3. SumFunctionOnSet(g, S \cup {n + 1}) = SumFunctionOnSet(f, S) + g[n + 1]
  BY <1>0, <1>2, SumGrows
<1>4. SumFunctionOnSet(f, S) \in Int
  BY <1>0, <1>2, SumInSequence
<1> QED
  BY <1>0, <1>1, <1>3, <1>4 DEF SumFunction, S

\* Ledger k is ledger l of n fills and one more.
Appended(l, n, fill, k) ==
    /\ n \in Nat /\ DOMAIN l = 1..n /\ DOMAIN k = 1..(n + 1)
    /\ k[n + 1] = fill
    /\ \A i \in 1..n : k[i] = l[i]
    /\ \A i \in 1..(n + 1) : k[i] \in Fill

SumsGrew(l, fill, k) ==
    /\ SumFunction(Paid(k)) = SumFunction(Paid(l))
                               + (SignedQuantity(fill) * fill.price + fill.fee)
    /\ SumFunction(Moved(k)) = SumFunction(Moved(l)) + SignedQuantity(fill)
    /\ SumFunction(Fees(k)) = SumFunction(Fees(l)) + fill.fee
    /\ SumFunction(Paid(l)) \in Int /\ SumFunction(Moved(l)) \in Int
    /\ SumFunction(Fees(l)) \in Int
    /\ \A o : SumFunctionOnSet(Traded(k), Entries(k, o))
                = SumFunctionOnSet(Traded(l), Entries(l, o))
                  + (IF o = fill.order THEN fill.quantity ELSE 0)

LEMMA OneMoreFill ==
    ASSUME NEW l, NEW n, NEW fill, NEW k, Appended(l, n, fill, k)
    PROVE  SumsGrew(l, fill, k)
<1>1. /\ n \in Nat /\ DOMAIN l = 1..n /\ DOMAIN k = 1..(n + 1) /\ k[n + 1] = fill
      /\ \A i \in 1..n : k[i] = l[i]
      /\ \A i \in 1..(n + 1) : k[i] \in Fill
      /\ fill \in Fill
  BY DEF Appended
<1>2. \A i \in 1..(n + 1) :
        /\ k[i].fee \in Int /\ k[i].quantity \in Int /\ k[i].price \in Int
        /\ SignedQuantity(k[i]) \in Int
        /\ SignedQuantity(k[i]) * k[i].price \in Int
        /\ SignedQuantity(k[i]) * k[i].price + k[i].fee \in Int
  <2> TAKE i \in 1..(n + 1)
  <2>0. k[i] \in Fill
    BY <1>1
  <2>1. k[i].fee \in Int /\ k[i].quantity \in Int /\ k[i].price \in Int
    BY <2>0 DEF Fill
  <2>2. SignedQuantity(k[i]) \in Int
    BY <2>1 DEF SignedQuantity
  <2>3. SignedQuantity(k[i]) * k[i].price \in Int
    BY <2>1, <2>2
  <2> QED
    BY <2>1, <2>2, <2>3
<1>3. SumFunction(Paid(k)) = SumFunction(Paid(l)) + (SignedQuantity(fill) * fill.price + fill.fee)
      /\ SumFunction(Paid(l)) \in Int
  <2> DEFINE amount(f) == SignedQuantity(f) * f.price + f.fee
  <2>a. Paid(l) = [i \in 1..n |-> amount(l[i])] /\ Paid(k) = [i \in 1..(n + 1) |-> amount(k[i])]
    BY <1>1 DEF Paid
  <2>b. \A i \in 1..(n + 1) : amount(k[i]) \in Int
    BY <1>2
  <2> HIDE DEF amount
  <2>c. n + 1 \in 1..(n + 1) /\ \A i \in 1..n : i \in 1..(n + 1)
    BY <1>1
  <2>1. /\ Extended(Paid(l), n, Paid(k))
        /\ Paid(k)[n + 1] = amount(fill)
    BY <1>1, <2>a, <2>b, <2>c DEF Extended
  <2> USE DEF amount
  <2> QED
    BY <2>1, SumOfOneMore
<1>4. SumFunction(Moved(k)) = SumFunction(Moved(l)) + SignedQuantity(fill)
      /\ SumFunction(Moved(l)) \in Int
  <2>1. /\ Extended(Moved(l), n, Moved(k))
        /\ Moved(k)[n + 1] = SignedQuantity(fill)
    BY <1>1, <1>2 DEF Moved, Extended
  <2> QED
    BY <2>1, SumOfOneMore
<1>5. SumFunction(Fees(k)) = SumFunction(Fees(l)) + fill.fee /\ SumFunction(Fees(l)) \in Int
  <2>1. /\ Extended(Fees(l), n, Fees(k))
        /\ Fees(k)[n + 1] = fill.fee
    BY <1>1, <1>2 DEF Fees, Extended
  <2> QED
    BY <2>1, SumOfOneMore
<1>6. ASSUME NEW o
      PROVE  SumFunctionOnSet(Traded(k), Entries(k, o))
               = SumFunctionOnSet(Traded(l), Entries(l, o))
                 + (IF o = fill.order THEN fill.quantity ELSE 0)
  <2>0. n + 1 \in 1..(n + 1) /\ \A i \in 1..n : i \in 1..(n + 1)
    BY <1>1
  <2>1. /\ \A i \in 1..n : Traded(l)[i] = Traded(k)[i]
        /\ \A i \in 1..(n + 1) : Traded(k)[i] \in Int
        /\ Traded(k)[n + 1] = fill.quantity
    BY <1>1, <1>2, <2>0 DEF Traded
  <2>2. Entries(l, o) \in SUBSET (1..n)
    BY <1>1 DEF Entries
  <2>3. Entries(k, o) = IF o = fill.order THEN Entries(l, o) \cup {n + 1} ELSE Entries(l, o)
    BY <1>1 DEF Entries
  <2>4. /\ SumFunctionOnSet(Traded(k), Entries(l, o) \cup {n + 1})
             = SumFunctionOnSet(Traded(l), Entries(l, o)) + Traded(k)[n + 1]
        /\ SumFunctionOnSet(Traded(k), Entries(l, o)) = SumFunctionOnSet(Traded(l), Entries(l, o))
        /\ SumFunctionOnSet(Traded(l), Entries(l, o)) \in Int
    <3> DEFINE f == Traded(l)
               g == Traded(k)
    <3>1. n \in Nat /\ (\A i \in 1..n : f[i] = g[i]) /\ \A i \in 1..(n + 1) : g[i] \in Int
      BY <1>1, <2>1
    <3> HIDE DEF f, g
    <3> DEFINE e == Entries(l, o)
    <3>2. e \in SUBSET (1..n)
      BY <2>2
    <3> HIDE DEF e
    <3>3. SumFunctionOnSet(g, e \cup {n + 1}) = SumFunctionOnSet(f, e) + g[n + 1]
      BY ONLY <3>1, <3>2, SumGrows
    <3>4. SumFunctionOnSet(g, e) = SumFunctionOnSet(f, e)
      <4>1. IsFiniteSet(e) /\ \A i \in e : g[i] = f[i]
        BY <3>1, <3>2, FS_Interval, FS_Subset, 1 \in Int, n \in Int
      <4> QED
        BY ONLY <4>1, SameSum
    <3>5. \A i \in 1..n : f[i] \in Int
      BY <3>1
    <3>6. SumFunctionOnSet(f, e) \in Int
      BY <3>1, <3>2, <3>5, SumInSequence
    <3> QED
      BY <3>3, <3>4, <3>6 DEF f, g, e
  <2>5. fill.quantity \in Int
    BY <1>1 DEF Fill
  <2> QED
    BY <2>1, <2>3, <2>4, <2>5
<1> QED
  BY <1>3, <1>4, <1>5, <1>6 DEF SumsGrew

-----------------------------------------------------------------------------

\* The fills so far came in bars after the submission of their orders, those of
\* a DAY order on its active day.
OnTime(f) ==
    /\ f.index > orders[f.order].index
    /\ orders[f.order].tif = "DAY" => f.day = orders[f.order].active

\* What makes the two properties inductive: every fill belongs to an order, and
\* until the liquidation every fill is on time.
LedgerInv ==
    /\ Explained
    /\ \A i \in DOMAIN fills : fills[i].order \in DOMAIN orders
    /\ phase # "done" => /\ \A i \in DOMAIN fills : OnTime(fills[i])
                         /\ \A o \in DOMAIN orders : BornToday(orders[o])
    /\ FillsAreTimely

LEMMA OnTimeIsTimely ==
    ASSUME \A i \in DOMAIN fills : fills[i].order \in DOMAIN orders /\ OnTime(fills[i]),
           \A o \in DOMAIN orders : BornToday(orders[o])
    PROVE  FillsAreTimely
  BY DEF FillsAreTimely, OnTime, BornToday

\* A fill's order stays the order it was filled for.
LEMMA SettleExplains ==
    ASSUME TypeOK, Explained, NEW o \in Nat, NEW side \in OrderSide, NEW price \in Int,
           NEW quantity \in Nat \ {0}, Settle(o, side, price, quantity)
    PROVE  /\ cash' = InitialCash - SumFunction(Paid(fills'))
           /\ position'.quantity = SumFunction(Moved(fills'))
           /\ totalFees' = SumFunction(Fees(fills'))
           /\ \A p : SumFunctionOnSet(Traded(fills'), Entries(fills', p))
                       = SumFunctionOnSet(Traded(fills), Entries(fills, p))
                         + (IF p = o THEN quantity ELSE 0)
           /\ DOMAIN fills' = 1..(Len(fills) + 1) /\ DOMAIN fills = 1..Len(fills)
           /\ Len(fills') = Len(fills) + 1 /\ Len(fills) \in Nat
           /\ \A i \in DOMAIN fills : fills'[i] = fills[i]
           /\ fills'[Len(fills) + 1].order = o /\ fills'[Len(fills) + 1].index = index
           /\ fills'[Len(fills) + 1].day = day
<1> DEFINE fee == Fee(price, quantity)
           fill == [order |-> o, index |-> index, day |-> day, side |-> side,
                    price |-> price, quantity |-> quantity, fee |-> fee]
           n == Len(fills)
<1>1. /\ cash \in Int /\ totalFees \in Nat /\ index \in Nat /\ day \in Nat
      /\ position.quantity \in Int /\ fills \in Seq(Fill) /\ InitialCash \in Int
  BY BrokerAssumption DEF TypeOK, Fill
<1>2. fee \in Nat
  BY FeeType
<1>3. /\ cash' = cash + CashFlow(side, price, quantity)
      /\ totalFees' = totalFees + fee
      /\ fills' = Append(fills, fill)
  BY DEF Settle
<1>4. position'.quantity = position.quantity + (IF side \in Buys THEN quantity ELSE -quantity)
  BY SettlePosition
<1> HIDE DEF fee
<1>5. fill \in Fill /\ fill.order = o /\ fill.quantity = quantity /\ fill.fee = fee
      /\ fill.price = price /\ fill.index = index /\ fill.day = day
      /\ SignedQuantity(fill) = IF side \in Buys THEN quantity ELSE -quantity
  BY <1>1, <1>2 DEF Fill, SignedQuantity
<1> HIDE DEF fill
<1>6. /\ n \in Nat /\ DOMAIN fills = 1..n /\ DOMAIN fills' = 1..(n + 1)
      /\ fills'[n + 1] = fill /\ (\A i \in 1..n : fills'[i] = fills[i])
      /\ \A i \in 1..(n + 1) : fills'[i] \in Fill
      /\ Len(fills') = n + 1
  BY <1>1, <1>3, <1>5
<1> HIDE DEF n
<1>7. SumsGrew(fills, fill, fills')
  BY <1>6, OneMoreFill DEF Appended
<1>8. CashFlow(side, price, quantity) = -(SignedQuantity(fill) * fill.price + fill.fee)
      /\ SignedQuantity(fill) * fill.price + fill.fee \in Int
  <2>1. quantity * price \in Int /\ (-quantity) * price = -(quantity * price)
    OBVIOUS
  <2> QED
    BY <1>2, <1>5, <2>1 DEF CashFlow, fee
<1>9. cash' = InitialCash - SumFunction(Paid(fills'))
  <2> DEFINE new == SignedQuantity(fill) * fill.price + fill.fee
             flow == CashFlow(side, price, quantity)
  <2>1. /\ cash = InitialCash - SumFunction(Paid(fills)) /\ cash' = cash + flow /\ flow = -new
        /\ SumFunction(Paid(fills')) = SumFunction(Paid(fills)) + new
        /\ SumFunction(Paid(fills)) \in Int /\ new \in Int /\ InitialCash \in Int
    BY <1>1, <1>3, <1>7, <1>8 DEF Explained, SumsGrew
  <2> HIDE DEF new, flow
  <2> QED
    BY <2>1
<1>10. position'.quantity = SumFunction(Moved(fills'))
  BY <1>4, <1>5, <1>7 DEF Explained, SumsGrew
<1>11. totalFees' = SumFunction(Fees(fills'))
  BY <1>2, <1>3, <1>5, <1>7 DEF Explained, SumsGrew
<1> QED
  BY <1>5, <1>6, <1>7, <1>9, <1>10, <1>11 DEF n, SumsGrew

\* The account and the fills of an order, whatever else the step does.
LEMMA LedgerKeeps ==
    ASSUME TypeOK, TypeOK', LedgerInv, [Next]_vars
    PROVE  LedgerInv'
<1>0. /\ DOMAIN orders = 1..Len(orders) /\ Len(orders) \in Nat
      /\ fills \in Seq(Fill) /\ index \in Nat /\ day \in Nat
      /\ \A o \in DOMAIN orders : orders[o].filled \in Nat /\ orders[o].day \in Nat
      /\ \A o \in DOMAIN orders' : orders'[o].filled \in Nat /\ orders'[o].day \in Nat
  <2>1. /\ orders \in Seq(Order) /\ orders' \in Seq(Order) /\ index \in Nat /\ day \in Nat
        /\ fills \in Seq(Fill)
    BY DEF TypeOK, Fill
  <2>2. /\ \A o \in DOMAIN orders : orders[o] \in Order
        /\ \A o \in DOMAIN orders' : orders'[o] \in Order
    BY <2>1
  <2>3. \A ord \in Order : ord.filled \in Nat /\ ord.day \in Nat
    BY DEF Order
  <2> QED
    BY <2>1, <2>2, <2>3
<1>a. \A i \in DOMAIN fills : fills[i].order \in DOMAIN orders /\ fills[i].day \in Nat
  <2>1. \A i \in DOMAIN fills : fills[i] \in Fill
    BY <1>0
  <2> QED
    BY <2>1 DEF LedgerInv, Fill
<1>1. CASE UNCHANGED vars
  <2>1. UNCHANGED <<cash, position, totalFees, fills, orders, phase>>
    BY <1>1 DEF vars, account, book
  <2> QED
    BY <2>1 DEF LedgerInv, Explained, FillsAreTimely, OnTime, BornToday
<1>2. CASE phase # "done" /\ QuietStep
  <2>1. UNCHANGED <<cash, position, totalFees, fills>>
    BY <1>2 DEF QuietStep, account
  <2>2. Explained'
    <3>1. ASSUME NEW o \in DOMAIN orders'
          PROVE  orders'[o].filled = SumFunctionOnSet(Traded(fills), Entries(fills, o))
      <4>1. CASE o \in DOMAIN orders
        BY <1>2, <4>1 DEF QuietStep, LedgerInv, Explained
      <4>2. CASE o \notin DOMAIN orders
        <5>1. orders'[o].filled = 0
          BY <1>2, <4>2 DEF QuietStep
        <5>2. Entries(fills, o) = {}
          BY <1>a, <4>2 DEF Entries
        <5> QED
          BY <5>1, <5>2, SumEmpty
      <4> QED
        BY <4>1, <4>2
    <3> QED
      BY <2>1, <3>1 DEF LedgerInv, Explained
  <2>3. \A o \in DOMAIN orders' : BornToday(orders'[o])
    <3> SUFFICES ASSUME NEW o \in DOMAIN orders, orders'[o].tif = "DAY", ~DailyBars
                 PROVE  orders'[o].active = orders'[o].day
      BY <1>2 DEF QuietStep, BornToday
    <3>1. SameIdentity(orders[o], orders'[o])
          /\ (orders'[o].active = orders[o].active \/ orders[o].active = -1)
      BY <1>2 DEF QuietStep
    <3>2. orders[o].active = orders[o].day /\ orders[o].day \in Nat
      BY <1>0, <1>2, <3>1 DEF LedgerInv, BornToday, SameIdentity
    <3> QED
      BY <3>1, <3>2 DEF SameIdentity
  <2>4. \A i \in DOMAIN fills : fills[i].order \in DOMAIN orders' /\ OnTime(fills[i])'
    <3> SUFFICES ASSUME NEW i \in DOMAIN fills
                 PROVE  fills[i].order \in DOMAIN orders' /\ OnTime(fills[i])'
      OBVIOUS
    <3> DEFINE o == fills[i].order
    <3>1. o \in DOMAIN orders /\ OnTime(fills[i]) /\ fills[i].day \in Nat
      BY <1>2, <1>a DEF LedgerInv
    <3>2. /\ o \in DOMAIN orders' /\ SameIdentity(orders[o], orders'[o])
          /\ (orders'[o].active = orders[o].active \/ orders[o].active = -1)
      BY <1>2, <3>1 DEF QuietStep
    <3> QED
      BY <2>1, <3>1, <3>2 DEF OnTime, SameIdentity
  <2>5. FillsAreTimely'
    BY <2>1, <2>3, <2>4 DEF FillsAreTimely, OnTime, BornToday
  <2> QED
    BY <2>1, <2>2, <2>3, <2>4, <2>5 DEF LedgerInv
<1>3. ASSUME NEW side \in OrderSide, NEW price \in Int, NEW quantity \in Nat \ {0},
             NEW o \in DOMAIN orders, FillStep(o, side, price, quantity), phase # "done"
      PROVE  LedgerInv'
  <2> DEFINE n == Len(fills)
  <2>1. /\ cash' = InitialCash - SumFunction(Paid(fills'))
        /\ position'.quantity = SumFunction(Moved(fills'))
        /\ totalFees' = SumFunction(Fees(fills'))
        /\ \A p : SumFunctionOnSet(Traded(fills'), Entries(fills', p))
                    = SumFunctionOnSet(Traded(fills), Entries(fills, p))
                      + (IF p = o THEN quantity ELSE 0)
    BY <1>0, <1>3, SettleExplains DEF FillStep, LedgerInv
  <2>2. /\ DOMAIN fills' = 1..(n + 1) /\ DOMAIN fills = 1..n /\ n \in Nat
        /\ \A i \in DOMAIN fills : fills'[i] = fills[i]
        /\ fills'[n + 1].order = o /\ fills'[n + 1].index = index /\ fills'[n + 1].day = day
    BY <1>0, <1>3, SettleExplains DEF FillStep, LedgerInv
  <2>3. /\ DOMAIN orders' = DOMAIN orders
        /\ \A p \in DOMAIN orders \ {o} : orders'[p] = orders[p]
        /\ orders'[o].index = orders[o].index /\ orders'[o].day = orders[o].day
        /\ orders'[o].tif = orders[o].tif
        /\ orders'[o].filled = orders[o].filled + quantity
        /\ index > orders[o].index
        /\ orders'[o].active = IF orders[o].active = -1 THEN day ELSE orders[o].active
        /\ orders[o].tif = "DAY" => orders'[o].active = day
        /\ phase' = phase
    BY <1>3 DEF FillStep, SameIdentity
  <2> HIDE DEF n
  <2>4. \A p \in DOMAIN orders' :
           orders'[p].filled = SumFunctionOnSet(Traded(fills'), Entries(fills', p))
    <3> SUFFICES ASSUME NEW p \in DOMAIN orders
                 PROVE  orders'[p].filled = SumFunctionOnSet(Traded(fills'), Entries(fills', p))
      BY <2>3
    <3>1. orders[p].filled = SumFunctionOnSet(Traded(fills), Entries(fills, p))
          /\ orders[p].filled \in Nat
      BY <1>0 DEF LedgerInv, Explained
    <3> QED
      BY <2>1, <2>3, <3>1
  <2>5. \A p \in DOMAIN orders' : BornToday(orders'[p])
    <3> SUFFICES ASSUME NEW p \in DOMAIN orders
                 PROVE  BornToday(orders'[p])
      BY <2>3
    <3>1. BornToday(orders[p]) /\ orders[p].day \in Nat
      BY <1>0, <1>3 DEF LedgerInv
    <3> QED
      BY <2>3, <3>1 DEF BornToday
  <2>6. \A i \in DOMAIN fills' : fills'[i].order \in DOMAIN orders' /\ OnTime(fills[i])'
    <3> SUFFICES ASSUME NEW i \in DOMAIN fills'
                 PROVE  fills'[i].order \in DOMAIN orders' /\ OnTime(fills[i])'
      OBVIOUS
    <3>1. CASE i = n + 1
      BY <2>2, <2>3, <3>1 DEF OnTime
    <3>2. CASE i \in DOMAIN fills
      <4> DEFINE p == fills[i].order
      <4>1. p \in DOMAIN orders /\ OnTime(fills[i]) /\ fills[i].day \in Nat /\ fills'[i] = fills[i]
        BY <1>3, <1>a, <2>2, <3>2 DEF LedgerInv
      <4> QED
        BY <2>3, <4>1 DEF OnTime
    <3> QED
      BY <2>2, <3>1, <3>2
  <2>7. FillsAreTimely'
    BY <2>5, <2>6 DEF FillsAreTimely, OnTime, BornToday
  <2>8. Explained'
    BY <2>1, <2>4 DEF Explained
  <2> QED
    BY <2>5, <2>6, <2>7, <2>8 DEF LedgerInv
<1>4. ASSUME NEW side \in OrderSide, NEW price \in Int, NEW quantity \in Nat \ {0},
             ClosingStep(side, price, quantity), phase # "done"
      PROVE  LedgerInv'
  <2> DEFINE n == Len(fills)
             last == Len(orders) + 1
  <2>0. last \in Nat /\ last \notin DOMAIN orders
    BY <1>0
  <2>1. /\ cash' = InitialCash - SumFunction(Paid(fills'))
        /\ position'.quantity = SumFunction(Moved(fills'))
        /\ totalFees' = SumFunction(Fees(fills'))
        /\ \A p : SumFunctionOnSet(Traded(fills'), Entries(fills', p))
                    = SumFunctionOnSet(Traded(fills), Entries(fills, p))
                      + (IF p = last THEN quantity ELSE 0)
    BY <1>4, <2>0, SettleExplains DEF ClosingStep, LedgerInv
  <2>2. /\ DOMAIN fills' = 1..(n + 1) /\ DOMAIN fills = 1..n /\ n \in Nat /\ Len(fills') = n + 1
        /\ \A i \in DOMAIN fills : fills'[i] = fills[i]
        /\ fills'[n + 1].order = last
    BY <1>4, <2>0, SettleExplains DEF ClosingStep, LedgerInv
  <2>3. /\ DOMAIN orders' = DOMAIN orders \cup {last}
        /\ \A p \in DOMAIN orders : /\ SameIdentity(orders[p], orders'[p])
                                    /\ orders'[p].filled = orders[p].filled
                                    /\ orders'[p].active = orders[p].active
        /\ orders'[last].filled = quantity
        /\ phase' = "done"
    BY <1>4 DEF ClosingStep
  <2> HIDE DEF n, last
  <2>4. \A p \in DOMAIN orders' :
           orders'[p].filled = SumFunctionOnSet(Traded(fills'), Entries(fills', p))
    <3> TAKE p \in DOMAIN orders'
    <3>1. CASE p = last
      <4>1. Entries(fills, p) = {}
        BY <1>a, <2>0, <3>1 DEF Entries
      <4>2. SumFunctionOnSet(Traded(fills), Entries(fills, p)) = 0
        BY <4>1, SumEmpty
      <4> QED
        BY <2>1, <2>3, <3>1, <4>2
    <3>2. CASE p \in DOMAIN orders
      <4>1. orders[p].filled = SumFunctionOnSet(Traded(fills), Entries(fills, p))
            /\ orders[p].filled \in Nat /\ p # last
        BY <1>0, <2>0, <3>2 DEF LedgerInv, Explained
      <4> QED
        BY <2>1, <2>3, <3>2, <4>1
    <3> QED
      BY <2>3, <3>1, <3>2
  <2>5. \A i \in DOMAIN fills' : fills'[i].order \in DOMAIN orders'
    BY <1>a, <2>2, <2>3
  <2>6. ASSUME NEW i \in DOMAIN fills', i # n + 1
        PROVE  /\ i \in DOMAIN fills /\ fills'[i] = fills[i]
               /\ fills[i].order \in DOMAIN orders /\ fills[i].order # last
               /\ OnTime(fills[i])' /\ BornToday(orders'[fills[i].order])
    <3> DEFINE p == fills[i].order
    <3>1. i \in DOMAIN fills /\ fills'[i] = fills[i]
      BY <2>2, <2>6
    <3>2. p \in DOMAIN orders /\ p # last /\ OnTime(fills[i]) /\ BornToday(orders[p])
      BY <1>4, <1>a, <2>0, <3>1 DEF LedgerInv
    <3> QED
      BY <2>3, <3>1, <3>2 DEF OnTime, BornToday, SameIdentity
  <2>7. FillsAreTimely'
    <3> SUFFICES ASSUME NEW i \in DOMAIN fills', i # n + 1
                 PROVE  LET f == fills'[i]
                            ord == orders'[f.order]
                        IN  /\ f.index > ord.index
                            /\ ord.tif = "DAY" =>
                                 /\ ~DailyBars => f.day = ord.day
                                 /\ \A k \in DOMAIN fills' :
                                       fills'[k].order = f.order => fills'[k].day = f.day
      BY <2>2, <2>3 DEF FillsAreTimely
    <3>1. /\ fills'[i] = fills[i] /\ fills[i].order # last
          /\ OnTime(fills[i])' /\ BornToday(orders'[fills[i].order])
      BY <2>6
    <3>2. ASSUME NEW k \in DOMAIN fills', fills'[k].order = fills[i].order,
                 orders'[fills[i].order].tif = "DAY"
          PROVE  fills'[k].day = fills[i].day
      <4>1. k # n + 1
        BY <2>2, <3>1, <3>2
      <4>2. fills'[k] = fills[k] /\ OnTime(fills[k])'
        BY <2>6, <4>1
      <4> QED
        BY <3>1, <3>2, <4>2 DEF OnTime
    <3> QED
      BY <3>1, <3>2 DEF OnTime, BornToday
  <2>8. Explained'
    BY <2>1, <2>4 DEF Explained
  <2> QED
    BY <2>3, <2>5, <2>7, <2>8 DEF LedgerInv
<1> QED
  BY <1>1, <1>2, <1>3, <1>4, LedgerSteps DEF LedgerStep

LEMMA LedgerStarts == Init => LedgerInv
<1> SUFFICES ASSUME Init PROVE LedgerInv
  OBVIOUS
<1>1. /\ cash = InitialCash /\ totalFees = 0 /\ position.quantity = 0
      /\ DOMAIN orders = {} /\ DOMAIN fills = {} /\ InitialCash \in Int
  BY BrokerAssumption DEF Init, Flat
<1>2. DOMAIN Paid(fills) = {} /\ DOMAIN Moved(fills) = {} /\ DOMAIN Fees(fills) = {}
  BY <1>1 DEF Paid, Moved, Fees
<1>3. /\ SumFunction(Paid(fills)) = 0 /\ SumFunction(Moved(fills)) = 0
      /\ SumFunction(Fees(fills)) = 0
  BY <1>2, SumEmpty DEF SumFunction
<1> QED
  BY <1>1, <1>3 DEF LedgerInv, Explained, FillsAreTimely

LEMMA LedgerHolds == Spec => []LedgerInv
<1>1. TypeOK /\ TypeOK' /\ LedgerInv /\ [Next]_vars => LedgerInv'
  BY LedgerKeeps
<1> QED
  BY <1>1, LedgerStarts, TypeCorrect, PTL DEF Spec

\* The fills alone explain the cash, the position, the fees and how much of
\* each order is filled: _execute books every fill everywhere, and nothing else
\* touches them.
THEOREM FillsAlwaysExplainTheAccount == Spec => []FillsExplainTheAccount
<1>1. LedgerInv => FillsExplainTheAccount
  BY ExplainedIsTheProperty DEF LedgerInv
<1> QED
  BY <1>1, LedgerHolds, PTL

\* No order trades in the bar it was submitted in, and a DAY order only on its
\* day, but for the liquidation.
THEOREM FillsAlwaysTimely == Spec => []FillsAreTimely
<1>1. LedgerInv => FillsAreTimely
  BY DEF LedgerInv
<1> QED
  BY <1>1, LedgerHolds, PTL

-----------------------------------------------------------------------------
(* Reversals open the opposite position once *)

Completed == {o \in DOMAIN orders : orders[o].status = "FILLED_ALL"}

\* What makes ReversalsOpenOnce inductive: the opening legs still to be sent are
\* also those of completely filled orders, of different ones, and of orders no
\* leg has been sent for.
ReversalInv ==
    /\ \A j \in DOMAIN deferred : deferred[j].closes \in Completed
    /\ \A j, k \in DOMAIN deferred : deferred[j].closes = deferred[k].closes => j = k
    /\ \A o \in DOMAIN orders : orders[o].closes # 0 =>
          /\ orders[o].closes \in Completed
          /\ \A j \in DOMAIN deferred : deferred[j].closes # orders[o].closes
          /\ \A p \in DOMAIN orders : orders[p].closes = orders[o].closes => p = o

\* A step keeps the deferred legs or drops them, defers the leg of a pending
\* order it fills, or takes the first leg and perhaps sends it.
DeferredStep ==
    \/ /\ deferred' \in {deferred, <<>>}
       /\ \A o \in DOMAIN orders' \ DOMAIN orders : orders'[o].closes = 0
    \/ \E o \in pending : \E leg :
          /\ DOMAIN orders' = DOMAIN orders
          /\ orders'[o].status = "FILLED_ALL"
          /\ leg.closes = o
          /\ deferred' = Append(deferred, leg)
    \/ /\ deferred # <<>>
       /\ deferred' = Tail(deferred)
       /\ \A o \in DOMAIN orders' \ DOMAIN orders :
             o = Len(orders) + 1 /\ orders'[o].closes = Head(deferred).closes

LEMMA DeferredSteps ==
    ASSUME TypeOK, [Next]_vars
    PROVE  DeferredStep
<1>0. /\ orders \in Seq(Order) /\ DOMAIN orders = 1..Len(orders) /\ Len(orders) \in Nat
      /\ pending \subseteq DOMAIN orders /\ todo \subseteq pending
      /\ \A o \in DOMAIN orders : orders[o] \in Order
  BY DEF TypeOK
<1>1. ASSUME NEW b, DOMAIN b = DOMAIN orders, Len(b) = Len(orders), b \in Seq(Order), NEW ord,
             orders' = Append(b, ord)
      PROVE  orders'[Len(orders) + 1] = ord /\ DOMAIN orders' = DOMAIN orders \cup {Len(orders) + 1}
  BY <1>0, <1>1
<1>2. ASSUME NEW ticket \in Tickets, NEW quantity \in 1..MaxQuantity, Submit(ticket, quantity)
      PROVE  DeferredStep
  <2> DEFINE ord == NewOrder(ticket, quantity, NoFollowUp, 0)
  <2>1. ord.closes = 0
    BY DEF NewOrder
  <2>2. orders' = Append(orders, ord) /\ deferred' = deferred
    BY <1>2 DEF Submit
  <2> HIDE DEF ord
  <2> QED
    BY <1>0, <1>1, <2>1, <2>2 DEF DeferredStep
<1>3. CASE CancelSome
  <2>1. PICK set : Cancel(set)
    BY <1>3 DEF CancelSome
  <2> QED
    BY <1>0, <2>1, CancelledFrame DEF Cancel, DeferredStep
<1>4. ASSUME NEW o \in pending, NEW quantity \in 1..MaxQuantity, NEW amendment \in Amendments,
             Modify(o, quantity, amendment)
      PROVE  DeferredStep
  <2>1. PICK ord : orders' = [orders EXCEPT ![o] = ord] /\ deferred' = deferred
    BY <1>4 DEF Modify
  <2> QED
    BY <1>0, <2>1 DEF DeferredStep
<1>5. CASE Reverse
  <2>1. deferred' = deferred
    BY <1>5 DEF Reverse
  <2>2. \/ orders' = CancelledOrders(pending)
        \/ \E closing, quantity, followUp :
             orders' = Append(CancelledOrders(pending), NewOrder(closing, quantity, followUp, 0))
    BY <1>5 DEF Reverse
  <2>3. /\ CancelledOrders(pending) \in Seq(Order)
        /\ Len(CancelledOrders(pending)) = Len(orders)
        /\ DOMAIN CancelledOrders(pending) = DOMAIN orders
    BY <1>0, CancelledFrame
  <2>4. CASE orders' = CancelledOrders(pending)
    BY <2>1, <2>3, <2>4 DEF DeferredStep
  <2>5. ASSUME NEW closing, NEW quantity, NEW followUp,
               orders' = Append(CancelledOrders(pending), NewOrder(closing, quantity, followUp, 0))
        PROVE  DeferredStep
    <3> DEFINE ord == NewOrder(closing, quantity, followUp, 0)
    <3>1. ord.closes = 0
      BY DEF NewOrder
    <3>2. orders' = Append(CancelledOrders(pending), ord)
      BY <2>5
    <3> HIDE DEF ord
    <3>3. orders'[Len(orders) + 1] = ord /\ DOMAIN orders' = DOMAIN orders \cup {Len(orders) + 1}
      BY <1>1, <2>3, <3>2
    <3> QED
      BY <2>1, <3>1, <3>3 DEF DeferredStep
  <2> QED
    BY <2>2, <2>4, <2>5
<1>6. CASE OpenBar \/ EndMatching \/ EndOpening \/ UNCHANGED vars
  <2>1. UNCHANGED orders /\ deferred' \in {deferred, <<>>}
    BY <1>6 DEF OpenBar, EndMatching, EndOpening, vars, book
  <2> QED
    BY <2>1 DEF DeferredStep
<1>7. ASSUME NEW o \in todo, Remains(o) \/ Expire(o)
      PROVE  DeferredStep
  <2>1. deferred' = deferred /\ \/ orders' = orders
                                \/ \E ord : orders' = [orders EXCEPT ![o] = ord]
    BY <1>7 DEF Remains, Expire
  <2>2. DOMAIN orders' = DOMAIN orders
    BY <1>0, <2>1
  <2> QED
    BY <2>1, <2>2 DEF DeferredStep
<1>8. ASSUME NEW o \in todo, Trade(o)
      PROVE  DeferredStep
  <2>0. o \in pending /\ o \in DOMAIN orders
    BY <1>0
  <2>1. PICK ord, price, quantity :
           \/ Execute(o, ord, price, quantity) \/ Reject(o, ord, price, quantity)
           \/ Abort(o, ord, quantity)
    BY <1>8 DEF Trade
  <2>2. CASE Reject(o, ord, price, quantity) \/ Abort(o, ord, quantity)
    <3>1. deferred' = deferred /\ DOMAIN orders' = DOMAIN orders
      BY <2>2 DEF Reject, Abort
    <3> QED
      BY <3>1 DEF DeferredStep
  <2>3. CASE Execute(o, ord, price, quantity)
    <3> DEFINE filled == Filled(ord, quantity)
    <3>1. orders' = [orders EXCEPT ![o] = filled] /\ deferred' = DeferredAfter(o, filled)
      BY <2>3 DEF Execute
    <3> HIDE DEF filled
    <3>2. DOMAIN orders' = DOMAIN orders /\ orders'[o] = filled
      BY <1>0, <2>0, <3>1
    <3>3. CASE deferred' = deferred
      BY <3>2, <3>3 DEF DeferredStep
    <3>4. CASE deferred' # deferred
      <4> DEFINE leg == [side |-> filled.followUp.side, quantity |-> filled.followUp.quantity,
                         closes |-> o]
      <4>1. filled.status = "FILLED_ALL" /\ deferred' = Append(deferred, leg)
        BY <3>1, <3>4 DEF DeferredAfter
      <4>2. leg.closes = o
        OBVIOUS
      <4> HIDE DEF leg
      <4> QED
        BY <2>0, <3>2, <4>1, <4>2 DEF DeferredStep
    <3> QED
      BY <3>3, <3>4
  <2> QED
    BY <2>1, <2>2, <2>3
<1>9. CASE OpenFollowUp
  <2> DEFINE leg == Head(deferred)
             ord == NewOrder(MarketTicket(leg.side), leg.quantity, NoFollowUp, leg.closes)
  <2>1. deferred # <<>> /\ deferred' = Tail(deferred)
        /\ (orders' = Append(orders, ord) \/ orders' = orders)
    BY <1>9 DEF OpenFollowUp
  <2>2. ord.closes = Head(deferred).closes
    BY DEF NewOrder
  <2> HIDE DEF ord
  <2>3. CASE orders' = Append(orders, ord)
    BY <1>0, <1>1, <2>1, <2>2, <2>3 DEF DeferredStep
  <2>4. CASE orders' = orders
    BY <2>1, <2>4 DEF DeferredStep
  <2> QED
    BY <2>1, <2>3, <2>4
<1>10. CASE Liquidate
  <2>1. deferred' = deferred
    BY <1>10 DEF Liquidate
  <2>2. /\ CancelledOrders(pending) \in Seq(Order)
        /\ Len(CancelledOrders(pending)) = Len(orders)
        /\ DOMAIN CancelledOrders(pending) = DOMAIN orders
    BY <1>0, CancelledFrame
  <2> DEFINE side == IF position.quantity > 0 THEN "SELL" ELSE "BUY_BACK"
             quantity == Abs(position.quantity)
             closing == [NewOrder(MarketTicket(side), quantity, NoFollowUp, 0)
                            EXCEPT !.active = -1, !.reserved = 0]
             new == Filled(closing, quantity)
  <2>3. orders' = CancelledOrders(pending) \/ orders' = Append(CancelledOrders(pending), new)
    BY <1>10 DEF Liquidate
  <2>4. new.closes = 0
    BY DEF NewOrder, Filled
  <2> HIDE DEF new
  <2>5. CASE orders' = CancelledOrders(pending)
    BY <2>1, <2>2, <2>5 DEF DeferredStep
  <2>6. CASE orders' = Append(CancelledOrders(pending), new)
    <3>1. orders'[Len(orders) + 1] = new /\ DOMAIN orders' = DOMAIN orders \cup {Len(orders) + 1}
      BY <1>1, <2>2, <2>6
    <3> QED
      BY <2>1, <2>4, <3>1 DEF DeferredStep
  <2> QED
    BY <2>3, <2>5, <2>6
<1> QED
  BY <1>2, <1>3, <1>4, <1>5, <1>6, <1>7, <1>8, <1>9, <1>10 DEF Next

\* A completely filled order stays one, and an order keeps what it closes.
LEMMA ReversalFrame ==
    ASSUME TypeOK, StatusMatchesFills, [Next]_vars
    PROVE  /\ Completed \subseteq Completed'
           /\ \A o \in DOMAIN orders : o \in DOMAIN orders' /\ orders'[o].closes = orders[o].closes
<1>1. OrderStep /\ LedgerStep
  BY OrderSteps, LedgerSteps
<1>2. Completed \subseteq Completed'
  <2> SUFFICES ASSUME NEW o \in Completed
               PROVE  o \in Completed'
    OBVIOUS
  <2>1. o \in DOMAIN orders /\ o \notin pending /\ orders[o].status = "FILLED_ALL"
    BY DEF Completed, StatusMatchesFills, Open
  <2> QED
    BY <1>1, <2>1 DEF OrderStep, Completed
<1>3. ASSUME NEW o \in DOMAIN orders
      PROVE  o \in DOMAIN orders' /\ orders'[o].closes = orders[o].closes
  <2>1. CASE UNCHANGED vars
    BY <2>1 DEF vars, book
  <2>2. CASE QuietStep
    BY <2>2 DEF QuietStep, SameIdentity
  <2>3. ASSUME NEW p \in DOMAIN orders, NEW side, NEW price, NEW quantity,
               FillStep(p, side, price, quantity)
        PROVE  o \in DOMAIN orders' /\ orders'[o].closes = orders[o].closes
    BY <2>3 DEF FillStep, SameIdentity
  <2>4. ASSUME NEW side, NEW price, NEW quantity, ClosingStep(side, price, quantity)
        PROVE  o \in DOMAIN orders' /\ orders'[o].closes = orders[o].closes
    BY <2>4 DEF ClosingStep, SameIdentity
  <2> QED
    BY <1>1, <2>1, <2>2, <2>3, <2>4 DEF LedgerStep
<1> QED
  BY <1>2, <1>3

LEMMA ReversalKeeps ==
    ASSUME TypeOK, StatusMatchesFills, ReversalInv, [Next]_vars
    PROVE  ReversalInv'
<1>0. /\ DOMAIN deferred = 1..Len(deferred) /\ Len(deferred) \in Nat
      /\ deferred \in Seq([side : OrderSide, quantity : Nat, closes : Nat])
      /\ DOMAIN orders = 1..Len(orders) /\ Len(orders) \in Nat /\ pending \subseteq DOMAIN orders
  BY DEF TypeOK
<1>1. /\ Completed \subseteq Completed'
      /\ \A o \in DOMAIN orders : o \in DOMAIN orders' /\ orders'[o].closes = orders[o].closes
  BY ReversalFrame
<1>2. /\ \A j \in DOMAIN deferred : deferred[j].closes \in Completed
      /\ \A j, k \in DOMAIN deferred : deferred[j].closes = deferred[k].closes => j = k
      /\ \A o \in DOMAIN orders : orders[o].closes # 0 =>
          /\ orders[o].closes \in Completed
          /\ \A j \in DOMAIN deferred : deferred[j].closes # orders[o].closes
          /\ \A p \in DOMAIN orders : orders[p].closes = orders[o].closes => p = o
  BY DEF ReversalInv
<1>3. CASE /\ deferred' \in {deferred, <<>>}
           /\ \A o \in DOMAIN orders' \ DOMAIN orders : orders'[o].closes = 0
  <2>1. \A j \in DOMAIN deferred' : j \in DOMAIN deferred /\ deferred'[j] = deferred[j]
    BY <1>3
  <2>2. \A o \in DOMAIN orders' : orders'[o].closes # 0 =>
           o \in DOMAIN orders /\ orders'[o].closes = orders[o].closes
    BY <1>1, <1>3
  <2>3. /\ \A j \in DOMAIN deferred' : deferred'[j].closes \in Completed'
        /\ \A j, k \in DOMAIN deferred' : deferred'[j].closes = deferred'[k].closes => j = k
    BY <1>1, <1>2, <2>1
  <2>4. \A o \in DOMAIN orders' : orders'[o].closes # 0 =>
          /\ orders'[o].closes \in Completed'
          /\ \A j \in DOMAIN deferred' : deferred'[j].closes # orders'[o].closes
          /\ \A p \in DOMAIN orders' : orders'[p].closes = orders'[o].closes => p = o
    BY <1>1, <1>2, <2>1, <2>2
  <2> QED
    BY <2>3, <2>4 DEF ReversalInv
<1>4. ASSUME NEW c \in pending, NEW leg, DOMAIN orders' = DOMAIN orders,
             orders'[c].status = "FILLED_ALL", leg.closes = c, deferred' = Append(deferred, leg)
      PROVE  ReversalInv'
  <2> DEFINE n == Len(deferred)
  <2>1. c \notin Completed /\ c \in Completed'
    BY <1>0, <1>4 DEF Completed, StatusMatchesFills, Open
  <2>2. /\ DOMAIN deferred' = 1..(n + 1) /\ deferred'[n + 1] = leg
        /\ \A j \in DOMAIN deferred : deferred'[j] = deferred[j]
    BY <1>0, <1>4
  <2>3. \A j \in DOMAIN deferred' : j = n + 1 \/ j \in DOMAIN deferred
    BY <1>0, <2>2
  <2> HIDE DEF n
  <2>4. /\ \A j \in DOMAIN deferred' : deferred'[j].closes \in Completed'
        /\ \A j, k \in DOMAIN deferred' : deferred'[j].closes = deferred'[k].closes => j = k
    BY <1>1, <1>2, <1>4, <2>1, <2>2, <2>3
  <2>5. \A o \in DOMAIN orders' : orders'[o].closes # 0 =>
          /\ orders'[o].closes \in Completed'
          /\ \A j \in DOMAIN deferred' : deferred'[j].closes # orders'[o].closes
          /\ \A p \in DOMAIN orders' : orders'[p].closes = orders'[o].closes => p = o
    BY <1>1, <1>2, <1>4, <2>1, <2>2, <2>3
  <2> QED
    BY <2>4, <2>5 DEF ReversalInv
<1>5. CASE /\ deferred # <<>>
           /\ deferred' = Tail(deferred)
           /\ \A o \in DOMAIN orders' \ DOMAIN orders :
                 o = Len(orders) + 1 /\ orders'[o].closes = Head(deferred).closes
  <2>1. 1 \in DOMAIN deferred /\ Head(deferred) = deferred[1]
    BY <1>0, <1>5
  <2>2. \A j \in DOMAIN deferred' : /\ j \in DOMAIN deferred /\ j + 1 \in DOMAIN deferred
                                    /\ deferred'[j] = deferred[j + 1] /\ j + 1 # 1
    <3> DEFINE m == Len(deferred) - 1
    <3>1. m \in Nat /\ m + 1 = Len(deferred) /\ DOMAIN deferred = 1..(m + 1)
      BY <1>0, <1>5
    <3>2. DOMAIN deferred' = 1..m /\ \A j \in 1..m : deferred'[j] = deferred[j + 1]
      BY <1>0, <1>5, <3>1
    <3> HIDE DEF m
    <3> QED
      BY ONLY <3>1, <3>2
  <2> DEFINE c == deferred[1].closes
  <2>3. /\ c \in Completed
        /\ \A j \in DOMAIN deferred' : deferred'[j].closes # c
    BY <1>2, <2>1, <2>2
  <2>4. \A o \in DOMAIN orders : orders[o].closes # 0 => orders[o].closes # c
    BY <1>2, <2>1
  <2>5. \A o \in DOMAIN orders' \ DOMAIN orders : o = Len(orders) + 1 /\ orders'[o].closes = c
    BY <1>5, <2>1
  <2>6. \A j, k \in DOMAIN deferred' : deferred'[j].closes = deferred'[k].closes => j = k
    <3> SUFFICES ASSUME NEW j \in DOMAIN deferred', NEW k \in DOMAIN deferred',
                        deferred'[j].closes = deferred'[k].closes
                 PROVE  j = k
      OBVIOUS
    <3>1. /\ j + 1 \in DOMAIN deferred /\ k + 1 \in DOMAIN deferred
          /\ deferred[j + 1].closes = deferred[k + 1].closes
      BY <2>2
    <3>2. j + 1 = k + 1
      BY <1>2, <3>1
    <3>3. j \in Int /\ k \in Int
      BY <1>0, <2>2
    <3> QED
      BY <3>2, <3>3
  <2>7. \A j \in DOMAIN deferred' : deferred'[j].closes \in Completed'
    BY <1>1, <1>2, <2>2
  <2>8. \A o \in DOMAIN orders : orders[o].closes # 0 =>
           \A j \in DOMAIN deferred' : deferred'[j].closes # orders[o].closes
    BY <1>2, <2>2
  <2> HIDE DEF c
  <2>9. \A o \in DOMAIN orders' : orders'[o].closes # 0 =>
          /\ orders'[o].closes \in Completed'
          /\ \A j \in DOMAIN deferred' : deferred'[j].closes # orders'[o].closes
          /\ \A p \in DOMAIN orders' : orders'[p].closes = orders'[o].closes => p = o
    <3> SUFFICES ASSUME NEW o \in DOMAIN orders', orders'[o].closes # 0
                 PROVE  /\ orders'[o].closes \in Completed'
                        /\ \A j \in DOMAIN deferred' : deferred'[j].closes # orders'[o].closes
                        /\ \A p \in DOMAIN orders' : orders'[p].closes = orders'[o].closes => p = o
      OBVIOUS
    <3>1. CASE o \in DOMAIN orders
      BY <1>1, <1>2, <2>4, <2>5, <2>8, <3>1
    <3>2. CASE o \notin DOMAIN orders
      BY <1>1, <2>3, <2>4, <2>5, <3>2
    <3> QED
      BY <3>1, <3>2
  <2> QED
    BY <2>6, <2>7, <2>9 DEF ReversalInv
<1> QED
  BY <1>3, <1>4, <1>5, DeferredSteps DEF DeferredStep

\* A reversal opens the opposite position at most once, and only for a closing
\* order that has filled completely (_execute, _deferred_submissions).
THEOREM ReversalsAlwaysOpenOnce == Spec => []ReversalsOpenOnce
<1>1. Init => ReversalInv
  BY DEF Init, ReversalInv
<1>2. TypeOK /\ StatusMatchesFills /\ ReversalInv /\ [Next]_vars => ReversalInv'
  BY ReversalKeeps
<1>3. ReversalInv => ReversalsOpenOnce
  BY DEF ReversalInv, ReversalsOpenOnce, Completed
<1> QED
  BY <1>1, <1>2, <1>3, TypeCorrect, StatusesMatchFills, PTL DEF Spec

-----------------------------------------------------------------------------
(* Prices and costs *)

\* Whole parts of larger amounts are not smaller, and grow no faster.
LEMMA ShareGrows ==
    ASSUME NEW x \in Int, NEW y \in Int, x <= y, NEW bps \in Nat
    PROVE  /\ (x * bps) \div 10000 \in Int /\ (y * bps) \div 10000 \in Int
           /\ (x * bps) \div 10000 <= (y * bps) \div 10000
           /\ bps <= 10000 => (y * bps) \div 10000 - (x * bps) \div 10000 <= y - x
<1> DEFINE a == x * bps
           b == y * bps
           d == y - x
<1>1. a \in Int /\ b \in Int /\ d \in Nat /\ b = a + d * bps
  OBVIOUS
<1>2. d * bps \in Int /\ d * bps >= 0
  BY <1>1
<1>3. bps <= 10000 => d * bps <= d * 10000
  BY <1>1
<1> HIDE DEF a, b, d
<1>4. a <= b
  BY <1>1, <1>2
<1>5. a \div 10000 \in Int /\ b \div 10000 \in Int /\ a \div 10000 <= b \div 10000
  BY <1>1, <1>4
<1>6. bps <= 10000 => b <= a + d * 10000
  BY <1>1, <1>2, <1>3
<1>7. b <= a + d * 10000 => b \div 10000 <= a \div 10000 + d
  BY <1>1
<1> QED
  BY <1>4, <1>5, <1>6, <1>7, <1>1 DEF a, b, d

\* Slipped prices keep their order.
LEMMA SlippedGrows ==
    ASSUME NEW x \in Int, NEW y \in Int, x <= y, NEW side,
           side \notin Buys => SlippageBps <= 10000
    PROVE  /\ Slipped(x, side) \in Int /\ Slipped(y, side) \in Int
           /\ Slipped(x, side) <= Slipped(y, side)
<1>1. SlippageBps \in Nat /\ FixedTick \in Nat
  BY PricingAssumption
<1> DEFINE a == (x * SlippageBps) \div 10000
           b == (y * SlippageBps) \div 10000
<1>2. a \in Int /\ b \in Int /\ a <= b /\ (SlippageBps <= 10000 => b - a <= y - x)
  BY <1>1, ShareGrows
<1>3. /\ Slipped(x, side) = IF side \in Buys THEN x + (a + FixedTick) ELSE x - (a + FixedTick)
      /\ Slipped(y, side) = IF side \in Buys THEN y + (b + FixedTick) ELSE y - (b + FixedTick)
  BY DEF Slipped
<1> HIDE DEF a, b
<1> QED
  BY <1>1, <1>2, <1>3

\* A buy pays its slippage.
LEMMA BuysSlipUp ==
    ASSUME NEW x \in Nat, NEW side \in Buys
    PROVE  x <= Slipped(x, side)
<1>1. SlippageBps \in Nat /\ FixedTick \in Nat
  BY PricingAssumption
<1>2. x * SlippageBps \in Int /\ x * SlippageBps >= 0
  BY <1>1
<1>3. (x * SlippageBps) \div 10000 \in Int /\ (x * SlippageBps) \div 10000 >= 0
  BY <1>2
<1> QED
  BY <1>1, <1>3 DEF Slipped

\* What so many shares cost, fee included; a higher price costs no less.
Cost(price, quantity) == quantity * price + Fee(price, quantity)

\* Fees of more expensive shares are not lower ...
LEMMA FeeGrows ==
    ASSUME NEW x \in Int, NEW y \in Int, x <= y, NEW q \in Nat
    PROVE  /\ Fee(x, q) \in Nat /\ Fee(y, q) \in Nat /\ Fee(x, q) <= Fee(y, q)
<1>1. CommissionBps \in Nat /\ MinCommission \in Nat
  BY PricingAssumption
<1> DEFINE a == (x * q * CommissionBps) \div 10000
           b == (y * q * CommissionBps) \div 10000
<1>2. x * q \in Int /\ y * q \in Int /\ x * q <= y * q
  OBVIOUS
<1>3. a \in Int /\ b \in Int /\ a <= b
  BY <1>1, <1>2, ShareGrows
<1>4. Fee(x, q) = Max({MinCommission, a}) /\ Fee(y, q) = Max({MinCommission, b})
  BY DEF Fee
<1> HIDE DEF a, b
<1>5. /\ Fee(x, q) = IF MinCommission >= a THEN MinCommission ELSE a
      /\ Fee(y, q) = IF MinCommission >= b THEN MinCommission ELSE b
  BY <1>1, <1>3, <1>4, MaxOfTwo
<1> QED
  BY <1>1, <1>3, <1>5

\* ... and neither are costs.
LEMMA CostGrows ==
    ASSUME NEW x \in Int, NEW y \in Int, x <= y, NEW q \in Nat
    PROVE  /\ Cost(x, q) \in Int /\ Cost(y, q) \in Int /\ Cost(x, q) <= Cost(y, q)
           /\ 0 <= y => 0 <= Cost(y, q)
<1>1. Fee(x, q) \in Nat /\ Fee(y, q) \in Nat /\ Fee(x, q) <= Fee(y, q)
  BY FeeGrows
<1> DEFINE a == q * x
           b == q * y
<1>2. a \in Int /\ b \in Int /\ a <= b /\ (0 <= y => 0 <= b)
  OBVIOUS
<1>3. Cost(x, q) = a + Fee(x, q) /\ Cost(y, q) = b + Fee(y, q)
  BY DEF Cost
<1> HIDE DEF a, b
<1> QED
  BY <1>1, <1>2, <1>3

\* A sale at a price that is worth the minimum commission is worth its fee.
LEMMA SaleIsWorthItsFee ==
    ASSUME CommissionBps <= 10000, NEW price \in Int, price >= MinCommission, NEW q \in Nat, q > 0
    PROVE  q * price - Fee(price, q) >= 0
<1>1. CommissionBps \in Nat /\ MinCommission \in Nat
  BY PricingAssumption
<1> DEFINE worth == price * q
           share == (price * q * CommissionBps) \div 10000
<1>2. price >= 0 /\ worth \in Int /\ worth >= 0 /\ worth >= price /\ worth = q * price
  BY <1>1
<1>3. share = (worth * CommissionBps) \div 10000
  OBVIOUS
<1> HIDE DEF worth
<1>4. share \in Int /\ share <= worth
  <2>1. /\ (worth * CommissionBps) \div 10000 \in Int
        /\ (worth * CommissionBps) \div 10000 - (0 * CommissionBps) \div 10000 <= worth - 0
    BY <1>1, <1>2, ShareGrows
  <2>2. (0 * CommissionBps) \div 10000 = 0
    BY <1>1
  <2> HIDE DEF share
  <2> QED
    BY <1>2, <1>3, <2>1, <2>2
<1>5. Fee(price, q) = Max({MinCommission, share})
  BY DEF Fee
<1> HIDE DEF share
<1>6. Fee(price, q) = IF MinCommission >= share THEN MinCommission ELSE share
  BY <1>1, <1>4, <1>5, MaxOfTwo
<1> QED
  BY <1>1, <1>2, <1>4, <1>6

\* The base price of a buy is at its limit or better, that of a sale in the bar.
LEMMA LimitBaseBound ==
    ASSUME NEW side, NEW limit \in Int, NEW b \in BarRecord, LimitBase(side, limit, b) # 0
    PROVE  /\ side \in Buys => LimitBase(side, limit, b) <= limit
           /\ side \notin Buys /\ b.low <= b.open => b.low <= LimitBase(side, limit, b)
<1>1. b.open \in Int /\ b.low \in Int /\ b.high \in Int
  BY DEF BarRecord
<1>2. CASE side \in Buys
  BY <1>1, <1>2 DEF LimitBase, AtOrBetter
<1>3. CASE side \notin Buys
  BY <1>1, <1>3 DEF LimitBase, AtOrBetter
<1> QED
  BY <1>2, <1>3

\* A stopped sale is triggered in the bar too.
LEMMA StopBaseBound ==
    ASSUME NEW side, side \notin Buys, NEW stop \in Int, NEW b \in BarRecord, b.low <= b.open,
           StopBase(side, stop, b) # 0
    PROVE  b.low <= StopBase(side, stop, b)
<1>1. b.open \in Int /\ b.low \in Int
  BY DEF BarRecord
<1> QED
  BY <1>1 DEF StopBase, AtOrBetter

\* A sale trades at the low of the bar, less its slippage, or better.
LEMMA SalePrice ==
    ASSUME SlippageBps <= 10000, NEW ord \in Order, ord.side \notin Buys, NEW b \in BarRecord,
           b.low <= b.open, FillPrice(ord, b) # 0
    PROVE  Slipped(b.low, ord.side) <= FillPrice(ord, b) /\ FillPrice(ord, b) \in Int
<1>1. /\ ord.limit \in Int /\ ord.stop \in Int /\ ord.type \in OrderType
      /\ b.open \in Int /\ b.low \in Int
  BY DEF Order, BarRecord
<1>2. FillPrice(ord, b) \in Int
  BY FillPriceType
<1>3. ASSUME NEW base \in Int, b.low <= base PROVE Slipped(b.low, ord.side) <= Slipped(base, ord.side)
  BY <1>1, <1>3, SlippedGrows
<1>4. CASE ord.type \in {"LIMIT", "STOP_LIMIT"}
  <2> DEFINE base == LimitBase(ord.side, ord.limit, b)
             p == Slipped(base, ord.side)
  <2>1. FillPrice(ord, b) = LimitPrice(ord, b)
    BY <1>4 DEF FillPrice
  <2>2. base # 0 /\ FillPrice(ord, b) = Capped(ord.side, p, ord.limit)
    BY <2>1 DEF LimitPrice
  <2>3. base \in Int /\ b.low <= base
    BY <1>1, <2>2, BaseTypes, LimitBaseBound
  <2>4. p \in Int /\ Slipped(b.low, ord.side) \in Int /\ Slipped(b.low, ord.side) <= p
    BY <1>1, <1>3, <2>3, SlippedType
  <2> HIDE DEF p, base
  <2>5. p <= Capped(ord.side, p, ord.limit)
    BY <1>1, <2>4 DEF Capped, AtOrBetter
  <2> QED
    BY <1>2, <2>2, <2>4, <2>5
<1>5. CASE ord.type \notin {"LIMIT", "STOP_LIMIT"}
  <2> DEFINE base == BasePrice(ord, b)
  <2>1. base # 0 /\ FillPrice(ord, b) = Slipped(base, ord.side)
    BY <1>5 DEF FillPrice
  <2>2. base \in Int /\ b.low <= base
    <3>1. TrailingStop(ord) \in Int /\ TrailingLimit(ord) \in Int
      BY TrailingTypes
    <3>2. CASE ord.type = "MARKET"
      BY <1>1, <3>2 DEF BasePrice
    <3>3. CASE ord.type = "STOP"
      <4>1. base = StopBase(ord.side, ord.stop, b)
        BY <3>3 DEF BasePrice
      <4> QED
        BY <1>1, <2>1, <4>1, BaseTypes, StopBaseBound
    <3>4. CASE ord.type = "MARKET_IF_TOUCHED"
      <4>1. base = LimitBase(ord.side, ord.stop, b)
        BY <3>4 DEF BasePrice
      <4> QED
        BY <1>1, <2>1, <4>1, BaseTypes, LimitBaseBound
    <3>5. CASE ord.type = "LIMIT_IF_TOUCHED"
      <4>1. base = LimitBase(ord.side, ord.limit, b)
        BY <2>1, <3>5 DEF BasePrice
      <4> QED
        BY <1>1, <2>1, <4>1, BaseTypes, LimitBaseBound
    <3>6. CASE ord.type = "TRAILING_STOP"
      <4>1. base = StopBase(ord.side, TrailingStop(ord), b)
        BY <3>6 DEF BasePrice
      <4> QED
        BY <1>1, <2>1, <3>1, <4>1, BaseTypes, StopBaseBound
    <3>7. CASE ord.type = "TRAILING_STOP_LIMIT"
      <4>1. base = LimitBase(ord.side, TrailingLimit(ord), b)
        BY <2>1, <3>7 DEF BasePrice
      <4> QED
        BY <1>1, <2>1, <3>1, <4>1, BaseTypes, LimitBaseBound
    <3> QED
      BY <1>1, <1>5, <3>2, <3>3, <3>4, <3>5, <3>6, <3>7 DEF OrderType
  <2> QED
    BY <1>2, <1>3, <2>1, <2>2
<1> QED
  BY <1>2, <1>4, <1>5

-----------------------------------------------------------------------------
(* Reservations *)

\* A buy whose reservation covers whatever it may cost.
PricedBuy(ord) ==
    \/ ord.type \in Limited \ Trailing /\ ord.limit # 0
    \/ ord.type = "MARKET_IF_TOUCHED" /\ ord.stop # 0 /\ ord.limit \in Limits /\ ord.stop \in Stops

\* The price of the reservation.
ReservedPrice(ord) ==
    IF ord.type = "LIMIT" THEN ord.limit
    ELSE Slipped(IF ord.limit # 0 THEN ord.limit ELSE ord.stop, ord.side)

\* _estimate_reserved_cash, of orders with a price of their own.
LEMMA ReservedAt ==
    ASSUME NEW ord \in Order, ord.side \in Buys, PricedBuy(ord), NEW mark, NEW q \in Nat
    PROVE  /\ EstimatedReserve(ord.side, ord.type, ord.limit, ord.stop, mark, q)
                = Cost(ReservedPrice(ord), q)
           /\ ReservedPrice(ord) \in Nat
           /\ Cost(ReservedPrice(ord), q) \in Nat
<1>1. ord.limit \in Nat /\ ord.stop \in Nat /\ (ord.limit # 0 \/ ord.stop # 0)
  BY DEF Order, PricedBuy
<1>2. ord.type = "LIMIT" => ord.limit # 0
  BY DEF PricedBuy
<1>3. EstimatedReserve(ord.side, ord.type, ord.limit, ord.stop, mark, q) = Cost(ReservedPrice(ord), q)
  BY <1>1, <1>2 DEF EstimatedReserve, Cost, ReservedPrice
<1>4. ReservedPrice(ord) \in Nat
  <2> DEFINE x == IF ord.limit # 0 THEN ord.limit ELSE ord.stop
  <2>1. x \in Nat
    BY <1>1
  <2> HIDE DEF x
  <2>2. Slipped(x, ord.side) \in Int /\ x <= Slipped(x, ord.side)
    BY <2>1, SlippedType, BuysSlipUp
  <2>3. Slipped(x, ord.side) \in Nat
    BY <2>1, <2>2
  <2> QED
    BY <1>1, <2>3 DEF ReservedPrice, x
<1>5. Cost(ReservedPrice(ord), q) \in Nat
  <2>1. \A y \in Nat : y \in Int /\ y <= y /\ 0 <= y
    OBVIOUS
  <2>2. \A y \in Nat : Cost(y, q) \in Int /\ 0 <= Cost(y, q)
    BY <2>1, CostGrows
  <2> QED
    BY <1>4, <2>2
<1> QED
  BY <1>3, <1>4, <1>5

\* A buy never trades above the price of its reservation.
LEMMA BuyPrice ==
    ASSUME FundedTerms, NEW ord \in Order, ord.side \in Buys, PricedBuy(ord), NEW b \in BarRecord,
           FillPrice(ord, b) # 0
    PROVE  FillPrice(ord, b) <= ReservedPrice(ord)
<1>1. /\ ord.limit \in Nat /\ ord.stop \in Nat /\ ord.limit \in Int /\ ord.stop \in Int
      /\ ord.type \in OrderType
  BY DEF Order
<1>2. CASE ord.type \in {"LIMIT", "STOP_LIMIT"}
  <2> DEFINE base == LimitBase(ord.side, ord.limit, b)
             p == Slipped(base, ord.side)
  <2>1. FillPrice(ord, b) = LimitPrice(ord, b)
    BY <1>2 DEF FillPrice
  <2>2. base # 0 /\ FillPrice(ord, b) = Capped(ord.side, p, ord.limit)
    BY <2>1 DEF LimitPrice
  <2>3. p \in Int
    BY <1>1, BaseTypes, SlippedType
  <2> HIDE DEF p, base
  <2>4. FillPrice(ord, b) \in Int /\ FillPrice(ord, b) <= ord.limit
    <3>1. FillPrice(ord, b) \in Int /\ AtOrBetter(ord.side, FillPrice(ord, b), ord.limit)
      BY <1>1, <2>2, <2>3, CappedIsAtOrBetter
    <3> QED
      BY <3>1 DEF AtOrBetter
  <2>5. ord.limit # 0
    BY <1>2 DEF PricedBuy
  <2>6. ord.limit <= Slipped(ord.limit, ord.side) /\ Slipped(ord.limit, ord.side) \in Int
    BY <1>1, BuysSlipUp, SlippedType
  <2> QED
    BY <1>1, <2>4, <2>5, <2>6 DEF ReservedPrice
<1>3. CASE ord.type \notin {"LIMIT", "STOP_LIMIT"}
  <2> DEFINE base == BasePrice(ord, b)
             x == IF ord.limit # 0 THEN ord.limit ELSE ord.stop
  <2>1. base # 0 /\ FillPrice(ord, b) = Slipped(base, ord.side)
    BY <1>3 DEF FillPrice
  <2>2. ReservedPrice(ord) = Slipped(x, ord.side)
    BY <1>3 DEF ReservedPrice
  <2>3. base \in Int /\ base <= x
    <3>1. CASE ord.type = "LIMIT_IF_TOUCHED"
      <4>1. base = LimitBase(ord.side, ord.limit, b)
        BY <2>1, <3>1 DEF BasePrice
      <4>2. ord.limit # 0
        BY <3>1 DEF PricedBuy
      <4> QED
        BY <1>1, <2>1, <4>1, <4>2, BaseTypes, LimitBaseBound
    <3>2. CASE ord.type = "MARKET_IF_TOUCHED"
      <4>1. base = LimitBase(ord.side, ord.stop, b)
        BY <3>2 DEF BasePrice
      <4>2. base \in Int /\ base <= ord.stop
        BY <1>1, <2>1, <4>1, BaseTypes, LimitBaseBound
      <4>3. ord.limit \in Limits /\ ord.stop \in Stops
        BY <3>2 DEF PricedBuy, Limited
      <4>4. ord.limit # 0 => ord.stop <= ord.limit
        BY <4>3 DEF FundedTerms
      <4> HIDE DEF base
      <4> QED
        BY <1>1, <4>2, <4>4
    <3> QED
      BY <1>1, <1>3, <3>1, <3>2 DEF PricedBuy, Limited, Trailing
  <2>4. x \in Int
    BY <1>1
  <2> HIDE DEF base, x
  <2> QED
    BY <2>1, <2>2, <2>3, <2>4, SlippedGrows
<1> QED
  BY <1>2, <1>3

\* What the buys among some orders of a book have reserved together.
BuysIn(book1, set) == {o \in set : book1[o].side \in Buys}
ReservedBy(book1) == [o \in DOMAIN book1 |-> book1[o].reserved]
ReservedFor(book1, set) == SumFunctionOnSet(ReservedBy(book1), BuysIn(book1, set))
ReservedOf(ord) == IF ord.side \in Buys THEN ord.reserved ELSE 0

\* What is reserved for the pending buys, now ...
LEMMA ReservedNow == ReservedBuyCash = ReservedFor(orders, pending)
  BY DEF ReservedBuyCash, ReservedFor, ReservedBy, BuysIn, PendingOn

\* ... and after a step, as one operator of the book.
LEMMA ReservedNext == ReservedBuyCash' = ReservedFor(orders', pending')
  BY DEF ReservedBuyCash, ReservedFor, ReservedBy, BuysIn, PendingOn

\* Reservations are numbers, and the book is finite.
LEMMA ReservedType ==
    ASSUME NEW b \in Seq(Order), NEW S \in SUBSET DOMAIN b
    PROVE  /\ IsFiniteSet(S) /\ IsFiniteSet(BuysIn(b, S))
           /\ \A o \in S : ReservedBy(b)[o] = b[o].reserved /\ b[o].reserved \in Int
           /\ ReservedFor(b, S) \in Int
<1>1. DOMAIN b = 1..Len(b) /\ Len(b) \in Nat
  OBVIOUS
<1>2. IsFiniteSet(1..Len(b))
  BY <1>1, FS_Interval
<1>3. IsFiniteSet(S)
  BY <1>1, <1>2, FS_Subset
<1>4. BuysIn(b, S) \subseteq S
  BY DEF BuysIn
<1>5. IsFiniteSet(BuysIn(b, S))
  BY <1>3, <1>4, FS_Subset
<1>6. \A o \in S : ReservedBy(b)[o] = b[o].reserved /\ b[o].reserved \in Int
  <2>1. \A o \in S : b[o] \in Order /\ o \in DOMAIN b
    OBVIOUS
  <2> QED
    BY <2>1 DEF ReservedBy, Order
<1>7. \A o \in BuysIn(b, S) : ReservedBy(b)[o] \in Int
  BY <1>4, <1>6
<1>8. ReservedFor(b, S) \in Int
  BY <1>5, <1>7, SumType DEF ReservedFor
<1> QED
  BY <1>3, <1>5, <1>6, <1>8

\* Orders that are left alone reserve what they did.
LEMMA ReservedSame ==
    ASSUME NEW b \in Seq(Order), NEW c \in Seq(Order), NEW S,
           S \in SUBSET DOMAIN b, S \in SUBSET DOMAIN c, \A o \in S : b[o] = c[o]
    PROVE  ReservedFor(b, S) = ReservedFor(c, S)
<1>1. BuysIn(b, S) = BuysIn(c, S)
  BY DEF BuysIn
<1>2. IsFiniteSet(BuysIn(b, S))
  BY ReservedType
<1>3. \A o \in BuysIn(b, S) : ReservedBy(b)[o] = ReservedBy(c)[o]
  BY DEF BuysIn, ReservedBy
<1> QED
  BY <1>1, <1>2, <1>3, SameSum DEF ReservedFor

\* One order more.
LEMMA ReservedAdds ==
    ASSUME NEW b \in Seq(Order), NEW S \in SUBSET DOMAIN b, NEW o \in S
    PROVE  ReservedFor(b, S) = ReservedFor(b, S \ {o}) + ReservedOf(b[o])
<1> DEFINE rest == BuysIn(b, S \ {o})
           f == ReservedBy(b)
<1>1. /\ IsFiniteSet(rest) /\ ReservedFor(b, S \ {o}) \in Int
      /\ \A i \in S : f[i] = b[i].reserved /\ f[i] \in Int
  BY ReservedType
<1>2. ReservedFor(b, S \ {o}) = SumFunctionOnSet(f, rest) /\ ReservedFor(b, S) = SumFunctionOnSet(f, BuysIn(b, S))
  BY DEF ReservedFor
<1>3. CASE b[o].side \in Buys
  <2>1. BuysIn(b, S) = rest \cup {o} /\ o \notin rest /\ rest \subseteq S
    BY <1>3 DEF BuysIn
  <2> HIDE DEF rest, f
  <2>2. \A i \in rest \cup {o} : f[i] \in Int
    BY <1>1, <2>1
  <2>3. SumFunctionOnSet(f, rest \cup {o}) = SumFunctionOnSet(f, rest) + f[o]
    BY <1>1, <2>1, <2>2, SumAdds
  <2>4. f[o] = ReservedOf(b[o])
    BY <1>1, <1>3 DEF ReservedOf
  <2> QED
    BY <1>2, <2>1, <2>3, <2>4
<1>4. CASE b[o].side \notin Buys
  <2>1. BuysIn(b, S) = rest
    BY <1>4 DEF BuysIn
  <2>2. ReservedOf(b[o]) = 0
    BY <1>4 DEF ReservedOf
  <2> HIDE DEF rest, f
  <2> QED
    BY <1>1, <1>2, <2>1, <2>2
<1> QED
  BY <1>3, <1>4

\* Some of the orders reserve no more than all of them, where none reserves less than nothing.
LEMMA ReservedPart ==
    ASSUME NEW b \in Seq(Order), NEW S \in SUBSET DOMAIN b, NEW T \in SUBSET S,
           \A o \in S : b[o].side \in Buys => b[o].reserved >= 0
    PROVE  ReservedFor(b, T) <= ReservedFor(b, S)
<1>1. IsFiniteSet(BuysIn(b, S)) /\ \A o \in S : ReservedBy(b)[o] = b[o].reserved /\ b[o].reserved \in Int
  BY ReservedType
<1>2. BuysIn(b, T) \subseteq BuysIn(b, S)
  BY DEF BuysIn
<1>3. \A o \in BuysIn(b, S) : ReservedBy(b)[o] \in Int /\ ReservedBy(b)[o] >= 0
  BY <1>1 DEF BuysIn
<1> QED
  BY <1>1, <1>2, <1>3, SumOfPart DEF ReservedFor

\* No orders reserve nothing.
LEMMA ReservedByNone ==
    ASSUME NEW b
    PROVE  ReservedFor(b, {}) = 0
<1>1. BuysIn(b, {}) = {}
  BY DEF BuysIn
<1> QED
  BY <1>1, SumEmpty DEF ReservedFor

-----------------------------------------------------------------------------
(* The inductive invariant *)

\* What FundedTerms make of an order in the book: nothing of it has traded, it is
\* no leg of a reversal, and a buy has reserved what it costs at its dearest.
Funded(ord) ==
    /\ ord.filled = 0 /\ ord.followUp = NoFollowUp
    /\ ord.side \in Buys => PricedBuy(ord) /\ ord.reserved = Cost(ReservedPrice(ord), ord.quantity)

FundedInv ==
    /\ \A o \in pending : Funded(orders[o])
    /\ deferred = <<>>
    /\ position.quantity >= 0
    /\ BuysAreFunded

\* What a buy has reserved is not negative.
LEMMA FundedReserves ==
    ASSUME NEW ord \in Order, Funded(ord)
    PROVE  /\ ord.side \in Buys => ord.reserved >= 0
           /\ ReservedOf(ord) \in Int /\ ReservedOf(ord) >= 0
<1>1. ord.reserved \in Int /\ ord.quantity \in Nat
  BY DEF Order
<1>2. CASE ord.side \in Buys
  <2>1. Cost(ReservedPrice(ord), ord.quantity) \in Nat
    BY <1>1, <1>2, ReservedAt DEF Funded
  <2> QED
    BY <1>1, <1>2, <2>1 DEF Funded, ReservedOf
<1> QED
  BY <1>2 DEF ReservedOf

\* The orders of the book reserve what is there, and some of them not more.
LEMMA BookIsFunded ==
    ASSUME TypeOK, FundedInv, NEW T \in SUBSET pending
    PROVE  /\ ReservedFor(orders, T) \in Int /\ ReservedFor(orders, T) >= 0
           /\ ReservedFor(orders, T) <= ReservedFor(orders, pending)
           /\ ReservedFor(orders, pending) <= cash /\ cash \in Int
           /\ ReservedFor(orders, pending) \in Int
<1>1. orders \in Seq(Order) /\ pending \in SUBSET DOMAIN orders /\ cash \in Int
  BY DEF TypeOK
<1>2. \A o \in pending : orders[o].side \in Buys => orders[o].reserved >= 0
  BY <1>1, FundedReserves DEF FundedInv
<1>3. ReservedFor(orders, pending) \in Int /\ ReservedFor(orders, T) \in Int
  BY <1>1, ReservedType
<1>4. ReservedFor(orders, T) <= ReservedFor(orders, pending)
  BY <1>1, <1>2, ReservedPart
<1>5. ReservedFor(orders, {}) <= ReservedFor(orders, T)
  <2>1. T \in SUBSET DOMAIN orders /\ \A o \in T : orders[o].side \in Buys => orders[o].reserved >= 0
    BY <1>1, <1>2
  <2>2. {} \in SUBSET T
    OBVIOUS
  <2> QED
    BY <1>1, <2>1, <2>2, ReservedPart
<1>6. ReservedFor(orders, {}) = 0
  BY ReservedByNone
<1>7. ReservedFor(orders, pending) <= cash
  BY ReservedNow DEF FundedInv, BuysAreFunded
<1> QED
  BY <1>1, <1>3, <1>4, <1>5, <1>6, <1>7

-----------------------------------------------------------------------------
(* The steps keep the invariant *)

\* A new order on these terms.
LEMMA NewOrderIsFunded ==
    ASSUME TypeOK, FundedTerms, NEW ticket \in Tickets, NEW quantity \in Nat
    PROVE  /\ NewOrder(ticket, quantity, NoFollowUp, 0) \in Order
           /\ Funded(NewOrder(ticket, quantity, NoFollowUp, 0))
           /\ NewOrder(ticket, quantity, NoFollowUp, 0).status = "SUBMITTED"
           /\ ReservedOf(NewOrder(ticket, quantity, NoFollowUp, 0)) =
                EstimatedReserve(ticket.side, ticket.type, ticket.limit, ticket.stop,
                                 bar.close, quantity)
<1> DEFINE new == NewOrder(ticket, quantity, NoFollowUp, 0)
           reserve == EstimatedReserve(ticket.side, ticket.type, ticket.limit, ticket.stop,
                                       bar.close, quantity)
<1>1. ticket \in TicketRecord /\ NoFollowUp \in FollowUp
  BY BrokerAssumption DEF FollowUp
<1>2. new \in Order
  BY <1>1, NewOrderType
<1>3. /\ new.side = ticket.side /\ new.type = ticket.type /\ new.limit = ticket.limit
      /\ new.stop = ticket.stop /\ new.quantity = quantity /\ new.filled = 0
      /\ new.followUp = NoFollowUp /\ new.reserved = reserve /\ new.status = "SUBMITTED"
  BY DEF NewOrder
<1> HIDE DEF new
<1>4. new.side \in Buys => PricedBuy(new)
  <2> SUFFICES ASSUME new.side \in Buys PROVE PricedBuy(new)
    OBVIOUS
  <2>1. \/ ticket.type \in Limited \ Trailing /\ ticket.limit # 0
        \/ ticket \in Touching /\ ticket.stop # 0
    BY <1>3 DEF FundedTerms
  <2>2. ticket \in Touching =>
          ticket.type = "MARKET_IF_TOUCHED" /\ ticket.limit \in Limits /\ ticket.stop \in Stops
    BY DEF Touching, Limits, Stops
  <2> QED
    BY <1>3, <2>1, <2>2 DEF PricedBuy
<1>5. new.side \in Buys => reserve = Cost(ReservedPrice(new), quantity)
  <2> SUFFICES ASSUME new.side \in Buys PROVE reserve = Cost(ReservedPrice(new), quantity)
    OBVIOUS
  <2>1. EstimatedReserve(new.side, new.type, new.limit, new.stop, bar.close, quantity)
          = Cost(ReservedPrice(new), quantity)
    BY <1>2, <1>4, ReservedAt
  <2> QED
    BY <1>3, <2>1
<1>6. new.side \notin Buys => reserve = 0
  BY <1>3 DEF EstimatedReserve
<1> HIDE DEF reserve
<1>7. Funded(new)
  BY <1>3, <1>4, <1>5 DEF Funded
<1>8. ReservedOf(new) = reserve
  BY <1>3, <1>6 DEF ReservedOf
<1> QED
  BY <1>2, <1>3, <1>7, <1>8 DEF new, reserve

\* submit: the reservation was available.
LEMMA SubmitFunds ==
    ASSUME TypeOK, FundedTerms, FundedInv, NEW ticket \in Tickets, NEW quantity \in Nat,
           Submit(ticket, quantity)
    PROVE  FundedInv'
<1> DEFINE new == NewOrder(ticket, quantity, NoFollowUp, 0)
           last == Len(orders) + 1
           reserve == EstimatedReserve(ticket.side, ticket.type, ticket.limit, ticket.stop,
                                       bar.close, quantity)
<1>1. /\ new \in Order /\ Funded(new) /\ new.status = "SUBMITTED" /\ ReservedOf(new) = reserve
  BY NewOrderIsFunded
<1>2. /\ orders' = Append(orders, new) /\ pending' = pending \cup {last}
      /\ cash' = cash /\ position' = position /\ deferred' = deferred
      /\ reserve <= AvailableCash
  BY DEF Submit, account, Acceptable
<1> HIDE DEF new, reserve
<1>3. orders \in Seq(Order) /\ pending \subseteq DOMAIN orders /\ cash \in Int
  BY DEF TypeOK
<1>4. /\ orders' \in Seq(Order) /\ DOMAIN orders' = DOMAIN orders \cup {last}
      /\ last \notin DOMAIN orders /\ orders'[last] = new
      /\ \A o \in DOMAIN orders : orders'[o] = orders[o]
  BY <1>1, <1>2, <1>3, AppendedOrder
<1> HIDE DEF last
<1>5. ReservedFor(orders', pending') = ReservedFor(orders', pending) + ReservedOf(new)
  <2>1. pending' \in SUBSET DOMAIN orders' /\ last \in pending' /\ pending' \ {last} = pending
    BY <1>2, <1>3, <1>4
  <2> QED
    BY <1>4, <2>1, ReservedAdds
<1>6. ReservedFor(orders', pending) = ReservedFor(orders, pending)
  <2>1. pending \in SUBSET DOMAIN orders /\ pending \in SUBSET DOMAIN orders'
        /\ \A o \in pending : orders[o] = orders'[o]
    BY <1>3, <1>4
  <2> QED
    BY <1>3, <1>4, <2>1, ReservedSame
<1>7. ReservedFor(orders, pending) \in Int /\ ReservedFor(orders, pending) <= cash
  BY BookIsFunded
<1>8. AvailableCash = IF 0 >= cash - ReservedFor(orders, pending) THEN 0
                      ELSE cash - ReservedFor(orders, pending)
  BY <1>3, <1>7, ReservedNow, MaxOfTwo DEF AvailableCash
<1>9. ReservedOf(new) \in Int
  BY <1>1, FundedReserves
<1>10. ReservedFor(orders', pending') <= cash'
  BY <1>1, <1>2, <1>3, <1>5, <1>6, <1>7, <1>8, <1>9
<1>11. \A o \in pending' : Funded(orders'[o])
  BY <1>1, <1>2, <1>3, <1>4 DEF FundedInv
<1>12. \A o \in DOMAIN orders' : orders'[o].side = "BUY" => orders'[o].status # "FAILED"
  BY <1>1, <1>4 DEF FundedInv, BuysAreFunded
<1> QED
  BY <1>2, <1>10, <1>11, <1>12, ReservedNext DEF FundedInv, BuysAreFunded

\* One order of the book changes or leaves it, and the account pays for the change:
\* out of what the order had reserved, or of what no order has.
LEMMA OneOrderFunds ==
    ASSUME TypeOK, TypeOK', FundedInv, NEW o \in pending, NEW new \in Order,
           orders' = [orders EXCEPT ![o] = new],
           (pending' = pending /\ Funded(new)) \/ pending' = pending \ {o},
           new.status = "FAILED" => new.side # "BUY",
           deferred' = <<>>, position'.quantity >= 0,
           \/ (IF o \in pending' THEN ReservedOf(new) ELSE 0) - ReservedOf(orders[o])
                <= cash' - cash
           \/ (IF o \in pending' THEN ReservedOf(new) ELSE 0)
                <= cash' - ReservedFor(orders, pending) + ReservedOf(orders[o])
    PROVE  FundedInv'
<1> DEFINE rest == pending \ {o}
           part == IF o \in pending' THEN ReservedOf(new) ELSE 0
<1>1. /\ orders \in Seq(Order) /\ pending \subseteq DOMAIN orders /\ cash \in Int /\ cash' \in Int
      /\ o \in DOMAIN orders /\ orders[o] \in Order /\ rest \in SUBSET pending
  BY PendingIsBooked DEF TypeOK
<1>2. /\ orders' \in Seq(Order) /\ DOMAIN orders' = DOMAIN orders /\ orders'[o] = new
      /\ \A p \in DOMAIN orders \ {o} : orders'[p] = orders[p]
  BY <1>1, ReplacedOrder
<1>3. ReservedFor(orders, pending) = ReservedFor(orders, rest) + ReservedOf(orders[o])
  BY <1>1, ReservedAdds
<1>4. ReservedFor(orders', rest) = ReservedFor(orders, rest)
  <2>1. /\ rest \in SUBSET DOMAIN orders /\ rest \in SUBSET DOMAIN orders'
        /\ \A p \in rest : orders'[p] = orders[p]
    BY <1>1, <1>2
  <2>2. orders \in Seq(Order) /\ orders' \in Seq(Order)
    BY <1>1, <1>2
  <2> QED
    BY ONLY <2>1, <2>2, ReservedSame
<1>5. ReservedFor(orders', pending') = ReservedFor(orders, rest) + part
  <2>1. ReservedFor(orders, rest) \in Int
    BY <1>1, BookIsFunded
  <2>2. CASE pending' = pending
    <3>1. ReservedFor(orders', pending') = ReservedFor(orders', rest) + ReservedOf(new)
      BY <1>1, <1>2, <2>2, ReservedAdds
    <3> QED
      BY <1>4, <2>2, <3>1
  <2>3. CASE pending' = rest
    <3>1. part = 0
      BY <2>3
    <3> HIDE DEF part, rest
    <3> QED
      BY <1>4, <2>1, <2>3, <3>1
  <2> QED
    BY <2>2, <2>3
<1>6. /\ ReservedFor(orders, rest) \in Int /\ ReservedFor(orders, pending) \in Int
      /\ ReservedFor(orders, pending) <= cash
  BY <1>1, BookIsFunded
<1>7. ReservedOf(orders[o]) \in Int /\ part \in Int
  BY <1>1, FundedReserves DEF FundedInv, ReservedOf, Order
<1>8. ReservedFor(orders', pending') <= cash'
  <2>1. part - ReservedOf(orders[o]) <= cash' - cash
        \/ part <= cash' - ReservedFor(orders, pending) + ReservedOf(orders[o])
    OBVIOUS
  <2> HIDE DEF part, rest
  <2> QED
    BY <1>1, <1>3, <1>5, <1>6, <1>7, <2>1
<1>9. \A p \in pending' : Funded(orders'[p])
  BY <1>1, <1>2 DEF FundedInv
<1>10. \A p \in DOMAIN orders' : orders'[p].side = "BUY" => orders'[p].status # "FAILED"
  BY <1>1, <1>2 DEF FundedInv, BuysAreFunded
<1> QED
  BY <1>8, <1>9, <1>10, ReservedNext DEF FundedInv, BuysAreFunded

\* Orders leave the book, unchanged or cancelled, and the account stays.
LEMMA CancellingFunds ==
    ASSUME TypeOK, FundedInv, NEW set \in SUBSET pending,
           orders' = CancelledOrders(set), pending' = pending \ set,
           cash' = cash, position' = position, deferred' = <<>>
    PROVE  FundedInv'
<1>1. orders \in Seq(Order) /\ pending \subseteq DOMAIN orders
  BY DEF TypeOK
<1>2. /\ orders' \in Seq(Order) /\ DOMAIN orders' = DOMAIN orders
      /\ \A o \in DOMAIN orders \ set : orders'[o] = orders[o]
      /\ \A o \in set : orders'[o].status # "FAILED"
  <2>1. /\ orders' \in Seq(Order) /\ DOMAIN orders' = DOMAIN orders
        /\ \A o \in DOMAIN orders :
             /\ o \notin set => orders'[o] = orders[o]
             /\ o \in set => orders'[o] =
                  [orders[o] EXCEPT !.status =
                     IF orders[o].filled > 0 THEN "CANCELLED_PART" ELSE "CANCELLED_ALL"]
    BY <1>1, CancelledFrame
  <2>2. \A o \in set : orders[o] \in Order
    BY <1>1
  <2>3. \A o \in set : orders'[o].status \in {"CANCELLED_PART", "CANCELLED_ALL"}
    BY <1>1, <2>1, <2>2 DEF Order
  <2> QED
    BY <2>1, <2>3
<1>3. ReservedFor(orders', pending') = ReservedFor(orders, pending')
  <2>1. /\ pending' \in SUBSET DOMAIN orders /\ pending' \in SUBSET DOMAIN orders'
        /\ \A o \in pending' : orders'[o] = orders[o]
    BY <1>1, <1>2
  <2> QED
    BY <1>1, <1>2, <2>1, ReservedSame
<1>4. /\ ReservedFor(orders, pending') \in Int /\ ReservedFor(orders, pending) \in Int /\ cash \in Int
      /\ ReservedFor(orders, pending') <= ReservedFor(orders, pending)
      /\ ReservedFor(orders, pending) <= cash
  <2>1. pending' \in SUBSET pending
    OBVIOUS
  <2> QED
    BY <2>1, BookIsFunded
<1>5. ReservedFor(orders', pending') <= cash'
  BY <1>3, <1>4
<1>6. \A o \in pending' : Funded(orders'[o])
  BY <1>1, <1>2 DEF FundedInv
<1>7. \A o \in DOMAIN orders' : orders'[o].side = "BUY" => orders'[o].status # "FAILED"
  BY <1>2 DEF FundedInv, BuysAreFunded
<1> QED
  BY <1>5, <1>6, <1>7, ReservedNext DEF FundedInv, BuysAreFunded

\* modify_order: the new reservation is available, the old one set free.
LEMMA ModifyFunds ==
    ASSUME TypeOK, TypeOK', FundedTerms, FundedInv, StatusMatchesFills, NEW o \in pending,
           NEW quantity \in Nat, NEW amendment \in Amendments, Modify(o, quantity, amendment)
    PROVE  FundedInv'
<1> DEFINE ord == orders[o]
           limit == Amended(ord.limit, amendment.limit)
           stop == Amended(ord.stop, amendment.stop)
           reserve == ModifiedReserve(ord, quantity, limit, stop)
           trail == Amended(ord.trail, amendment.trail)
           spread == Amended(ord.spread, amendment.spread)
           new == [ord EXCEPT !.quantity = quantity, !.limit = limit, !.stop = stop,
                              !.reserved = reserve, !.trail = trail, !.spread = spread]
<1>1. /\ ord \in Order /\ Funded(ord) /\ o \in DOMAIN orders
      /\ amendment \in [limit : Nat, stop : Nat, trail : Nat, spread : Nat]
      /\ orders[o].status \in Open
  BY PendingIsBooked, BrokerAssumption DEF FundedInv, StatusMatchesFills
<1>2. /\ orders' = [orders EXCEPT ![o] = new] /\ pending' = pending
      /\ cash' = cash /\ position' = position /\ deferred' = deferred
      /\ ord.side \in Buys => reserve <= AvailableCash + ord.reserved
  BY DEF Modify, account
<1>3. new \in Order
  <2>1. orders' \in Seq(Order) /\ DOMAIN orders' = DOMAIN orders
    BY <1>2 DEF TypeOK
  <2>2. orders'[o] = new
    BY <1>1, <1>2, <2>1 DEF TypeOK
  <2>3. orders'[o] \in Order
    BY <1>1, <2>1
  <2> QED
    BY <2>2, <2>3
<1>4. /\ new.side = ord.side /\ new.type = ord.type /\ new.limit = limit /\ new.stop = stop
      /\ new.quantity = quantity /\ new.filled = ord.filled /\ new.followUp = ord.followUp
      /\ new.reserved = reserve /\ new.status = ord.status
  <2> HIDE DEF ord, limit, stop, reserve, trail, spread
  <2> QED
    BY <1>1 DEF Order
<1> HIDE DEF new, ord
<1>5. ord.side \in Buys => PricedBuy(new)
  <2> SUFFICES ASSUME ord.side \in Buys PROVE PricedBuy(new)
    OBVIOUS
  <2>1. PricedBuy(ord)
    BY <1>1 DEF Funded
  <2>2. amendment.limit \in Limits /\ amendment.stop \in Stops
    BY DEF Limits, Stops
  <2>3. /\ ord.limit # 0 => limit # 0
        /\ ord.stop # 0 => stop # 0
        /\ ord.limit \in Limits => limit \in Limits
        /\ ord.stop \in Stops => stop \in Stops
    BY <2>2 DEF Amended
  <2> QED
    BY <1>4, <2>1, <2>3 DEF PricedBuy
<1>6. ord.side \in Buys => reserve = Cost(ReservedPrice(new), quantity)
  <2> SUFFICES ASSUME ord.side \in Buys PROVE reserve = Cost(ReservedPrice(new), quantity)
    OBVIOUS
  <2>1. EstimatedReserve(new.side, new.type, new.limit, new.stop, 0, quantity)
          = Cost(ReservedPrice(new), quantity)
    BY <1>3, <1>4, <1>5, ReservedAt
  <2>2. ord.filled = 0 /\ quantity - ord.filled = quantity
    BY <1>1 DEF Funded
  <2>3. limit # 0 \/ stop # 0
    BY <1>4, <1>5 DEF PricedBuy
  <2>4. reserve = EstimatedReserve(ord.side, ord.type, limit, stop, 0, quantity - ord.filled)
    BY <2>3 DEF ModifiedReserve
  <2> QED
    BY <1>4, <2>1, <2>2, <2>4
<1> HIDE DEF reserve, limit, stop
<1>7. Funded(new)
  BY <1>1, <1>4, <1>5, <1>6 DEF Funded
<1>8. ReservedFor(orders, pending) \in Int /\ ReservedFor(orders, pending) <= cash /\ cash \in Int
  BY BookIsFunded
<1>9. AvailableCash = IF 0 >= cash - ReservedFor(orders, pending) THEN 0
                      ELSE cash - ReservedFor(orders, pending)
  BY <1>8, ReservedNow, MaxOfTwo DEF AvailableCash
<1>10. ReservedOf(new) <= cash' - ReservedFor(orders, pending) + ReservedOf(ord)
  <2>1. ReservedOf(new) \in Int /\ ReservedOf(ord) \in Int /\ ReservedOf(ord) >= 0
    BY <1>1, <1>3, <1>7, FundedReserves
  <2>2. CASE ord.side \in Buys
    <3>1. ReservedOf(new) = reserve /\ ReservedOf(ord) = ord.reserved
      BY <1>4, <2>2 DEF ReservedOf
    <3> QED
      BY <1>2, <1>8, <1>9, <2>1, <2>2, <3>1
  <2>3. CASE ord.side \notin Buys
    <3>1. ReservedOf(new) = 0 /\ ReservedOf(ord) = 0
      BY <1>4, <2>3 DEF ReservedOf
    <3> QED
      BY <1>2, <1>8, <3>1
  <2> QED
    BY <2>2, <2>3
<1>11. new.status # "FAILED"
  BY <1>1, <1>4 DEF Open, ord
<1>12. deferred' = <<>> /\ position'.quantity >= 0 /\ o \in pending'
  BY <1>2 DEF FundedInv
<1> QED
  BY <1>2, <1>3, <1>7, <1>10, <1>11, <1>12, OneOrderFunds DEF ord

\* Showing a bar to an order leaves its terms as they are.
LEMMA ShownTerms ==
    ASSUME TypeOK, NEW ord \in Order
    PROVE  /\ Shown(ord) \in Order
           /\ Shown(ord).side = ord.side /\ Shown(ord).status = ord.status
           /\ Remaining(Shown(ord)) = Remaining(ord)
           /\ ReservedOf(Shown(ord)) = ReservedOf(ord)
           /\ Funded(ord) => Funded(Shown(ord))
<1> DEFINE new == Shown(ord)
<1>1. /\ new \in Order /\ new.filled = ord.filled /\ new.quantity = ord.quantity
      /\ new.side = ord.side /\ new.status = ord.status
      /\ new.reserved = ord.reserved /\ new.followUp = ord.followUp
  BY ShownFrame
<1>2. new.type = ord.type /\ new.limit = ord.limit /\ new.stop = ord.stop
  BY DEF Shown, Observed, Order
<1> HIDE DEF new
<1>3. ReservedOf(new) = ReservedOf(ord) /\ Remaining(new) = Remaining(ord)
  BY <1>1 DEF ReservedOf, Remaining
<1>4. Funded(ord) => Funded(new)
  BY <1>1, <1>2 DEF Funded, PricedBuy, ReservedPrice
<1> QED
  BY <1>1, <1>3, <1>4 DEF new

\* process_bar passes an order by.
LEMMA RemainsFunds ==
    ASSUME TypeOK, TypeOK', FundedInv, StatusMatchesFills, NEW o \in todo, Remains(o)
    PROVE  FundedInv'
<1>1. /\ o \in pending /\ orders[o] \in Order /\ Funded(orders[o]) /\ orders[o].status \in Open
      /\ o \in DOMAIN orders
  <2>1. o \in pending
    BY DEF TypeOK
  <2> QED
    BY <2>1, PendingIsBooked DEF FundedInv, StatusMatchesFills
<1>2. /\ cash' = cash /\ position' = position /\ pending' = pending /\ deferred' = deferred
      /\ orders' = orders \/ orders' = [orders EXCEPT ![o] = Shown(orders[o])]
  BY DEF Remains, account
<1>3. CASE orders' = orders
  BY <1>2, <1>3 DEF FundedInv, BuysAreFunded, ReservedBuyCash, PendingOn
<1>4. CASE orders' = [orders EXCEPT ![o] = Shown(orders[o])]
  <2> DEFINE new == Shown(orders[o])
  <2>1. /\ new \in Order /\ Funded(new) /\ new.status = orders[o].status
        /\ ReservedOf(new) = ReservedOf(orders[o]) /\ ReservedOf(new) \in Int
    BY <1>1, ShownTerms, FundedReserves
  <2> HIDE DEF new
  <2>2. /\ new.status # "FAILED" /\ deferred' = <<>> /\ position'.quantity >= 0
        /\ orders' = [orders EXCEPT ![o] = new]
    BY <1>1, <1>2, <1>4, <2>1 DEF Open, FundedInv, new
  <2>3. (IF o \in pending' THEN ReservedOf(new) ELSE 0) - ReservedOf(orders[o]) <= cash' - cash
    <3>1. cash \in Int
      BY DEF TypeOK
    <3> QED
      BY <1>1, <1>2, <2>1, <3>1
  <2> QED
    BY <1>1, <1>2, <2>1, <2>2, <2>3, OneOrderFunds
<1> QED
  BY <1>2, <1>3, <1>4

\* An order that leaves the book without a trade frees what it had reserved.
LEMMA LeavingFunds ==
    ASSUME TypeOK, TypeOK', FundedInv, NEW o \in pending, NEW new \in Order,
           orders' = [orders EXCEPT ![o] = new], pending' = pending \ {o},
           new.status = "FAILED" => new.side # "BUY",
           cash' = cash, position' = position, deferred' = deferred
    PROVE  FundedInv'
<1>1. orders[o] \in Order /\ Funded(orders[o]) /\ cash \in Int
  BY PendingIsBooked DEF FundedInv, TypeOK
<1>2. ReservedOf(orders[o]) \in Int /\ ReservedOf(orders[o]) >= 0
  BY <1>1, FundedReserves
<1>3. (IF o \in pending' THEN ReservedOf(new) ELSE 0) - ReservedOf(orders[o]) <= cash' - cash
  BY <1>1, <1>2
<1>4. deferred' = <<>> /\ position'.quantity >= 0
  BY DEF FundedInv
<1> QED
  BY <1>3, <1>4, OneOrderFunds

\* process_bar disables an order whose day is over.
LEMMA ExpireFunds ==
    ASSUME TypeOK, TypeOK', FundedInv, NEW o \in todo, Expire(o)
    PROVE  FundedInv'
<1> DEFINE new == [orders[o] EXCEPT !.status = "DISABLED"]
<1>1. o \in pending /\ orders[o] \in Order /\ o \in DOMAIN orders
  <2>1. o \in pending
    BY DEF TypeOK
  <2> QED
    BY <2>1, PendingIsBooked
<1>2. new \in Order /\ new.status = "DISABLED"
  BY <1>1 DEF Order, OrderStatus
<1>3. /\ orders' = [orders EXCEPT ![o] = new] /\ pending' = pending \ {o}
      /\ cash' = cash /\ position' = position /\ deferred' = deferred
  BY DEF Expire, account
<1> HIDE DEF new
<1> QED
  BY <1>1, <1>2, <1>3, LeavingFunds

\* What a trade of an order costs or earns.
LEMMA TradeOfOne ==
    ASSUME TypeOK, FundedTerms, FundedInv, NEW o \in pending, NEW price, NEW quantity,
           FillPrice(Shown(orders[o]), bar) > 0,
           price = DecidedPrice(Shown(orders[o]), bar, FillPrice(Shown(orders[o]), bar)),
           quantity = DecidedQuantity(Remaining(Shown(orders[o])), bar)
    PROVE  /\ price \in Int /\ quantity \in Nat
           /\ quantity = Remaining(Shown(orders[o])) /\ quantity = orders[o].quantity
           /\ orders[o].side \in Buys => Cost(price, quantity) <= orders[o].reserved
           /\ orders[o].side \notin Buys /\ quantity > 0 => CashFlow(orders[o].side, price, quantity) >= 0
<1> DEFINE ord == orders[o]
           new == Shown(ord)
<1>1. ord \in Order /\ Funded(ord) /\ bar \in BarRecord /\ bar \in Bars
  BY PendingIsBooked, BarType DEF FundedInv, TypeOK
<1>2. /\ new \in Order /\ new.side = ord.side /\ Remaining(new) = Remaining(ord)
      /\ Funded(new) /\ ReservedOf(new) = ReservedOf(ord)
  BY <1>1, ShownTerms
<1>3. ExecutionModel = "deterministic" /\ CommissionBps <= 10000 /\ SlippageBps <= 10000
      /\ bar.low <= bar.open /\ Slipped(bar.low, "SELL") >= MinCommission
  BY <1>1 DEF FundedTerms
<1>4. ord.quantity \in Nat /\ ord.filled = 0 /\ Remaining(ord) = ord.quantity /\ new.quantity = ord.quantity
  <2>1. ord.quantity \in Nat /\ ord.filled = 0 /\ new.quantity = ord.quantity
    BY <1>1, ShownFrame DEF Order, Funded
  <2> QED
    BY <2>1 DEF Remaining
<1> HIDE DEF new, ord
<1>5. price = FillPrice(new, bar) /\ quantity = ord.quantity
  BY <1>2, <1>3, <1>4 DEF DecidedPrice, DecidedQuantity, new, ord
<1>6. price \in Int /\ FillPrice(new, bar) # 0
  BY <1>1, <1>2, <1>5, FillPriceType DEF new, ord
<1>7. ASSUME ord.side \in Buys PROVE Cost(price, quantity) <= ord.reserved
  <2>1. PricedBuy(new) /\ new.reserved = Cost(ReservedPrice(new), new.quantity) /\ new.reserved = ord.reserved
    BY <1>2, <1>7 DEF Funded, ReservedOf
  <2>2. price <= ReservedPrice(new) /\ ReservedPrice(new) \in Int
    <3>1. ReservedPrice(new) \in Nat
      BY <1>2, <1>7, <2>1, ReservedAt
    <3> QED
      BY <1>1, <1>2, <1>5, <1>6, <1>7, <2>1, <3>1, BuyPrice
  <2> QED
    BY <1>4, <1>5, <1>6, <2>1, <2>2, CostGrows
<1>8. ASSUME ord.side \notin Buys, quantity > 0 PROVE CashFlow(ord.side, price, quantity) >= 0
  <2>1. Slipped(bar.low, new.side) <= price
    BY <1>1, <1>2, <1>3, <1>5, <1>6, <1>8, SalePrice
  <2>2. Slipped(bar.low, new.side) = Slipped(bar.low, "SELL")
    BY <1>2, <1>8 DEF Slipped, Buys
  <2>3. bar.low \in Int
    BY <1>1 DEF BarRecord
  <2>4. Slipped(bar.low, "SELL") \in Int /\ MinCommission \in Int
    BY <2>3, SlippedType, PricingAssumption
  <2>5. price >= MinCommission
    BY <1>3, <1>6, <2>1, <2>2, <2>4
  <2>6. quantity * price - Fee(price, quantity) >= 0
    BY <1>3, <1>4, <1>5, <1>6, <1>8, <2>5, SaleIsWorthItsFee
  <2> QED
    BY <1>8, <2>6 DEF CashFlow
<1> QED
  BY <1>2, <1>4, <1>5, <1>6, <1>7, <1>8 DEF new, ord

\* process_bar trades an order: a buy at or below the price of its reservation, a sale
\* for its fee or more, and a buy is never refused.
LEMMA TradeFunds ==
    ASSUME TypeOK, TypeOK', FundedTerms, FundedInv, StatusMatchesFills, NEW o \in todo, Trade(o)
    PROVE  FundedInv'
<1> DEFINE old == orders[o]
           ord == Shown(orders[o])
           price == DecidedPrice(ord, bar, FillPrice(ord, bar))
           quantity == DecidedQuantity(Remaining(ord), bar)
<1>1. o \in pending /\ o \in DOMAIN orders /\ old \in Order /\ Funded(old) /\ old.status \in Open
  <2>1. o \in pending
    BY DEF TypeOK
  <2> QED
    BY <2>1, PendingIsBooked DEF FundedInv, StatusMatchesFills
<1>2. /\ ord \in Order /\ ord.side = old.side /\ ord.status = old.status
      /\ ReservedOf(ord) = ReservedOf(old) /\ Funded(ord)
      /\ ReservedOf(old) \in Int /\ ReservedOf(old) >= 0
  BY <1>1, ShownTerms, FundedReserves
<1>3. FillPrice(ord, bar) > 0
  BY DEF Trade, Tradable
<1>4. /\ price \in Int /\ quantity \in Nat /\ quantity = Remaining(ord)
      /\ old.side \in Buys => Cost(price, quantity) <= old.reserved
      /\ old.side \notin Buys /\ quantity > 0 => CashFlow(old.side, price, quantity) >= 0
  BY <1>1, <1>3, TradeOfOne
<1>5. \/ Execute(o, ord, price, quantity)
      \/ Reject(o, ord, price, quantity)
      \/ Abort(o, ord, quantity)
  BY DEF Trade
<1>6. cash \in Int /\ cash' \in Int /\ position.quantity \in Int /\ position.quantity >= 0 /\ deferred = <<>>
  BY DEF TypeOK, FundedInv
<1> HIDE DEF ord, price, quantity
<1>7. CASE Execute(o, ord, price, quantity)
  <2> DEFINE new == Filled(ord, quantity)
  <2>1. /\ quantity > 0 /\ ~Refused(ord.side, price, quantity)
        /\ Settle(o, ord.side, price, quantity)
        /\ orders' = [orders EXCEPT ![o] = new]
        /\ pending' = IF new.status = "FILLED_PART" THEN pending ELSE pending \ {o}
        /\ deferred' = DeferredAfter(o, new)
    BY <1>7 DEF Execute
  <2>2. /\ new \in Order /\ new.side = ord.side /\ new.followUp = ord.followUp
        /\ new.status = "FILLED_ALL"
    <3>1. quantity <= Remaining(ord) /\ Remaining(ord) = quantity
      BY <1>4
    <3> QED
      BY <1>2, <1>4, <2>1, <3>1, FilledFrame
  <2> HIDE DEF new
  <2>3. pending' = pending \ {o} /\ o \notin pending' /\ deferred' = <<>>
    BY <1>2, <1>6, <2>1, <2>2 DEF DeferredAfter, Funded
  <2>4. ord.side \in OrderSide /\ cash' = cash + CashFlow(ord.side, price, quantity)
    BY <1>2, <2>1 DEF Order, Settle
  <2>5. position'.quantity = position.quantity + (IF ord.side \in Buys THEN quantity ELSE -quantity)
    BY <1>4, <2>1, <2>4, SettlePosition
  <2>6. position'.quantity >= 0
    <3>1. CASE ord.side \in Buys
      BY <1>4, <1>6, <2>5, <3>1
    <3>2. CASE ord.side = "SELL"
      <4>1. ~(quantity > position.quantity)
        BY <2>1, <3>2 DEF Refused
      <4> QED
        BY <1>4, <1>6, <2>5, <3>2, <4>1 DEF Buys
    <3>3. ord.side # "SELL_SHORT"
      <4> SUFFICES ASSUME ord.side = "SELL_SHORT" PROVE FALSE
        OBVIOUS
      <4>1. ~AllowShort
        BY DEF FundedTerms
      <4>2. ~AllowShort => Refused(ord.side, price, quantity)
        BY DEF Refused
      <4> QED
        BY <2>1, <4>1, <4>2
    <3> QED
      BY <2>4, <3>1, <3>2, <3>3 DEF OrderSide, Buys
  <2>7. 0 - ReservedOf(old) <= cash' - cash
    <3>1. CASE ord.side \in Buys
      <4>1. cash' = cash - Cost(price, quantity)
        <5>1. quantity * price \in Int /\ Fee(price, quantity) \in Nat
          BY <1>4, FeeType
        <5> QED
          BY <1>6, <2>4, <3>1, <5>1 DEF CashFlow, Cost
      <4>2. ReservedOf(old) = old.reserved /\ Cost(price, quantity) \in Int
        <5>1. price <= price
          BY <1>4
        <5> QED
          BY <1>2, <1>4, <3>1, <5>1, CostGrows DEF ReservedOf
      <4> QED
        BY <1>2, <1>4, <1>6, <3>1, <4>1, <4>2
    <3>2. CASE ord.side \notin Buys
      <4>1. CashFlow(ord.side, price, quantity) >= 0 /\ CashFlow(ord.side, price, quantity) \in Int
        BY <1>2, <1>4, <2>1, <3>2, CashFlowType
      <4> QED
        BY <1>2, <1>6, <2>4, <4>1
    <3> QED
      BY <3>1, <3>2
  <2>8. (IF o \in pending' THEN ReservedOf(new) ELSE 0) - ReservedOf(orders[o]) <= cash' - cash
    BY <2>3, <2>7
  <2>9. new.status # "FAILED"
    BY <2>2
  <2> QED
    BY <1>1, <2>1, <2>2, <2>3, <2>6, <2>8, <2>9, OneOrderFunds
<1>8. CASE Reject(o, ord, price, quantity)
  <2> DEFINE new == [ord EXCEPT !.status = "FAILED"]
  <2>1. /\ Refused(ord.side, price, quantity)
        /\ orders' = [orders EXCEPT ![o] = new] /\ pending' = pending \ {o}
        /\ cash' = cash /\ position' = position /\ deferred' = deferred
    BY <1>8 DEF Reject, account
  <2>2. new \in Order /\ new.side = ord.side
    BY <1>2 DEF Order, OrderStatus
  <2> HIDE DEF new
  <2>3. ASSUME ord.side = "BUY" PROVE FALSE
    <3>1. ord.side \in Buys
      BY <2>3 DEF Buys
    <3>2. position.quantity < 0 \/ quantity * price + Fee(price, quantity) > cash
      BY <2>1, <2>3 DEF Refused
    <3>3. Cost(price, quantity) > cash
      BY <1>6, <3>2 DEF Cost
    <3>4. Cost(price, quantity) <= ReservedOf(old) /\ Cost(price, quantity) \in Int
      <4>1. price <= price
        BY <1>4
      <4> QED
        BY <1>2, <1>4, <3>1, <4>1, CostGrows DEF ReservedOf
    <3>5. ReservedFor(orders, pending) = ReservedFor(orders, pending \ {o}) + ReservedOf(old)
      <4>1. orders \in Seq(Order) /\ pending \in SUBSET DOMAIN orders
        BY DEF TypeOK
      <4> QED
        BY <1>1, <4>1, ReservedAdds
    <3>6. /\ ReservedFor(orders, pending \ {o}) \in Int /\ ReservedFor(orders, pending \ {o}) >= 0
          /\ ReservedFor(orders, pending) <= cash
      <4>1. pending \ {o} \in SUBSET pending
        OBVIOUS
      <4> QED
        BY <4>1, BookIsFunded
    <3> QED
      BY <1>2, <1>6, <3>3, <3>4, <3>5, <3>6
  <2> QED
    BY <1>1, <2>1, <2>2, <2>3, LeavingFunds
<1>9. CASE Abort(o, ord, quantity)
  <2>1. /\ orders' = [orders EXCEPT ![o] = ord] /\ pending' = pending
        /\ cash' = cash /\ position' = position /\ deferred' = deferred
    BY <1>9 DEF Abort, account
  <2>2. ord.status # "FAILED" /\ deferred' = <<>> /\ position'.quantity >= 0 /\ o \in pending'
    BY <1>1, <1>2, <1>6, <2>1 DEF Open
  <2>3. (IF o \in pending' THEN ReservedOf(ord) ELSE 0) - ReservedOf(orders[o]) <= cash' - cash
    BY <1>2, <1>6, <2>1, <2>2
  <2> QED
    BY <1>1, <1>2, <2>1, <2>2, <2>3, OneOrderFunds
<1> QED
  BY <1>5, <1>7, <1>8, <1>9

\* liquidate: nothing is reserved any more.
LEMMA LiquidateFunds ==
    ASSUME TypeOK, TypeOK', FundedTerms, FundedInv, Liquidate
    PROVE  FundedInv'
<1> DEFINE side == IF position.quantity > 0 THEN "SELL" ELSE "BUY_BACK"
           quantity == Abs(position.quantity)
           price == Slipped(bar.close, side)
           closing == [NewOrder(MarketTicket(side), quantity, NoFollowUp, 0)
                         EXCEPT !.active = -1, !.reserved = 0]
           new == Filled(closing, quantity)
<1>1. /\ orders \in Seq(Order) /\ pending \subseteq DOMAIN orders /\ cash \in Int /\ cash' \in Int
      /\ position.quantity \in Nat /\ position.quantity >= 0 /\ bar \in BarRecord /\ bar \in Bars
      /\ deferred = <<>>
  <2>1. bar \in BarRecord /\ bar \in Bars
    BY BarType DEF TypeOK
  <2>2. position.quantity \in Int /\ position.quantity >= 0 /\ deferred = <<>>
    BY DEF TypeOK, FundedInv
  <2>3. orders \in Seq(Order) /\ pending \subseteq DOMAIN orders /\ cash \in Int
    BY DEF TypeOK
  <2>4. cash' \in Int
    BY DEF TypeOK
  <2> QED
    BY ONLY <2>1, <2>2, <2>3, <2>4
<1>2. pending' = {} /\ deferred' = <<>>
  BY <1>1 DEF Liquidate
<1>3. quantity = position.quantity
  BY <1>1 DEF Abs
<1>4. CASE quantity = 0
  <2>1. /\ orders' = CancelledOrders(pending) /\ cash' = cash /\ position' = position
        /\ pending' = pending \ pending
    BY <1>2, <1>4 DEF Liquidate, account
  <2> QED
    BY <1>2, <2>1, CancellingFunds
<1>5. CASE quantity # 0
  <2>1. side = "SELL" /\ side \in OrderSide /\ side \notin Buys
    BY <1>1, <1>3, <1>5 DEF OrderSide, Buys
  <2>2. quantity \in Nat /\ quantity > 0
    BY <1>1, <1>3, <1>5
  <2>3. /\ orders' = Append(CancelledOrders(pending), new)
        /\ Settle(Len(orders) + 1, side, price, quantity)
    BY <1>5 DEF Liquidate
  <2>4. /\ new \in Order /\ new.status = "FILLED_ALL"
    <3>1. closing \in Order /\ Remaining(closing) = quantity
      <4> HIDE DEF quantity, side
      <4> QED
        BY <2>1, <2>2, ClosingOrder
    <3> HIDE DEF closing, quantity
    <3>2. quantity <= Remaining(closing)
      BY <2>2, <3>1
    <3> QED
      BY <2>2, <3>1, <3>2, FilledFrame
  <2>5. price >= MinCommission /\ price \in Int
    <3>1. bar.low \in Int /\ bar.close \in Int /\ bar.low <= bar.close /\ SlippageBps <= 10000
          /\ Slipped(bar.low, "SELL") >= MinCommission
      BY <1>1 DEF FundedTerms, BarRecord
    <3>2. /\ Slipped(bar.low, "SELL") \in Int /\ Slipped(bar.close, "SELL") \in Int
          /\ Slipped(bar.low, "SELL") <= Slipped(bar.close, "SELL")
      BY <3>1, SlippedGrows
    <3>3. MinCommission \in Int
      BY PricingAssumption
    <3>4. price = Slipped(bar.close, "SELL")
      BY <2>1
    <3> HIDE DEF price
    <3> QED
      BY <3>1, <3>2, <3>3, <3>4
  <2> HIDE DEF price, quantity, new, side
  <2>6. cash' >= cash
    <3>1. quantity * price - Fee(price, quantity) >= 0
      BY <2>2, <2>5, SaleIsWorthItsFee DEF FundedTerms
    <3>2. cash' = cash + CashFlow(side, price, quantity) /\ CashFlow(side, price, quantity) \in Int
      BY <2>2, <2>3, <2>5, CashFlowType DEF Settle
    <3>3. CashFlow(side, price, quantity) >= 0
      BY <2>1, <3>1 DEF CashFlow
    <3> QED
      BY <1>1, <3>2, <3>3
  <2>7. position'.quantity = 0
    <3>1. position'.quantity = position.quantity + (IF side \in Buys THEN quantity ELSE -quantity)
      <4>1. Len(orders) + 1 \in Nat
        BY <1>1
      <4> QED
        BY <2>1, <2>2, <2>3, <2>5, SettlePosition
    <3> QED
      BY <1>1, <1>3, <2>1, <3>1
  <2>8. ReservedFor(orders', pending') <= cash'
    <3>1. ReservedFor(orders', pending') = 0
      BY <1>2, ReservedByNone
    <3>2. 0 <= cash
      <4>1. {} \in SUBSET pending
        OBVIOUS
      <4>2. ReservedFor(orders, {}) <= ReservedFor(orders, pending) /\ ReservedFor(orders, pending) <= cash
            /\ ReservedFor(orders, pending) \in Int
        BY <4>1, BookIsFunded
      <4>3. ReservedFor(orders, {}) = 0
        BY ReservedByNone
      <4> QED
        BY <1>1, <4>2, <4>3
    <3> QED
      BY <1>1, <2>6, <3>1, <3>2
  <2>9. \A o \in DOMAIN orders' : orders'[o].side = "BUY" => orders'[o].status # "FAILED"
    <3> DEFINE cancelled == CancelledOrders(pending)
    <3>1. /\ cancelled \in Seq(Order) /\ Len(cancelled) = Len(orders) /\ DOMAIN cancelled = DOMAIN orders
          /\ \A o \in DOMAIN orders :
               /\ o \notin pending => cancelled[o] = orders[o]
               /\ o \in pending => cancelled[o] =
                    [orders[o] EXCEPT !.status =
                       IF orders[o].filled > 0 THEN "CANCELLED_PART" ELSE "CANCELLED_ALL"]
      BY <1>1, CancelledFrame
    <3>2. \A o \in DOMAIN orders : orders[o] \in Order
      BY <1>1
    <3>3. \A o \in pending : cancelled[o].status \in {"CANCELLED_PART", "CANCELLED_ALL"}
      BY <1>1, <3>1, <3>2 DEF Order
    <3>4. \A o \in DOMAIN orders : cancelled[o].side = "BUY" => cancelled[o].status # "FAILED"
      BY <1>1, <3>1, <3>3 DEF FundedInv, BuysAreFunded
    <3> HIDE DEF cancelled
    <3>5. orders' = Append(cancelled, new)
      BY <2>3 DEF cancelled
    <3>6. /\ DOMAIN orders' = DOMAIN cancelled \cup {Len(cancelled) + 1}
          /\ orders'[Len(cancelled) + 1] = new
          /\ \A o \in DOMAIN cancelled : orders'[o] = cancelled[o]
      BY <2>4, <3>1, <3>5, AppendedOrder
    <3> QED
      BY <2>4, <3>1, <3>4, <3>6
  <2>10. \A o \in pending' : Funded(orders'[o])
    BY <1>2
  <2>11. position'.quantity >= 0
    BY <2>7
  <2> QED
    BY <1>2, <2>8, <2>9, <2>10, <2>11, ReservedNext DEF FundedInv, BuysAreFunded
<1> QED
  BY <1>4, <1>5

\* Every step keeps the invariant.
LEMMA StepFunds ==
    ASSUME FundedTerms, TypeOK, StatusMatchesFills, FundedInv, [Next]_vars
    PROVE  FundedInv'
<1>0. TypeOK'
  BY StepTypes
<1>1. ASSUME NEW ticket \in Tickets, NEW quantity \in 1..MaxQuantity, Submit(ticket, quantity)
      PROVE  FundedInv'
  <2>1. quantity \in Nat
    BY BrokerAssumption
  <2> QED
    BY <1>1, <2>1, SubmitFunds
<1>2. CASE CancelSome
  <2>1. PICK set : Cancel(set)
    BY <1>2 DEF CancelSome
  <2>2. /\ set \in SUBSET pending /\ orders' = CancelledOrders(set) /\ pending' = pending \ set
        /\ cash' = cash /\ position' = position /\ deferred' = <<>>
    BY <2>1 DEF Cancel, account, FundedInv
  <2> QED
    BY <2>2, CancellingFunds
<1>3. ASSUME NEW o \in pending, NEW quantity \in 1..MaxQuantity, NEW amendment \in Amendments,
             Modify(o, quantity, amendment)
      PROVE  FundedInv'
  <2>1. quantity \in Nat
    BY BrokerAssumption
  <2> QED
    BY <1>0, <1>3, <2>1, ModifyFunds
<1>4. CASE Reverse
  <2>1. ~AllowShort /\ position.quantity \in Int /\ position.quantity >= 0
    BY DEF FundedTerms, FundedInv, TypeOK
  <2>2. Abs(position.quantity) > 0 => position.quantity > 0
    BY <2>1 DEF Abs
  <2>3. /\ orders' = CancelledOrders(pending) /\ pending' = {}
        /\ cash' = cash /\ position' = position /\ deferred' = deferred
    BY <1>4, <2>1, <2>2 DEF Reverse, account
  <2>4. pending' = pending \ pending /\ deferred' = <<>>
    BY <2>3 DEF FundedInv
  <2> QED
    BY <2>3, <2>4, CancellingFunds
<1>5. CASE OpenBar
  <2>1. /\ deferred' = <<>> /\ cash' = cash /\ position' = position
        /\ orders' = orders /\ pending' = pending
    BY <1>5 DEF OpenBar, account
  <2> QED
    BY <2>1 DEF FundedInv, BuysAreFunded, ReservedBuyCash, PendingOn
<1>6. ASSUME NEW o \in todo, Remains(o) \/ Expire(o) \/ Trade(o)
      PROVE  FundedInv'
  BY <1>0, <1>6, RemainsFunds, ExpireFunds, TradeFunds
<1>7. CASE EndMatching \/ EndOpening \/ UNCHANGED vars
  <2>1. /\ deferred' = deferred /\ cash' = cash /\ position' = position
        /\ orders' = orders /\ pending' = pending
    BY <1>7 DEF EndMatching, EndOpening, vars, account, book
  <2> QED
    BY <2>1 DEF FundedInv, BuysAreFunded, ReservedBuyCash, PendingOn
<1>8. CASE OpenFollowUp
  BY <1>8 DEF OpenFollowUp, FundedInv
<1>9. CASE Liquidate
  BY <1>0, <1>9, LiquidateFunds
<1> QED
  BY <1>1, <1>2, <1>3, <1>4, <1>5, <1>6, <1>7, <1>8, <1>9 DEF Next

\* The cash reserved for pending buys is there and no buy fails for the lack of it, for
\* every backtest on the terms of FundedTerms, whatever the gaps between its bars and
\* however prices and quantities are modified.
THEOREM BuysAlwaysFunded ==
    ASSUME FundedTerms
    PROVE  Spec => []BuysAreFunded
<1>1. Init => FundedInv
  <2> SUFFICES ASSUME Init PROVE FundedInv
    OBVIOUS
  <2>1. /\ orders = <<>> /\ pending = {} /\ deferred = <<>> /\ cash = InitialCash
        /\ position.quantity = 0
    BY DEF Init, Flat
  <2>2. ReservedBuyCash = 0
    BY <2>1, ReservedNow, ReservedByNone
  <2>3. cash >= 0
    BY <2>1, BrokerAssumption
  <2>4. DOMAIN orders = {}
    BY <2>1
  <2> QED
    BY <2>1, <2>2, <2>3, <2>4 DEF FundedInv, BuysAreFunded
<1>2. TypeOK /\ StatusMatchesFills /\ FundedInv /\ [Next]_vars => FundedInv'
  BY StepFunds
<1>3. FundedInv => BuysAreFunded
  BY DEF FundedInv
<1> QED
  BY <1>1, <1>2, <1>3, TypeCorrect, StatusesMatchFills, PTL DEF Spec
====
