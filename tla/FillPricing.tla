---- MODULE FillPricing ----
(***************************************************************************)
(* At which price and for how many shares a pending order trades against    *)
(* one OHLC bar: Broker._fill_price and its helpers (broker.py) with the    *)
(* fee, slippage and bar-execution models (execution_models.py).            *)
(*                                                                          *)
(* Prices and money are integers in a unit small enough for the instances;  *)
(* basis-point shares round down.  0 stands for None: the code rejects      *)
(* prices that are not positive.  A bar is                                  *)
(* [open, high, low, close, capacity], where capacity is                    *)
(* floor(volume * max_participation).  The 1e-8 tolerance of price          *)
(* comparisons has no counterpart in integers.                              *)
(***************************************************************************)
EXTENDS Integers, FiniteSetsExt

CONSTANTS
    CommissionBps, MinCommission,   \* BpsCommissionModel
    SlippageBps, FixedTick,         \* BpsSlippageModel, SpreadAwareSlippageModel
    ExecutionModel                  \* "deterministic", "volume" or "conservative"

ASSUME PricingAssumption ==
    /\ {CommissionBps, MinCommission, SlippageBps, FixedTick} \subseteq Nat
    /\ ExecutionModel \in {"deterministic", "volume", "conservative"}

OrderSide == {"BUY", "SELL", "SELL_SHORT", "BUY_BACK"}
Buys == {"BUY", "BUY_BACK"}
OrderType == {"MARKET", "LIMIT", "STOP", "STOP_LIMIT", "LIMIT_IF_TOUCHED",
              "MARKET_IF_TOUCHED", "TRAILING_STOP", "TRAILING_STOP_LIMIT"}
Trailing == {"TRAILING_STOP", "TRAILING_STOP_LIMIT"}
Limited == {"LIMIT", "STOP_LIMIT", "LIMIT_IF_TOUCHED", "TRAILING_STOP_LIMIT"}

-----------------------------------------------------------------------------
Fee(price, quantity) ==
    Max({MinCommission, (price * quantity * CommissionBps) \div 10000})

\* Slippage moves the price against the order.
Slipped(price, side) ==
    LET adverse == (price * SlippageBps) \div 10000 + FixedTick
    IN  IF side \in Buys THEN price + adverse ELSE price - adverse

\* p is at the limit or better for the side.
AtOrBetter(side, p, limit) == IF side \in Buys THEN p <= limit ELSE p >= limit

\* The price, or the limit when that is better for the side.
Capped(side, p, limit) == IF AtOrBetter(side, p, limit) THEN p ELSE limit

\* The price a limit order trades at before slippage; also _touch_base_price.
LimitBase(side, limit, bar) ==
    CASE AtOrBetter(side, bar.open, limit) -> bar.open
      [] /\ ~AtOrBetter(side, bar.open, limit)
         /\ AtOrBetter(side, IF side \in Buys THEN bar.low ELSE bar.high, limit) -> limit
      [] OTHER -> 0

\* The price a stop order is triggered at, before slippage.
StopBase(side, stop, bar) ==
    CASE AtOrBetter(side, stop, bar.open) -> bar.open
      [] /\ ~AtOrBetter(side, stop, bar.open)
         /\ AtOrBetter(side, stop, IF side \in Buys THEN bar.high ELSE bar.low) -> stop
      [] OTHER -> 0

-----------------------------------------------------------------------------
\* What a bar leaves in an order whether or not it trades: the latched
\* trigger of a stop-limit order and the high- or low-water mark of a trailing one.
WaterMark(ord, bar) ==
    IF ord.side \in Buys
    THEN IF ord.reference = 0 THEN bar.low ELSE Min({ord.reference, bar.low})
    ELSE Max({ord.reference, bar.high})

Observed(ord, bar) ==
    [ord EXCEPT
        !.triggered = @ \/ /\ ord.type = "STOP_LIMIT"
                           /\ StopBase(ord.side, ord.stop, bar) # 0,
        !.reference = IF ord.type \in Trailing THEN WaterMark(ord, bar) ELSE @]

\* The stop a trailing order drags behind its water mark.
TrailingStop(ord) ==
    LET offset == IF ord.trailType = "RATIO"
                  THEN (ord.reference * ord.trail) \div 100
                  ELSE ord.trail
    IN  IF ord.side \in Buys THEN ord.reference + offset ELSE ord.reference - offset

TrailingLimit(ord) ==
    IF ord.side \in Buys THEN TrailingStop(ord) + ord.spread
    ELSE TrailingStop(ord) - ord.spread

\* Mutant: a limit order pays slippage on top of its limit.
LimitPriceUncapped(ord, bar) ==
    LET base == LimitBase(ord.side, ord.limit, bar)
    IN  IF base = 0 THEN 0 ELSE Slipped(base, ord.side)

\* LIMIT orders, and STOP_LIMIT orders once triggered.
LimitPrice(ord, bar) ==
    LET base == LimitBase(ord.side, ord.limit, bar)
    IN  IF base = 0 THEN 0 ELSE Capped(ord.side, Slipped(base, ord.side), ord.limit)

\* The base price of an order the bar has been Observed by, 0 when it does not trade.
BasePrice(ord, bar) ==
    CASE ord.type = "MARKET" -> bar.open
      [] ord.type = "STOP" -> StopBase(ord.side, ord.stop, bar)
      [] ord.type = "MARKET_IF_TOUCHED" -> LimitBase(ord.side, ord.stop, bar)
      [] ord.type = "LIMIT_IF_TOUCHED" ->
            IF LimitBase(ord.side, ord.stop, bar) = 0 THEN 0
            ELSE LimitBase(ord.side, ord.limit, bar)
      [] ord.type = "TRAILING_STOP" -> StopBase(ord.side, TrailingStop(ord), bar)
      [] ord.type = "TRAILING_STOP_LIMIT" ->
            IF StopBase(ord.side, TrailingStop(ord), bar) = 0 THEN 0
            ELSE LimitBase(ord.side, TrailingLimit(ord), bar)

\* _fill_price: the candidate price, 0 for None.
FillPrice(ord, bar) ==
    CASE ord.type = "LIMIT" -> LimitPrice(ord, bar)
      [] ord.type = "STOP_LIMIT" ->
            IF ord.triggered THEN LimitPrice(ord, bar) ELSE 0
      [] OTHER -> LET base == BasePrice(ord, bar)
                  IN  IF base = 0 THEN 0 ELSE Slipped(base, ord.side)

-----------------------------------------------------------------------------
\* decide(): the conservative model takes the worse of the candidate and the
\* close, inside the bar's range and inside the order's limit.
DecidedPrice(ord, bar, candidate) ==
    LET adverse == IF ord.side \in Buys
                   THEN Min({bar.high, Max({candidate, bar.close})})
                   ELSE Max({bar.low, Min({candidate, bar.close})})
    IN  IF ExecutionModel # "conservative" THEN candidate
        ELSE IF ord.limit # 0 /\ ord.type \in Limited
        THEN Capped(ord.side, adverse, ord.limit)
        ELSE adverse

\* The volume models trade nothing on a bar without capacity.
HasCapacity(bar) == ExecutionModel = "deterministic" \/ bar.capacity > 0

DecidedQuantity(remaining, bar) ==
    IF ExecutionModel = "deterministic" THEN remaining
    ELSE Min({remaining, bar.capacity})
====
