---- MODULE Portfolio ----
(***************************************************************************)
(* The shared cash pool of a portfolio backtest (portfolio.py,              *)
(* run_portfolio and _rebalance).                                           *)
(*                                                                          *)
(* On the first common day and on the first one of every period the pool is *)
(* brought to its target quantities at the opening prices: first every      *)
(* sale, then every purchase, symbol after symbol in the order of the       *)
(* weights, each purchase cut down to what the cash left still pays for.    *)
(* Days on which some symbol has no bar do not exist for the pool.  The     *)
(* equity curve and its statistics only read and are left out.              *)
(*                                                                          *)
(* Money is counted in a unit in which slipped prices and the commission on *)
(* a share are whole (WholeUnits); the code computes with floats.           *)
(***************************************************************************)
EXTENDS Integers, FiniteSets, Sequences, Functions

CONSTANTS
    Symbols,
    Order,         \* the symbols in the order of the weights
    Weight,        \* [Symbols -> positive integers], shares of their sum
    TotalWeight,   \* that sum
    InitialCash, CommissionBps, MinCommission, SlippageBps,
    Periodic,      \* monthly or quarterly, not buy_and_hold
    Opens,         \* opening prices of a day: set of [Symbols -> positive integers]
    MaxDays        \* bound on the common days

\* No price or commission of a share is rounded.
WholeUnits ==
    \A prices \in Opens, s \in Symbols, slipped \in {10000 - SlippageBps, 10000 + SlippageBps} :
        /\ (prices[s] * slipped) % 10000 = 0
        /\ (((prices[s] * slipped) \div 10000) * CommissionBps) % 10000 = 0

\* What a PortfolioConfig has been checked for; one symbol would do here.
PortfolioAssumption ==
    /\ IsFiniteSet(Symbols)
    /\ Order \in Seq(Symbols) /\ Range(Order) = Symbols
    /\ Weight \in [Symbols -> Nat \ {0}] /\ TotalWeight \in Nat \ {0}
    /\ InitialCash \in Nat \ {0} /\ CommissionBps \in Nat /\ MinCommission \in Nat
    /\ SlippageBps \in 0..10000
    /\ Periodic \in BOOLEAN
    /\ Opens \subseteq [Symbols -> Nat \ {0}] /\ WholeUnits
    /\ MaxDays \in Nat

VARIABLES
    day,      \* common days so far
    period,   \* the month or quarter of the last one; only its change matters
    open,     \* the opening prices of the last rebalancing
    cash, held, target,
    agenda    \* the trades the rebalancing has still to make

pool == <<day, period, open, cash, held, target, agenda>>

Trade == {"sell", "buy"} \X Symbols

PoolTypeOK ==
    /\ day \in 0..MaxDays /\ period \in {0, 1}
    /\ open \in [Symbols -> Nat]
    /\ cash \in Int
    /\ held \in [Symbols -> Nat] /\ target \in [Symbols -> Nat]
    /\ agenda \in Seq(Trade)

PoolInit ==
    /\ day = 0 /\ period = 0
    /\ open = [s \in Symbols |-> 0]
    /\ cash = InitialCash
    /\ held = [s \in Symbols |-> 0] /\ target = [s \in Symbols |-> 0]
    /\ agenda = <<>>

-----------------------------------------------------------------------------
(* Prices, fees and targets *)

SalePrice(s) == (open[s] * (10000 - SlippageBps)) \div 10000
PurchasePrice(s) == (open[s] * (10000 + SlippageBps)) \div 10000

Larger(a, b) == IF a > b THEN a ELSE b

Fee(value) == Larger(MinCommission, (value * CommissionBps) \div 10000)

Cost(s, q) == PurchasePrice(s) * q + Fee(PurchasePrice(s) * q)

\* What the pool is worth at the opening prices.
Worth(prices) == cash + SumFunction([s \in Symbols |-> held[s] * prices[s]])

\* A pool in debt wants nothing.
Targets(prices) ==
    [s \in Symbols |-> Larger(0, (Worth(prices) * Weight[s]) \div (TotalWeight * prices[s]))]

-----------------------------------------------------------------------------
(* One day *)

All(kind) == [i \in 1..Len(Order) |-> <<kind, Order[i]>>]

\* Mutant: the purchases do not wait for the proceeds of the sales.
BuysThenSells == All("buy") \o All("sell")

SellsThenBuys == All("sell") \o All("buy")

Due(newPeriod) == day = 0 \/ (Periodic /\ newPeriod # period)

Rebalance(newPeriod, prices) ==
    /\ agenda = <<>> /\ day < MaxDays
    /\ Due(newPeriod)
    /\ day' = day + 1 /\ period' = newPeriod
    /\ open' = prices
    /\ target' = Targets(prices)
    /\ agenda' = SellsThenBuys
    /\ UNCHANGED <<cash, held>>

Hold(newPeriod) ==
    /\ agenda = <<>> /\ day < MaxDays
    /\ ~Due(newPeriod)
    /\ day' = day + 1 /\ period' = newPeriod
    /\ UNCHANGED <<open, cash, held, target, agenda>>

Sell(s) ==
    /\ agenda # <<>> /\ Head(agenda) = <<"sell", s>>
    /\ agenda' = Tail(agenda)
    /\ LET quantity == held[s] - target[s]
           proceeds == SalePrice(s) * quantity
       IN IF quantity <= 0
          THEN UNCHANGED <<cash, held>>
          ELSE /\ cash' = cash + proceeds - Fee(proceeds)
               /\ held' = [held EXCEPT ![s] = target[s]]
    /\ UNCHANGED <<day, period, open, target>>

\* What the loop that takes one share less at a time stops at, if anything.
Affordable(s) == {q \in 1..(target[s] - held[s]) : Cost(s, q) <= cash}

Buy(s) ==
    /\ agenda # <<>> /\ Head(agenda) = <<"buy", s>>
    /\ agenda' = Tail(agenda)
    /\ \/ /\ Affordable(s) = {}
          /\ UNCHANGED <<cash, held>>
       \/ \E q \in Affordable(s) :
            /\ \A more \in Affordable(s) : more <= q
            /\ cash' = cash - Cost(s, q)
            /\ held' = [held EXCEPT ![s] = @ + q]
    /\ UNCHANGED <<day, period, open, target>>

PoolNext ==
    \/ \E newPeriod \in {0, 1} :
        Hold(newPeriod) \/ \E prices \in Opens : Rebalance(newPeriod, prices)
    \/ \E s \in Symbols : Sell(s) \/ Buy(s)

PoolSpec == PoolInit /\ [][PoolNext]_pool

-----------------------------------------------------------------------------
(* Properties *)

\* A rebalancing leaves no symbol above its target, and one below it only when
\* the cash left does not pay for one more share of it, although the purchases
\* are made one after the other (_rebalance).
RebalancesSettle ==
    agenda = <<>> => \A s \in Symbols :
        \/ held[s] = target[s]
        \/ held[s] < target[s] /\ Cost(s, 1) > cash
====
