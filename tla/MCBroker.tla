---- MODULE MCBroker ----
\* Small instances of Broker for TLC.
EXTENDS Broker

OHLC(o, h, l, c, v) == [open |-> o, high |-> h, low |-> l, close |-> c, capacity |-> v]

\* Bars that trade little or nothing; bars with a gap up and a gap down.
MCBarsThin == {OHLC(10, 12, 8, 10, 1), OHLC(14, 14, 12, 12, 0), OHLC(6, 8, 6, 8, 2)}
MCBarsGaps == {OHLC(10, 12, 8, 10, 2), OHLC(14, 16, 13, 15, 2), OHLC(6, 9, 5, 8, 2)}

Ticket(side, type, limit, stop, tif) ==
    [side |-> side, type |-> type, limit |-> limit, stop |-> stop,
     trailType |-> "none", trail |-> 0, spread |-> 0, tif |-> tif]
Trail(side, type, trailType, trail, spread) ==
    [side |-> side, type |-> type, limit |-> 0, stop |-> 0,
     trailType |-> trailType, trail |-> trail, spread |-> spread, tif |-> "GTC"]

\* Long and short positions; sales that wait behind others.
MixedTickets == {Ticket("BUY", "MARKET", 0, 0, "DAY"), Ticket("SELL", "STOP", 0, 9, "GTC"),
                 Ticket("SELL_SHORT", "MARKET", 0, 0, "DAY")}
\* Buys that cannot trade above the price their reservation assumed; every type of sale.
PricedTickets == {Ticket("BUY", "LIMIT", 11, 0, "GTC"), Ticket("BUY", "STOP_LIMIT", 13, 12, "GTC"),
                  Ticket("BUY", "MARKET_IF_TOUCHED", 0, 9, "GTC"),
                  Ticket("SELL", "LIMIT", 12, 0, "DAY"), Ticket("SELL", "STOP_LIMIT", 8, 9, "GTC"),
                  Ticket("SELL", "STOP", 0, 9, "DAY"),
                  Ticket("SELL", "LIMIT_IF_TOUCHED", 11, 12, "GTC"),
                  Trail("SELL", "TRAILING_STOP", "RATIO", 30, 0),
                  Trail("SELL", "TRAILING_STOP_LIMIT", "AMOUNT", 2, 1)}

NoAmendment == [limit |-> 0, stop |-> 0, trail |-> 0, spread |-> 0]
QuantityOnly == {NoAmendment}
PriceAmendments == {NoAmendment, [NoAmendment EXCEPT !.limit = 10], [NoAmendment EXCEPT !.trail = 4]}

\* The instance with these orders is one whose buys are funded.
ASSUME PricedBuysAreFunded == Tickets = PricedTickets => FundedTerms
====
