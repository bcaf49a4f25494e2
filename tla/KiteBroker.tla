----------------------------- MODULE KiteBroker -----------------------------
(***************************************************************************)
(* The live broker: the operations of execution/kite_adapter.py that the   *)
(* OMS calls, and the exchange account behind them, which outlives the     *)
(* process.  The exchange is external: an open order is filled or          *)
(* rejected, and a GTT bracket fires, at any time.  Orders placed by one   *)
(* call of the OMS share a number and differ in their symbol.              *)
(***************************************************************************)
EXTENDS Integers, FiniteSets

CONSTANTS
    Symbol,    \* the traded symbols
    MaxCalls   \* bound: calls that reach the exchange with an order

ASSUME KiteBrokerConfig == IsFiniteSet(Symbol) /\ MaxCalls \in Nat

VARIABLES
    orders,  \* the order book of the account
    calls,   \* number of order-placing calls so far
    net,     \* kite.positions()["net"]: signed quantity per symbol
    gtts     \* the OCO brackets that wait at the broker

exchangeVars == <<orders, calls, net, gtts>>

Status == {"OPEN", "COMPLETE", "REJECTED"}

Order == [call: Nat, symbol: Symbol, side: {"BUY", "SELL"}, quantity: Nat, price: Int,
          tag: {"entry", "flatten", "bracket"}, status: Status]

KiteBrokerTypeOK ==
    /\ orders \subseteq Order
    /\ calls \in Nat
    /\ net \in [Symbol -> Int]
    /\ gtts \subseteq [call: Nat, symbol: Symbol, quantity: Nat]

KiteBrokerInit ==
    /\ orders = {}
    /\ calls = 0
    /\ net = [s \in Symbol |-> 0]
    /\ gtts = {}

\* get_positions: the symbols with a nonzero net quantity.
OpenSymbols == {s \in Symbol : net[s] # 0}

\* The price of a MARKET order, and of a bracket leg, is 0 here.
NewOrder(symbol, side, quantity, price, tag) ==
    [call |-> calls + 1, symbol |-> symbol, side |-> side, quantity |-> quantity,
     price |-> price, tag |-> tag, status |-> "OPEN"]

\* place_order, once for every order of the set.
PlaceOrders(new) ==
    /\ calls < MaxCalls
    /\ calls' = calls + 1
    /\ orders' = orders \union new

\* create_gtt_oco: both legs of the bracket sell, whatever the entry was.
CreateGttOco(symbol, quantity) ==
    gtts' = gtts \union {[call |-> calls + 1, symbol |-> symbol, quantity |-> quantity]}

\* The exchange fills an open order.
FillOrder(o) ==
    /\ o \in orders
    /\ o.status = "OPEN"
    /\ orders' = (orders \ {o}) \union {[o EXCEPT !.status = "COMPLETE"]}
    /\ net' = [net EXCEPT ![o.symbol] =
                    IF o.side = "BUY" THEN @ + o.quantity ELSE @ - o.quantity]
    /\ UNCHANGED <<calls, gtts>>

\* The exchange, or its risk checks, rejects an open order.
RejectOrder(o) ==
    /\ o \in orders
    /\ o.status = "OPEN"
    /\ orders' = (orders \ {o}) \union {[o EXCEPT !.status = "REJECTED"]}
    /\ UNCHANGED <<calls, net, gtts>>

\* A price of the bracket is reached: the broker itself sends the SELL leg.
TriggerGtt(g) ==
    /\ g \in gtts
    /\ PlaceOrders({NewOrder(g.symbol, "SELL", g.quantity, 0, "bracket")})
    /\ gtts' = gtts \ {g}
    /\ UNCHANGED net
=============================================================================
