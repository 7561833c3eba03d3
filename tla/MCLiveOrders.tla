---------------------------- MODULE MCLiveOrders ----------------------------
(* Small instances of LiveOrders: one symbol, orders of one or two shares.  *)
EXTENDS LiveOrders

CONSTANTS Buys, Sells, Ticker,
          Large   \* the signals of two shares

MCSignals  == Buys \cup Sells
MCSymbol   == [s \in MCSignals |-> Ticker]
MCSide     == [s \in MCSignals |-> IF s \in Buys THEN "buy" ELSE "sell"]
MCQuantity == [s \in MCSignals |-> IF s \in Large THEN 2 ELSE 1]

\* A day with the orders `placed`, after one that settled the buys `settled`; the
\* executors of all others were refused.
DayInit(settled, placed, failed) ==
  LET Was(s, then, otherwise) == IF s \in settled THEN then ELSE otherwise
      Answer(s) == [state |-> "filled", cum |-> Quantity[s]]
      Row(s)    == [state |-> "filled", cum |-> Quantity[s], open |-> FALSE]
  IN  /\ executor = [s \in Signals |-> IF s \in placed THEN "ready" ELSE "done"]
      /\ broker = [s \in Signals |-> Was(s, Answer(s), NoOrder)]
      /\ row = [s \in Signals |-> Was(s, Row(s), NoRow)]
      /\ recorded = [s \in Signals |-> Was(s, Quantity[s], 0)]
      /\ size = [s \in Signals |-> Was(s, Quantity[s], 0)]
      /\ open = settled
      /\ closers = [s \in Signals |-> {}]
      /\ published = [s \in Signals |-> s \in settled]
      /\ poll = [p \in Polls |-> Resting]
      /\ faults = failed
      /\ listedTwice = {} /\ heldTwice = {}

\* One order, whose polls may overlap and fail: an entry, or the exit of one; or
\* two at once, whose polls only overlap.
MCInit == \/ DayInit({}, Buys \cap Large, 0)
          \/ DayInit(Buys \cap Large, Sells \cap Large, 0)
          \/ DayInit({}, Signals \ Large, MaxFaults)

MCSpec == MCInit /\ [][Next]_vars /\ Fairness
=============================================================================
