---------------------------- MODULE MCLotLedger ----------------------------
(* Small instances of the two modules about the track_record table: the     *)
(* processes that write it (LotLedger: one symbol, and a day without a bar) *)
(* and the reports read from it (TrackRecord).  An initial state chooses    *)
(* which of them runs, so the run has the sum of their states: one firing   *)
(* of the mark job among fills and exits, overlapping firings of it over a  *)
(* large lot, or the reports.                                               *)
EXTENDS LotLedger, TrackRecord

CONSTANTS Ticker,
          Large,      \* the buys of two shares
          Extra       \* the markers that fire beside another

MCSymbol   == [s \in Buys \cup Sells |-> Ticker]
MCQuantity == [b \in Buys |-> IF b \in Large THEN 2 ELSE 1]
MCTraded   == {1, 2}
MCResults  == {-1, 2}   \* a loss and a gain

VARIABLE component      \* the one that runs

TableInit == /\ component \in {"ledger", "marks", "trackRecord"}
             /\ Init /\ TrackRecordInit

OneFiringNext == Next /\ \A m \in Extra : marker'[m] = marker[m]

MarksNext ==
  Tick \/ (\E b \in Large : BuyStep(b)) \/ (\E m \in Markers : MarkStep(m))

TableNext ==
  /\ UNCHANGED component
  /\ \/ component = "ledger" /\ OneFiringNext /\ UNCHANGED trackRecord
     \/ component = "marks" /\ MarksNext /\ UNCHANGED trackRecord
     \/ component = "trackRecord" /\ TrackRecordNext /\ UNCHANGED vars

TableSpec == TableInit /\ [][TableNext]_<<component, vars, trackRecord>>
=============================================================================
