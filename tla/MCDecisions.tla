---------------------------- MODULE MCDecisions ----------------------------
(* Small instances of Decisions: one symbol, some buys and some sells of it. *)
EXTENDS Decisions, TLC

CONSTANTS Buys, Sells, Ticker

MCSignals == Buys \cup Sells
MCSymbol  == [s \in MCSignals |-> Ticker]
MCSide    == [s \in MCSignals |-> IF s \in Buys THEN "buy" ELSE "sell"]

\* Handlers of one kind are interchangeable, and so are signals of one side.
MCSymmetry == Permutations(Requests) \cup Permutations(Buys) \cup Permutations(Sells)
=============================================================================
