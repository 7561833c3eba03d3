---------------------------- MODULE MCBacktest -----------------------------
(* A small instance of Backtest: two symbols, orders of one or two shares. *)
EXTENDS Backtest

MCPrice == <<1, 1>>
Quiet   == [rule |-> "none", size |-> 1]
Sell    == [rule |-> "macd_bearish_cross", size |-> 1]
Buy(n)  == [rule |-> "macd_bullish_cross", size |-> n]
MCBars  == <<{Quiet, Sell, Buy(1), Buy(2)}, {Buy(1)}>>
=============================================================================
