------------------------------ MODULE RiskGate ------------------------------
(***************************************************************************)
(* The risk gate, a pure function of what its caller read: which of the    *)
(* candidates of one run may become signals.  Candidates are taken in the  *)
(* order of their symbols, at most one per symbol; a symbol is its place   *)
(* in that order.  Money is whole cents at one price per symbol.           *)
(***************************************************************************)
EXTENDS Naturals, FiniteSetsExt

CONSTANTS
  N,                \* symbols
  Allowlist,
  Price,            \* [Symbols -> cents], the quote, and the last close
  MaxDailyTrades, MaxPosition, MaxExposure

Symbols == 1 .. N

ASSUME GateAssumption ==
  /\ N \in Nat
  /\ Allowlist \subseteq Symbols
  /\ Price \in [Symbols -> Nat \ {0}]
  /\ MaxDailyTrades \in Nat /\ MaxPosition \in Nat /\ MaxExposure \in Nat

Value(x) == Price[x.symbol] * x.quantity

\* A holding without a quote is skipped.
SumExposure(holdings, quoted) ==
  MapThenSumSet(LAMBDA h : Value(h), {h \in holdings : h.symbol \in quoted})

\* Bug: the position a buy adds to is not looked up.
Passes_NoPosition(c, in, t) ==
  /\ c.symbol \in Allowlist
  /\ c.side = "sell" => in.sellable[c.symbol] >= c.quantity
  /\ t.today < MaxDailyTrades
  /\ c.side = "buy" => /\ Value(c) <= MaxPosition
                       /\ t.committed + Value(c) <= MaxExposure

\* c may become a signal when those before it left the caps at t.
Passes(c, in, t) ==
  /\ c.symbol \in Allowlist
  /\ c.side = "sell" => in.sellable[c.symbol] >= c.quantity
  /\ t.today < MaxDailyTrades
  /\ c.side = "buy" =>
       /\ in.position[c.symbol] + Value(c) <= MaxPosition
       /\ t.committed + Value(c) <= MaxExposure

\* A sell takes a slot of the day and no exposure.
Charge(t, accepted) ==
  [today     |-> t.today + Cardinality(accepted),
   committed |-> t.committed
     + MapThenSumSet(LAMBDA c : Value(c), {c \in accepted : c.side = "buy"})]

\* What is used of the caps after the first n symbols.
Tally(candidates, in) ==
  LET tally[n \in 0 .. N] ==
        IF n = 0 THEN [today |-> in.today, committed |-> in.committed]
        ELSE Charge(tally[n - 1],
               {c \in candidates : c.symbol = n /\ Passes(c, in, tally[n - 1])})
  IN  tally

ApplyRiskCaps(candidates, in) ==
  LET tally == Tally(candidates, in)
  IN  {c \in candidates : Passes(c, in, tally[c.symbol - 1])}
=============================================================================
