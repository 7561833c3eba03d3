-------------------------- MODULE Backtest_proofs ---------------------------
(* Proofs about Backtest: for any bars, caps, rules and length of the       *)
(* timeline, and whatever the owner approves.                               *)
EXTENDS Backtest, Sums

AllRules == EntryRules \cup ExitRules \cup {"max_holding_period"}

LotType == [symbol : Symbols, quantity : Nat \ {0}, entry : Nat]

OrderType ==
  [symbol : Symbols, side : {"buy", "sell"}, rule : AllRules, quantity : Nat \ {0}]

TradeType ==
  [symbol : Symbols, quantity : Nat \ {0}, entry : Nat, exit : Nat, rule : AllRules]

BarType == [rule : EntryRules \cup ExitRules \cup {"none"}, size : Nat]

Typed ==
  /\ pc \in {"running", "thrown", "done"} /\ day \in Nat
  /\ last \in [Symbols -> BarType]
  /\ traded \in [Symbols -> SUBSET Nat]
  /\ given \in [Symbols -> Nat]
  /\ lots \subseteq LotType /\ IsFiniteSet(lots)
  /\ queued \subseteq OrderType
  /\ trades \subseteq TradeType /\ IsFiniteSet(trades)
  /\ proposed \in Nat /\ unfilled \in Nat /\ expired \in Nat

Inductive ==
  /\ Typed /\ QueueFits /\ NothingAhead
  /\ ExitNeverSplits /\ SignalsAccounted /\ TimeStopWaits

\* The bars of a day of the timeline.
DayOf(bars) == \A s \in Symbols : bars[s] \in Bars[s] \cup {Absent, Interpolated}
-----------------------------------------------------------------------------
(* Shares of lots.                                                           *)

LEMMA SharesAre ==
  ASSUME NEW ls
  PROVE  Shares(ls) = SumFunctionOnSet([l \in ls |-> l.quantity], ls)
BY DEF Shares, MapThenSumSet, SumFunctionOnSet, FoldFunctionOnSet, MapThenFoldSet

LEMMA SharesType ==
  ASSUME NEW ls \in SUBSET LotType, IsFiniteSet(ls)
  PROVE  /\ Shares(ls) \in Nat
         /\ Shares(ls) > 0 <=> ls # {}
         /\ \A ms \in SUBSET ls : Shares(ms) <= Shares(ls)
<1> DEFINE f == [l \in ls |-> l.quantity]
<1>1. \A l \in ls : f[l] \in Nat /\ f[l] = l.quantity /\ f[l] > 0
  BY DEF LotType
<1>2. Shares(ls) = SumFunctionOnSet(f, ls)
  BY SharesAre
<1>3. ASSUME NEW ms \in SUBSET ls
      PROVE  IsFiniteSet(ms) /\ Shares(ms) = SumFunctionOnSet(f, ms)
  <2> DEFINE g == [l \in ms |-> l.quantity]
  <2>1. IsFiniteSet(ms)
    BY FS_Subset
  <2>2. Shares(ms) = SumFunctionOnSet(g, ms)
    BY SharesAre
  <2>3. \A l \in ms : f[l] \in Nat /\ g[l] = f[l]
    BY <1>1
  <2> HIDE DEF f, g
  <2> QED BY <2>1, <2>2, <2>3, SumEqual
<1> HIDE DEF f
<1>4. Shares(ls) \in Nat
  BY <1>1, <1>2, SumType
<1>5. \A ms \in SUBSET ls : Shares(ms) <= Shares(ls)
  BY <1>1, <1>2, <1>3, SumSubset
<1>6. ls = {} => Shares(ls) = 0
  BY <1>2, SumOfNone
<1>7. ASSUME NEW l \in ls PROVE Shares(ls) > 0
  <2>1. SumFunctionOnSet(f, ls) = f[l] + SumFunctionOnSet(f, ls \ {l})
    BY <1>1, SumRemove
  <2>2. SumFunctionOnSet(f, ls \ {l}) \in Nat
    <3>1. IsFiniteSet(ls \ {l}) /\ \A i \in ls \ {l} : f[i] \in Nat
      BY <1>1, FS_RemoveElement
    <3> QED BY <3>1, SumType
  <2> QED BY <1>1, <1>2, <2>1, <2>2
<1> QED BY <1>4, <1>5, <1>6, <1>7
-----------------------------------------------------------------------------
(* What the next day's fills do.                                             *)

\* An exit closes lots of its own symbol, no more than all of them.
LEMMA ExitFits ==
  ASSUME Inductive, NEW bars, NEW c \in Exits(bars)
  PROVE  /\ c \in queued /\ c \in OrderType /\ c.side = "sell"
         /\ Closed(c) \subseteq Of(c.symbol, lots)
         /\ Shares(Closed(c)) <= c.quantity
         /\ \E l \in Closed(c) : \A o \in Of(c.symbol, lots) : l.entry <= o.entry
<1>1. c \in queued /\ c \in OrderType /\ c.side = "sell" /\ c.quantity = Shares(Of(c.symbol, lots))
  BY DEF Exits, Filled, Inductive, Typed, QueueFits
<1> DEFINE P == Of(c.symbol, lots)
<1>2. P \in SUBSET LotType /\ IsFiniteSet(P) /\ c.quantity \in Nat \ {0} /\ P \subseteq lots
  <2>1. P \subseteq lots
    BY DEF Of
  <2> HIDE DEF P
  <2> QED BY <1>1, <2>1, FS_Subset DEF Inductive, Typed, OrderType
<1>3. Closed(c) \in SUBSET P
  BY DEF Closed
<1> HIDE DEF P
<1>4. Shares(Closed(c)) <= c.quantity
  BY <1>1, <1>2, <1>3, SharesType DEF P
<1>5. P # {}
  BY <1>1, <1>2, SharesType DEF P
<1>6. PICK l \in P : \A o \in P : l.entry <= o.entry
  <2> DEFINE E == {o.entry : o \in P}
  <2>1. E \subseteq Nat /\ E # {}
    BY <1>2, <1>5 DEF LotType
  <2>2. PICK e \in E : \A f \in E : e <= f
    <3> HIDE DEF E
    <3> QED BY <2>1, LeastOf
  <2> QED BY <2>2
<1>7. l \in Closed(c)
  <2>1. {o \in P : o.entry < l.entry} = {}
    <3>1. \A o \in P : o.entry \in Nat
      BY <1>2 DEF LotType
    <3> QED BY <1>6, <3>1
  <2>2. Shares({}) = 0
    BY SharesAre, SumOfNone
  <2>3. Shares({o \in P : o.entry < l.entry}) < c.quantity
    BY <1>2, <2>1, <2>2
  <2> QED BY <1>6, <2>3 DEF Closed, P
<1> QED BY <1>1, <1>3, <1>4, <1>6, <1>7 DEF P

LEMMA NeverSplits ==
  ASSUME Inductive, NEW bars
  PROVE  ~ Splits(bars)
<1> SUFFICES ASSUME NEW c \in Exits(bars), Shares(Closed(c)) > c.quantity PROVE FALSE
  BY DEF Splits
<1>1. Shares(Closed(c)) <= c.quantity /\ c.quantity \in Nat /\ Shares(Closed(c)) \in Nat
  <2>1. Closed(c) \subseteq lots
    BY ExitFits DEF Of
  <2>2. Closed(c) \in SUBSET LotType /\ IsFiniteSet(Closed(c))
    BY <2>1, FS_Subset DEF Inductive, Typed
  <2> QED BY <2>2, ExitFits, SharesType DEF OrderType
<1> QED BY <1>1
-----------------------------------------------------------------------------
(* What a day leaves.                                                        *)

\* Yesterday's filled orders split in buys and exits, of different symbols.
LEMMA OrdersFilled ==
  ASSUME Inductive, NEW bars
  PROVE  /\ IsFiniteSet(queued) /\ queued \subseteq OrderType
         /\ Filled(bars) \subseteq queued /\ Unfilled(bars) = queued \ Filled(bars)
         /\ IsFiniteSet(Exits(bars))
         /\ \A c, d \in queued : c.symbol = d.symbol => c = d
<1> DEFINE f == [c \in queued |-> c.symbol]
           S == Symbols
<1>1. queued \subseteq OrderType /\ \A c, d \in queued : c.symbol = d.symbol => c = d
  BY DEF Inductive, Typed, QueueFits
<1>2. IsFiniteSet(S)
  BY GateAssumption, FS_Interval DEF Symbols
<1>3. f \in [queued -> S] /\ \A c, d \in queued : f[c] = f[d] => c = d
  BY <1>1 DEF OrderType
<1>4. f \in Injection(queued, S)
  <2> HIDE DEF f, S
  <2> QED BY <1>3 DEF Injection, IsInjective
<1>5. IsFiniteSet(queued)
  <2> HIDE DEF f, S
  <2> QED BY <1>2, <1>4, FS_Injection
<1>6. Filled(bars) \subseteq queued /\ Unfilled(bars) = queued \ Filled(bars)
  BY DEF Filled, Unfilled
<1>7. Exits(bars) \subseteq queued
  BY <1>6 DEF Exits
<1>8. IsFiniteSet(Exits(bars))
  BY <1>5, <1>7, FS_Subset
<1> QED BY <1>1, <1>5, <1>6, <1>8

\* The lots that are closed, those that are opened, and how many.
LEMMA LotsMove ==
  ASSUME Inductive, NEW bars
  PROVE  LET gone   == UNION {Closed(c) : c \in Exits(bars)}
             bought == {c \in Filled(bars) : c.side = "buy"}
         IN  /\ gone \subseteq lots /\ IsFiniteSet(gone)
             /\ Opened(bars) \subseteq LotType /\ IsFiniteSet(Opened(bars))
             /\ Opened(bars) \cap lots = {}
             /\ \A l \in Opened(bars) : l.entry = day + 1
             /\ Cardinality(Opened(bars)) = Cardinality(bought)
             /\ LotsAfter(bars) = (lots \ gone) \cup Opened(bars)
             /\ LotsAfter(bars) \subseteq LotType /\ IsFiniteSet(LotsAfter(bars))
             /\ Cardinality(LotsAfter(bars)) + Cardinality(gone)
                  = Cardinality(lots) + Cardinality(bought)
<1> DEFINE gone   == UNION {Closed(c) : c \in Exits(bars)}
           bought == {c \in Filled(bars) : c.side = "buy"}
           e == [c \in bought |-> [symbol |-> c.symbol, quantity |-> c.quantity, entry |-> day + 1]]
<1>1. /\ day \in Nat /\ lots \subseteq LotType /\ IsFiniteSet(lots)
      /\ \A l \in lots : l.entry \in 1 .. day
  BY DEF Inductive, Typed, NothingAhead
<1>2. gone \in SUBSET lots
  BY ExitFits DEF Of
<1>3. bought \in SUBSET queued /\ bought \subseteq OrderType /\ IsFiniteSet(bought)
  <2>1. bought \in SUBSET queued
    BY OrdersFilled
  <2> HIDE DEF bought
  <2> QED BY <2>1, OrdersFilled, FS_Subset
<1>4. Opened(bars) = {e[c] : c \in bought}
  BY DEF Opened
<1>5. \A c, d \in bought : e[c] = e[d] => c = d
  BY <1>3, OrdersFilled
<1>6. \A l \in Opened(bars) : l \in LotType /\ l.entry = day + 1 /\ l \notin lots
  <2> SUFFICES ASSUME NEW c \in bought
               PROVE  e[c] \in LotType /\ e[c].entry = day + 1 /\ e[c] \notin lots
    BY <1>4
  <2>1. c \in OrderType
    BY <1>3
  <2>2. e[c] = [symbol |-> c.symbol, quantity |-> c.quantity, entry |-> day + 1]
    OBVIOUS
  <2>3. e[c] \in LotType /\ e[c].entry = day + 1
    BY <1>1, <2>1, <2>2 DEF LotType, OrderType
  <2> QED BY <1>1, <2>3
<1>7. IsFiniteSet(Opened(bars)) /\ Cardinality(Opened(bars)) = Cardinality(bought)
  <2> HIDE DEF e, bought
  <2> QED BY <1>3, <1>4, <1>5, ImageCount
<1>8. LotsAfter(bars) = (lots \ gone) \cup Opened(bars)
  BY DEF LotsAfter
<1> HIDE DEF gone, bought, e
<1>9. IsFiniteSet(gone) /\ IsFiniteSet(lots \ gone)
  BY <1>1, <1>2, FS_Subset
<1>10. /\ Cardinality(gone) \in Nat /\ Cardinality(lots \ gone) \in Nat
       /\ Cardinality(lots) = Cardinality(gone) + Cardinality(lots \ gone)
  <2>1. gone \cup (lots \ gone) = lots /\ gone \cap (lots \ gone) = {}
    BY <1>2
  <2> QED BY <1>9, <2>1, CountBoth
<1>11. (lots \ gone) \cap Opened(bars) = {} /\ Opened(bars) \cap lots = {}
  BY <1>6
<1>12. /\ IsFiniteSet(LotsAfter(bars)) /\ Cardinality(Opened(bars)) \in Nat
       /\ Cardinality(LotsAfter(bars)) = Cardinality(lots \ gone) + Cardinality(Opened(bars))
  BY <1>7, <1>8, <1>9, <1>11, CountBoth
<1>13. Cardinality(LotsAfter(bars)) + Cardinality(gone) = Cardinality(lots) + Cardinality(bought)
  BY <1>7, <1>10, <1>12
<1>14. LotsAfter(bars) \subseteq LotType
  BY <1>1, <1>6, <1>8
<1> QED BY <1>2, <1>6, <1>7, <1>8, <1>9, <1>11, <1>12, <1>13, <1>14 DEF gone, bought

\* A trade is a closed lot; the exits of a day are told apart by their symbols.
LEMMA TradesGrow ==
  ASSUME Inductive, NEW bars
  PROVE  LET gone == UNION {Closed(c) : c \in Exits(bars)}
             new  == UNION {TradesOf(c) : c \in Exits(bars)}
             ends == {<<t.symbol, t.exit>> : t \in trades}
         IN  /\ new \subseteq TradeType /\ IsFiniteSet(new)
             /\ \A t \in new : t.exit = day + 1 /\ t \notin trades
             /\ IsFiniteSet(trades \cup new)
             /\ Cardinality(trades \cup new) = Cardinality(trades) + Cardinality(gone)
             /\ Cardinality({<<t.symbol, t.exit>> : t \in trades \cup new})
                  = Cardinality(ends) + Cardinality(Exits(bars))
             /\ Cardinality(ends) \in Nat
<1> DEFINE X    == Exits(bars)
           gone == UNION {Closed(c) : c \in X}
           new  == UNION {TradesOf(c) : c \in X}
           ends == {<<t.symbol, t.exit>> : t \in trades}
           Seller(l) == CHOOSE c \in X : c.symbol = l.symbol
           Rule(l) == Seller(l).rule
           e == [l \in gone |-> [symbol |-> l.symbol, quantity |-> l.quantity, entry |-> l.entry,
                                 exit |-> day + 1, rule |-> Rule(l)]]
           y == [c \in X |-> <<c.symbol, day + 1>>]
<1>1. /\ day \in Nat /\ trades \subseteq TradeType /\ IsFiniteSet(trades)
      /\ \A t \in trades : t.exit \in 1 .. day
      /\ lots \subseteq LotType
  BY DEF Inductive, Typed, NothingAhead
<1>2. /\ \A c \in X : c \in OrderType /\ c \in queued
      /\ \A c \in X : Closed(c) \subseteq Of(c.symbol, lots) /\ Closed(c) # {}
      /\ \A c, d \in X : c.symbol = d.symbol => c = d
      /\ IsFiniteSet(X)
  BY ExitFits, OrdersFilled
<1>3. gone \subseteq lots /\ gone \subseteq LotType /\ IsFiniteSet(gone)
  BY <1>1, LotsMove
<1>4. ASSUME NEW c \in X, NEW l \in Closed(c) PROVE Rule(l) = c.rule /\ l.symbol = c.symbol
  <2>1. l.symbol = c.symbol
    BY <1>2 DEF Of
  <2> QED BY <1>2, <2>1
<1>5. new = {e[l] : l \in gone}
  <2>1. ASSUME NEW t \in new PROVE t \in {e[l] : l \in gone}
    <3>0. PICK c \in X : t \in TradesOf(c)
      BY <2>1
    <3>1. PICK l \in Closed(c) :
            t = [symbol |-> l.symbol, quantity |-> l.quantity, entry |-> l.entry,
                 exit |-> day + 1, rule |-> c.rule]
      BY <3>0 DEF TradesOf
    <3>2. l \in gone /\ e[l] = t
      BY <1>4, <3>1
    <3> QED BY <3>2
  <2>2. ASSUME NEW l \in gone PROVE e[l] \in new
    <3>1. PICK c \in X : l \in Closed(c)
      OBVIOUS
    <3>2. e[l] \in TradesOf(c)
      BY <1>4, <3>1 DEF TradesOf
    <3> QED BY <3>2
  <2> HIDE DEF new, gone, e
  <2> QED BY <2>1, <2>2
<1>6. ASSUME NEW l \in gone
      PROVE  /\ e[l] \in TradeType /\ e[l].exit = day + 1 /\ e[l].symbol = l.symbol
             /\ e[l].quantity = l.quantity /\ e[l].entry = l.entry
  <2>1. PICK c \in X : l \in Closed(c)
    OBVIOUS
  <2>2. c.rule \in AllRules /\ Rule(l) = c.rule
    BY <1>2, <1>4, <2>1 DEF OrderType
  <2>3. e[l] = [symbol |-> l.symbol, quantity |-> l.quantity, entry |-> l.entry,
                exit |-> day + 1, rule |-> c.rule]
    BY <2>2
  <2>4. l \in LotType
    BY <1>3
  <2> HIDE DEF X, gone, new, ends, e, y
  <2> QED BY <1>1, <2>2, <2>3, <2>4 DEF TradeType, LotType
<1>7. \A l, m \in gone : e[l] = e[m] => l = m
  BY <1>3, <1>6 DEF LotType
<1>8. IsFiniteSet(new) /\ Cardinality(new) = Cardinality(gone)
  <2> HIDE DEF e, gone, new
  <2> QED BY <1>3, <1>5, <1>7, ImageCount
<1>9. \A t \in new : t \in TradeType /\ t.exit = day + 1 /\ t \notin trades
  <2>1. \A t \in new : t \in TradeType /\ t.exit = day + 1
    <3> HIDE DEF new, gone, e
    <3> QED BY <1>5, <1>6
  <2>2. \A t \in trades : t.exit # day + 1
    BY <1>1
  <2> QED BY <2>1, <2>2
<1>10. /\ IsFiniteSet(trades \cup new)
       /\ Cardinality(trades \cup new) = Cardinality(trades) + Cardinality(gone)
  <2>1. trades \cap new = {}
    BY <1>9
  <2> HIDE DEF gone, new
  <2> QED BY <1>1, <1>8, <2>1, CountBoth
<1>11. {<<t.symbol, t.exit>> : t \in new} = {y[c] : c \in X}
  <2>1. ASSUME NEW t \in new PROVE <<t.symbol, t.exit>> \in {y[c] : c \in X}
    <3>1. PICK l \in gone : t = e[l]
      BY <1>5
    <3>2. PICK c \in X : l \in Closed(c)
      OBVIOUS
    <3>3. <<t.symbol, t.exit>> = y[c]
      BY <1>4, <1>6, <3>1, <3>2
    <3> QED BY <3>3
  <2>2. ASSUME NEW c \in X PROVE y[c] \in {<<t.symbol, t.exit>> : t \in new}
    <3>1. PICK l \in Closed(c) : TRUE
      BY <1>2
    <3>2. l \in gone /\ e[l] \in new
      BY <1>5
    <3>3. y[c] = <<e[l].symbol, e[l].exit>>
      BY <1>4, <1>6, <3>2
    <3> QED BY <3>2, <3>3
  <2> QED BY <2>1, <2>2
<1>12. \A c, d \in X : y[c] = y[d] => c = d
  BY <1>2
<1>13. /\ IsFiniteSet({y[c] : c \in X}) /\ Cardinality({y[c] : c \in X}) = Cardinality(X)
  <2> HIDE DEF X, y
  <2> QED BY <1>2, <1>12, ImageCount
<1>14. IsFiniteSet(ends) /\ Cardinality(ends) \in Nat
  <2> DEFINE Z == {<<s, d>> : s \in Symbols, d \in 1 .. day}
             D == 1 .. day
             S == Symbols
  <2>1. IsFiniteSet(S) /\ IsFiniteSet(D)
    BY <1>1, GateAssumption, FS_Interval DEF Symbols
  <2>2. IsFiniteSet(S \X D)
    <3> HIDE DEF S, D
    <3> QED BY <2>1, FS_Product
  <2>3. ends \in SUBSET (S \X D)
    BY <1>1 DEF TradeType
  <2> HIDE DEF ends, S, D
  <2> QED BY <2>2, <2>3, FS_Subset, FS_CardinalityType
<1>15. Cardinality({<<t.symbol, t.exit>> : t \in trades \cup new})
         = Cardinality(ends) + Cardinality(X)
  <2> DEFINE fresh == {y[c] : c \in X}
  <2>1. {<<t.symbol, t.exit>> : t \in trades \cup new} = ends \cup fresh
    <3>1. {<<t.symbol, t.exit>> : t \in trades \cup new}
            = ends \cup {<<t.symbol, t.exit>> : t \in new}
      OBVIOUS
    <3> HIDE DEF new, ends
    <3> QED BY <1>11, <3>1
  <2>2. ends \cap fresh = {}
    BY <1>1
  <2> HIDE DEF ends, fresh, X
  <2>3. Cardinality(ends \cup fresh) = Cardinality(ends) + Cardinality(fresh)
    <3>1. IsFiniteSet(fresh)
      BY <1>13 DEF fresh
    <3> QED BY <1>14, <2>2, <3>1, CountBoth
  <2>4. Cardinality(fresh) = Cardinality(X)
    BY <1>13 DEF fresh
  <2> QED BY <2>1, <2>3, <2>4
<1>16. new \subseteq TradeType
  BY <1>9
<1> HIDE DEF e, y
<1> QED BY <1>8, <1>9, <1>10, <1>14, <1>15, <1>16
-----------------------------------------------------------------------------
(* What the rules propose.                                                   *)

\* The bars grow by the day's, if it traded.
LEMMA HistoryGrows ==
  ASSUME Inductive, NEW bars, DayOf(bars)
  PROVE  /\ History(bars).last \in [Symbols -> BarType]
         /\ History(bars).given \in [Symbols -> Nat]
         /\ History(bars).traded \in [Symbols -> SUBSET Nat]
         /\ \A s \in Symbols : /\ History(bars).traded[s] \subseteq 1 .. (day + 1)
                               /\ traded[s] \subseteq History(bars).traded[s]
                               /\ History(bars).traded[s] \subseteq traded[s] \cup {day + 1}
<1>1. /\ day \in Nat /\ last \in [Symbols -> BarType] /\ given \in [Symbols -> Nat]
      /\ traded \in [Symbols -> SUBSET Nat] /\ \A s \in Symbols : traded[s] \subseteq 1 .. day
  BY DEF Inductive, Typed, NothingAhead
<1>2. \A s \in Symbols : Bars[s] \subseteq BarType
  BY BacktestAssumption DEF BarType
<1>3. History(bars).last \in [Symbols -> BarType]
  BY <1>1, <1>2 DEF History
<1>4. History(bars).given \in [Symbols -> Nat]
  BY <1>1 DEF History
<1>5. \A s \in Symbols : /\ History(bars).traded[s] \subseteq 1 .. (day + 1)
                         /\ traded[s] \subseteq History(bars).traded[s]
                         /\ History(bars).traded[s] \subseteq traded[s] \cup {day + 1}
                         /\ History(bars).traded[s] \subseteq Nat
  BY <1>1 DEF History
<1>6. History(bars).traded \in [Symbols -> SUBSET Nat]
  <2>1. History(bars).traded = [s \in Symbols |-> History(bars).traded[s]]
    BY DEF History
  <2> QED BY <1>5, <2>1
<1> QED BY <1>3, <1>4, <1>5, <1>6

\* The oldest of these lots is due.
OldestIsDue(h, s, ls) ==
  \E l \in ls : /\ \A o \in ls : l.entry <= o.entry
               /\ Cardinality({d \in h.traded[s] : d > l.entry}) >= MaxHoldingDays

\* One candidate per symbol; an exit is of the whole position.
LEMMA EvaluateFits ==
  ASSUME NEW h, h.last \in [Symbols -> BarType], NEW s \in Symbols,
         NEW ls \in SUBSET LotType, IsFiniteSet(ls), \A l \in ls : l.symbol = s,
         NEW c \in Evaluate(h, s, ls)
  PROVE  /\ c \in OrderType /\ c.symbol = s
         /\ \A d \in Evaluate(h, s, ls) : c = d
         /\ c.side = "sell" => c.quantity = Shares(ls)
         /\ c.rule = "max_holding_period" => c.side = "sell" /\ OldestIsDue(h, s, ls)
<1>1. Shares(ls) \in Nat /\ (Shares(ls) > 0 <=> ls # {})
  BY SharesType
<1>2. h.last[s].rule \in EntryRules \cup ExitRules \cup {"none"} /\ h.last[s].size \in Nat
  BY DEF BarType
<1>3. "max_holding_period" \notin EntryRules \cup ExitRules /\ EntryRules \cap ExitRules = {}
  BY BacktestAssumption
<1>4. CASE EvaluateTechnical(h, s, Shares(ls)) # {}
  <2>1. c \in EvaluateTechnical(h, s, Shares(ls))
    BY <1>4 DEF Evaluate
  <2>2. \/ /\ h.last[s].rule \in EntryRules /\ h.last[s].size > 0
           /\ EvaluateTechnical(h, s, Shares(ls))
                = {Candidate(h, s, "buy", h.last[s].rule, h.last[s].size)}
        \/ /\ h.last[s].rule \in ExitRules /\ Shares(ls) > 0
           /\ EvaluateTechnical(h, s, Shares(ls))
                = {Candidate(h, s, "sell", h.last[s].rule, Shares(ls))}
    BY <1>4 DEF EvaluateTechnical
  <2>3. \A d \in Evaluate(h, s, ls) : c = d
    BY <1>4, <2>1, <2>2 DEF Evaluate
  <2>4. c.rule = h.last[s].rule /\ c.rule # "max_holding_period"
    BY <1>3, <2>1, <2>2 DEF Candidate
  <2>5. /\ c \in OrderType /\ c.symbol = s
        /\ c.side = "sell" => c.quantity = Shares(ls)
    BY <1>1, <1>2, <2>1, <2>2 DEF Candidate, OrderType, AllRules
  <2> QED BY <2>3, <2>4, <2>5
<1>5. CASE EvaluateTechnical(h, s, Shares(ls)) = {}
  <2>1. c \in EvaluateExit(h, s, ls)
    BY <1>5 DEF Evaluate
  <2>2. /\ EvaluateExit(h, s, ls)
             = {Candidate(h, s, "sell", "max_holding_period", Shares(ls))}
        /\ \E l \in ls : (\A o \in ls : l.entry <= o.entry) /\ BarsHeld(h, l) >= MaxHoldingDays
    BY <2>1 DEF EvaluateExit
  <2>3. \A d \in Evaluate(h, s, ls) : c = d
    BY <1>5, <2>1, <2>2 DEF Evaluate
  <2>4. c = Candidate(h, s, "sell", "max_holding_period", Shares(ls)) /\ ls # {}
    BY <2>1, <2>2
  <2>5. /\ c \in OrderType /\ c.symbol = s /\ c.side = "sell" /\ c.quantity = Shares(ls)
    BY <1>1, <2>4 DEF Candidate, OrderType, AllRules
  <2>6. OldestIsDue(h, s, ls)
    BY <2>2 DEF BarsHeld, OldestIsDue
  <2> QED BY <2>3, <2>5, <2>6
<1> QED BY <1>4, <1>5

\* What the gate lets through is among what the rules propose.
LEMMA AcceptedFits ==
  ASSUME Inductive, NEW bars, DayOf(bars), NEW c \in Accepted(bars, History(bars), LotsAfter(bars))
  PROVE  LET h  == History(bars)
             ls == LotsAfter(bars)
         IN  /\ c \in OrderType
             /\ \A d \in Accepted(bars, h, ls) : c.symbol = d.symbol => c = d
             /\ c.side = "sell" => c.quantity = Shares(Of(c.symbol, ls))
             /\ c.rule = "max_holding_period" =>
                  c.side = "sell" /\ OldestIsDue(h, c.symbol, Of(c.symbol, ls))
<1> DEFINE h  == History(bars)
           ls == LotsAfter(bars)
           A  == Accepted(bars, h, ls)
<1>1. h.last \in [Symbols -> BarType]
  BY HistoryGrows
<1>2. ls \subseteq LotType /\ IsFiniteSet(ls)
  BY LotsMove
<1>3. A \subseteq UNION {Evaluate(h, s, Of(s, ls)) : s \in Symbols}
  BY DEF Accepted, ApplyRiskCaps
<1> HIDE DEF h, ls, A
<1>4. \A s : Of(s, ls) \in SUBSET LotType /\ IsFiniteSet(Of(s, ls)) /\ \A l \in Of(s, ls) : l.symbol = s
  <2> SUFFICES ASSUME NEW s
               PROVE  Of(s, ls) \in SUBSET LotType /\ IsFiniteSet(Of(s, ls))
                        /\ \A l \in Of(s, ls) : l.symbol = s
    OBVIOUS
  <2>1. Of(s, ls) \subseteq ls /\ \A l \in Of(s, ls) : l.symbol = s
    BY DEF Of
  <2> QED BY <1>2, <2>1, FS_Subset
<1>5. \A s \in Symbols : \A d \in Evaluate(h, s, Of(s, ls)) :
        /\ d \in OrderType /\ d.symbol = s
        /\ \A e \in Evaluate(h, s, Of(s, ls)) : d = e
        /\ d.side = "sell" => d.quantity = Shares(Of(s, ls))
        /\ d.rule = "max_holding_period" =>
             d.side = "sell" /\ OldestIsDue(h, s, Of(s, ls))
  BY <1>1, <1>4, EvaluateFits
<1>6. \A d \in A : d.symbol \in Symbols /\ d \in Evaluate(h, d.symbol, Of(d.symbol, ls))
  BY <1>3, <1>5
<1>7. c \in A
  BY DEF A, h, ls
<1>8. /\ c \in OrderType
      /\ \A d \in A : c.symbol = d.symbol => c = d
      /\ c.side = "sell" => c.quantity = Shares(Of(c.symbol, ls))
      /\ c.rule = "max_holding_period" =>
           c.side = "sell" /\ OldestIsDue(h, c.symbol, Of(c.symbol, ls))
  BY <1>5, <1>6, <1>7
<1> QED BY <1>8 DEF A, h, ls

\* Nobody proposes twice: the candidates are no more than the symbols.
LEMMA AcceptedIsFinite ==
  ASSUME Inductive, NEW bars, DayOf(bars)
  PROVE  IsFiniteSet(Accepted(bars, History(bars), LotsAfter(bars)))
<1> DEFINE A == Accepted(bars, History(bars), LotsAfter(bars))
           f == [c \in A |-> c.symbol]
           S == Symbols
<1>1. \A c \in A : c \in OrderType /\ \A d \in A : c.symbol = d.symbol => c = d
  BY AcceptedFits
<1>2. f \in [A -> S] /\ \A c, d \in A : f[c] = f[d] => c = d
  <2> HIDE DEF A
  <2> QED BY <1>1 DEF OrderType
<1>3. f \in Injection(A, S)
  <2> HIDE DEF A, f, S
  <2> QED BY <1>2 DEF Injection, IsInjective
<1>4. IsFiniteSet(S)
  BY GateAssumption, FS_Interval DEF Symbols
<1> HIDE DEF A, f, S
<1>5. IsFiniteSet(A)
  BY <1>3, <1>4, FS_Injection
<1> QED BY <1>5 DEF A
-----------------------------------------------------------------------------
(* A day.                                                                    *)

\* What Replay assigns.
LEMMA ReplayIs ==
  ASSUME NEW bars, Replay(bars)
  PROVE  LET h        == History(bars)
             ls       == LotsAfter(bars)
             accepted == Accepted(bars, h, ls)
         IN  /\ last' = h.last /\ traded' = h.traded /\ given' = h.given
             /\ lots' = ls /\ day' = day + 1 /\ pc' = pc
             /\ trades' = trades \cup UNION {TradesOf(c) : c \in Exits(bars)}
             /\ proposed' = proposed + Cardinality(accepted)
             /\ unfilled' = unfilled + Cardinality(Unfilled(bars))
             /\ queued' \subseteq accepted
             /\ expired' = expired + Cardinality(accepted \ queued')
BY DEF Replay

LEMMA ReplayTyped ==
  ASSUME Inductive, NEW bars, DayOf(bars), Replay(bars)
  PROVE  Typed'
<1> DEFINE A == Accepted(bars, History(bars), LotsAfter(bars))
<1>1. /\ pc \in {"running", "thrown", "done"} /\ day \in Nat
      /\ trades \subseteq TradeType
      /\ proposed \in Nat /\ unfilled \in Nat /\ expired \in Nat
  BY DEF Inductive, Typed
<1>2. A \subseteq OrderType /\ IsFiniteSet(A)
  BY AcceptedFits, AcceptedIsFinite
<1>3. /\ Cardinality(A) \in Nat /\ Cardinality(A \ queued') \in Nat
      /\ Cardinality(Unfilled(bars)) \in Nat
  <2>1. IsFiniteSet(A \ queued') /\ IsFiniteSet(Unfilled(bars))
    <3>1. A \ queued' \subseteq A /\ Unfilled(bars) \subseteq queued /\ IsFiniteSet(queued)
      BY OrdersFilled
    <3> HIDE DEF A
    <3>2. IsFiniteSet(A \ queued')
      BY <1>2, <3>1, FS_Subset
    <3>3. IsFiniteSet(Unfilled(bars))
      BY <3>1, FS_Subset
    <3> QED BY <3>2, <3>3
  <2> HIDE DEF A
  <2> QED BY <1>2, <2>1, FS_CardinalityType
<1>4. last' \in [Symbols -> BarType] /\ given' \in [Symbols -> Nat]
        /\ traded' \in [Symbols -> SUBSET Nat]
  BY HistoryGrows, ReplayIs
<1>5. lots' \subseteq LotType /\ IsFiniteSet(lots')
  BY LotsMove, ReplayIs
<1>6. trades' \subseteq TradeType /\ IsFiniteSet(trades')
  BY <1>1, TradesGrow, ReplayIs
<1>7. queued' \subseteq OrderType
  BY <1>2, ReplayIs
<1>8. /\ pc' = pc /\ day' = day + 1 /\ proposed' = proposed + Cardinality(A)
      /\ unfilled' = unfilled + Cardinality(Unfilled(bars))
      /\ expired' = expired + Cardinality(A \ queued')
  BY ReplayIs
<1> HIDE DEF A
<1> QED BY <1>1, <1>3, <1>4, <1>5, <1>6, <1>7, <1>8 DEF Typed

LEMMA ReplayFits ==
  ASSUME Inductive, NEW bars, DayOf(bars), Replay(bars)
  PROVE  QueueFits' /\ NothingAhead'
<1> DEFINE h  == History(bars)
           ls == LotsAfter(bars)
           A  == Accepted(bars, h, ls)
<1>1. /\ traded' = h.traded /\ lots' = ls /\ queued' \subseteq A /\ day' = day + 1
      /\ trades' = trades \cup UNION {TradesOf(c) : c \in Exits(bars)}
  BY ReplayIs
<1>2. \A c \in queued' :
        /\ \A d \in queued' : c.symbol = d.symbol => c = d
        /\ c.side = "sell" => c.quantity = Shares(Of(c.symbol, ls))
        /\ c.rule = "max_holding_period" =>
             c.side = "sell" /\ OldestIsDue(h, c.symbol, Of(c.symbol, ls))
  BY <1>1, AcceptedFits
<1>3. QueueFits'
  <2>1. \A c \in queued' : c.rule = "max_holding_period" =>
          /\ c.side = "sell"
          /\ \E l \in Of(c.symbol, lots') :
               /\ \A o \in Of(c.symbol, lots') : l.entry <= o.entry
               /\ Cardinality({d \in traded'[c.symbol] : d > l.entry}) >= MaxHoldingDays
    <3> SUFFICES ASSUME NEW c \in queued', c.rule = "max_holding_period"
                 PROVE  /\ c.side = "sell"
                        /\ \E l \in Of(c.symbol, lots') :
                             /\ \A o \in Of(c.symbol, lots') : l.entry <= o.entry
                             /\ Cardinality({d \in traded'[c.symbol] : d > l.entry})
                                  >= MaxHoldingDays
      OBVIOUS
    <3>1. c.side = "sell" /\ OldestIsDue(h, c.symbol, Of(c.symbol, ls))
      BY <1>2
    <3> HIDE DEF h, ls, A
    <3> QED BY <1>1, <3>1 DEF OldestIsDue
  <2>2. \A c \in queued' : c.side = "sell" => c.quantity = Shares(Of(c.symbol, lots'))
    BY <1>1, <1>2
  <2>3. \A c, d \in queued' : c.symbol = d.symbol => c = d
    BY <1>2
  <2> HIDE DEF h, ls, A
  <2> QED BY <2>1, <2>2, <2>3 DEF QueueFits
<1>4. NothingAhead'
  <2>1. /\ day \in Nat /\ \A l \in lots : l.entry \in 1 .. day
        /\ \A t \in trades : t.exit \in 1 .. day
    BY DEF Inductive, Typed, NothingAhead
  <2>2. \A s \in Symbols : traded'[s] \subseteq 1 .. day'
    <3>1. \A s \in Symbols : h.traded[s] \subseteq 1 .. (day + 1)
      BY HistoryGrows
    <3> HIDE DEF h
    <3> QED BY <1>1, <3>1
  <2>3. \A l \in lots' : l.entry \in 1 .. day'
    <3>1. \A l \in lots' : l \in lots \/ l.entry = day + 1
      BY <1>1, LotsMove
    <3> QED BY <1>1, <2>1, <3>1
  <2>4. \A t \in trades' : t.exit \in 1 .. day'
    <3>1. \A t \in trades' : t \in trades \/ t.exit = day + 1
      BY <1>1, TradesGrow
    <3> QED BY <1>1, <2>1, <3>1
  <2> QED BY <2>2, <2>3, <2>4 DEF NothingAhead
<1> QED BY <1>3, <1>4

\* Each order of the day before is a fill of a lot, an exit of some, or
\* unfilled; each accepted candidate is queued or expired.
LEMMA ReplayAccounts ==
  ASSUME Inductive, NEW bars, DayOf(bars), Replay(bars)
  PROVE  SignalsAccounted'
<1> DEFINE A      == Accepted(bars, History(bars), LotsAfter(bars))
           X      == Exits(bars)
           U      == Unfilled(bars)
           bought == {c \in Filled(bars) : c.side = "buy"}
           gone   == UNION {Closed(c) : c \in X}
           Ends(ts) == {<<t.symbol, t.exit>> : t \in ts}
<1>1. /\ proposed' = proposed + Cardinality(A)
      /\ unfilled' = unfilled + Cardinality(U)
      /\ queued' \subseteq A /\ expired' = expired + Cardinality(A \ queued')
      /\ lots' = LotsAfter(bars)
      /\ trades' = trades \cup UNION {TradesOf(c) : c \in X}
  BY ReplayIs
<1>2. /\ proposed \in Nat /\ unfilled \in Nat /\ expired \in Nat
      /\ IsFiniteSet(lots) /\ IsFiniteSet(trades)
      /\ proposed = Cardinality(lots) + Cardinality(trades) + Cardinality(Ends(trades))
                    + unfilled + expired + Cardinality(queued)
  BY DEF Inductive, Typed, SignalsAccounted
<1>3. Cardinality(A) = Cardinality(queued') + Cardinality(A \ queued')
      /\ Cardinality(queued') \in Nat /\ Cardinality(A \ queued') \in Nat
  <2>1. IsFiniteSet(A)
    BY AcceptedIsFinite
  <2> HIDE DEF A
  <2>2. IsFiniteSet(queued') /\ IsFiniteSet(A \ queued')
    BY <1>1, <2>1, FS_Subset
  <2>3. queued' \cup (A \ queued') = A /\ queued' \cap (A \ queued') = {}
    BY <1>1
  <2> QED BY <2>2, <2>3, CountBoth
<1>4. /\ Cardinality(queued) = Cardinality(U) + Cardinality(X) + Cardinality(bought)
      /\ Cardinality(U) \in Nat /\ Cardinality(X) \in Nat /\ Cardinality(bought) \in Nat
  <2>1. /\ IsFiniteSet(queued) /\ U \subseteq queued /\ X \subseteq queued /\ bought \subseteq queued
        /\ U \cap X = {} /\ (U \cup X) \cap bought = {} /\ (U \cup X) \cup bought = queued
    <3>1. \A c \in queued : c.side \in {"buy", "sell"}
      BY OrdersFilled DEF OrderType
    <3> QED BY <3>1, OrdersFilled DEF Exits
  <2> HIDE DEF U, X, bought
  <2>2. IsFiniteSet(U) /\ IsFiniteSet(X) /\ IsFiniteSet(bought)
    BY <2>1, FS_Subset
  <2>3. /\ IsFiniteSet(U \cup X) /\ Cardinality(U) \in Nat /\ Cardinality(X) \in Nat
        /\ Cardinality(U \cup X) = Cardinality(U) + Cardinality(X)
    BY <2>1, <2>2, CountBoth
  <2>4. /\ Cardinality(bought) \in Nat
        /\ Cardinality((U \cup X) \cup bought) = Cardinality(U \cup X) + Cardinality(bought)
    BY <2>1, <2>2, <2>3, CountBoth
  <2> QED BY <2>1, <2>3, <2>4
<1>5. Cardinality(lots') + Cardinality(gone) = Cardinality(lots) + Cardinality(bought)
  BY <1>1, LotsMove
<1>6. /\ Cardinality(trades') = Cardinality(trades) + Cardinality(gone)
      /\ Cardinality(Ends(trades')) = Cardinality(Ends(trades)) + Cardinality(X)
      /\ Cardinality(Ends(trades)) \in Nat
  BY <1>1, TradesGrow
<1>7. /\ Cardinality(gone) \in Nat /\ Cardinality(lots) \in Nat /\ Cardinality(lots') \in Nat
      /\ Cardinality(trades) \in Nat
  <2>1. IsFiniteSet(gone) /\ IsFiniteSet(lots')
    BY <1>1, LotsMove
  <2> HIDE DEF gone
  <2> QED BY <1>2, <2>1, FS_CardinalityType
<1> HIDE DEF A, X, U, bought, gone
<1>8. proposed' = Cardinality(lots') + Cardinality(trades') + Cardinality(Ends(trades'))
                  + unfilled' + expired' + Cardinality(queued')
  <2> HIDE DEF Ends
  <2> QED BY <1>1, <1>2, <1>3, <1>4, <1>5, <1>6, <1>7
<1> QED BY <1>8 DEF SignalsAccounted

\* The oldest lot of a time stop is among those it closes, and what it waited
\* is what it had waited when the order was queued.
LEMMA ReplayWaits ==
  ASSUME Inductive, NEW bars, DayOf(bars), Replay(bars)
  PROVE  TimeStopWaits'
<1> DEFINE new == UNION {TradesOf(c) : c \in Exits(bars)}
           W(tr, o) == Cardinality({d \in tr[o.symbol] : o.entry < d /\ d < o.exit})
<1>1. /\ trades' = trades \cup new /\ traded' = History(bars).traded
      /\ day \in Nat /\ trades \subseteq TradeType
      /\ \A t \in trades : t.exit \in 1 .. day
      /\ \A s \in Symbols : traded[s] \subseteq 1 .. day
  BY ReplayIs DEF Inductive, Typed, NothingAhead
<1>2. \A s \in Symbols : traded[s] \subseteq traded'[s] /\ traded'[s] \subseteq traded[s] \cup {day + 1}
  BY <1>1, HistoryGrows
<1>3. ASSUME NEW o \in trades PROVE W(traded', o) = W(traded, o)
  <2>1. o.symbol \in Symbols /\ o.exit \in 1 .. day
    BY <1>1 DEF TradeType
  <2>2. {d \in traded'[o.symbol] : o.entry < d /\ d < o.exit}
          = {d \in traded[o.symbol] : o.entry < d /\ d < o.exit}
    BY <1>1, <1>2, <2>1
  <2> QED BY <2>2
<1>4. ASSUME NEW t \in trades, t.rule = "max_holding_period"
      PROVE  \E o \in trades' :
               o.symbol = t.symbol /\ o.exit = t.exit /\ W(traded', o) >= MaxHoldingDays
  <2>1. PICK o \in trades :
          o.symbol = t.symbol /\ o.exit = t.exit /\ W(traded, o) >= MaxHoldingDays
    BY <1>4 DEF Inductive, TimeStopWaits
  <2>2. o \in trades' /\ W(traded', o) = W(traded, o)
    BY <1>1, <1>3
  <2> HIDE DEF W
  <2> QED BY <2>1, <2>2
<1>5. ASSUME NEW t \in new, t.rule = "max_holding_period"
      PROVE  \E o \in trades' :
               o.symbol = t.symbol /\ o.exit = t.exit /\ W(traded', o) >= MaxHoldingDays
  <2>1. PICK c \in Exits(bars) : t \in TradesOf(c)
    BY <1>5
  <2> DEFINE P == Of(c.symbol, lots)
  <2>2. /\ c \in queued /\ c \in OrderType /\ Closed(c) \subseteq P
        /\ \E l \in Closed(c) : \A o \in P : l.entry <= o.entry
    BY ExitFits
  <2>3. c.rule = "max_holding_period" /\ t.symbol = c.symbol /\ t.exit = day + 1
    BY <1>5, <2>1, <2>2 DEF TradesOf, Of
  <2>4. PICK m \in P : /\ \A o \in P : m.entry <= o.entry
                       /\ Cardinality({d \in traded[c.symbol] : d > m.entry}) >= MaxHoldingDays
    BY <2>2, <2>3 DEF Inductive, QueueFits
  <2>5. PICK l \in Closed(c) : \A o \in P : l.entry <= o.entry
    BY <2>2
  <2>6. l \in P /\ l.entry = m.entry /\ l.entry \in Nat /\ l.symbol = c.symbol
    <3>1. \A o \in P : o.entry \in Nat /\ o.symbol = c.symbol
      BY DEF Of, Inductive, Typed, LotType
    <3>2. l \in P /\ l.entry <= m.entry /\ m.entry <= l.entry
      BY <2>2, <2>4, <2>5
    <3> QED BY <3>1, <3>2
  <2> DEFINE o == [symbol |-> l.symbol, quantity |-> l.quantity, entry |-> l.entry,
                   exit |-> day + 1, rule |-> c.rule]
  <2>7. o \in trades'
    <3>1. o \in TradesOf(c)
      BY DEF TradesOf
    <3> QED BY <1>1, <3>1
  <2>8. {d \in traded'[c.symbol] : l.entry < d /\ d < day + 1}
          = {d \in traded[c.symbol] : d > m.entry}
    <3>1. c.symbol \in Symbols
      BY <2>2 DEF OrderType
    <3> QED BY <1>1, <1>2, <2>6, <3>1
  <2>9. W(traded', o) >= MaxHoldingDays
    BY <2>4, <2>6, <2>8
  <2>10. o.symbol = t.symbol /\ o.exit = t.exit
    BY <2>3, <2>6
  <2> HIDE DEF o, W
  <2> QED BY <2>7, <2>9, <2>10
<1>6. \A t \in trades' : t.rule = "max_holding_period" =>
        \E o \in trades' :
          o.symbol = t.symbol /\ o.exit = t.exit /\ W(traded', o) >= MaxHoldingDays
  <2> HIDE DEF W, new
  <2> QED BY <1>1, <1>4, <1>5
<1> QED BY <1>6 DEF TimeStopWaits
-----------------------------------------------------------------------------
(* The replay.                                                               *)

LEMMA InitInductive == Init => Inductive
<1> SUFFICES ASSUME Init PROVE Inductive
  OBVIOUS
<1>1. IsFiniteSet({}) /\ Cardinality({}) = 0
  BY FS_EmptySet
<1>2. Typed
  BY <1>1 DEF Init, Typed, NoBar, BarType
<1>3. SignalsAccounted
  <2>1. {<<t.symbol, t.exit>> : t \in trades} = {}
    BY DEF Init
  <2> QED BY <1>1, <2>1 DEF Init, SignalsAccounted
<1>4. QueueFits /\ NothingAhead /\ ExitNeverSplits /\ TimeStopWaits
  BY DEF Init, QueueFits, NothingAhead, ExitNeverSplits, TimeStopWaits
<1> QED BY <1>2, <1>3, <1>4 DEF Inductive

LEMMA FinishStep ==
  ASSUME Inductive, Finish
  PROVE  Inductive'
<1>1. /\ pc' = "done" /\ unfilled' = unfilled + Cardinality(queued) /\ queued' = {}
      /\ UNCHANGED <<day, last, traded, given, lots, trades, proposed, expired>>
  BY DEF Finish
<1>2. Cardinality(queued) \in Nat
  BY OrdersFilled, FS_CardinalityType
<1>3. Typed'
  BY <1>1, <1>2 DEF Inductive, Typed
<1>4. SignalsAccounted'
  <2> DEFINE Ends(ts) == {<<t.symbol, t.exit>> : t \in ts}
  <2>1. /\ proposed = Cardinality(lots) + Cardinality(trades) + Cardinality(Ends(trades))
                      + unfilled + expired + Cardinality(queued)
        /\ unfilled \in Nat /\ expired \in Nat
        /\ IsFiniteSet(lots) /\ IsFiniteSet(trades)
    BY DEF Inductive, Typed, SignalsAccounted
  <2>2. Cardinality({}) = 0
    BY FS_EmptySet
  <2>3. /\ Cardinality(lots) \in Nat /\ Cardinality(trades) \in Nat
        /\ Cardinality(Ends(trades)) \in Nat
    <3>1. Cardinality(Ends(trades)) \in Nat
      BY TradesGrow
    <3> QED BY <2>1, <3>1, FS_CardinalityType
  <2>4. proposed' = Cardinality(lots') + Cardinality(trades') + Cardinality(Ends(trades'))
                    + unfilled' + expired' + Cardinality(queued')
    <3> HIDE DEF Ends
    <3> QED BY <1>1, <1>2, <2>1, <2>2, <2>3
  <2> QED BY <2>4 DEF SignalsAccounted
<1>5. QueueFits' /\ NothingAhead'
  BY <1>1 DEF Inductive, QueueFits, NothingAhead
<1>6. ExitNeverSplits' /\ TimeStopWaits'
  BY <1>1 DEF Inductive, ExitNeverSplits, TimeStopWaits
<1> QED BY <1>3, <1>4, <1>5, <1>6 DEF Inductive

LEMMA StepInductive ==
  ASSUME Inductive, [Next]_vars
  PROVE  Inductive'
<1>1. CASE NextDay
  <2>1. PICK bars : /\ DayOf(bars)
                    /\ Throw(bars) \/ Replay(bars)
    BY <1>1 DEF NextDay, DayOf
  <2>2. Replay(bars)
    BY <2>1, NeverSplits DEF Throw
  <2>3. ExitNeverSplits'
    BY <2>2, ReplayIs DEF Inductive, ExitNeverSplits
  <2> QED
    BY <2>1, <2>2, <2>3, ReplayTyped, ReplayFits, ReplayAccounts, ReplayWaits DEF Inductive
<1>2. CASE Finish
  BY <1>2, FinishStep
<1>3. CASE UNCHANGED vars
  BY <1>3
  DEF vars, Inductive, Typed, QueueFits, NothingAhead, ExitNeverSplits, SignalsAccounted,
      TimeStopWaits
<1> QED BY <1>1, <1>2, <1>3 DEF Next
-----------------------------------------------------------------------------
(* Folds from the left.  FoldLeft removes the last index of a set of indices  *)
(* after the other, so it is a function of the sets of indices, and what      *)
(* matters is its value at the first i of them.                               *)

\* The value at a set of indices, given those at smaller ones: one more element
\* of e, taken by step.
Stepped(step, base, e, g, s) ==
  IF s = {} THEN base ELSE step[<<g[s \ {Max(s)}], e[Max(s)]>>]

IsLeftFold(step, base, e, g, S) == g = [s \in SUBSET S |-> Stepped(step, base, e, g, s)]

\* Some numbers up to n have a greatest.
LEMMA MaxShape ==
  ASSUME NEW n \in Nat, NEW s \in SUBSET (1 .. n), s # {}
  PROVE  Max(s) \in s /\ \A i \in s : i <= Max(s)
<1>. DEFINE E == {n - i : i \in s}
<1>1. E \in SUBSET Nat
  OBVIOUS
<1>2. PICK k : k \in E
  OBVIOUS
<1>3. PICK k0 \in E : \A f \in E : k0 <= f
  <2>. HIDE DEF E
  <2>. QED  BY <1>1, <1>2, LeastOf
<1>4. PICK m \in s : k0 = n - m
  BY <1>3
<1>5. \A i \in s : m >= i
  <2>. TAKE i \in s
  <2>1. n - i \in E /\ i \in 1 .. n /\ m \in 1 .. n
    OBVIOUS
  <2>2. k0 <= n - i
    BY <2>1, <1>3
  <2>. HIDE DEF E
  <2>. QED  BY <2>1, <2>2, <1>4
<1>6. Max(s) \in s /\ \A i \in s : Max(s) >= i
  BY <1>5 DEF Max
<1>. QED  BY <1>6

LEMMA MaxOfPrefix ==
  ASSUME NEW i \in Nat
  PROVE  /\ Max(1 .. (i + 1)) = i + 1
         /\ (1 .. (i + 1)) \ {i + 1} = 1 .. i
<1>. DEFINE n == i + 1
            s == 1 .. n
<1>1. n \in Nat /\ s \in SUBSET (1 .. n) /\ s # {} /\ n \in s
  OBVIOUS
<1>. HIDE DEF s, n
<1>2. Max(s) \in s /\ n <= Max(s)
  BY <1>1, MaxShape
<1>. QED  BY <1>2 DEF s, n

LEMMA LeftFoldUnique ==
  ASSUME NEW step, NEW base, NEW e, NEW n \in Nat, NEW S \in SUBSET (1 .. n), NEW T, NEW g, NEW h,
         IsLeftFold(step, base, e, g, S), IsLeftFold(step, base, e, h, T)
  PROVE  \A s \in SUBSET S : s \subseteq T => g[s] = h[s]
<1>. DEFINE G == {s \in SUBSET S : s \subseteq T => g[s] = h[s]}
<1>1. ASSUME NEW s \in SUBSET S, \A U \in SUBSET s : U # s => U \in G
      PROVE  s \in G
  <2>. SUFFICES ASSUME s \subseteq T PROVE g[s] = h[s]
    OBVIOUS
  <2>1. g[s] = Stepped(step, base, e, g, s) /\ h[s] = Stepped(step, base, e, h, s)
    BY DEF IsLeftFold
  <2>2. CASE s = {}
    BY <2>1, <2>2 DEF Stepped
  <2>3. CASE s # {}
    <3>1. Max(s) \in s
      BY <2>3, MaxShape
    <3>2. s \ {Max(s)} \in SUBSET s /\ s \ {Max(s)} # s
      BY <3>1
    <3>3. g[s \ {Max(s)}] = h[s \ {Max(s)}]
      BY <3>2, <1>1
    <3>. QED  BY <2>1, <3>3 DEF Stepped
  <2>. QED  BY <2>2, <2>3
<1>2. IsFiniteSet(S)
  <2>1. IsFiniteSet(1 .. n)
    BY FS_Interval
  <2>. QED  BY <2>1, FS_Subset
<1>3. \A s \in SUBSET S : s \in G
  <2>. HIDE DEF G
  <2>. QED  BY <1>1, <1>2, SubsetInduction
<1>. QED  BY <1>3

LEMMA LeftFoldExists ==
  ASSUME NEW step, NEW base, NEW e, NEW n \in Nat
  PROVE  \E g : IsLeftFold(step, base, e, g, 1 .. n)
<1>. DEFINE S == 1 .. n
            G == {T \in SUBSET S : \E g : IsLeftFold(step, base, e, g, T)}
<1>1. ASSUME NEW T \in SUBSET S, \A U \in SUBSET T : U # T => U \in G
      PROVE  T \in G
  <2>. DEFINE F(U) == CHOOSE g : IsLeftFold(step, base, e, g, U)
              below == [s \in SUBSET T |-> IF s = T THEN base ELSE F(s)[s]]
              g == [s \in SUBSET T |-> Stepped(step, base, e, below, s)]
  <2>1. \A U \in SUBSET T : U # T => IsLeftFold(step, base, e, F(U), U)
    BY <1>1
  <2>2. \A U \in SUBSET T : U # T => below[U] = Stepped(step, base, e, below, U)
    <3>. SUFFICES ASSUME NEW U \in SUBSET T, U # T PROVE F(U)[U] = Stepped(step, base, e, below, U)
      OBVIOUS
    <3>. HIDE DEF F
    <3>1. F(U)[U] = Stepped(step, base, e, F(U), U)
      BY <2>1 DEF IsLeftFold
    <3>2. CASE U = {}
      BY <3>1, <3>2 DEF Stepped
    <3>3. CASE U # {}
      <4>. DEFINE V == U \ {Max(U)}
      <4>1. V \in SUBSET U /\ V \in SUBSET T /\ V # T /\ V \in SUBSET S
        BY <3>3, MaxShape
      <4>3. IsLeftFold(step, base, e, F(U), U) /\ IsLeftFold(step, base, e, F(V), V)
        BY <2>1, <4>1
      <4>4. F(V)[V] = F(U)[V]
        <5>. DEFINE h == F(U)
                    k == F(V)
        <5>1. /\ IsLeftFold(step, base, e, h, U) /\ IsLeftFold(step, base, e, k, V)
              /\ V \in SUBSET (1 .. n) /\ V \subseteq U /\ V \in SUBSET V
          BY <4>1, <4>3
        <5>. HIDE DEF V, h, k, below, g, G, S
        <5>0. n \in Nat
          OBVIOUS
        <5>2. \A s \in SUBSET V : s \subseteq U => k[s] = h[s]
          <6>1. IsLeftFold(step, base, e, k, V) /\ IsLeftFold(step, base, e, h, U) /\ V \in SUBSET (1 .. n)
            BY <5>1
          <6>. QED  BY <5>0, <6>1, LeftFoldUnique
        <5>. QED  BY <5>1, <5>2 DEF h, k
      <4>5. below[V] = F(U)[V]
        BY <4>1, <4>4
      <4>. QED  BY <3>1, <3>3, <4>5 DEF Stepped
    <3>. QED  BY <3>2, <3>3
  <2>3. \A s \in SUBSET T : Stepped(step, base, e, below, s) = Stepped(step, base, e, g, s)
    <3>1. ASSUME NEW s \in SUBSET T, s # {} PROVE below[s \ {Max(s)}] = g[s \ {Max(s)}]
      <4>1. s \ {Max(s)} \in SUBSET T /\ s \ {Max(s)} # T
        BY <3>1, MaxShape
      <4>. QED  BY <2>2, <4>1
    <3>. HIDE DEF below, g
    <3>. QED  BY <3>1 DEF Stepped
  <2>4. IsLeftFold(step, base, e, g, T)
    BY <2>3 DEF IsLeftFold
  <2>. QED  BY <2>4
<1>2. IsFiniteSet(S)
  BY FS_Interval
<1>3. \A T \in SUBSET S : T \in G
  <2>. HIDE DEF G, S
  <2>. QED  BY <1>1, <1>2, SubsetInduction
<1>. QED  BY <1>3

\* With a step that stays in Y over elements of X, so does the fold.
LEMMA LeftFoldType ==
  ASSUME NEW X, NEW Y, NEW step \in [Y \X X -> Y], NEW base \in Y, NEW e \in Seq(X),
         NEW g, IsLeftFold(step, base, e, g, 1 .. Len(e))
  PROVE  \A s \in SUBSET (1 .. Len(e)) : g[s] \in Y
<1>. DEFINE n == Len(e)
            S == 1 .. n
            G == {s \in SUBSET S : g[s] \in Y}
<1>0. n \in Nat /\ \A i \in S : e[i] \in X
  OBVIOUS
<1>1. ASSUME NEW s \in SUBSET S, \A U \in SUBSET s : U # s => U \in G
      PROVE  s \in G
  <2>1. g[s] = Stepped(step, base, e, g, s)
    BY DEF IsLeftFold
  <2>2. CASE s = {}
    BY <2>1, <2>2 DEF Stepped
  <2>3. CASE s # {}
    <3>1. Max(s) \in s
      <4>. HIDE DEF n
      <4>. QED  BY <2>3, <1>0, MaxShape
    <3>2. s \ {Max(s)} \in G
      BY <3>1, <1>1
    <3>3. e[Max(s)] \in X
      BY <3>1, <1>0
    <3>. QED  BY <2>1, <3>2, <3>3, <2>3 DEF Stepped
  <2>. QED  BY <2>2, <2>3
<1>2. IsFiniteSet(S)
  BY FS_Interval
<1>3. \A s \in SUBSET S : s \in G
  <2>. HIDE DEF G, S
  <2>. QED  BY <1>1, <1>2, SubsetInduction
<1>. QED  BY <1>3

\* The values of a fold, element by element, when its step is a function.
\* A step over X, and a walk of Y along e with it.
IsStep(step, X, Y) == step \in [Y \X X -> Y]

IsWalk(step, base, e, h, Y) ==
  /\ h \in [0 .. Len(e) -> Y]
  /\ h[0] = base
  /\ \A i \in 0 .. Len(e) - 1 : h[i + 1] = step[<<h[i], e[i + 1]>>]

LEMMA LeftFoldWalk ==
  ASSUME NEW X, NEW Y, NEW step, IsStep(step, X, Y), NEW base \in Y, NEW e \in Seq(X),
         NEW g, IsLeftFold(step, base, e, g, 1 .. Len(e))
  PROVE  \E h : IsWalk(step, base, e, h, Y) /\ g[1 .. Len(e)] = h[Len(e)]
<1>. DEFINE n == Len(e)
            h == [i \in 0 .. n |-> g[1 .. i]]
<1>0. n \in Nat
  OBVIOUS
<1>1. \A s \in SUBSET (1 .. n) : g[s] \in Y /\ g[s] = Stepped(step, base, e, g, s)
  <2>1. \A s \in SUBSET (1 .. n) : g[s] \in Y
    BY LeftFoldType DEF IsStep
  <2>2. \A s \in SUBSET (1 .. n) : g[s] = Stepped(step, base, e, g, s)
    BY DEF IsLeftFold
  <2>. QED  BY <2>1, <2>2
<1>. HIDE DEF n
<1>2. h \in [0 .. n -> Y]
  BY <1>0, <1>1
<1>3. h[0] = base
  <2>1. 1 .. 0 = {} /\ {} \in SUBSET (1 .. n) /\ h[0] = g[1 .. 0]
    BY <1>0
  <2>. HIDE DEF h
  <2>. QED  BY <2>1, <1>1 DEF Stepped
<1>4. ASSUME NEW i \in 0 .. n - 1
      PROVE  h[i + 1] = step[<<h[i], e[i + 1]>>]
  <2>1. Max(1 .. (i + 1)) = i + 1 /\ (1 .. (i + 1)) \ {i + 1} = 1 .. i
    <3>1. i \in Nat
      BY <1>0
    <3>. QED  BY <3>1, MaxOfPrefix
  <2>2. 1 .. (i + 1) \in SUBSET (1 .. n) /\ i + 1 \in 1 .. (i + 1)
    BY <1>0
  <2>3. h[i + 1] = g[1 .. (i + 1)] /\ h[i] = g[1 .. i]
    BY <1>0
  <2>4. g[1 .. (i + 1)] = Stepped(step, base, e, g, 1 .. (i + 1))
    BY <2>2, <1>1
  <2>. HIDE DEF h
  <2>. QED  BY <2>1, <2>2, <2>3, <2>4 DEF Stepped
<1>5. g[1 .. n] = h[n]
  BY <1>0
<1>. HIDE DEF h
<1>. QED  BY <1>2, <1>3, <1>4, <1>5 DEF n, IsWalk

\* What FoldLeft chooses for the sum of a sequence.
SumFold(q) == CHOOSE g : g = [s \in SUBSET DOMAIN q |->
                                IF s = {} THEN 0 ELSE g[s \ {Max(s)}] + q[Max(s)]]

LEMMA SumFoldIs ==
  ASSUME NEW q
  PROVE  FoldLeft(+, 0, q) = SumFold(q)[DOMAIN q]
BY DEF FoldLeft, MapThenFoldSet, SumFold

\* A sum of a sequence, element by element.
LEMMA SequenceSum ==
  ASSUME NEW q \in Seq(Nat)
  PROVE  \E h \in [0 .. Len(q) -> Nat] :
           /\ h[0] = 0
           /\ \A i \in 0 .. Len(q) - 1 : h[i + 1] = h[i] + q[i + 1]
           /\ FoldLeft(+, 0, q) = h[Len(q)]
<1>. DEFINE step == [p \in Nat \X Nat |-> p[1] + p[2]]
            S == SUBSET (1 .. Len(q))
            Op(g) == g = [s \in S |-> IF s = {} THEN 0 ELSE g[s \ {Max(s)}] + q[Max(s)]]
<1>0. Len(q) \in Nat /\ DOMAIN q = 1 .. Len(q) /\ \A i \in 1 .. Len(q) : q[i] \in Nat
  OBVIOUS
<1>1. step \in [Nat \X Nat -> Nat] /\ \A a, b \in Nat : step[<<a, b>>] = a + b
  OBVIOUS
<1>. HIDE DEF step
<1>2. \A s \in S : s # {} => Max(s) \in s /\ s \ {Max(s)} \in S /\ q[Max(s)] \in Nat
  BY <1>0, MaxShape
<1>3. PICK f : IsLeftFold(step, 0, q, f, 1 .. Len(q))
  BY <1>0, LeftFoldExists
<1>4. \A s \in S : f[s] \in Nat
  <2>1. 0 \in Nat
    OBVIOUS
  <2>. QED  BY <1>1, <1>3, <2>1, LeftFoldType
<1>5. Op(f)
  <2>1. ASSUME NEW s \in S
        PROVE  Stepped(step, 0, q, f, s) = IF s = {} THEN 0 ELSE f[s \ {Max(s)}] + q[Max(s)]
    BY <1>1, <1>2, <1>4 DEF Stepped
  <2>. QED  BY <2>1, <1>3 DEF IsLeftFold
<1>6. Op(SumFold(q))
  <2>1. SumFold(q) = CHOOSE g : Op(g)
    BY <1>0 DEF SumFold
  <2>. HIDE DEF Op
  <2>. QED  BY <2>1, <1>5
<1>. DEFINE g == SumFold(q)
            G == {s \in S : g[s] \in Nat}
<1>7. \A s \in S : s \in G
  <2>1. ASSUME NEW s \in S, \A U \in SUBSET s : U # s => U \in G
        PROVE  s \in G
    <3>1. g[s] = IF s = {} THEN 0 ELSE g[s \ {Max(s)}] + q[Max(s)]
      BY <1>6
    <3>2. CASE s = {}
      BY <3>1, <3>2
    <3>3. CASE s # {}
      <4>1. s \ {Max(s)} \in G
        BY <3>3, <1>2, <2>1
      <4>2. g[s \ {Max(s)}] \in Nat /\ q[Max(s)] \in Nat
        BY <3>3, <4>1, <1>2
      <4>3. g[s] = g[s \ {Max(s)}] + q[Max(s)]
        BY <3>1, <3>3
      <4>. QED  BY <4>2, <4>3
    <3>. QED  BY <3>2, <3>3
  <2>2. IsFiniteSet(1 .. Len(q))
    BY <1>0, FS_Interval
  <2>. HIDE DEF G
  <2>. QED  BY <2>1, <2>2, SubsetInduction
<1>8. IsLeftFold(step, 0, q, g, 1 .. Len(q))
  <2>1. ASSUME NEW s \in S
        PROVE  Stepped(step, 0, q, g, s) = IF s = {} THEN 0 ELSE g[s \ {Max(s)}] + q[Max(s)]
    BY <1>1, <1>2, <1>7 DEF Stepped
  <2>. QED  BY <2>1, <1>6 DEF IsLeftFold
<1>9. PICK h : IsWalk(step, 0, q, h, Nat) /\ g[1 .. Len(q)] = h[Len(q)]
  <2>. DEFINE zero == 0
              Y == Nat
  <2>1. /\ zero \in Y /\ IsStep(step, Y, Y) /\ q \in Seq(Y)
        /\ IsLeftFold(step, zero, q, g, 1 .. Len(q))
    BY <1>1, <1>8 DEF IsStep
  <2>. HIDE DEF g, zero, Y
  <2>2. \E h : IsWalk(step, zero, q, h, Y) /\ g[1 .. Len(q)] = h[Len(q)]
    BY <2>1, LeftFoldWalk
  <2>. QED  BY <2>2 DEF zero, Y
<1>10. \A i \in 0 .. Len(q) - 1 : h[i + 1] = h[i] + q[i + 1]
  <2>. TAKE i \in 0 .. Len(q) - 1
  <2>1. h[i] \in Nat /\ q[i + 1] \in Nat
    BY <1>0, <1>9 DEF IsWalk
  <2>. QED  BY <1>9, <1>1, <2>1 DEF IsWalk
<1>11. FoldLeft(+, 0, q) = h[Len(q)]
  BY <1>0, <1>9, SumFoldIs
<1>. QED  BY <1>9, <1>10, <1>11 DEF IsWalk

\* One more element.
LEMMA SumAppend ==
  ASSUME NEW q \in Seq(Nat), NEW x \in Nat
  PROVE  /\ FoldLeft(+, 0, q) \in Nat
         /\ FoldLeft(+, 0, Append(q, x)) = FoldLeft(+, 0, q) + x
<1>. DEFINE n == Len(q)
            p == Append(q, x)
<1>0. n \in Nat /\ p \in Seq(Nat) /\ Len(p) = n + 1 /\ p[n + 1] = x /\ \A i \in 1 .. n : p[i] = q[i]
  OBVIOUS
<1>1. PICK h \in [0 .. n -> Nat] :
        /\ h[0] = 0
        /\ \A i \in 0 .. n - 1 : h[i + 1] = h[i] + q[i + 1]
        /\ FoldLeft(+, 0, q) = h[n]
  BY SequenceSum
<1>. HIDE DEF p
<1>2. PICK k \in [0 .. n + 1 -> Nat] :
        /\ k[0] = 0
        /\ \A i \in 0 .. n : k[i + 1] = k[i] + p[i + 1]
        /\ FoldLeft(+, 0, p) = k[n + 1]
  <2>1. (n + 1) - 1 = n
    BY <1>0
  <2>. HIDE DEF n
  <2>. QED  BY <1>0, <2>1, SequenceSum
<1>. HIDE DEF n
<1>3. \A i \in 0 .. n : h[i] = k[i]
  <2>. DEFINE G == {i \in 0 .. n : h[i] = k[i]}
  <2>1. 0 \in G
    <3>1. 0 \in 0 .. n
      BY <1>0
    <3>2. h[0] = k[0]
      BY <1>1, <1>2
    <3>. QED  BY <3>1, <3>2
  <2>2. ASSUME NEW i \in 0 .. n - 1, i \in G
        PROVE  i + 1 \in G
    <3>1. i + 1 \in 1 .. n /\ i + 1 \in 0 .. n /\ i \in 0 .. n
      BY <1>0
    <3>2. h[i + 1] = h[i] + q[i + 1] /\ k[i + 1] = k[i] + p[i + 1] /\ p[i + 1] = q[i + 1]
      BY <1>0, <1>1, <1>2, <3>1
    <3>. QED  BY <2>2, <3>1, <3>2
  <2>3. \A i \in 0 .. n : i \in G
    <3>. HIDE DEF G
    <3>. QED  BY <1>0, <2>1, <2>2, CountingUp
  <2>. QED  BY <2>3
<1>4. k[n + 1] = k[n] + x /\ h[n] = k[n] /\ h[n] \in Nat
  <2>1. n \in 0 .. n /\ (n + 1) - 1 = n
    BY <1>0
  <2>. QED  BY <1>0, <1>2, <1>3, <2>1
<1>. QED  BY <1>1, <1>2, <1>4 DEF p

LEMMA SumOfNothing == FoldLeft(+, 0, <<>>) = 0
<1>1. <<>> \in Seq(Nat) /\ Len(<<>>) = 0
  OBVIOUS
<1>2. PICK h \in [0 .. 0 -> Nat] : h[0] = 0 /\ FoldLeft(+, 0, <<>>) = h[0]
  BY <1>1, SequenceSum
<1>. QED  BY <1>2
-----------------------------------------------------------------------------
DayType == [covered : BOOLEAN, evaluable : BOOLEAN]

\* What FoldLeft chooses for Evaluable.
Selecting(q) == CHOOSE g : g = [s \in SUBSET DOMAIN q |->
  IF s = {} THEN <<>> ELSE IF q[Max(s)].evaluable THEN Append(g[s \ {Max(s)}], q[Max(s)])
                           ELSE g[s \ {Max(s)}]]

LEMMA EvaluableIs == Evaluable = Selecting(days)[DOMAIN days]
BY DEF Evaluable, FoldLeft, MapThenFoldSet, Selecting

\* The days the report looks at are days.
LEMMA EvaluableType ==
  ASSUME days \in Seq(DayType)
  PROVE  Evaluable \in Seq(DayType)
<1>. DEFINE q == days
            n == Len(q)
            Y == Seq(DayType)
            step == [p \in Y \X DayType |-> IF p[2].evaluable THEN Append(p[1], p[2]) ELSE p[1]]
            S == SUBSET (1 .. n)
            After(g, s) == IF q[Max(s)].evaluable THEN Append(g[s \ {Max(s)}], q[Max(s)])
                           ELSE g[s \ {Max(s)}]
            Op(g) == g = [s \in S |-> IF s = {} THEN <<>> ELSE After(g, s)]
            g == Selecting(q)
            G == {s \in S : g[s] \in Y}
<1>0. n \in Nat /\ DOMAIN q = 1 .. n /\ \A i \in 1 .. n : q[i] \in DayType
  OBVIOUS
<1>1. /\ step \in [Y \X DayType -> Y]
      /\ \A a \in Y, d \in DayType :
           step[<<a, d>>] = IF d.evaluable THEN Append(a, d) ELSE a
  <2>1. \A a \in Y, d \in DayType : Append(a, d) \in Y
    OBVIOUS
  <2>. HIDE DEF Y
  <2>. QED  BY <2>1
<1>2. <<>> \in Y
  OBVIOUS
<1>. HIDE DEF step, n, Y
<1>3. \A s \in S : s # {} => Max(s) \in s /\ s \ {Max(s)} \in S /\ q[Max(s)] \in DayType
  BY <1>0, MaxShape
<1>4. PICK f : IsLeftFold(step, <<>>, q, f, 1 .. n)
  BY <1>0, LeftFoldExists
<1>5. \A s \in S : f[s] \in Y
  BY <1>1, <1>2, <1>4, LeftFoldType DEF n
<1>6. Op(f)
  <2>1. ASSUME NEW s \in S
        PROVE  Stepped(step, <<>>, q, f, s) = IF s = {} THEN <<>> ELSE After(f, s)
    BY <1>1, <1>3, <1>5 DEF Stepped
  <2>. QED  BY <2>1, <1>4 DEF IsLeftFold
<1>7. Op(g)
  <2>1. g = CHOOSE k : Op(k)
    BY <1>0 DEF Selecting
  <2>. HIDE DEF Op, g
  <2>. QED  BY <2>1, <1>6
<1>. HIDE DEF g
<1>8. \A s \in S : s \in G
  <2>1. ASSUME NEW s \in S, \A U \in SUBSET s : U # s => U \in G
        PROVE  s \in G
    <3>1. g[s] = IF s = {} THEN <<>> ELSE After(g, s)
      BY <1>7
    <3>2. CASE s = {}
      BY <3>1, <3>2, <1>2
    <3>3. CASE s # {}
      <4>1. s \ {Max(s)} \in G
        BY <3>3, <1>3, <2>1
      <4>2. g[s \ {Max(s)}] \in Y /\ q[Max(s)] \in DayType
        BY <3>3, <4>1, <1>3
      <4>3. Append(g[s \ {Max(s)}], q[Max(s)]) \in Y
        BY <4>2 DEF Y
      <4>. QED  BY <3>1, <3>3, <4>2, <4>3
    <3>. QED  BY <3>2, <3>3
  <2>2. IsFiniteSet(1 .. n)
    BY <1>0, FS_Interval
  <2>. HIDE DEF G
  <2>. QED  BY <2>1, <2>2, SubsetInduction
<1>. QED  BY <1>0, <1>8, EvaluableIs DEF g, Y
-----------------------------------------------------------------------------
\* CoveredStreaks, its loop and what FoldLeft chooses for it.
KeptRuns(acc) == IF acc.streak > 0 THEN Append(acc.runs, acc.streak) ELSE acc.runs
StreakDay(acc, d) == IF d.covered THEN [acc EXCEPT !.streak = @ + 1]
                     ELSE [streak |-> 0, runs |-> KeptRuns(acc)]
NoStreak == [streak |-> 0, runs |-> <<>>]
StreakType == [streak : Nat, runs : Seq(Nat)]

Counting(q) == CHOOSE g : g = [s \in SUBSET DOMAIN q |->
  IF s = {} THEN NoStreak ELSE StreakDay(g[s \ {Max(s)}], q[Max(s)])]

LEMMA CoveredStreaksAre == CoveredStreaks = KeptRuns(Counting(Evaluable)[DOMAIN Evaluable])
BY DEF CoveredStreaks, FoldLeft, MapThenFoldSet, Counting, KeptRuns, StreakDay, NoStreak

LEMMA StreakDayType ==
  /\ NoStreak \in StreakType
  /\ \A a \in StreakType, d \in DayType :
       /\ KeptRuns(a) \in Seq(Nat)
       /\ StreakDay(a, d) \in StreakType
       /\ d.covered => StreakDay(a, d).streak = a.streak + 1 /\ StreakDay(a, d).runs = a.runs
       /\ ~d.covered => StreakDay(a, d).streak = 0 /\ StreakDay(a, d).runs = KeptRuns(a)
<1>1. \A a \in StreakType : KeptRuns(a) \in Seq(Nat)
  BY DEF StreakType, KeptRuns
<1>. QED  BY <1>1 DEF NoStreak, StreakType, StreakDay, DayType

\* The fold of the report, a day after the other.
LEMMA StreakWalk ==
  ASSUME NEW q \in Seq(DayType)
  PROVE  \E h \in [0 .. Len(q) -> StreakType] :
           /\ h[0] = NoStreak
           /\ \A i \in 0 .. Len(q) - 1 : h[i + 1] = StreakDay(h[i], q[i + 1])
           /\ Counting(q)[DOMAIN q] = h[Len(q)]
<1>. DEFINE n == Len(q)
            Y == StreakType
            step == [p \in Y \X DayType |-> StreakDay(p[1], p[2])]
            S == SUBSET (1 .. n)
            Op(g) == g = [s \in S |-> IF s = {} THEN NoStreak
                                      ELSE StreakDay(g[s \ {Max(s)}], q[Max(s)])]
            g == Counting(q)
            G == {s \in S : g[s] \in Y}
<1>0. n \in Nat /\ DOMAIN q = 1 .. n /\ \A i \in 1 .. n : q[i] \in DayType
  OBVIOUS
<1>1. /\ step \in [Y \X DayType -> Y]
      /\ \A a \in Y, d \in DayType : step[<<a, d>>] = StreakDay(a, d)
  BY StreakDayType
<1>2. NoStreak \in Y
  BY StreakDayType
<1>. HIDE DEF step, n, Y
<1>3. \A s \in S : s # {} => Max(s) \in s /\ s \ {Max(s)} \in S /\ q[Max(s)] \in DayType
  BY <1>0, MaxShape
<1>4. PICK f : IsLeftFold(step, NoStreak, q, f, 1 .. n)
  BY <1>0, LeftFoldExists
<1>5. \A s \in S : f[s] \in Y
  BY <1>1, <1>2, <1>4, LeftFoldType DEF n
<1>6. Op(f)
  <2>1. ASSUME NEW s \in S
        PROVE  Stepped(step, NoStreak, q, f, s) =
                 IF s = {} THEN NoStreak ELSE StreakDay(f[s \ {Max(s)}], q[Max(s)])
    BY <1>1, <1>3, <1>5 DEF Stepped
  <2>. QED  BY <2>1, <1>4 DEF IsLeftFold
<1>7. Op(g)
  <2>1. g = CHOOSE k : Op(k)
    BY <1>0 DEF Counting
  <2>. HIDE DEF Op, g
  <2>. QED  BY <2>1, <1>6
<1>. HIDE DEF g
<1>8. \A s \in S : s \in G
  <2>1. ASSUME NEW s \in S, \A U \in SUBSET s : U # s => U \in G
        PROVE  s \in G
    <3>1. g[s] = IF s = {} THEN NoStreak ELSE StreakDay(g[s \ {Max(s)}], q[Max(s)])
      BY <1>7
    <3>2. CASE s = {}
      BY <3>1, <3>2, <1>2
    <3>3. CASE s # {}
      <4>1. s \ {Max(s)} \in G
        BY <3>3, <1>3, <2>1
      <4>2. StreakDay(g[s \ {Max(s)}], q[Max(s)]) \in Y
        BY <3>3, <4>1, <1>3, StreakDayType DEF Y
      <4>. QED  BY <3>1, <3>3, <4>2
    <3>. QED  BY <3>2, <3>3
  <2>2. IsFiniteSet(1 .. n)
    BY <1>0, FS_Interval
  <2>. HIDE DEF G
  <2>. QED  BY <2>1, <2>2, SubsetInduction
<1>9. IsLeftFold(step, NoStreak, q, g, 1 .. n)
  <2>1. ASSUME NEW s \in S
        PROVE  Stepped(step, NoStreak, q, g, s) =
                 IF s = {} THEN NoStreak ELSE StreakDay(g[s \ {Max(s)}], q[Max(s)])
    BY <1>1, <1>3, <1>8 DEF Stepped
  <2>. QED  BY <2>1, <1>7 DEF IsLeftFold
<1>10. PICK h : IsWalk(step, NoStreak, q, h, Y) /\ g[1 .. n] = h[n]
  <2>1. IsStep(step, DayType, Y)
    BY <1>1 DEF IsStep
  <2>. QED  BY <1>2, <1>9, <2>1, LeftFoldWalk DEF n
<1>11. \A i \in 0 .. n - 1 : h[i + 1] = StreakDay(h[i], q[i + 1])
  <2>. TAKE i \in 0 .. n - 1
  <2>1. h[i] \in Y /\ q[i + 1] \in DayType
    BY <1>0, <1>10 DEF IsWalk, n
  <2>. QED  BY <1>10, <1>1, <2>1 DEF IsWalk, n
<1>. QED  BY <1>0, <1>10, <1>11 DEF IsWalk, n, Y, g
-----------------------------------------------------------------------------
\* The runs of the covered days C up to m, where one may not be cut.
Match(C, runs, m) ==
  /\ Len(runs) = Cardinality({j \in C : j <= m /\ j + 1 \notin C})
  /\ FoldLeft(+, 0, runs) = Cardinality({j \in C : j <= m})
  /\ \A a, b \in C : a <= b /\ b <= m /\ a .. b \subseteq C =>
       \E k \in DOMAIN runs : runs[k] >= b - a + 1

\* The loop after i days: the streak is the covered days since the last one that
\* is not, and the runs are those before it.
Tracks(C, acc, i) ==
  /\ acc \in StreakType /\ acc.streak <= i
  /\ i - acc.streak \notin C
  /\ \A j \in i - acc.streak + 1 .. i : j \in C
  /\ Match(C, acc.runs, i - acc.streak)

LEMMA KeptMatches ==
  ASSUME NEW n \in Nat, NEW C \in SUBSET (1 .. n), NEW i \in 0 .. n, NEW acc,
         Tracks(C, acc, i), i + 1 \notin C
  PROVE  Match(C, KeptRuns(acc), i)
<1>. DEFINE runs == acc.runs
            streak == acc.streak
            m == i - streak
            Ends(k) == {j \in C : j <= k /\ j + 1 \notin C}
            UpTo(k) == {j \in C : j <= k}
<1>0. /\ runs \in Seq(Nat) /\ streak \in Nat /\ streak <= i /\ i \in Nat /\ m \in 0 .. i
      /\ m \notin C /\ (\A j \in m + 1 .. i : j \in C) /\ Match(C, runs, m)
      /\ KeptRuns(acc) = IF streak > 0 THEN Append(runs, streak) ELSE runs
  BY DEF Tracks, StreakType, KeptRuns
<1>. HIDE DEF runs, streak
<1>1. CASE streak = 0
  BY <1>0, <1>1
<1>2. CASE streak > 0
  <2>. DEFINE p == Append(runs, streak)
  <2>0. KeptRuns(acc) = p /\ m < i /\ i \in C
    BY <1>0, <1>2
  <2>1. Len(p) = Len(runs) + 1 /\ p[Len(runs) + 1] = streak /\ \A k \in 1 .. Len(runs) : p[k] = runs[k]
    BY <1>0
  <2>2. FoldLeft(+, 0, p) = FoldLeft(+, 0, runs) + streak
    BY <1>0, SumAppend
  <2>3. IsFiniteSet(1 .. n)
    BY FS_Interval
  <2>4. IsFiniteSet(C) /\ \A D \in SUBSET C : IsFiniteSet(D) /\ Cardinality(D) \in Nat
    BY <2>3, FS_Subset, FS_CardinalityType
  <2>. HIDE DEF p, m
  <2>5. Cardinality(Ends(i)) = Cardinality(Ends(m)) + 1
    <3>1. Ends(i) = Ends(m) \cup {i}
      <4>1. ASSUME NEW j \in C, j <= i, j + 1 \notin C PROVE j <= m \/ j = i
        BY <1>0, <4>1
      <4>2. \A j \in Ends(m) : j <= i
        BY <1>0
      <4>3. Ends(i) \subseteq Ends(m) \cup {i}
        BY <4>1
      <4>4. Ends(m) \subseteq Ends(i)
        BY <4>2
      <4>5. i \in Ends(i)
        BY <2>0, <1>0
      <4>. QED  BY <4>3, <4>4, <4>5
    <3>2. i \notin Ends(m) /\ Ends(m) \in SUBSET C
      BY <2>0, <1>0
    <3>. HIDE DEF Ends
    <3>. QED  BY <3>1, <3>2, <2>4, FS_AddElement
  <2>6. Cardinality(UpTo(i)) = Cardinality(UpTo(m)) + streak
    <3>1. UpTo(i) = UpTo(m) \cup (m + 1 .. i)
      <4>1. \A j \in C : j <= i <=> j <= m \/ j \in m + 1 .. i
        BY <1>0
      <4>2. m + 1 .. i \subseteq C
        BY <1>0
      <4>. QED  BY <4>1, <4>2
    <3>2. UpTo(m) \cap (m + 1 .. i) = {} /\ UpTo(m) \in SUBSET C /\ (m + 1 .. i) \in SUBSET C
      BY <1>0
    <3>3. Cardinality(m + 1 .. i) = streak
      <4>1. m + 1 \in Int /\ i \in Int /\ m + 1 <= i /\ i - (m + 1) + 1 = streak
        BY <1>0, <2>0 DEF m
      <4>. QED  BY <4>1, FS_Interval
    <3>4. IsFiniteSet(UpTo(m)) /\ IsFiniteSet(m + 1 .. i)
      BY <3>2, <2>4
    <3>5. Cardinality(UpTo(m) \cap (m + 1 .. i)) = 0
      BY <3>2, FS_EmptySet
    <3>6. Cardinality(UpTo(m)) \in Nat
      BY <3>2, <2>4
    <3>. HIDE DEF UpTo
    <3>7. Cardinality(UpTo(m) \cup (m + 1 .. i))
            = Cardinality(UpTo(m)) + Cardinality(m + 1 .. i) - Cardinality(UpTo(m) \cap (m + 1 .. i))
      BY <3>4, FS_Union
    <3>. QED  BY <3>1, <3>3, <3>5, <3>6, <3>7, <1>0
  <2>7. ASSUME NEW a \in C, NEW b \in C, a <= b, b <= i, \A j \in a .. b : j \in C
        PROVE  \E k \in DOMAIN p : p[k] >= b - a + 1
    <3>0. a \in Nat \ {0} /\ b \in Nat
      OBVIOUS
    <3>1. CASE b <= m
      <4>1. PICK k \in DOMAIN runs : runs[k] >= b - a + 1
        BY <1>0, <2>7, <3>1 DEF Match
      <4>2. k \in DOMAIN p /\ p[k] = runs[k]
        BY <2>1, <1>0 DEF p
      <4>. QED  BY <4>1, <4>2
    <3>2. CASE m < b
      <4>1. a > m
        <5>1. m \notin a .. b
          BY <2>7, <1>0
        <5>. QED  BY <5>1, <3>0, <3>2, <1>0
      <4>2. streak >= b - a + 1
        BY <4>1, <3>0, <1>0, <2>7 DEF m
      <4>3. Len(runs) + 1 \in DOMAIN p
        BY <2>1, <1>0 DEF p
      <4>. QED  BY <4>2, <4>3, <2>1
    <3>. QED  BY <3>1, <3>2, <3>0, <1>0
  <2>8. Len(runs) = Cardinality(Ends(m)) /\ FoldLeft(+, 0, runs) = Cardinality(UpTo(m))
    BY <1>0 DEF Match
  <2>. QED
    <3>1. Len(p) = Cardinality(Ends(i)) /\ FoldLeft(+, 0, p) = Cardinality(UpTo(i))
      BY <2>1, <2>2, <2>5, <2>6, <2>8
    <3>2. \A a, b \in C : a <= b /\ b <= i /\ a .. b \subseteq C =>
            \E k \in DOMAIN p : p[k] >= b - a + 1
      BY <2>7
    <3>. QED  BY <2>0, <3>1, <3>2 DEF Match
<1>. QED  BY <1>0, <1>1, <1>2

\* A day more.
LEMMA StreakStep ==
  ASSUME NEW q \in Seq(DayType), NEW C, C = {j \in DOMAIN q : q[j].covered},
         NEW i \in 0 .. Len(q) - 1, NEW acc, Tracks(C, acc, i)
  PROVE  Tracks(C, StreakDay(acc, q[i + 1]), i + 1)
<1>. DEFINE n == Len(q)
            next == StreakDay(acc, q[i + 1])
<1>0. n \in Nat /\ C \in SUBSET (1 .. n) /\ i + 1 \in 1 .. n /\ i \in 0 .. n /\ i \in Nat
  OBVIOUS
<1>1. q[i + 1] \in DayType /\ (q[i + 1].covered <=> i + 1 \in C) /\ acc \in StreakType
  BY <1>0 DEF Tracks
<1>2. next \in StreakType
  BY <1>1, StreakDayType
<1>3. acc.streak \in Nat /\ acc.streak <= i /\ i - acc.streak \notin C
      /\ (\A j \in i - acc.streak + 1 .. i : j \in C) /\ Match(C, acc.runs, i - acc.streak)
  BY <1>1 DEF Tracks, StreakType
<1>4. CASE i + 1 \in C
  <2>1. next.streak = acc.streak + 1 /\ next.runs = acc.runs
    BY <1>1, <1>4, StreakDayType
  <2>2. (i + 1) - next.streak = i - acc.streak /\ next.streak <= i + 1
    BY <2>1, <1>3, <1>0
  <2>3. \A j \in (i - acc.streak) + 1 .. i + 1 : j \in C
    BY <1>3, <1>4, <1>0
  <2>. HIDE DEF next
  <2>4. Match(C, next.runs, (i + 1) - next.streak) /\ (i + 1) - next.streak \notin C
    BY <1>3, <2>1, <2>2
  <2>5. \A j \in (i + 1) - next.streak + 1 .. i + 1 : j \in C
    BY <2>2, <2>3
  <2>6. Tracks(C, next, i + 1)
    BY <1>2, <2>2, <2>4, <2>5 DEF Tracks
  <2>. QED  BY <2>6 DEF next
<1>5. CASE i + 1 \notin C
  <2>1. next.streak = 0 /\ next.runs = KeptRuns(acc)
    BY <1>1, <1>5, StreakDayType
  <2>2. Match(C, KeptRuns(acc), i)
    BY <1>0, <1>5, KeptMatches
  <2>3. \A j \in C : j <= i <=> j <= i + 1
    BY <1>0, <1>5
  <2>4. /\ {j \in C : j <= i /\ j + 1 \notin C} = {j \in C : j <= i + 1 /\ j + 1 \notin C}
        /\ {j \in C : j <= i} = {j \in C : j <= i + 1}
    BY <2>3
  <2>5. Match(C, KeptRuns(acc), i + 1)
    BY <2>2, <2>3, <2>4 DEF Match
  <2>6. (i + 1) - next.streak = i + 1 /\ next.streak <= i + 1
    BY <2>1, <1>0
  <2>7. \A j \in (i + 1) + 1 .. i + 1 : j \in C
    BY <1>0
  <2>. HIDE DEF next
  <2>8. Match(C, next.runs, (i + 1) - next.streak) /\ (i + 1) - next.streak \notin C
    BY <1>5, <2>1, <2>5, <2>6
  <2>9. \A j \in (i + 1) - next.streak + 1 .. i + 1 : j \in C
    BY <2>6, <2>7
  <2>10. Tracks(C, next, i + 1)
    BY <1>2, <2>6, <2>8, <2>9 DEF Tracks
  <2>. QED  BY <2>10 DEF next
<1>. QED  BY <1>4, <1>5

\* The report's streaks, of any timeline.
LEMMA StreaksMatch ==
  ASSUME days \in Seq(DayType)
  PROVE  StreaksMatchDays
<1>. DEFINE q == Evaluable
            n == Len(q)
            C == {j \in DOMAIN q : q[j].covered}
<1>0. q \in Seq(DayType)
  BY EvaluableType
<1>1. PICK h \in [0 .. n -> StreakType] :
        /\ h[0] = NoStreak
        /\ \A i \in 0 .. n - 1 : h[i + 1] = StreakDay(h[i], q[i + 1])
        /\ Counting(q)[DOMAIN q] = h[n]
  <2>. HIDE DEF q
  <2>. QED  BY <1>0, StreakWalk
<1>2. n \in Nat /\ DOMAIN q = 1 .. n /\ C \in SUBSET (1 .. n)
  BY <1>0
<1>3. Tracks(C, h[0], 0)
  <2>1. NoStreak.streak = 0 /\ NoStreak.runs = <<>> /\ NoStreak \in StreakType
    BY StreakDayType DEF NoStreak
  <2>2. {j \in C : j <= 0 /\ j + 1 \notin C} = {} /\ {j \in C : j <= 0} = {}
    BY <1>2
  <2>3. Match(C, <<>>, 0)
    BY <1>2, <2>2, FS_EmptySet, SumOfNothing DEF Match
  <2>. QED  BY <1>1, <1>2, <2>1, <2>3 DEF Tracks
<1>. HIDE DEF q, n
<1>4. \A i \in 0 .. n : Tracks(C, h[i], i)
  <2>. DEFINE G == {i \in 0 .. n : Tracks(C, h[i], i)}
  <2>1. 0 \in G
    BY <1>2, <1>3
  <2>2. ASSUME NEW i \in 0 .. n - 1, i \in G
        PROVE  i + 1 \in G
    <3>1. Tracks(C, StreakDay(h[i], q[i + 1]), i + 1)
      <4>. HIDE DEF C
      <4>1. C = {j \in DOMAIN q : q[j].covered}
        BY DEF C
      <4>2. i \in 0 .. Len(q) - 1 /\ Tracks(C, h[i], i)
        BY <2>2 DEF n
      <4>. QED  BY <1>0, <4>1, <4>2, StreakStep
    <3>2. i + 1 \in 0 .. n
      BY <1>2
    <3>. QED  BY <3>1, <3>2, <1>1
  <2>3. \A i \in 0 .. n : i \in G
    <3>. HIDE DEF G
    <3>. QED  BY <1>2, <2>1, <2>2, CountingUp
  <2>. QED  BY <2>3
<1>5. Match(C, CoveredStreaks, n)
  <2>1. CoveredStreaks = KeptRuns(h[n])
    BY <1>1, CoveredStreaksAre DEF q
  <2>2. Tracks(C, h[n], n) /\ n \in 0 .. n /\ n + 1 \notin C
    BY <1>2, <1>4
  <2>. HIDE DEF C
  <2>. QED  BY <1>2, <2>1, <2>2, KeptMatches
<1>6. \A j \in C : j <= n
  BY <1>2
<1>7. {j \in C : j <= n /\ j + 1 \notin C} = {j \in C : j + 1 \notin C} /\ {j \in C : j <= n} = C
  BY <1>6
<1>8. \A a, b \in C : a <= b /\ a .. b \subseteq C =>
        \E k \in Range(CoveredStreaks) : k >= b - a + 1
  BY <1>5, <1>6 DEF Match, Range
<1>. HIDE DEF C
<1>9. \A i \in {p \in C \X C : p[1] <= p[2] /\ p[1] .. p[2] \subseteq C} :
        \E k \in Range(CoveredStreaks) : k >= i[2] - i[1] + 1
  BY <1>8
<1>10. /\ Len(CoveredStreaks) = Cardinality({i \in C : i + 1 \notin C})
       /\ FoldLeft(+, 0, CoveredStreaks) = Cardinality(C)
  BY <1>5, <1>7 DEF Match
<1>. QED  BY <1>9, <1>10 DEF StreaksMatchDays, C, q

\* The log of the days is a sequence of records of the two facts of a day.
LEMMA DaysStep ==
  ASSUME days \in Seq(DayType), [Next]_vars
  PROVE  days' \in Seq(DayType)
<1>1. CASE NextDay
  <2>1. PICK bars : Throw(bars) \/ Replay(bars)
    BY <1>1 DEF NextDay
  <2>2. CASE Throw(bars)
    BY <2>2 DEF Throw
  <2>3. CASE Replay(bars)
    <3>1. PICK c \in BOOLEAN, e \in BOOLEAN : days' = Append(days, [covered |-> c, evaluable |-> e])
      BY <2>3 DEF Replay
    <3> QED BY <3>1 DEF DayType
  <2> QED BY <2>1, <2>2, <2>3
<1>2. CASE Finish
  BY <1>2 DEF Finish
<1>3. CASE UNCHANGED vars
  BY <1>3 DEF vars
<1> QED BY <1>1, <1>2, <1>3 DEF Next
-----------------------------------------------------------------------------
(* The theorems.                                                             *)

\* The types, the fit of the queue and what follows hold on every day.
THEOREM InductiveHolds == Spec => []Inductive
<1>1. Init => Inductive
  BY InitInductive
<1>2. Inductive /\ [Next]_vars => Inductive'
  BY StepInductive
<1> QED BY <1>1, <1>2, PTL DEF Spec

\* The throw of closeLotsFifo is unreachable: an exit is sized to the whole
\* position after the day's fills and meets the same lots at the next open.
THEOREM ExitsNeverSplit == Spec => []ExitNeverSplits
<1>1. Inductive => ExitNeverSplits
  BY DEF Inductive
<1> QED BY <1>1, InductiveHolds, PTL

\* The totals of the report add up, whatever is approved and wherever bars
\* are missing.
THEOREM SignalsAddUp == Spec => []SignalsAccounted
<1>1. Inductive => SignalsAccounted
  BY DEF Inductive
<1> QED BY <1>1, InductiveHolds, PTL

\* No time stop closes a position before one of its lots has seen
\* MAX_HOLDING_DAYS bars that traded.
THEOREM TimeStopsWait == Spec => []TimeStopWaits
<1>1. Inductive => TimeStopWaits
  BY DEF Inductive
<1> QED BY <1>1, InductiveHolds, PTL

\* The streaks the report publishes are the maximal runs of its covered days:
\* as many as there are ends of one, as long together as there are covered
\* days, and none of those runs longer than the longest streak.
THEOREM StreaksAreRuns == Spec => []StreaksMatchDays
<1>1. Init => days \in Seq(DayType)
  BY DEF Init
<1>2. days \in Seq(DayType) /\ [Next]_vars => (days \in Seq(DayType))'
  BY DaysStep
<1>3. days \in Seq(DayType) => StreaksMatchDays
  BY StreaksMatch
<1> QED BY <1>1, <1>2, <1>3, PTL DEF Spec
=============================================================================
