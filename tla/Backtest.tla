------------------------------ MODULE Backtest ------------------------------
(***************************************************************************)
(* The backtest: the strategy and the risk gate of the pipeline replayed   *)
(* over daily bars, a day of the timeline at a time, and the report        *)
(* derived from it.  A replay is one synchronous loop, so a day is one     *)
(* step.  What a bar makes the rules say is chosen with the bar.           *)
(***************************************************************************)
EXTENDS RiskGate, FiniteSets, SequencesExt

CONSTANTS
  Bars,             \* [Symbols -> its bars], [rule, size]: what the rules say of it, and
                    \* the shares an order buys at its close
  Absent, Interpolated,   \* no bar of a symbol that day, and one that never traded
  EntryRules, ExitRules,
  Warmup, MaxHoldingDays,
  MaxDays           \* the length of the timeline

ASSUME BacktestAssumption ==
  /\ \A s \in Symbols :
       /\ Bars[s] \subseteq [rule : EntryRules \cup ExitRules \cup {"none"}, size : Nat]
       /\ Absent \notin Bars[s] /\ Interpolated \notin Bars[s]
  /\ Absent # Interpolated
  /\ EntryRules \cap ExitRules = {}
  /\ {"none", "max_holding_period"} \cap (EntryRules \cup ExitRules) = {}
  /\ Warmup \in Nat /\ MaxHoldingDays \in Nat /\ MaxDays \in Nat

VARIABLES
  pc,         \* "running", "thrown" or "done"
  day,        \* index into the timeline
  last,       \* [Symbols -> the last bar that traded]
  traded,     \* [Symbols -> the days with such a bar]
  given,      \* [Symbols -> how many bars there are so far, interpolated ones too]
  lots,       \* open lots
  queued,     \* approved candidates, to fill on the next day
  trades,     \* closed lots
  proposed, unfilled, expired,   \* counters
  days        \* of each day: [covered, evaluable]

vars == <<pc, day, last, traded, given, lots, queued, trades, proposed, unfilled, expired, days>>

NoBar == [rule |-> "none", size |-> 0]

Init ==
  /\ pc = "running" /\ day = 0
  /\ last = [s \in Symbols |-> NoBar]
  /\ traded = [s \in Symbols |-> {}]
  /\ given = [s \in Symbols |-> 0]
  /\ lots = {} /\ queued = {} /\ trades = {}
  /\ proposed = 0 /\ unfilled = 0 /\ expired = 0
  /\ days = <<>>

Of(s, ls) == {l \in ls : l.symbol = s}
Shares(ls) == MapThenSumSet(LAMBDA l : l.quantity, ls)
-----------------------------------------------------------------------------
(* Filling what the day before proposed, at this day's open.                 *)

Filled(bars) == {c \in queued : bars[c.symbol] # Absent}

\* Bug: an order that has no bar to fill on is dropped without a count.
Unfilled_Silent(bars) == {}

\* The order is not carried forward.
Unfilled(bars) == queued \ Filled(bars)

Opened(bars) ==
  {[symbol |-> c.symbol, quantity |-> c.quantity, entry |-> day + 1] :
     c \in {f \in Filled(bars) : f.side = "buy"}}

\* closeLotsFifo: oldest first, while shares remain.
Closed(c) ==
  {l \in Of(c.symbol, lots) :
     Shares({o \in Of(c.symbol, lots) : o.entry < l.entry}) < c.quantity}

Exits(bars) == {c \in Filled(bars) : c.side = "sell"}

\* A lot is never sold in part.
Splits(bars) == \E c \in Exits(bars) : Shares(Closed(c)) > c.quantity

LotsAfter(bars) == (lots \ UNION {Closed(c) : c \in Exits(bars)}) \cup Opened(bars)

TradesOf(c) ==
  {[symbol |-> l.symbol, quantity |-> l.quantity, entry |-> l.entry, exit |-> day + 1,
    rule |-> c.rule] : l \in Closed(c)}
-----------------------------------------------------------------------------
(* The rules, on the bars through this day.  History(bars) is what those are. *)

History(bars) ==
  [last   |-> [s \in Symbols |-> IF bars[s] \in Bars[s] THEN bars[s] ELSE last[s]],
   traded |-> [s \in Symbols |-> IF bars[s] \in Bars[s] THEN traded[s] \cup {day + 1} ELSE traded[s]],
   given  |-> [s \in Symbols |-> IF bars[s] = Absent THEN given[s] ELSE given[s] + 1]]

Candidate(h, s, side, rule, quantity) ==
  [symbol |-> s, side |-> side, rule |-> rule, quantity |-> quantity]

\* Bug: an exit is sized like an entry.
EvaluateTechnical_Notional(h, s, held) ==
  IF Cardinality(h.traded[s]) < Warmup \/ h.last[s].size = 0 THEN {}
  ELSE IF h.last[s].rule \in EntryRules
  THEN {Candidate(h, s, "buy", h.last[s].rule, h.last[s].size)}
  ELSE IF h.last[s].rule \in ExitRules /\ held > 0
  THEN {Candidate(h, s, "sell", h.last[s].rule, h.last[s].size)}
  ELSE {}

EvaluateTechnical(h, s, held) ==
  IF Cardinality(h.traded[s]) < Warmup THEN {}
  ELSE IF h.last[s].rule \in EntryRules /\ h.last[s].size > 0
  THEN {Candidate(h, s, "buy", h.last[s].rule, h.last[s].size)}
  ELSE IF h.last[s].rule \in ExitRules /\ held > 0
  THEN {Candidate(h, s, "sell", h.last[s].rule, held)}
  ELSE {}

\* Bug: the days of the timeline are counted, whether or not the symbol traded.
BarsHeld_Timeline(h, l) == day + 1 - l.entry

BarsHeld(h, l) == Cardinality({d \in h.traded[l.symbol] : d > l.entry})

\* The oldest lot of the symbol decides for all of them.
EvaluateExit(h, s, ls) ==
  IF MaxHoldingDays > 0 /\ \E l \in ls :
       (\A o \in ls : l.entry <= o.entry) /\ BarsHeld(h, l) >= MaxHoldingDays
  THEN {Candidate(h, s, "sell", "max_holding_period", Shares(ls))}
  ELSE {}

Evaluate(h, s, ls) ==
  LET fired == EvaluateTechnical(h, s, Shares(ls))
  IN  IF h.given[s] = 0 THEN {}
      ELSE IF fired # {} THEN fired
      ELSE EvaluateExit(h, s, ls)

\* Nothing is pending, the day has no other signals, and a symbol without a
\* bar of this day has no price.
Accepted(bars, h, ls) ==
  LET held   == [s \in Symbols |-> Shares(Of(s, ls))]
      priced == {s \in Symbols : bars[s] # Absent}
  IN  ApplyRiskCaps(UNION {Evaluate(h, s, Of(s, ls)) : s \in Symbols},
        [sellable  |-> held,
         today     |-> 0,
         position  |-> [s \in Symbols |-> IF s \in priced THEN Price[s] * held[s] ELSE 0],
         committed |-> SumExposure({[symbol |-> s, quantity |-> held[s]] : s \in Symbols}, priced)])
-----------------------------------------------------------------------------
(* The loop.                                                                 *)

\* The exit throws, and the replay with it.
Throw(bars) ==
  /\ Splits(bars)
  /\ pc' = "thrown"
  /\ UNCHANGED <<day, last, traded, given, lots, queued, trades, proposed, unfilled, expired, days>>

\* The owner approves any of the accepted candidates; the rest expire.
Replay(bars) ==
  /\ ~Splits(bars)
  /\ LET h        == History(bars)
         ls       == LotsAfter(bars)
         accepted == Accepted(bars, h, ls)
     IN  /\ last' = h.last /\ traded' = h.traded /\ given' = h.given
         /\ lots' = ls
         /\ trades' = trades \cup UNION {TradesOf(c) : c \in Exits(bars)}
         /\ proposed' = proposed + Cardinality(accepted)
         /\ unfilled' = unfilled + Cardinality(Unfilled(bars))
         /\ \E approved \in SUBSET accepted :
              /\ queued' = approved
              /\ expired' = expired + Cardinality(accepted \ approved)
         /\ days' = Append(days, [covered   |-> ls # {},
                                  evaluable |-> \E s \in Symbols : h.given[s] > 0 /\ h.given[s] >= Warmup])
  /\ day' = day + 1
  /\ UNCHANGED pc

\* A day is on the timeline when some symbol has a bar.
NextDay ==
  /\ pc = "running" /\ day < MaxDays
  /\ \E bars \in [Symbols -> UNION {Bars[s] : s \in Symbols} \cup {Absent, Interpolated}] :
       /\ \A s \in Symbols : bars[s] \in Bars[s] \cup {Absent, Interpolated}
       /\ \E s \in Symbols : bars[s] # Absent
       /\ Throw(bars) \/ Replay(bars)

\* What is still queued has no bar to fill on.
Finish ==
  /\ pc = "running"
  /\ pc' = "done"
  /\ unfilled' = unfilled + Cardinality(queued)
  /\ queued' = {}
  /\ UNCHANGED <<day, last, traded, given, lots, trades, proposed, expired, days>>

Next == NextDay \/ Finish

Spec == Init /\ [][Next]_vars
-----------------------------------------------------------------------------
(* The report.                                                               *)

Evaluable == FoldLeft(LAMBDA kept, d : IF d.evaluable THEN Append(kept, d) ELSE kept,
                      <<>>, days)

\* Bug: the streak the data ends in is not counted.
CoveredStreaks_Closed ==
  LET Day(acc, d) == IF d.covered THEN [acc EXCEPT !.streak = @ + 1]
                     ELSE [streak |-> 0, runs |-> IF acc.streak > 0 THEN Append(acc.runs, acc.streak)
                                                  ELSE acc.runs]
  IN  FoldLeft(Day, [streak |-> 0, runs |-> <<>>], Evaluable).runs

\* The lengths of the unbroken runs of covered days.
CoveredStreaks ==
  LET Kept(acc)   == IF acc.streak > 0 THEN Append(acc.runs, acc.streak) ELSE acc.runs
      Day(acc, d) == IF d.covered THEN [acc EXCEPT !.streak = @ + 1]
                     ELSE [streak |-> 0, runs |-> Kept(acc)]
  IN  Kept(FoldLeft(Day, [streak |-> 0, runs |-> <<>>], Evaluable))
-----------------------------------------------------------------------------
(* Properties.                                                               *)

\* The throw in closeLotsFifo is never reached: an exit filled on the next
\* day, or after the position could have grown, still covers whole lots
\* (simulate.ts:282, "lot boundaries align by construction").
ExitNeverSplits == pc # "thrown"

\* Every proposed signal is a fill, an exit of at least one lot, unfilled,
\* expired or still queued: the totals of the report add up.
SignalsAccounted ==
  proposed = Cardinality(lots) + Cardinality(trades)
             + Cardinality({<<t.symbol, t.exit>> : t \in trades})
             + unfilled + expired + Cardinality(queued)

\* A time stop closes a position some lot of which saw MaxHoldingDays bars
\* that traded, however many days of the timeline the symbol was missing.
TimeStopWaits ==
  \A t \in trades : t.rule = "max_holding_period" =>
    \E o \in trades :
      /\ o.symbol = t.symbol /\ o.exit = t.exit
      /\ Cardinality({d \in traded[o.symbol] : o.entry < d /\ d < o.exit}) >= MaxHoldingDays

\* The streaks of the report are the maximal runs of covered days: as many
\* as there are ends of one, together all covered days, the longest first.
StreaksMatchDays ==
  LET e         == Evaluable
      covered   == {i \in DOMAIN e : e[i].covered}
      intervals == {i \in covered \X covered : i[1] <= i[2] /\ i[1] .. i[2] \subseteq covered}
  IN  /\ Len(CoveredStreaks) = Cardinality({i \in covered : i + 1 \notin covered})
      /\ FoldLeft(+, 0, CoveredStreaks) = Cardinality(covered)
      /\ \A i \in intervals : \E n \in Range(CoveredStreaks) : n >= i[2] - i[1] + 1
-----------------------------------------------------------------------------
(* What the proofs carry.                                                    *)

\* One order per symbol; an exit is of the whole position it will meet the
\* next day, and a time stop has found its oldest lot due.
QueueFits ==
  /\ \A c, d \in queued : c.symbol = d.symbol => c = d
  /\ \A c \in queued : c.side = "sell" => c.quantity = Shares(Of(c.symbol, lots))
  /\ \A c \in queued : c.rule = "max_holding_period" =>
       /\ c.side = "sell"
       /\ \E l \in Of(c.symbol, lots) :
            /\ \A o \in Of(c.symbol, lots) : l.entry <= o.entry
            /\ Cardinality({d \in traded[c.symbol] : d > l.entry}) >= MaxHoldingDays

\* Nothing is of a day that has not been replayed.
NothingAhead ==
  /\ \A s \in Symbols : traded[s] \subseteq 1 .. day
  /\ \A l \in lots : l.entry \in 1 .. day
  /\ \A t \in trades : t.exit \in 1 .. day
=============================================================================
