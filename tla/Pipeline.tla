------------------------------ MODULE Pipeline ------------------------------
(***************************************************************************)
(* The proposal pipeline: one run reads the bars, the positions, the lots, *)
(* the keys already proposed, the pending signals and the signals of the   *)
(* day, each after an await of its own, puts its candidates through the    *)
(* risk gate and inserts the accepted ones one by one.  Meanwhile signals  *)
(* are decided, traded and settled, lots are marked, the day ends, and     *)
(* another run may be under way: the scheduler's protection does not see   *)
(* a run in progress, and the command line is another process.             *)
(***************************************************************************)
EXTENDS RiskGate, Sequences, FiniteSets

CONSTANTS
  Runs,             \* runs, each of which happens once
  EntryRules, ExitRules,
  Size,             \* [Symbols -> shares one order buys], 0 when one costs more
  MaxHoldingDays,
  Forming,          \* the symbols whose last bar may still change (a bound)
  Opened,           \* the symbols that may have an open lot at the start
  MaxDay,           \* bound on the days
  MaxSignals        \* bound on the signals

ASSUME PipelineAssumption ==
  /\ Size \in [Symbols -> Nat] /\ Opened \subseteq Allowlist
  /\ MaxHoldingDays \in Nat /\ MaxDay \in Nat \ {0} /\ MaxSignals \in Nat
  /\ EntryRules \cap ExitRules = {}
  /\ {"none", "unseen", "max_holding_period"} \cap (EntryRules \cup ExitRules) = {}

VARIABLES
  mode,       \* "paper" or "live", left alone (Decisions has it change)
  day,        \* the UTC day, and the last bar
  fires,      \* [Symbols -> the rule the last bar fires, "none", "unseen" before a run looks]
  moved,      \* the symbols and bars whose rule changed while the bar formed
  signals,    \* the rows, in the order of their insertion
  run,        \* [Runs -> where each stands and its local variables]
  overlooked  \* history: the ways in which a run has missed exposure so far

vars == <<mode, day, fires, moved, signals, run, overlooked>>

Rules == EntryRules \cup ExitRules

Zero   == [s \in Symbols |-> 0]
Unseen == [s \in Symbols |-> "unseen"]

\* A local variable is cleared after its last use.
NotStarted ==
  [pc |-> "idle", day |-> 0, bar |-> 0, rule |-> Unseen, listed |-> {}, held |-> Zero,
   sellable |-> Zero, pending |-> Zero, candidates |-> {}, due |-> {}, committed |-> 0]

\* The lot of an entry of the day before.
OldLot(s, rule) ==
  [symbol |-> s, side |-> "buy", rule |-> rule, bar |-> 0, quantity |-> Size[s],
   status |-> "open", created |-> 0, stamp |-> 0]

\* The record is empty, or holds one open lot that passed the gate in its time.
Init ==
  /\ mode \in {"paper", "live"}
  /\ day = 1
  /\ fires = Unseen
  /\ moved = {}
  /\ signals \in {<<>>} \cup
       {<<OldLot(s, rule)>> : s \in {o \in Opened : Size[o] > 0}, rule \in EntryRules}
  /\ \A i \in DOMAIN signals :
       Passes(signals[i], [position |-> Zero], [today |-> 0, committed |-> 0])
  /\ run = [r \in Runs |-> NotStarted]
  /\ overlooked = {}
-----------------------------------------------------------------------------
(* The record.                                                               *)

Rows(symbol, statuses) ==
  {i \in DOMAIN signals : signals[i].symbol = symbol /\ signals[i].status \in statuses}

Shares(rows) == MapThenSumSet(LAMBDA i : signals[i].quantity, rows)

Side(rule) == IF rule \in EntryRules THEN "buy" ELSE "sell"

Of(side, rows) == {i \in rows : signals[i].side = side}

Lots(symbol) == Of("buy", Rows(symbol, {"open"}))

\* The broker holds what it has bought and not sold, lot or no lot.
Held(symbol) ==
  IF mode = "paper" THEN Shares(Lots(symbol))
  ELSE LET bought == Shares(Of("buy", Rows(symbol, {"traded", "open", "closed"})))
           sold   == Shares(Of("sell", Rows(symbol, {"traded", "filled"})))
       IN  IF bought > sold THEN bought - sold ELSE 0

\* Every paper share can be sold; the broker keeps back those of working orders.
Sellable(symbol) ==
  LET working == IF mode = "paper" THEN 0 ELSE Shares(Of("sell", Rows(symbol, {"approved"})))
  IN  IF Held(symbol) > working THEN Held(symbol) - working ELSE 0

DedupeKeyFor(x) == <<x.rule, x.symbol, x.side, x.bar>>

Keys == {DedupeKeyFor(signals[i]) : i \in DOMAIN signals}
-----------------------------------------------------------------------------
(* A run.                                                                    *)

Goto(r, local) == run' = [run EXCEPT ![r] = local]

Ended == [NotStarted EXCEPT !.pc = "done"]

\* now, whose day is the one the signals will be counted of.
StartRun(r) ==
  /\ run[r].pc = "idle"
  /\ Goto(r, [run[r] EXCEPT !.pc = "started", !.day = day])
  /\ UNCHANGED <<mode, day, fires, moved, signals, overlooked>>

\* A halted run ends here.
ReadSettings(r) ==
  /\ run[r].pc = "started"
  /\ \E halted \in BOOLEAN :
       Goto(r, IF halted THEN Ended ELSE [run[r] EXCEPT !.pc = "fetching"])
  /\ UNCHANGED <<mode, day, fires, moved, signals, overlooked>>

\* The last bar is of the day it is by then.
ReadBars(r) ==
  /\ run[r].pc = "fetching"
  /\ \E bars \in [Symbols -> Rules \cup {"none"}] :
       /\ \A s \in Symbols : fires[s] \in {"unseen", bars[s]}
       /\ fires' = bars
       /\ Goto(r, [run[r] EXCEPT !.pc = "fetched", !.bar = day, !.rule = bars])
  /\ UNCHANGED <<mode, day, moved, signals, overlooked>>

\* In neither the positions nor the pending signals a run is going to read.
InFlight ==
  \E s \in Symbols :
    Of("buy", Rows(s, IF mode = "paper" THEN {"approved", "traded"} ELSE {"approved"})) # {}

\* paperPositions, or the broker's.  A position of no shares is not listed.
ReadPositions(r) ==
  /\ run[r].pc = "fetched"
  /\ Goto(r, [run[r] EXCEPT !.pc = "positioned",
                !.listed = {s \in Symbols : Held(s) > 0},
                !.held = [s \in Symbols |-> Held(s)],
                !.sellable = [s \in Symbols |-> Sellable(s)]])
  /\ overlooked' = overlooked \cup (IF InFlight THEN {"inflight"} ELSE {})
  /\ UNCHANGED <<mode, day, fires, moved, signals>>

Candidate(r, s, rule, quantity) ==
  [symbol |-> s, side |-> Side(rule), rule |-> rule, bar |-> run[r].bar, quantity |-> quantity]

\* An entry buys one order's worth, an exit sells all that can be sold.
EvaluateTechnical(r, s) ==
  LET rule     == run[r].rule[s]
      quantity == IF rule \in EntryRules THEN Size[s] ELSE run[r].sellable[s]
  IN  IF rule = "none" \/ quantity = 0 THEN {} ELSE {Candidate(r, s, rule, quantity)}

\* The bars since the newest row of some lot; a lot may be listed as working.
EvaluateExit(r, s) ==
  IF /\ MaxHoldingDays > 0
     /\ s \in run[r].listed
     /\ \E i \in Lots(s) : run[r].bar >= signals[i].stamp + MaxHoldingDays
  THEN {Candidate(r, s, "max_holding_period", run[r].sellable[s])}
  ELSE {}

\* Bug: the time stop is consulted whether or not a rule fired.
Evaluate_Both(r, s) == EvaluateTechnical(r, s) \cup EvaluateExit(r, s)

Evaluate(r, s) ==
  IF EvaluateTechnical(r, s) # {} THEN EvaluateTechnical(r, s) ELSE EvaluateExit(r, s)

\* The lots are read, and every allowed symbol is evaluated.
EvaluateSymbols(r) ==
  /\ run[r].pc = "positioned"
  /\ LET candidates == UNION {Evaluate(r, s) : s \in Allowlist}
     IN  Goto(r, IF candidates = {} THEN Ended
                 ELSE [run[r] EXCEPT !.pc = "evaluated", !.bar = 0,
                         !.rule = Unseen, !.candidates = candidates,
                         !.due = {c \in candidates : c.rule = "max_holding_period"}])
  /\ UNCHANGED <<mode, day, fires, moved, signals, overlooked>>

FindExistingKeys(r) ==
  /\ run[r].pc = "evaluated"
  /\ Goto(r, [run[r] EXCEPT !.pc = "fresh",
                !.candidates = {c \in @ : DedupeKeyFor(c) \notin Keys}])
  /\ UNCHANGED <<mode, day, fires, moved, signals, overlooked>>

Pending(symbol) == Rows(symbol, {"pending"})

\* The cap of a symbol leaves out what is pending in it.
ReadPending(r) ==
  /\ run[r].pc = "fresh"
  /\ Goto(r, [run[r] EXCEPT !.pc = "quoting",
                !.pending = [s \in Symbols |-> Shares(Pending(s))]])
  /\ overlooked' = overlooked \cup
       (IF \E c \in run[r].candidates : c.side = "buy" /\ Of("buy", Pending(c.symbol)) # {}
        THEN {"pending"} ELSE {})
  /\ UNCHANGED <<mode, day, fires, moved, signals>>

\* Bug: the pending signals are left out of the exposure.
PendingExposure_None(r, quoted) == 0

PendingExposure(r, quoted) ==
  MapThenSumSet(LAMBDA s : Price[s] * run[r].pending[s], quoted)

OpenExposure(r, quoted) ==
  SumExposure({[symbol |-> s, quantity |-> run[r].held[s]] : s \in run[r].listed}, quoted)

\* One symbol may be without a quote.
ReadQuotes(r) ==
  /\ run[r].pc = "quoting"
  /\ \E unquoted \in {{}} \cup {{s} : s \in Symbols} :
       LET quoted == Symbols \ unquoted
           missed == {s \in unquoted : s \in run[r].listed \/ run[r].pending[s] > 0}
       IN  /\ Goto(r, [run[r] EXCEPT !.pc = "read", !.listed = {}, !.pending = Zero,
                         !.held = [s \in Symbols |-> IF s \in quoted THEN @[s] ELSE 0],
                         !.committed = PendingExposure(r, quoted) + OpenExposure(r, quoted)])
           /\ overlooked' = overlooked \cup (IF missed # {} THEN {"unquoted"} ELSE {})
  /\ UNCHANGED <<mode, day, fires, moved, signals>>

\* Bug: only the signals still pending count against the day.
CountSignalsSince_Pending(d) ==
  Cardinality({i \in DOMAIN signals : signals[i].created >= d /\ signals[i].status = "pending"})

CountSignalsSince(d) == Cardinality({i \in DOMAIN signals : signals[i].created >= d})

GateInputs(r) ==
  [sellable  |-> run[r].sellable,
   today     |-> CountSignalsSince(run[r].day),
   position  |-> [s \in Symbols |-> Price[s] * run[r].held[s]],
   committed |-> run[r].committed]

Gate(r) ==
  /\ run[r].pc = "read"
  /\ LET accepted == ApplyRiskCaps(run[r].candidates, GateInputs(r))
     IN  Goto(r, [NotStarted EXCEPT !.pc = "proposing", !.candidates = accepted,
                    !.due = run[r].due \ (run[r].candidates \ accepted)])
  /\ UNCHANGED <<mode, day, fires, moved, signals, overlooked>>

NextToPropose(r, c) ==
  /\ run[r].pc = "proposing"
  /\ c \in run[r].candidates
  /\ \A d \in run[r].candidates : c.symbol <= d.symbol

Proposed(r, c) == Goto(r, [run[r] EXCEPT !.candidates = @ \ {c}])

\* Bug: a review is taken for granted.
Reviewed_Always(c) == TRUE

\* The broker reviews no order of no shares.
Reviewed(c) == c.quantity > 0

\* No snapshot, no signal; any review may fail.
ReviewFails(r) ==
  /\ \E c \in run[r].candidates :
       /\ NextToPropose(r, c)
       /\ Goto(r, [run[r] EXCEPT !.candidates = @ \ {c}, !.due = @ \ {c}])
  /\ UNCHANGED <<mode, day, fires, moved, signals, overlooked>>

\* Bug: a symbol that was ever proposed counts as taken.
Taken_Symbol(c) == \E i \in DOMAIN signals : signals[i].symbol = c.symbol

Taken(c) == DedupeKeyFor(c) \in Keys

Row(c) ==
  [symbol |-> c.symbol, side |-> c.side, rule |-> c.rule, bar |-> c.bar,
   quantity |-> c.quantity, status |-> "pending", created |-> day, stamp |-> 0]

\* Another run is past its reads of the pending signals, or of the day's.
Overlapped(r) == \E q \in Runs \ {r} : run[q].pc \in {"quoting", "read", "proposing"}

InsertSignal(r) ==
  /\ Len(signals) < MaxSignals
  /\ \E c \in run[r].candidates :
       /\ NextToPropose(r, c)
       /\ Reviewed(c) /\ ~Taken(c)
       /\ Proposed(r, c)
       /\ signals' = Append(signals, Row(c))
  /\ overlooked' = overlooked \cup (IF Overlapped(r) THEN {"overlap"} ELSE {})
  /\ UNCHANGED <<mode, day, fires, moved>>

\* Another run won the race between the dedupe check and this insert.
SkipDuplicate(r) ==
  /\ \E c \in run[r].candidates :
       /\ NextToPropose(r, c)
       /\ Reviewed(c) /\ Taken(c)
       /\ Proposed(r, c)
  /\ UNCHANGED <<mode, day, fires, moved, signals, overlooked>>

EndRun(r) ==
  /\ run[r].pc = "proposing" /\ run[r].candidates = {}
  /\ Goto(r, [run[r] EXCEPT !.pc = "done"])
  /\ UNCHANGED <<mode, day, fires, moved, signals, overlooked>>

\* A read, a quote or an insert fails: the run is logged and forgotten.
Abort(r) ==
  /\ run[r].pc \notin {"idle", "done"}
  /\ Goto(r, Ended)
  /\ UNCHANGED <<mode, day, fires, moved, signals, overlooked>>
-----------------------------------------------------------------------------
(* What goes on around it: decisions, trades, settlement, marks, days.       *)

Become(i, status) == signals' = [signals EXCEPT ![i].status = status]

Decided(i) ==
  /\ signals[i].side = "buy"
  /\ \E r \in Runs : run[r].pc \in {"positioned", "evaluated", "fresh"}

Approve(i) ==
  /\ signals[i].status = "pending"
  /\ Become(i, "approved")
  /\ overlooked' = overlooked \cup (IF Decided(i) THEN {"decided"} ELSE {})
  /\ UNCHANGED <<mode, day, fires, moved, run>>

\* Rejected, or expired; approved and then halted, refused or cancelled.
Drop(i) ==
  /\ signals[i].status \in {"pending", "approved"}
  /\ Become(i, "dropped")
  /\ UNCHANGED <<mode, day, fires, moved, run, overlooked>>

\* The paper execution is recorded, or the broker fills the order; it sells no
\* share it does not hold.
Trade(i) ==
  /\ signals[i].status = "approved"
  /\ signals[i].side = "sell" =>
       /\ Lots(signals[i].symbol) # {}
       /\ mode = "live" => Held(signals[i].symbol) >= signals[i].quantity
  /\ Become(i, "traded")
  /\ UNCHANGED <<mode, day, fires, moved, run, overlooked>>

OpenLot(i) ==
  /\ signals[i].status = "traded" /\ signals[i].side = "buy"
  /\ signals' = [signals EXCEPT ![i].status = "open", ![i].stamp = day]
  /\ UNCHANGED <<mode, day, fires, moved, run, overlooked>>

\* Whole lots in the order of their newest rows, up to the quantity sold.
Selections(i) ==
  LET lots == Lots(signals[i].symbol)
  IN  {chosen \in SUBSET lots :
         /\ Shares(chosen) <= signals[i].quantity
         /\ chosen = lots \/ \E next \in lots \ chosen :
              /\ Shares(chosen \cup {next}) > signals[i].quantity
              /\ \A j \in chosen : signals[j].stamp <= signals[next].stamp}

CloseLots(i) ==
  /\ signals[i].status = "traded" /\ signals[i].side = "sell"
  /\ \E chosen \in Selections(i) :
       signals' = [j \in DOMAIN signals |->
         IF j \in chosen THEN [signals[j] EXCEPT !.status = "closed"]
         ELSE IF j = i THEN [signals[j] EXCEPT !.status = "filled"] ELSE signals[j]]
  /\ UNCHANGED <<mode, day, fires, moved, run, overlooked>>

\* Every open lot gets a row of the day.
Mark ==
  /\ \E i \in DOMAIN signals : signals[i].status = "open" /\ signals[i].stamp < day
  /\ signals' = [i \in DOMAIN signals |->
       IF signals[i].status = "open" THEN [signals[i] EXCEPT !.stamp = day] ELSE signals[i]]
  /\ UNCHANGED <<mode, day, fires, moved, run, overlooked>>

\* Days come until the runs are over (a bound).
NewDay ==
  /\ day < MaxDay
  /\ \E r \in Runs : run[r].pc # "done"
  /\ day' = day + 1
  /\ fires' = Unseen
  /\ UNCHANGED <<mode, moved, signals, run, overlooked>>

\* The last bar may be of a day that still trades (once, and only while a run
\* is still to look: bounds).
BarMoves(s) ==
  /\ s \in Forming
  /\ moved = {} /\ fires[s] # "unseen"
  /\ \E r \in Runs : run[r].pc \in {"idle", "started", "fetching"}
  /\ \E rule \in (Rules \cup {"none"}) \ {fires[s]} : fires' = [fires EXCEPT ![s] = rule]
  /\ moved' = moved \cup {<<s, day>>}
  /\ UNCHANGED <<mode, day, signals, run, overlooked>>

RunStep(r) ==
  \/ StartRun(r) \/ ReadSettings(r) \/ ReadBars(r) \/ ReadPositions(r) \/ EvaluateSymbols(r)
  \/ FindExistingKeys(r) \/ ReadPending(r) \/ ReadQuotes(r) \/ Gate(r)
  \/ ReviewFails(r) \/ InsertSignal(r) \/ SkipDuplicate(r) \/ EndRun(r) \/ Abort(r)

SignalStep(i) ==
  \/ Approve(i) \/ Drop(i) \/ Trade(i) \/ OpenLot(i) \/ CloseLots(i)

Next ==
  \/ \E r \in Runs : RunStep(r)
  \/ \E i \in DOMAIN signals : SignalStep(i)
  \/ Mark
  \/ NewDay
  \/ \E s \in Symbols : BarMoves(s)

Spec == Init /\ [][Next]_vars
-----------------------------------------------------------------------------
(* Properties.                                                               *)

Candidates ==
  [symbol : Symbols, side : {"buy", "sell"}, rule : Rules \cup {"max_holding_period"},
   bar : Nat, quantity : Nat]

\* Every variable keeps its shape; in particular no signal is proposed for
\* no shares, although the time stop may size a candidate to none.
TypeOK ==
  /\ mode \in {"paper", "live"} /\ day \in Nat
  /\ fires \in [Symbols -> Rules \cup {"none", "unseen"}]
  /\ moved \subseteq Symbols \X Nat
  /\ signals \in Seq([symbol : Symbols, side : {"buy", "sell"},
       rule : Rules \cup {"max_holding_period"}, bar : Nat, quantity : Nat \ {0},
       status : {"pending", "approved", "dropped", "traded", "open", "closed", "filled"},
       created : Nat, stamp : Nat])
  /\ run \in [Runs -> [pc : {"idle", "started", "fetching", "fetched", "positioned", "evaluated",
                             "fresh", "quoting", "read", "proposing", "done"},
       day : Nat, bar : Nat, rule : [Symbols -> Rules \cup {"none", "unseen"}],
       listed : SUBSET Symbols, held : [Symbols -> Nat], sellable : [Symbols -> Nat],
       pending : [Symbols -> Nat],
       candidates : SUBSET Candidates, due : SUBSET Candidates, committed : Nat]]
  /\ overlooked \subseteq {"inflight", "decided", "unquoted", "pending", "overlap"}

\* A bar that is not revised proposes at most one trade of its symbol (one
\* exit candidate per position, pipeline.ts:184-187), however many runs see it.
OneProposalPerBar ==
  \A i, j \in DOMAIN signals :
    /\ i # j
    /\ signals[i].symbol = signals[j].symbol /\ signals[i].bar = signals[j].bar
    => <<signals[i].symbol, signals[i].bar>> \in moved

\* No more signals are created in a UTC day than the cap, unless two runs
\* overlapped between the count and the insert.
DailyCapHolds ==
  "overlap" \notin overlooked =>
    \A d \in 1 .. MaxDay :
      Cardinality({i \in DOMAIN signals : signals[i].created = d}) <= MaxDailyTrades

\* Proposed and on its way: the broker holds what it traded, the paper book
\* what it opened.
Coming == {"pending", "approved"} \cup (IF mode = "paper" THEN {"traded"} ELSE {})

Exposure(symbol) == Price[symbol] * (Held(symbol) + Shares(Of("buy", Rows(symbol, Coming))))

TotalExposure == MapThenSumSet(LAMBDA s : Exposure(s), Symbols)

\* What is held, on its way and proposed stays within the cap, unless a run
\* missed a buy: decided while the run was between its two reads or not yet
\* held at the first, without a quote, or inserted by a run that overlapped.
ExposureWithinCap ==
  overlooked \subseteq {"pending"} => TotalExposure <= MaxExposure

\* The same of one symbol and its own cap, which does not count what is
\* pending in that symbol.
PositionWithinCap ==
  overlooked = {} => \A s \in Symbols : Exposure(s) <= MaxPosition

\* A run that ends has a signal for every position the time stop found due,
\* of that bar, unless the gate refused it or its review failed.
DueExitsProposed ==
  \A r \in Runs : run[r].pc = "done" =>
    \A c \in run[r].due :
      \E i \in DOMAIN signals :
        /\ signals[i].symbol = c.symbol /\ signals[i].bar = c.bar
        /\ signals[i].rule = "max_holding_period"
-----------------------------------------------------------------------------
(* What the proofs carry.                                                    *)

\* What a bar that fires this rule can propose: a rule that would buy nothing
\* leaves the symbol to the time stop.
Verdict(s, rule) ==
  IF rule = "none" \/ (rule \in EntryRules /\ Size[s] = 0)
  THEN "max_holding_period" ELSE rule

\* Somebody has a proposal of that rule from the bar, or is about to: the bar
\* as it is, a run that has read it, a candidate, a signal.
Says(s, bar, rule) ==
  \/ bar = day /\ fires[s] # "unseen" /\ rule = Verdict(s, fires[s])
  \/ \E r \in Runs :
       /\ run[r].pc \in {"fetched", "positioned"} /\ run[r].bar = bar
       /\ rule = Verdict(s, run[r].rule[s])
  \/ \E r \in Runs : \E c \in run[r].candidates :
       /\ c.symbol = s /\ c.bar = bar /\ c.quantity # 0
       /\ rule = c.rule
  \/ \E i \in DOMAIN signals :
       /\ signals[i].symbol = s /\ signals[i].bar = bar
       /\ rule = signals[i].rule

\* A bar that was not revised says one thing, to everyone, for ever; and
\* nothing before it is there.
BarsAgree ==
  \A s \in Symbols, bar \in 0 .. day, x, y \in Rules \cup {"max_holding_period"} :
    Says(s, bar, x) /\ Says(s, bar, y) => x = y \/ <<s, bar>> \in moved

NothingAhead ==
  /\ \A s \in Symbols, bar \in 0 .. day, x \in Rules \cup {"max_holding_period"} :
       fires[s] = "unseen" /\ Says(s, bar, x) => bar < day
  /\ \A r \in Runs :
       run[r].bar <= day /\ run[r].day <= day /\ \A c \in run[r].candidates : c.bar <= day
  /\ \A i \in DOMAIN signals : signals[i].bar <= day

KeysDiffer ==
  /\ \A i \in DOMAIN signals : signals[i].side = Side(signals[i].rule)
  /\ \A i, j \in DOMAIN signals :
       DedupeKeyFor(signals[i]) = DedupeKeyFor(signals[j]) => i = j

\* A due exit is a signal, or still a candidate of its run.
DueIsKept ==
  \A r \in Runs : \A c \in run[r].due :
    /\ c.rule = "max_holding_period"
    /\ \/ c \in run[r].candidates
       \/ \E i \in DOMAIN signals :
            /\ signals[i].symbol = c.symbol /\ signals[i].bar = c.bar
            /\ signals[i].rule = "max_holding_period"

\* A run that has read the bars knows what they fire, and before that has no
\* candidate.
RunIsSound ==
  \A r \in Runs :
    /\ run[r].pc \in {"fetched", "positioned"} =>
         run[r].rule \in [Symbols -> Rules \cup {"none"}]
    /\ run[r].pc \in {"idle", "started", "fetching", "fetched", "positioned"} =>
         run[r].candidates = {} /\ run[r].due = {}
    /\ run[r].pc = "done" => run[r].candidates = {}
    /\ \A c \in run[r].candidates : c.side = Side(c.rule)

\* One candidate per symbol; a position is listed exactly when it has shares.
RunIsTidy ==
  \A r \in Runs :
    /\ IsFiniteSet(run[r].candidates)
    /\ \A c, d \in run[r].candidates : c.symbol = d.symbol => c = d
    /\ run[r].pc \in {"positioned", "evaluated", "fresh", "quoting"} =>
         run[r].listed = {s \in Symbols : run[r].held[s] > 0}

\* Until a run reads the pending signals, its positions are no less than what
\* is held and decided.
PositionsCover ==
  overlooked \cap {"inflight", "decided"} = {} =>
    \A r \in Runs : run[r].pc \in {"positioned", "evaluated", "fresh"} =>
      \A s \in Symbols :
        Held(s) + Shares(Of("buy", Rows(s, Coming \ {"pending"}))) <= run[r].held[s]

\* From then on what it counted is no less than what there is, and what passed
\* the gate still fits.
CommittedCovers ==
  overlooked \subseteq {"pending"} =>
    \A r \in Runs :
      LET buys == {c \in run[r].candidates : c.side = "buy"}
      IN  /\ run[r].pc = "quoting" => \A s \in Symbols :
               Held(s) + Shares(Of("buy", Rows(s, Coming))) <= run[r].held[s] + run[r].pending[s]
          /\ run[r].pc = "read" => TotalExposure <= run[r].committed
          /\ run[r].pc = "proposing" /\ buys # {} =>
               TotalExposure + MapThenSumSet(LAMBDA c : Value(c), buys) <= MaxExposure

PositionCovers ==
  overlooked = {} =>
    \A r \in Runs : \A c \in run[r].candidates :
      c.side = "buy" =>
        /\ run[r].pc \in {"quoting", "read"} =>
             Exposure(c.symbol) <= Price[c.symbol] * run[r].held[c.symbol]
        /\ run[r].pc = "proposing" => Exposure(c.symbol) + Value(c) <= MaxPosition

\* The slots a run has left were free on the day it counted from.
SlotsCover ==
  "overlap" \notin overlooked =>
    \A r \in Runs :
      run[r].pc = "proposing" /\ run[r].candidates # {} =>
        \E d \in 0 .. day :
          CountSignalsSince(d) + Cardinality(run[r].candidates) <= MaxDailyTrades
=============================================================================
