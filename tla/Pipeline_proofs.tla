-------------------------- MODULE Pipeline_proofs --------------------------
(* Proofs about Pipeline: for any symbols, rules, caps, days and signals,   *)
(* and any runs, overlapping or not.                                        *)
EXTENDS Pipeline, TLAPS

AllRules == Rules \cup {"max_holding_period"}
Statuses == {"pending", "approved", "dropped", "traded", "open", "closed", "filled"}
Steps    == {"idle", "started", "fetching", "fetched", "positioned", "evaluated", "fresh",
             "quoting", "read", "proposing", "done"}

\* The shapes of TypeOK, but for the sums of shares, which range over some set.
RowOf(U) ==
  [symbol : Symbols, side : {"buy", "sell"}, rule : AllRules, bar : Nat, quantity : U,
   status : Statuses, created : Nat, stamp : Nat]

CandidateOf(U) ==
  [symbol : Symbols, side : {"buy", "sell"}, rule : AllRules, bar : Nat, quantity : U]

LocalOf(U) ==
  [pc : Steps, day : Nat, bar : Nat, rule : [Symbols -> Rules \cup {"none", "unseen"}],
   listed : SUBSET Symbols, held : U, sellable : U, pending : U,
   candidates : SUBSET CandidateOf(U), due : SUBSET CandidateOf(U), committed : U]

Fits(U) == signals \in Seq(RowOf(U)) /\ run \in [Runs -> LocalOf(U)]

Shape ==
  /\ day \in Nat
  /\ fires \in [Symbols -> Rules \cup {"none", "unseen"}]
  /\ \E U : Fits(U)

Inductive ==
  /\ Shape /\ BarsAgree /\ NothingAhead /\ KeysDiffer /\ DueIsKept /\ RunIsSound

LEMMA Wider ==
  ASSUME NEW S, NEW T, S \subseteq T, NEW q \in Seq(S)
  PROVE  q \in Seq(T)
<1>1. Len(q) \in Nat /\ q \in [1 .. Len(q) -> S]
  OBVIOUS
<1>2. q \in [1 .. Len(q) -> T]
  BY <1>1
<1> QED BY <1>1, <1>2

\* The values a step writes can be among those there are.
LEMMA Widened ==
  ASSUME Inductive, NEW W
  PROVE  \E U : W \subseteq U /\ Fits(U)
<1>1. PICK V : Fits(V)
  BY DEF Inductive, Shape
<1> DEFINE U == V \cup W
<1>2. RowOf(V) \subseteq RowOf(U) /\ CandidateOf(V) \subseteq CandidateOf(U)
  BY DEF RowOf, CandidateOf
<1>3. LocalOf(V) \subseteq LocalOf(U)
  BY <1>2 DEF LocalOf
<1>4. signals \in Seq(RowOf(U))
  <2> HIDE DEF U
  <2> QED BY <1>1, <1>2, Wider DEF Fits
<1>5. run \in [Runs -> LocalOf(U)]
  <2> HIDE DEF U
  <2> QED BY <1>1, <1>3 DEF Fits
<1> QED BY <1>4, <1>5 DEF Fits

LEMMA RowsFit ==
  ASSUME NEW U, Fits(U)
  PROVE  /\ Len(signals) \in Nat /\ DOMAIN signals = 1 .. Len(signals)
         /\ \A i \in DOMAIN signals : signals[i] \in RowOf(U)
         /\ \A r \in Runs : run[r] \in LocalOf(U)
  BY DEF Fits

\* A run moves on and no row changes: what it holds now must be what somebody
\* said already, sound, and enough for its due exits.
LEMMA RunMoves ==
  ASSUME Inductive, NEW U, Fits(U), NEW r \in Runs, NEW l \in LocalOf(U), Goto(r, l),
         UNCHANGED <<day, fires, moved, signals>>,
         l.bar <= day, l.day <= day,
         l.pc \in {"fetched", "positioned"} =>
           /\ l.rule \in [Symbols -> Rules \cup {"none"}]
           /\ \A s \in Symbols : Says(s, l.bar, Verdict(s, l.rule[s])),
         l.pc \in {"idle", "started", "fetching", "fetched", "positioned"} =>
           l.candidates = {} /\ l.due = {},
         l.pc = "done" => l.candidates = {},
         \A c \in l.candidates :
           /\ c.bar <= day /\ c.side = Side(c.rule)
           /\ c.quantity # 0 => Says(c.symbol, c.bar, c.rule),
         \A c \in l.due :
           /\ c.rule = "max_holding_period"
           /\ \/ c \in l.candidates
              \/ \E i \in DOMAIN signals :
                   /\ signals[i].symbol = c.symbol /\ signals[i].bar = c.bar
                   /\ signals[i].rule = "max_holding_period"
  PROVE  Inductive'
<1>1. /\ run' \in [Runs -> LocalOf(U)] /\ run'[r] = l
      /\ \A q \in Runs \ {r} : run'[q] = run[q]
  BY DEF Goto, Fits
<1>2. Shape'
  BY <1>1 DEF Shape, Inductive, Fits
<1>3. ASSUME NEW s \in Symbols, NEW bar, NEW x, Says(s, bar, x)' PROVE Says(s, bar, x)
  <2>1. CASE bar = day /\ fires[s] # "unseen" /\ x = Verdict(s, fires[s])
    BY <2>1 DEF Says
  <2>2. ASSUME NEW q \in Runs, run'[q].pc \in {"fetched", "positioned"}, run'[q].bar = bar,
               x = Verdict(s, run'[q].rule[s])
        PROVE  Says(s, bar, x)
    <3>1. CASE q = r
      BY <1>1, <2>2, <3>1
    <3>2. CASE q # r
      BY <1>1, <2>2, <3>2 DEF Says
    <3> QED BY <3>1, <3>2
  <2>3. ASSUME NEW q \in Runs, NEW c \in run'[q].candidates, c.symbol = s, c.bar = bar,
               c.quantity # 0, x = c.rule
        PROVE  Says(s, bar, x)
    <3>1. CASE q = r
      BY <1>1, <2>3, <3>1
    <3>2. CASE q # r
      BY <1>1, <2>3, <3>2 DEF Says
    <3> QED BY <3>1, <3>2
  <2>4. CASE \E i \in DOMAIN signals : /\ signals[i].symbol = s /\ signals[i].bar = bar
                                       /\ x = signals[i].rule
    BY <2>4 DEF Says
  <2> QED BY <1>3, <2>1, <2>2, <2>3, <2>4 DEF Says, Verdict
<1>4. BarsAgree'
  BY <1>3 DEF Inductive, BarsAgree
<1>5. NothingAhead'
  BY <1>1, <1>3 DEF Inductive, NothingAhead
<1>6. KeysDiffer'
  BY DEF Inductive, KeysDiffer, DedupeKeyFor
<1>7. DueIsKept'
  BY <1>1 DEF Inductive, DueIsKept
<1>8. RunIsSound'
  BY <1>1 DEF Inductive, RunIsSound
<1> QED BY <1>2, <1>4, <1>5, <1>6, <1>7, <1>8 DEF Inductive

\* The rows keep what identifies them, and no run moves.
LEMMA RowsKeep ==
  ASSUME Inductive, NEW U, Fits(U), signals' \in Seq(RowOf(U)),
         DOMAIN signals' = DOMAIN signals,
         \A i \in DOMAIN signals :
           /\ signals'[i].symbol = signals[i].symbol /\ signals'[i].bar = signals[i].bar
           /\ signals'[i].rule = signals[i].rule /\ signals'[i].side = signals[i].side,
         UNCHANGED <<day, fires, moved, run>>
  PROVE  Inductive'
<1>1. Shape'
  BY DEF Shape, Inductive, Fits
<1>2. ASSUME NEW s \in Symbols, NEW bar, NEW x PROVE Says(s, bar, x)' <=> Says(s, bar, x)
  BY DEF Says, Verdict
<1>3. BarsAgree'
  BY <1>2 DEF Inductive, BarsAgree
<1>4. NothingAhead'
  BY <1>2 DEF Inductive, NothingAhead
<1>5. KeysDiffer'
  BY DEF Inductive, KeysDiffer, DedupeKeyFor
<1>6. DueIsKept' /\ RunIsSound'
  BY DEF Inductive, DueIsKept, RunIsSound
<1> QED BY <1>1, <1>3, <1>4, <1>5, <1>6 DEF Inductive
-----------------------------------------------------------------------------
(* The start.                                                                *)

LEMMA InitInductive == Init => Inductive
<1> SUFFICES ASSUME Init PROVE Inductive
  OBVIOUS
<1>1. /\ day = 1 /\ fires = Unseen
      /\ run = [r \in Runs |-> NotStarted]
      /\ \/ signals = <<>>
         \/ \E s \in Symbols, rule \in EntryRules : signals = <<OldLot(s, rule)>>
  BY PipelineAssumption, GateAssumption DEF Init
<1> DEFINE U == {Size[s] : s \in Symbols} \cup {0, Zero}
<1>2. NotStarted \in LocalOf(U)
  BY DEF NotStarted, LocalOf, Unseen, Steps, Zero
<1>3. \A s \in Symbols, rule \in EntryRules : OldLot(s, rule) \in RowOf(U)
  BY DEF OldLot, RowOf, AllRules, Rules, Statuses
<1>4. Fits(U)
  <2> HIDE DEF U
  <2>1. \A x \in RowOf(U) : <<x>> \in Seq(RowOf(U))
    OBVIOUS
  <2>2. signals \in Seq(RowOf(U))
    <3>1. CASE signals = <<>>
      BY <3>1
    <3>2. CASE \E s \in Symbols, rule \in EntryRules : signals = <<OldLot(s, rule)>>
      BY <1>3, <2>1, <3>2
    <3> QED BY <1>1, <3>1, <3>2
  <2> QED BY <1>1, <1>2, <2>2 DEF Fits
<1>5. Shape
  BY <1>1, <1>4 DEF Shape, Unseen
<1>6. \A i, j \in DOMAIN signals : i = j
  BY <1>1
<1>7. \A i \in DOMAIN signals : signals[i].bar = 0 /\ signals[i].side = Side(signals[i].rule)
  BY <1>1 DEF OldLot, Side
<1>8. \A r \in Runs : /\ run[r].pc = "idle" /\ run[r].bar = 0 /\ run[r].day = 0
                      /\ run[r].candidates = {} /\ run[r].due = {}
  BY <1>1 DEF NotStarted
<1>9. BarsAgree
  BY <1>1, <1>6, <1>8 DEF BarsAgree, Says, Unseen
<1>10. NothingAhead
  BY <1>1, <1>7, <1>8 DEF NothingAhead, Says, Unseen
<1>11. KeysDiffer /\ DueIsKept /\ RunIsSound
  BY <1>6, <1>7, <1>8 DEF KeysDiffer, DueIsKept, RunIsSound
<1> QED BY <1>5, <1>9, <1>10, <1>11 DEF Inductive
-----------------------------------------------------------------------------
(* A run.                                                                    *)

\* The clock is read.
LEMMA StartRunStep ==
  ASSUME Inductive, NEW r \in Runs, StartRun(r)
  PROVE  Inductive'
<1> DEFINE l == [run[r] EXCEPT !.pc = "started", !.day = day]
<1>1. run[r].pc = "idle" /\ Goto(r, l) /\ UNCHANGED <<day, fires, moved, signals>>
  BY DEF StartRun
<1>2. PICK U : Fits(U)
  BY DEF Inductive, Shape
<1>3. /\ run[r] \in LocalOf(U) /\ day \in Nat
      /\ run[r].bar <= day /\ run[r].candidates = {} /\ run[r].due = {}
  BY <1>1, <1>2, RowsFit DEF Inductive, Shape, NothingAhead, RunIsSound
<1>4. /\ l \in LocalOf(U) /\ l.pc = "started" /\ l.bar = run[r].bar /\ l.day = day
      /\ l.candidates = {} /\ l.due = {}
  BY <1>3 DEF LocalOf, Steps
<1> HIDE DEF l
<1>5. l.bar <= day /\ l.day <= day
  BY <1>3, <1>4
<1> QED BY <1>1, <1>2, <1>4, <1>5, RunMoves

\* The bars are read: what they fire is what they fired, if anybody has looked.
LEMMA ReadBarsStep ==
  ASSUME Inductive, NEW r \in Runs, ReadBars(r)
  PROVE  Inductive'
<1>1. PICK bars \in [Symbols -> Rules \cup {"none"}] :
        /\ \A s \in Symbols : fires[s] \in {"unseen", bars[s]}
        /\ fires' = bars
        /\ run' = [run EXCEPT ![r] = [run[r] EXCEPT !.pc = "fetched", !.bar = day, !.rule = bars]]
  BY DEF ReadBars, Goto
<1>2. run[r].pc = "fetching" /\ UNCHANGED <<day, moved, signals>>
  BY DEF ReadBars
<1>3. PICK U : Fits(U)
  BY DEF Inductive, Shape
<1> DEFINE l == [run[r] EXCEPT !.pc = "fetched", !.bar = day, !.rule = bars]
<1>4. /\ l \in LocalOf(U) /\ l.pc = "fetched" /\ l.bar = day /\ l.rule = bars
      /\ l.day <= day /\ l.candidates = {} /\ l.due = {}
  <2>1. /\ run[r] \in LocalOf(U) /\ run[r].day <= day
        /\ run[r].candidates = {} /\ run[r].due = {}
    BY <1>2, <1>3, RowsFit DEF Inductive, NothingAhead, RunIsSound
  <2>2. day \in Nat
    BY DEF Inductive, Shape
  <2> QED BY <2>1, <2>2 DEF LocalOf, Steps
<1>5. /\ run' \in [Runs -> LocalOf(U)] /\ run'[r] = l
      /\ \A q \in Runs \ {r} : run'[q] = run[q]
  BY <1>1, <1>3, <1>4 DEF Fits
<1> HIDE DEF l
<1>6. Shape'
  BY <1>1, <1>2, <1>3, <1>5 DEF Shape, Inductive, Fits
<1>7. \A s \in Symbols : bars[s] # "unseen"
  BY PipelineAssumption DEF Rules
<1>8. ASSUME NEW s \in Symbols, NEW bar, NEW x, Says(s, bar, x)'
      PROVE  Says(s, bar, x) \/ (bar = day /\ x = Verdict(s, bars[s]))
  <2>1. CASE bar = day' /\ fires'[s] # "unseen" /\ x = Verdict(s, fires[s])'
    BY <1>1, <1>2, <2>1 DEF Verdict
  <2>2. ASSUME NEW q \in Runs, run'[q].pc \in {"fetched", "positioned"}, run'[q].bar = bar,
               x = Verdict(s, run'[q].rule[s])
        PROVE  Says(s, bar, x) \/ (bar = day /\ x = Verdict(s, bars[s]))
    <3>1. CASE q = r
      BY <1>4, <1>5, <2>2, <3>1
    <3>2. CASE q # r
      BY <1>5, <2>2, <3>2 DEF Says
    <3> QED BY <3>1, <3>2
  <2>3. ASSUME NEW q \in Runs, NEW c \in run'[q].candidates, c.symbol = s, c.bar = bar,
               c.quantity # 0, x = c.rule
        PROVE  Says(s, bar, x)
    BY <1>4, <1>5, <2>3 DEF Says
  <2>4. CASE \E i \in DOMAIN signals : /\ signals[i].symbol = s /\ signals[i].bar = bar
                                       /\ x = signals[i].rule
    BY <2>4 DEF Says
  <2> QED BY <1>2, <1>8, <2>1, <2>2, <2>3, <2>4 DEF Says, Verdict
<1>9. ASSUME NEW s \in Symbols, NEW x \in AllRules, Says(s, day, x)
      PROVE  x = Verdict(s, bars[s]) \/ <<s, day>> \in moved
  <2>1. fires[s] # "unseen"
    BY <1>9 DEF Inductive, NothingAhead, AllRules, Shape
  <2>2. fires[s] = bars[s]
    BY <1>1, <2>1
  <2>3. Says(s, day, Verdict(s, bars[s]))
    BY <2>1, <2>2 DEF Says
  <2>4. Verdict(s, bars[s]) \in AllRules /\ day \in 0 .. day
    BY DEF Verdict, AllRules, Rules, Inductive, Shape
  <2> QED BY <1>9, <2>3, <2>4 DEF Inductive, BarsAgree, AllRules
<1>10. BarsAgree'
  <2> SUFFICES ASSUME NEW s \in Symbols, NEW bar \in 0 .. day, NEW x \in AllRules,
                      NEW y \in AllRules, Says(s, bar, x)', Says(s, bar, y)'
               PROVE  x = y \/ <<s, bar>> \in moved
    BY <1>2 DEF BarsAgree, AllRules
  <2>1. CASE Says(s, bar, x) /\ Says(s, bar, y)
    BY <2>1 DEF Inductive, BarsAgree, AllRules
  <2>2. CASE ~ (Says(s, bar, x) /\ Says(s, bar, y))
    BY <1>8, <1>9, <2>2
  <2> QED BY <2>1, <2>2
<1>11. NothingAhead'
  BY <1>1, <1>2, <1>4, <1>5, <1>7 DEF Inductive, NothingAhead, Shape
<1>12. KeysDiffer'
  BY <1>2 DEF Inductive, KeysDiffer, DedupeKeyFor
<1>13. DueIsKept' /\ RunIsSound'
  BY <1>2, <1>4, <1>5 DEF Inductive, DueIsKept, RunIsSound
<1> QED BY <1>6, <1>10, <1>11, <1>12, <1>13 DEF Inductive

\* The positions arrive.
LEMMA ReadPositionsStep ==
  ASSUME Inductive, NEW r \in Runs, ReadPositions(r)
  PROVE  Inductive'
<1> DEFINE held     == [s \in Symbols |-> Held(s)]
           sellable == [s \in Symbols |-> Sellable(s)]
           listed   == {s \in Symbols : Held(s) > 0}
           l == [run[r] EXCEPT !.pc = "positioned", !.listed = listed,
                               !.held = held, !.sellable = sellable]
<1>1. run[r].pc = "fetched" /\ Goto(r, l) /\ UNCHANGED <<day, fires, moved, signals>>
  BY DEF ReadPositions
<1>2. PICK U : {held, sellable} \subseteq U /\ Fits(U)
  BY Widened
<1>3. run[r] \in LocalOf(U) /\ listed \in SUBSET Symbols
  BY <1>2, RowsFit
<1> HIDE DEF held, sellable, listed
<1>4. /\ l \in LocalOf(U) /\ l.pc = "positioned" /\ l.bar = run[r].bar /\ l.day = run[r].day
      /\ l.rule = run[r].rule /\ l.candidates = run[r].candidates /\ l.due = run[r].due
  BY <1>2, <1>3 DEF LocalOf, Steps
<1> HIDE DEF l
<1>5. /\ l.candidates = {} /\ l.due = {} /\ l.bar <= day /\ l.day <= day
      /\ l.rule \in [Symbols -> Rules \cup {"none"}]
  BY <1>1, <1>4 DEF Inductive, RunIsSound, NothingAhead
<1>6. \A s \in Symbols : Says(s, l.bar, Verdict(s, l.rule[s]))
  BY <1>1, <1>4 DEF Says
<1> QED BY <1>1, <1>2, <1>4, <1>5, <1>6, RunMoves

LEMMA EndedFits ==
  ASSUME NEW U, {0, Zero} \subseteq U
  PROVE  NotStarted \in LocalOf(U) /\ Ended \in LocalOf(U)
  BY DEF NotStarted, Ended, LocalOf, Unseen, Steps

\* A run that ends early holds nothing.
LEMMA EndStep ==
  ASSUME Inductive, NEW r \in Runs, Goto(r, Ended), UNCHANGED <<day, fires, moved, signals>>
  PROVE  Inductive'
<1>1. PICK U : {0, Zero} \subseteq U /\ Fits(U)
  BY Widened
<1>2. Ended \in LocalOf(U)
  BY <1>1, EndedFits
<1>3. Ended.pc = "done" /\ Ended.bar = 0 /\ Ended.day = 0 /\ Ended.candidates = {} /\ Ended.due = {}
  BY DEF Ended, NotStarted
<1>4. Ended.bar <= day /\ Ended.day <= day
  BY <1>3 DEF Inductive, Shape
<1> QED BY <1>1, <1>2, <1>3, <1>4, RunMoves

\* What is proposed of a symbol is what its bar says.
LEMMA EvaluateSays ==
  ASSUME Inductive, NEW U, Fits(U), NEW r \in Runs, run[r].pc = "positioned",
         NEW s \in Symbols, {Size[s], run[r].sellable[s]} \subseteq U, NEW c \in Evaluate(r, s)
  PROVE  /\ c \in CandidateOf(U) /\ c.symbol = s /\ c.bar = run[r].bar
         /\ c.side = Side(c.rule)
         /\ c.quantity # 0 => c.rule = Verdict(s, run[r].rule[s])
<1>1. run[r].bar \in Nat /\ run[r].rule[s] \in Rules \cup {"none"}
  BY RowsFit DEF LocalOf, Inductive, RunIsSound
<1>2. ASSUME NEW rule \in AllRules, NEW q \in U, c = Candidate(r, s, rule, q)
      PROVE  /\ c \in CandidateOf(U) /\ c.symbol = s /\ c.bar = run[r].bar
             /\ c.rule = rule /\ c.quantity = q /\ c.side = Side(c.rule)
  BY <1>1, <1>2 DEF Candidate, CandidateOf, Side
<1>3. CASE EvaluateTechnical(r, s) # {}
  <2> DEFINE q == IF run[r].rule[s] \in EntryRules THEN Size[s] ELSE run[r].sellable[s]
  <2>1. /\ run[r].rule[s] # "none" /\ q # 0
        /\ c = Candidate(r, s, run[r].rule[s], q)
    BY <1>3 DEF Evaluate, EvaluateTechnical
  <2>2. run[r].rule[s] \in AllRules /\ q \in U
    BY <1>1, <2>1 DEF AllRules
  <2>3. Verdict(s, run[r].rule[s]) = run[r].rule[s]
    BY <2>1 DEF Verdict
  <2> HIDE DEF q
  <2> QED BY <1>2, <2>1, <2>2, <2>3
<1>4. CASE EvaluateTechnical(r, s) = {}
  <2>1. c = Candidate(r, s, "max_holding_period", run[r].sellable[s])
    BY <1>4 DEF Evaluate, EvaluateExit
  <2>2. run[r].sellable[s] # 0 => Verdict(s, run[r].rule[s]) = "max_holding_period"
    BY <1>1, <1>4 DEF EvaluateTechnical, Verdict
  <2> QED BY <1>2, <2>1, <2>2 DEF AllRules
<1> QED BY <1>3, <1>4

LEMMA ReadSettingsStep ==
  ASSUME Inductive, NEW r \in Runs, ReadSettings(r)
  PROVE  Inductive'
<1> DEFINE l == [run[r] EXCEPT !.pc = "fetching"]
<1>1. /\ run[r].pc = "started" /\ UNCHANGED <<day, fires, moved, signals>>
      /\ Goto(r, Ended) \/ Goto(r, l)
  BY DEF ReadSettings
<1>2. CASE Goto(r, Ended)
  BY <1>1, <1>2, EndStep
<1>3. CASE Goto(r, l)
  <2>1. PICK U : Fits(U)
    BY DEF Inductive, Shape
  <2>2. /\ run[r] \in LocalOf(U) /\ run[r].bar <= day /\ run[r].day <= day
        /\ run[r].candidates = {} /\ run[r].due = {}
    BY <1>1, <2>1, RowsFit DEF Inductive, NothingAhead, RunIsSound
  <2>3. /\ l \in LocalOf(U) /\ l.pc = "fetching" /\ l.bar <= day /\ l.day <= day
        /\ l.candidates = {} /\ l.due = {}
    BY <2>2 DEF LocalOf, Steps
  <2> HIDE DEF l
  <2> QED BY <1>1, <1>3, <2>1, <2>3, RunMoves
<1> QED BY <1>1, <1>2, <1>3

LEMMA EvaluateSymbolsStep ==
  ASSUME Inductive, NEW r \in Runs, EvaluateSymbols(r)
  PROVE  Inductive'
<1> DEFINE candidates == UNION {Evaluate(r, s) : s \in Allowlist}
           due == {c \in candidates : c.rule = "max_holding_period"}
           l == [run[r] EXCEPT !.pc = "evaluated", !.bar = 0, !.rule = Unseen,
                               !.candidates = candidates, !.due = due]
<1>1. /\ run[r].pc = "positioned" /\ UNCHANGED <<day, fires, moved, signals>>
      /\ Goto(r, Ended) \/ Goto(r, l)
  BY DEF EvaluateSymbols
<1>2. CASE Goto(r, Ended)
  BY <1>1, <1>2, EndStep
<1>3. CASE Goto(r, l)
  <2>1. PICK U : {Size[s] : s \in Symbols} \cup {run[r].sellable[s] : s \in Symbols} \subseteq U
                 /\ Fits(U)
    BY Widened
  <2>2. ASSUME NEW c \in candidates
        PROVE  /\ c \in CandidateOf(U) /\ c.bar = run[r].bar /\ c.side = Side(c.rule)
               /\ c.quantity # 0 => Says(c.symbol, c.bar, c.rule)
    <3>1. PICK s \in Symbols : c \in Evaluate(r, s)
      BY GateAssumption
    <3>2. {Size[s], run[r].sellable[s]} \subseteq U
      BY <2>1
    <3>3. /\ c \in CandidateOf(U) /\ c.symbol = s /\ c.bar = run[r].bar
          /\ c.side = Side(c.rule)
          /\ c.quantity # 0 => c.rule = Verdict(s, run[r].rule[s])
      BY <1>1, <2>1, <3>1, <3>2, EvaluateSays
    <3> QED BY <1>1, <3>1, <3>3 DEF Says
  <2>3. candidates \in SUBSET CandidateOf(U) /\ due \subseteq candidates
    BY <2>2
  <2>4. \A c \in due : c.rule = "max_holding_period"
    OBVIOUS
  <2> HIDE DEF candidates, due
  <2>5. run[r] \in LocalOf(U) /\ Unseen \in [Symbols -> Rules \cup {"none", "unseen"}]
    BY <2>1, RowsFit DEF Unseen
  <2>6. /\ l \in LocalOf(U) /\ l.pc = "evaluated" /\ l.bar = 0 /\ l.day = run[r].day
        /\ l.candidates = candidates /\ l.due = due
    BY <2>3, <2>5 DEF LocalOf, Steps
  <2> HIDE DEF l
  <2>7. l.bar <= day /\ l.day <= day
    BY <2>6 DEF Inductive, Shape, NothingAhead
  <2>8. l.pc \notin {"idle", "started", "fetching", "fetched", "positioned", "done"}
    BY <2>6
  <2>9. \A c \in l.candidates :
          /\ c.bar <= day /\ c.side = Side(c.rule)
          /\ c.quantity # 0 => Says(c.symbol, c.bar, c.rule)
    BY <2>2, <2>6 DEF Inductive, NothingAhead
  <2>10. \A c \in l.due : c.rule = "max_holding_period" /\ c \in l.candidates
    BY <2>3, <2>4, <2>6
  <2> QED BY <1>1, <1>3, <2>1, <2>6, <2>7, <2>8, <2>9, <2>10, RunMoves
<1> QED BY <1>1, <1>2, <1>3

\* Candidates are dropped one way or another: those that are due must be
\* dropped from the due ones too, or have a signal.
LEMMA CandidatesDrop ==
  ASSUME Inductive, NEW r \in Runs, NEW U, Fits(U), NEW l \in LocalOf(U), Goto(r, l),
         UNCHANGED <<day, fires, moved, signals>>,
         l.pc \in {"fresh", "quoting", "read", "proposing"}, l.bar <= day, l.day <= day,
         l.candidates \subseteq run[r].candidates, l.due \subseteq run[r].due,
         \A c \in l.due : c \in run[r].candidates => c \in l.candidates \/ DedupeKeyFor(c) \in Keys
  PROVE  Inductive'
<1>1. ASSUME NEW c \in l.candidates
      PROVE  /\ c.bar <= day /\ c.side = Side(c.rule)
             /\ c.quantity # 0 => Says(c.symbol, c.bar, c.rule)
  <2>1. c \in run[r].candidates
    OBVIOUS
  <2> QED BY <2>1 DEF Inductive, NothingAhead, RunIsSound, Says
<1>2. ASSUME NEW c \in l.due
      PROVE  /\ c.rule = "max_holding_period"
             /\ \/ c \in l.candidates
                \/ \E i \in DOMAIN signals :
                     /\ signals[i].symbol = c.symbol /\ signals[i].bar = c.bar
                     /\ signals[i].rule = "max_holding_period"
  <2>1. c \in run[r].due /\ c.rule = "max_holding_period"
    BY DEF Inductive, DueIsKept
  <2>2. CASE DedupeKeyFor(c) \in Keys
    BY <2>1, <2>2 DEF Keys, DedupeKeyFor
  <2>3. CASE ~ (DedupeKeyFor(c) \in Keys)
    BY <2>1, <2>3 DEF Inductive, DueIsKept
  <2> QED BY <2>1, <2>2, <2>3
<1>3. l.pc \notin {"idle", "started", "fetching", "fetched", "positioned", "done"}
  OBVIOUS
<1> QED BY <1>1, <1>2, <1>3, RunMoves

LEMMA FindExistingKeysStep ==
  ASSUME Inductive, NEW r \in Runs, FindExistingKeys(r)
  PROVE  Inductive'
<1> DEFINE fresh == {c \in run[r].candidates : DedupeKeyFor(c) \notin Keys}
           l == [run[r] EXCEPT !.pc = "fresh", !.candidates = fresh]
<1>1. run[r].pc = "evaluated" /\ Goto(r, l) /\ UNCHANGED <<day, fires, moved, signals>>
  BY DEF FindExistingKeys
<1>2. PICK U : Fits(U)
  BY DEF Inductive, Shape
<1>3. run[r] \in LocalOf(U) /\ fresh \subseteq run[r].candidates
  BY <1>2, RowsFit
<1>4. \A c \in run[r].candidates : c \in fresh \/ DedupeKeyFor(c) \in Keys
  OBVIOUS
<1> HIDE DEF fresh
<1>5. /\ l \in LocalOf(U) /\ l.pc = "fresh" /\ l.bar = run[r].bar /\ l.day = run[r].day
      /\ l.candidates = fresh /\ l.due = run[r].due
  BY <1>3 DEF LocalOf, Steps
<1> HIDE DEF l
<1>6. l.bar <= day /\ l.day <= day
  BY <1>5 DEF Inductive, NothingAhead
<1> QED BY <1>1, <1>2, <1>3, <1>4, <1>5, <1>6, CandidatesDrop

LEMMA ReadPendingStep ==
  ASSUME Inductive, NEW r \in Runs, ReadPending(r)
  PROVE  Inductive'
<1> DEFINE pending == [s \in Symbols |-> Shares(Pending(s))]
           l == [run[r] EXCEPT !.pc = "quoting", !.pending = pending]
<1>1. run[r].pc = "fresh" /\ Goto(r, l) /\ UNCHANGED <<day, fires, moved, signals>>
  BY DEF ReadPending
<1>2. PICK U : {pending} \subseteq U /\ Fits(U)
  BY Widened
<1>3. run[r] \in LocalOf(U)
  BY <1>2, RowsFit
<1> HIDE DEF pending
<1>4. /\ l \in LocalOf(U) /\ l.pc = "quoting" /\ l.bar = run[r].bar /\ l.day = run[r].day
      /\ l.candidates = run[r].candidates /\ l.due = run[r].due
  BY <1>2, <1>3 DEF LocalOf, Steps
<1> HIDE DEF l
<1>5. l.bar <= day /\ l.day <= day
  BY <1>4 DEF Inductive, NothingAhead
<1> QED BY <1>1, <1>2, <1>4, <1>5, CandidatesDrop

LEMMA ReadQuotesStep ==
  ASSUME Inductive, NEW r \in Runs, ReadQuotes(r)
  PROVE  Inductive'
<1>1. PICK quoted :
        LET held      == [s \in Symbols |-> IF s \in quoted THEN run[r].held[s] ELSE 0]
            committed == PendingExposure(r, quoted) + OpenExposure(r, quoted)
        IN  Goto(r, [run[r] EXCEPT !.pc = "read", !.listed = {}, !.pending = Zero,
                                   !.held = held, !.committed = committed])
  BY DEF ReadQuotes
<1> DEFINE held      == [s \in Symbols |-> IF s \in quoted THEN run[r].held[s] ELSE 0]
           committed == PendingExposure(r, quoted) + OpenExposure(r, quoted)
           l == [run[r] EXCEPT !.pc = "read", !.listed = {}, !.pending = Zero,
                               !.held = held, !.committed = committed]
<1>2. run[r].pc = "quoting" /\ Goto(r, l) /\ UNCHANGED <<day, fires, moved, signals>>
  BY <1>1 DEF ReadQuotes
<1> HIDE DEF held, committed
<1>3. PICK U : {held, committed, Zero} \subseteq U /\ Fits(U)
  BY Widened
<1>4. run[r] \in LocalOf(U)
  BY <1>3, RowsFit
<1>5. /\ l \in LocalOf(U) /\ l.pc = "read" /\ l.bar = run[r].bar /\ l.day = run[r].day
      /\ l.candidates = run[r].candidates /\ l.due = run[r].due
  BY <1>3, <1>4 DEF LocalOf, Steps
<1> HIDE DEF l
<1>6. l.bar <= day /\ l.day <= day
  BY <1>5 DEF Inductive, NothingAhead
<1> QED BY <1>2, <1>3, <1>5, <1>6, CandidatesDrop

LEMMA GateStep ==
  ASSUME Inductive, NEW r \in Runs, Gate(r)
  PROVE  Inductive'
<1> DEFINE accepted == ApplyRiskCaps(run[r].candidates, GateInputs(r))
           due == run[r].due \ (run[r].candidates \ accepted)
           l == [NotStarted EXCEPT !.pc = "proposing", !.candidates = accepted, !.due = due]
<1>1. run[r].pc = "read" /\ Goto(r, l) /\ UNCHANGED <<day, fires, moved, signals>>
  BY DEF Gate
<1>2. PICK U : {0, Zero} \subseteq U /\ Fits(U)
  BY Widened
<1>3. accepted \subseteq run[r].candidates
  BY DEF ApplyRiskCaps
<1>4. run[r] \in LocalOf(U) /\ NotStarted \in LocalOf(U) /\ NotStarted.bar = 0 /\ NotStarted.day = 0
  BY <1>2, RowsFit, EndedFits DEF NotStarted
<1> HIDE DEF accepted
<1>5. /\ l \in LocalOf(U) /\ l.pc = "proposing" /\ l.bar = 0 /\ l.day = 0
      /\ l.candidates = accepted /\ l.due = due
  BY <1>3, <1>4 DEF LocalOf, Steps
<1> HIDE DEF l
<1>6. l.bar <= day /\ l.day <= day
  BY <1>5 DEF Inductive, Shape
<1> QED BY <1>1, <1>2, <1>3, <1>5, <1>6, CandidatesDrop

\* The next candidate is not inserted: its review failed, or its key is taken.
LEMMA PassOverStep ==
  ASSUME Inductive, NEW r \in Runs, ReviewFails(r) \/ SkipDuplicate(r)
  PROVE  Inductive'
<1>1. PICK c \in run[r].candidates, due \in SUBSET run[r].due :
        /\ NextToPropose(r, c)
        /\ run' = [run EXCEPT ![r] = [run[r] EXCEPT !.candidates = run[r].candidates \ {c},
                                                    !.due = due]]
        /\ \A d \in due : d = c => DedupeKeyFor(c) \in Keys
  <2>1. PICK U : Fits(U)
    BY DEF Inductive, Shape
  <2>2. run[r] \in LocalOf(U)
    BY <2>1, RowsFit
  <2>3. CASE ReviewFails(r)
    <3>1. PICK c \in run[r].candidates :
            /\ NextToPropose(r, c)
            /\ run' = [run EXCEPT ![r] = [run[r] EXCEPT !.candidates = run[r].candidates \ {c},
                                                        !.due = run[r].due \ {c}]]
      BY <2>3 DEF ReviewFails, Goto
    <3>2. \A d \in run[r].due \ {c} : d = c => DedupeKeyFor(c) \in Keys
      OBVIOUS
    <3> WITNESS c \in run[r].candidates, run[r].due \ {c} \in SUBSET run[r].due
    <3> QED BY <3>1, <3>2
  <2>4. CASE SkipDuplicate(r)
    <3>1. PICK c \in run[r].candidates :
            /\ NextToPropose(r, c) /\ Taken(c)
            /\ run' = [run EXCEPT ![r] = [run[r] EXCEPT !.candidates = run[r].candidates \ {c}]]
      BY <2>4 DEF SkipDuplicate, Proposed, Goto
    <3>2. [run[r] EXCEPT !.candidates = run[r].candidates \ {c}]
            = [run[r] EXCEPT !.candidates = run[r].candidates \ {c}, !.due = run[r].due]
      BY <2>2 DEF LocalOf
    <3>3. run' = [run EXCEPT ![r] = [run[r] EXCEPT !.candidates = run[r].candidates \ {c},
                                                  !.due = run[r].due]]
      BY <3>1, <3>2
    <3>4. DedupeKeyFor(c) \in Keys
      BY <3>1 DEF Taken
    <3>5. \A d \in run[r].due : d = c => DedupeKeyFor(c) \in Keys
      BY <3>4
    <3> WITNESS c \in run[r].candidates, run[r].due \in SUBSET run[r].due
    <3> QED BY <3>1, <3>3, <3>5
  <2> QED BY <2>3, <2>4
<1>2. PICK U : Fits(U)
  BY DEF Inductive, Shape
<1> DEFINE rest == run[r].candidates \ {c}
           l == [run[r] EXCEPT !.candidates = rest, !.due = due]
<1>3. run[r] \in LocalOf(U) /\ run[r].pc = "proposing"
  BY <1>1, <1>2, RowsFit DEF NextToPropose
<1>4. /\ l \in LocalOf(U) /\ l.pc = "proposing" /\ l.bar = run[r].bar /\ l.day = run[r].day
      /\ l.candidates = rest /\ l.due = due
  BY <1>3 DEF LocalOf
<1>5. Goto(r, l) /\ UNCHANGED <<day, fires, moved, signals>>
  BY <1>1 DEF Goto, ReviewFails, SkipDuplicate
<1> HIDE DEF l
<1>6. l.bar <= day /\ l.day <= day
  BY <1>4 DEF Inductive, NothingAhead
<1>7. \A d \in l.due : d \in run[r].candidates => d \in l.candidates \/ DedupeKeyFor(d) \in Keys
  BY <1>1, <1>4
<1> QED BY <1>1, <1>2, <1>4, <1>5, <1>6, <1>7, CandidatesDrop

\* A signal of a new key, which its candidate said already.
LEMMA InsertSignalStep ==
  ASSUME Inductive, NEW r \in Runs, InsertSignal(r)
  PROVE  Inductive'
<1>1. PICK c \in run[r].candidates :
        /\ NextToPropose(r, c) /\ c.quantity > 0 /\ DedupeKeyFor(c) \notin Keys
        /\ run' = [run EXCEPT ![r] = [run[r] EXCEPT !.candidates = run[r].candidates \ {c}]]
        /\ signals' = Append(signals, Row(c))
  BY DEF InsertSignal, Reviewed, Taken, Proposed, Goto
<1>2. UNCHANGED <<day, fires, moved>>
  BY DEF InsertSignal
<1>3. PICK U : Fits(U)
  BY DEF Inductive, Shape
<1> DEFINE n == Len(signals) + 1
           l == [run[r] EXCEPT !.candidates = run[r].candidates \ {c}]
<1>4. /\ run[r] \in LocalOf(U) /\ run[r].pc = "proposing" /\ c \in CandidateOf(U)
      /\ DOMAIN signals = 1 .. Len(signals) /\ Len(signals) \in Nat
  BY <1>1, <1>3, RowsFit DEF NextToPropose, LocalOf
<1>5. day \in Nat
  BY DEF Inductive, Shape
<1>6. /\ Row(c) \in RowOf(U) /\ Row(c).symbol = c.symbol /\ Row(c).bar = c.bar
      /\ Row(c).rule = c.rule /\ Row(c).side = c.side
  BY <1>4, <1>5 DEF Row, RowOf, CandidateOf, Statuses
<1>7. /\ signals' \in Seq(RowOf(U)) /\ DOMAIN signals' = DOMAIN signals \cup {n}
      /\ n \notin DOMAIN signals
      /\ signals'[n] = Row(c) /\ \A i \in DOMAIN signals : signals'[i] = signals[i]
  BY <1>1, <1>3, <1>4, <1>6 DEF Fits
<1>8. /\ l \in LocalOf(U) /\ l.pc = run[r].pc /\ l.bar = run[r].bar
      /\ l.day = run[r].day /\ l.rule = run[r].rule
      /\ l.candidates = run[r].candidates \ {c} /\ l.due = run[r].due
  BY <1>4 DEF LocalOf
<1>9. /\ run' \in [Runs -> LocalOf(U)] /\ run'[r] = l
      /\ \A q \in Runs \ {r} : run'[q] = run[q]
  BY <1>1, <1>3, <1>8 DEF Fits
<1> HIDE DEF l, n
<1>10. /\ \A q \in Runs : /\ run'[q].pc = run[q].pc
                          /\ run'[q].bar = run[q].bar /\ run'[q].day = run[q].day
                          /\ run'[q].rule = run[q].rule /\ run'[q].due = run[q].due
                          /\ run'[q].candidates \subseteq run[q].candidates
       /\ \A q \in Runs : \A d \in run[q].candidates : d \in run'[q].candidates \/ d = c
  BY <1>8, <1>9
<1>11. Shape'
  BY <1>2, <1>7, <1>9 DEF Shape, Inductive, Fits
<1>12. Says(c.symbol, c.bar, c.rule)
  BY <1>1 DEF Says
<1>13. ASSUME NEW s \in Symbols, NEW bar, NEW x, Says(s, bar, x)' PROVE Says(s, bar, x)
  <2>1. CASE bar = day /\ fires[s] # "unseen" /\ x = Verdict(s, fires[s])
    BY <2>1 DEF Says
  <2>2. CASE \E q \in Runs : /\ run'[q].pc \in {"fetched", "positioned"} /\ run'[q].bar = bar
                             /\ x = Verdict(s, run'[q].rule[s])
    BY <1>10, <2>2 DEF Says
  <2>3. CASE \E q \in Runs : \E d \in run'[q].candidates :
               d.symbol = s /\ d.bar = bar /\ d.quantity # 0 /\ x = d.rule
    BY <1>10, <2>3 DEF Says
  <2>4. ASSUME NEW i \in DOMAIN signals', signals'[i].symbol = s, signals'[i].bar = bar,
               x = signals'[i].rule
        PROVE  Says(s, bar, x)
    <3>1. CASE i = n
      BY <1>6, <1>7, <1>12, <2>4, <3>1
    <3>2. CASE i # n
      BY <1>7, <2>4, <3>2 DEF Says
    <3> QED BY <3>1, <3>2
  <2> QED BY <1>2, <1>13, <2>1, <2>2, <2>3, <2>4 DEF Says, Verdict
<1>14. BarsAgree'
  BY <1>2, <1>13 DEF Inductive, BarsAgree
<1>15. NothingAhead'
  <2>1. c.bar <= day
    BY DEF Inductive, NothingAhead
  <2>2. \A i \in DOMAIN signals' : signals'[i].bar <= day
    BY <1>6, <1>7, <2>1 DEF Inductive, NothingAhead
  <2>3. \A q \in Runs : /\ run'[q].bar <= day /\ run'[q].day <= day
                      /\ \A d \in run'[q].candidates : d.bar <= day
    BY <1>10 DEF Inductive, NothingAhead
  <2> QED BY <1>2, <1>13, <2>2, <2>3 DEF Inductive, NothingAhead
<1>16. KeysDiffer'
  <2>1. c.side = Side(c.rule)
    BY DEF Inductive, RunIsSound
  <2>2. \A i \in DOMAIN signals' : signals'[i].side = Side(signals'[i].rule)
    BY <1>6, <1>7, <2>1 DEF Inductive, KeysDiffer
  <2>3. DedupeKeyFor(signals'[n]) = DedupeKeyFor(c)
    BY <1>6, <1>7 DEF DedupeKeyFor
  <2>4. \A i \in DOMAIN signals : DedupeKeyFor(signals'[i]) # DedupeKeyFor(c)
    BY <1>1, <1>7 DEF Keys
  <2>5. \A i, j \in DOMAIN signals :
          DedupeKeyFor(signals'[i]) = DedupeKeyFor(signals'[j]) => i = j
    BY <1>7 DEF Inductive, KeysDiffer
  <2>6. \A i, j \in DOMAIN signals' :
          DedupeKeyFor(signals'[i]) = DedupeKeyFor(signals'[j]) => i = j
    BY <1>7, <2>3, <2>4, <2>5
  <2> QED BY <2>2, <2>6 DEF KeysDiffer, DedupeKeyFor
<1>17. DueIsKept'
  <2> SUFFICES ASSUME NEW q \in Runs, NEW d \in run[q].due
               PROVE  /\ d.rule = "max_holding_period"
                      /\ \/ d \in run'[q].candidates
                         \/ \E i \in DOMAIN signals' :
                              /\ signals'[i].symbol = d.symbol /\ signals'[i].bar = d.bar
                              /\ signals'[i].rule = "max_holding_period"
    BY <1>10 DEF DueIsKept
  <2>1. d.rule = "max_holding_period"
    BY DEF Inductive, DueIsKept
  <2>2. CASE d = c
    BY <1>6, <1>7, <2>1, <2>2
  <2>3. CASE d # c
    BY <1>7, <1>10, <2>1, <2>3 DEF Inductive, DueIsKept
  <2> QED BY <2>1, <2>2, <2>3
<1>18. RunIsSound'
  <2> SUFFICES ASSUME NEW q \in Runs
               PROVE  /\ run'[q].pc \in {"fetched", "positioned"} =>
                           run'[q].rule \in [Symbols -> Rules \cup {"none"}]
                      /\ run'[q].pc \in {"idle", "started", "fetching", "fetched",
                                         "positioned"} =>
                           run'[q].candidates = {} /\ run'[q].due = {}
                      /\ run'[q].pc = "done" => run'[q].candidates = {}
                      /\ \A d \in run'[q].candidates : d.side = Side(d.rule)
    BY DEF RunIsSound
  <2> QED BY <1>10 DEF Inductive, RunIsSound
<1> QED BY <1>11, <1>14, <1>15, <1>16, <1>17, <1>18 DEF Inductive

LEMMA EndRunStep ==
  ASSUME Inductive, NEW r \in Runs, EndRun(r)
  PROVE  Inductive'
<1> DEFINE l == [run[r] EXCEPT !.pc = "done"]
<1>1. /\ run[r].pc = "proposing" /\ run[r].candidates = {} /\ Goto(r, l)
      /\ UNCHANGED <<day, fires, moved, signals>>
  BY DEF EndRun
<1>2. PICK U : Fits(U)
  BY DEF Inductive, Shape
<1>3. run[r] \in LocalOf(U)
  BY <1>2, RowsFit
<1>4. /\ l \in LocalOf(U) /\ l.pc = "done" /\ l.bar = run[r].bar /\ l.day = run[r].day
      /\ l.candidates = {} /\ l.due = run[r].due
  BY <1>1, <1>3 DEF LocalOf, Steps
<1> HIDE DEF l
<1>5. l.bar <= day /\ l.day <= day
  BY <1>4 DEF Inductive, NothingAhead
<1>6. \A c \in l.due :
        /\ c.rule = "max_holding_period"
        /\ \/ c \in l.candidates
           \/ \E i \in DOMAIN signals :
                /\ signals[i].symbol = c.symbol /\ signals[i].bar = c.bar
                /\ signals[i].rule = "max_holding_period"
  BY <1>1, <1>4 DEF Inductive, DueIsKept
<1> QED BY <1>1, <1>2, <1>4, <1>5, <1>6, RunMoves

LEMMA RunStepInductive ==
  ASSUME Inductive, NEW r \in Runs, RunStep(r)
  PROVE  Inductive'
<1>1. CASE Abort(r)
  BY <1>1, EndStep DEF Abort
<1> QED BY <1>1, StartRunStep, ReadSettingsStep, ReadBarsStep, ReadPositionsStep,
           EvaluateSymbolsStep, FindExistingKeysStep, ReadPendingStep, ReadQuotesStep, GateStep,
           PassOverStep, InsertSignalStep, EndRunStep DEF RunStep
-----------------------------------------------------------------------------
(* What goes on around it.                                                   *)

LEMMA FromFunction ==
  ASSUME NEW S, NEW n \in Nat, NEW q \in [1 .. n -> S]
  PROVE  q \in Seq(S)
  OBVIOUS

\* What identifies a signal.
SameTrade(x, y) ==
  x.symbol = y.symbol /\ x.bar = y.bar /\ x.rule = y.rule /\ x.side = y.side

LEMMA RowUpdate ==
  ASSUME NEW U, NEW x \in RowOf(U), NEW status \in Statuses, NEW stamp \in Nat,
         NEW y \in {x, [x EXCEPT !.status = status], [x EXCEPT !.stamp = stamp],
                    [x EXCEPT !.status = status, !.stamp = stamp]}
  PROVE  y \in RowOf(U) /\ SameTrade(y, x)
  BY DEF RowOf, SameTrade

\* A signal changes its status, or a lot its newest row.
LEMMA RowsChange ==
  ASSUME Inductive, NEW U, Fits(U), UNCHANGED <<day, fires, moved, run>>,
         signals' = [i \in DOMAIN signals |-> signals'[i]],
         \A i \in DOMAIN signals : signals'[i] \in RowOf(U) /\ SameTrade(signals'[i], signals[i])
  PROVE  Inductive'
<1>1. Len(signals) \in Nat /\ DOMAIN signals = 1 .. Len(signals)
  BY RowsFit
<1>2. signals' \in [1 .. Len(signals) -> RowOf(U)]
  BY <1>1
<1>3. signals' \in Seq(RowOf(U))
  BY <1>1, <1>2, FromFunction
<1>4. DOMAIN signals' = DOMAIN signals
  BY <1>1, <1>2
<1> QED BY <1>3, <1>4, RowsKeep DEF SameTrade

LEMMA SignalStepInductive ==
  ASSUME Inductive, NEW i \in DOMAIN signals, SignalStep(i)
  PROVE  Inductive'
<1>1. PICK U : Fits(U)
  BY DEF Inductive, Shape
<1>2. \A j \in DOMAIN signals : signals[j] \in RowOf(U) /\ SameTrade(signals[j], signals[j])
  BY <1>1, RowsFit DEF SameTrade
<1>3. day \in Nat
  BY DEF Inductive, Shape
<1>4. UNCHANGED <<day, fires, moved, run>>
  BY DEF SignalStep, Approve, Drop, Trade, OpenLot, CloseLots
<1>5. ASSUME NEW y, y \in RowOf(U) /\ SameTrade(y, signals[i]),
             signals' = [signals EXCEPT ![i] = y]
      PROVE  Inductive'
  <2>1. /\ signals' = [j \in DOMAIN signals |-> signals'[j]]
        /\ \A j \in DOMAIN signals : signals'[j] = IF j = i THEN y ELSE signals[j]
    BY <1>5
  <2> QED BY <1>1, <1>2, <1>4, <1>5, <2>1, RowsChange
<1>6. CASE Approve(i) \/ Drop(i) \/ Trade(i)
  <2>1. PICK x \in Statuses : signals' = [signals EXCEPT ![i] = [signals[i] EXCEPT !.status = x]]
    BY <1>6 DEF Approve, Drop, Trade, Become, Statuses
  <2>2. LET y == [signals[i] EXCEPT !.status = x]
        IN  y \in RowOf(U) /\ SameTrade(y, signals[i])
    BY <1>2, <1>3, RowUpdate
  <2> QED BY <1>5, <2>1, <2>2
<1>7. CASE OpenLot(i)
  <2>1. signals' = [signals EXCEPT ![i] = [signals[i] EXCEPT !.status = "open", !.stamp = day]]
    BY <1>7 DEF OpenLot
  <2>2. LET y == [signals[i] EXCEPT !.status = "open", !.stamp = day]
        IN  y \in RowOf(U) /\ SameTrade(y, signals[i])
    BY <1>2, <1>3, RowUpdate DEF Statuses
  <2> QED BY <1>5, <2>1, <2>2
<1>8. CASE CloseLots(i)
  <2>1. PICK chosen :
          signals' = [j \in DOMAIN signals |->
            IF j \in chosen THEN [signals[j] EXCEPT !.status = "closed"]
            ELSE IF j = i THEN [signals[j] EXCEPT !.status = "filled"] ELSE signals[j]]
    BY <1>8 DEF CloseLots
  <2>2. "closed" \in Statuses /\ "filled" \in Statuses
    BY DEF Statuses
  <2>3. ASSUME NEW j \in DOMAIN signals
        PROVE  signals'[j] \in RowOf(U) /\ SameTrade(signals'[j], signals[j])
    <3>1. signals'[j] \in {signals[j], [signals[j] EXCEPT !.status = "closed"],
                           [signals[j] EXCEPT !.status = "filled"]}
      BY <2>1
    <3> QED BY <1>2, <1>3, <2>2, <3>1, RowUpdate
  <2>4. signals' = [j \in DOMAIN signals |-> signals'[j]]
    BY <2>1
  <2> QED BY <1>1, <1>4, <2>3, <2>4, RowsChange
<1> QED BY <1>6, <1>7, <1>8 DEF SignalStep

LEMMA MarkStep ==
  ASSUME Inductive, Mark
  PROVE  Inductive'
<1>1. signals' = [i \in DOMAIN signals |->
        IF signals[i].status = "open" THEN [signals[i] EXCEPT !.stamp = day] ELSE signals[i]]
  BY DEF Mark
<1>2. PICK U : Fits(U)
  BY DEF Inductive, Shape
<1>3. day \in Nat /\ UNCHANGED <<day, fires, moved, run>>
  BY DEF Inductive, Shape, Mark
<1>4. ASSUME NEW i \in DOMAIN signals
      PROVE  signals'[i] \in RowOf(U) /\ SameTrade(signals'[i], signals[i])
  <2>1. signals'[i] \in {signals[i], [signals[i] EXCEPT !.stamp = day]}
    BY <1>1
  <2>2. signals[i] \in RowOf(U) /\ "open" \in Statuses
    BY <1>2, RowsFit DEF Statuses
  <2> QED BY <1>3, <2>1, <2>2, RowUpdate
<1>5. signals' = [i \in DOMAIN signals |-> signals'[i]]
  BY <1>1
<1> QED BY <1>2, <1>3, <1>4, <1>5, RowsChange

\* Nobody has said anything of the bar that begins.
LEMMA NewDayStep ==
  ASSUME Inductive, NewDay
  PROVE  Inductive'
<1>1. day \in Nat /\ day' = day + 1 /\ fires' = Unseen /\ UNCHANGED <<moved, signals, run>>
  BY DEF Inductive, Shape, NewDay
<1>2. PICK U : Fits(U)
  BY DEF Inductive, Shape
<1>3. \A r \in Runs : /\ run[r].bar \in Nat /\ run[r].day \in Nat
                      /\ \A c \in run[r].candidates : c.bar \in Nat
  BY <1>2, RowsFit DEF LocalOf, CandidateOf
<1>4. \A i \in DOMAIN signals : signals[i].bar \in Nat
  BY <1>2, RowsFit DEF RowOf
<1>5. ASSUME NEW s \in Symbols, NEW bar, NEW x, Says(s, bar, x)'
      PROVE  Says(s, bar, x) /\ bar <= day
  <2>1. fires'[s] = "unseen"
    BY <1>1 DEF Unseen
  <2>2. Says(s, bar, x)
    BY <1>1, <1>5, <2>1 DEF Says, Verdict
  <2>3. bar <= day
    BY <1>1, <1>5, <2>1 DEF Says, Inductive, NothingAhead
  <2> QED BY <2>2, <2>3
<1>6. Shape'
  BY <1>1, <1>2 DEF Shape, Fits, Unseen
<1>7. BarsAgree'
  <2> SUFFICES ASSUME NEW s \in Symbols, NEW bar \in 0 .. (day + 1), NEW x \in AllRules,
                      NEW y \in AllRules, Says(s, bar, x)', Says(s, bar, y)'
               PROVE  x = y \/ <<s, bar>> \in moved
    BY <1>1 DEF BarsAgree, AllRules
  <2>1. Says(s, bar, x) /\ Says(s, bar, y) /\ bar \in 0 .. day
    BY <1>1, <1>5
  <2> QED BY <2>1 DEF Inductive, BarsAgree, AllRules
<1>8. NothingAhead'
  <2>1. ASSUME NEW s \in Symbols, NEW bar \in 0 .. day', NEW x \in AllRules, Says(s, bar, x)'
        PROVE  bar < day'
    BY <1>1, <1>5, <2>1
  <2>2. \A r \in Runs : /\ run[r].bar <= day + 1 /\ run[r].day <= day + 1
                        /\ \A c \in run[r].candidates : c.bar <= day + 1
    BY <1>1, <1>3 DEF Inductive, NothingAhead
  <2>3. \A i \in DOMAIN signals : signals[i].bar <= day + 1
    BY <1>1, <1>4 DEF Inductive, NothingAhead
  <2> QED BY <1>1, <2>1, <2>2, <2>3 DEF NothingAhead, AllRules
<1>9. KeysDiffer' /\ DueIsKept' /\ RunIsSound'
  BY <1>1 DEF Inductive, KeysDiffer, DedupeKeyFor, DueIsKept, RunIsSound
<1> QED BY <1>6, <1>7, <1>8, <1>9 DEF Inductive

\* A bar that is revised is not one the promise is about.
LEMMA BarMovesStep ==
  ASSUME Inductive, NEW z \in Symbols, BarMoves(z)
  PROVE  Inductive'
<1>1. PICK rule \in Rules \cup {"none"} : fires' = [fires EXCEPT ![z] = rule]
  BY DEF BarMoves
<1>2. /\ moved' = moved \cup {<<z, day>>} /\ fires[z] # "unseen"
      /\ UNCHANGED <<day, signals, run>>
  BY DEF BarMoves
<1>3. fires \in [Symbols -> Rules \cup {"none", "unseen"}] /\ rule # "unseen"
  BY PipelineAssumption DEF Inductive, Shape, Rules
<1>4. Shape'
  BY <1>1, <1>2, <1>3 DEF Inductive, Shape, Fits
<1>5. ASSUME NEW s \in Symbols, NEW bar, NEW x, Says(s, bar, x)'
      PROVE  Says(s, bar, x) \/ <<s, bar>> = <<z, day>>
  <2>1. s # z => fires'[s] = fires[s]
    BY <1>1, <1>3
  <2> QED BY <1>2, <1>5, <2>1 DEF Says, Verdict
<1>6. BarsAgree'
  <2> SUFFICES ASSUME NEW s \in Symbols, NEW bar \in 0 .. day, NEW x \in AllRules,
                      NEW y \in AllRules, Says(s, bar, x)', Says(s, bar, y)'
               PROVE  x = y \/ <<s, bar>> \in moved'
    BY <1>2 DEF BarsAgree, AllRules
  <2>1. CASE <<s, bar>> = <<z, day>>
    BY <1>2, <2>1
  <2>2. CASE <<s, bar>> # <<z, day>>
    BY <1>2, <1>5, <2>2 DEF Inductive, BarsAgree, AllRules
  <2> QED BY <2>1, <2>2
<1>7. NothingAhead'
  <2>1. ASSUME NEW s \in Symbols, fires'[s] = "unseen", NEW bar \in 0 .. day,
               NEW x \in AllRules, Says(s, bar, x)'
        PROVE  bar < day
    <3>1. s # z /\ fires[s] = "unseen"
      BY <1>1, <1>3, <2>1
    <3> QED BY <1>5, <2>1, <3>1 DEF Inductive, NothingAhead, AllRules
  <2> QED BY <1>2, <2>1 DEF Inductive, NothingAhead, AllRules
<1>8. KeysDiffer' /\ DueIsKept' /\ RunIsSound'
  BY <1>2 DEF Inductive, KeysDiffer, DedupeKeyFor, DueIsKept, RunIsSound
<1> QED BY <1>4, <1>6, <1>7, <1>8 DEF Inductive

LEMMA StepInductive ==
  ASSUME Inductive, [Next]_vars
  PROVE  Inductive'
<1>1. CASE UNCHANGED vars
  <2>1. ASSUME NEW s \in Symbols, NEW bar, NEW x PROVE Says(s, bar, x)' <=> Says(s, bar, x)
    BY <1>1 DEF vars, Says, Verdict
  <2>2. Shape' /\ KeysDiffer' /\ DueIsKept' /\ RunIsSound'
    BY <1>1 DEF vars, Inductive, Shape, Fits, KeysDiffer, DedupeKeyFor, DueIsKept, RunIsSound
  <2>3. BarsAgree' /\ NothingAhead'
    BY <1>1, <2>1 DEF vars, Inductive, BarsAgree, NothingAhead
  <2> QED BY <2>2, <2>3 DEF Inductive
<1> QED BY <1>1, RunStepInductive, SignalStepInductive, MarkStep, NewDayStep, BarMovesStep
        DEF Next
-----------------------------------------------------------------------------
\* What a bar says is said once and for all, keys are unique, and nothing due
\* is lost between the reads of a run and its end (pipeline.ts).
THEOREM InductiveHolds == Spec => []Inductive
<1>1. Init => Inductive
  BY InitInductive
<1>2. Inductive /\ [Next]_vars => Inductive'
  BY StepInductive
<1> QED BY <1>1, <1>2, PTL DEF Spec

\* However many runs see a bar, and however they interleave with each other and
\* with decisions, it proposes one trade of its symbol (findExistingKeys).
THEOREM BarsProposeOnce == Spec => []OneProposalPerBar
<1>1. Inductive => OneProposalPerBar
  <2> SUFFICES ASSUME Inductive, NEW i \in DOMAIN signals, NEW j \in DOMAIN signals, i # j,
                      signals[i].symbol = signals[j].symbol, signals[i].bar = signals[j].bar
               PROVE  <<signals[i].symbol, signals[i].bar>> \in moved
    BY DEF OneProposalPerBar
  <2>1. PICK U : Fits(U)
    BY DEF Inductive, Shape
  <2>2. signals[i] \in RowOf(U) /\ signals[j] \in RowOf(U) /\ day \in Nat
    BY <2>1, RowsFit DEF Inductive, Shape
  <2>3. signals[i].symbol \in Symbols /\ signals[i].bar \in 0 .. day
        /\ signals[i].rule \in AllRules /\ signals[j].rule \in AllRules
    BY <2>2 DEF RowOf, Inductive, NothingAhead
  <2>4. /\ Says(signals[i].symbol, signals[i].bar, signals[i].rule)
        /\ Says(signals[i].symbol, signals[i].bar, signals[j].rule)
    BY DEF Says
  <2>5. signals[i].rule # signals[j].rule
    BY DEF Inductive, KeysDiffer, DedupeKeyFor
  <2> QED BY <2>3, <2>4, <2>5 DEF Inductive, BarsAgree, AllRules
<1> QED BY <1>1, InductiveHolds, PTL

\* A due time stop ends as a signal, unless its gate or its review refused it
\* (pipeline.ts:184-192).
THEOREM DueExitsAreProposed == Spec => []DueExitsProposed
<1>1. Inductive => DueExitsProposed
  BY DEF Inductive, DueIsKept, RunIsSound, DueExitsProposed
<1> QED BY <1>1, InductiveHolds, PTL
============================================================================
