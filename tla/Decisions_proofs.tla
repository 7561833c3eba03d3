-------------------------- MODULE Decisions_proofs --------------------------
(***************************************************************************)
(* What holds of Decisions for every set of signals and handlers, every    *)
(* assignment of symbols and sides, and both deploy-time gates.  Inductive *)
(* is shown to be kept by every action; the safety properties follow from  *)
(* it, and so does the step of the refinement to SignalRecord.             *)
(***************************************************************************)
EXTENDS Decisions, Sums, TLAPS

-----------------------------------------------------------------------------
(* How a handler's record moves.                                            *)

Frame(d) == \A e \in Deciders \ {d} : handler'[e] = handler[e]

\* A move to a program counter keeps everything else of the handler.
LEMMA GotoMoves ==
  ASSUME HandlerTypeOK, NEW d \in Deciders, NEW l \in DecidePcs \cup ExecutePcs, Goto(d, l)
  PROVE  /\ HandlerTypeOK' /\ Frame(d)
         /\ handler'[d].pc = l /\ handler'[d].job = handler[d].job
         /\ handler'[d].say = handler[d].say /\ handler'[d].todo = handler[d].todo
         /\ handler'[d].chosen = handler[d].chosen
  BY DEF HandlerTypeOK, Goto, Frame

\* Entering a program counter sets everything of the handler.
LEMMA EnterMoves ==
  ASSUME HandlerTypeOK, NEW d \in Deciders, NEW l \in {"idle"} \cup DecidePcs \cup ExecutePcs,
         NEW s \in Signals \cup {NoSignal},
         NEW say \in {"none", "reject", "approve", "confirm", "auto"},
         NEW due \in SUBSET Signals, Enter(d, l, s, say, due)
  PROVE  /\ HandlerTypeOK' /\ Frame(d)
         /\ handler'[d].pc = l /\ handler'[d].job = s /\ handler'[d].say = say
         /\ handler'[d].todo = due /\ handler'[d].chosen = {}
  BY DEF HandlerTypeOK, Enter, Frame

\* A handler that finishes or leaves has no job, and nothing new to do.
LEMMA FinishMoves ==
  ASSUME HandlerTypeOK, NEW d \in Deciders, Finish(d) \/ Leave(d)
  PROVE  /\ HandlerTypeOK' /\ Frame(d)
         /\ handler'[d].pc \in {"idle", "sweeping"} /\ handler'[d].say = "none"
         /\ handler'[d].todo \subseteq handler[d].todo
<1>1. handler[d].todo \in SUBSET Signals
  BY DEF HandlerTypeOK
<1>2. CASE Leave(d)
  <2>1. Enter(d, "idle", NoSignal, "none", {})
    BY <1>2 DEF Leave
  <2> QED
    BY <2>1, EnterMoves
<1>3. CASE Finish(d)
  <2> DEFINE l == IF d \in Sweeps THEN "sweeping" ELSE "idle"
  <2>1. Enter(d, l, NoSignal, "none", handler[d].todo) /\ l \in {"idle", "sweeping"}
    BY <1>3 DEF Finish
  <2> HIDE DEF l
  <2> QED
    BY <1>1, <2>1, EnterMoves DEF DecidePcs
<1> QED
  BY <1>2, <1>3
-----------------------------------------------------------------------------
(* Steps that change one handler and nothing else.                          *)

Quiet == UNCHANGED <<tableVars, recordVars, brokerVars, settingVars, run, halted>>

HandlerInv(d) == AgendaInv(d) /\ ExecutorInv(d) /\ ChosenInv(d)

JobOK(d) ==
  IF handler[d].pc \in {"idle", "listing", "sweeping"} THEN handler[d].say = "none"
  ELSE Job(d) \in Signals /\ status[Job(d)] # "none" /\ handler[d].say # "none"

\* A quiet step keeps the invariant when its handler ends well placed and does
\* not become a second executor.
LEMMA QuietStep ==
  ASSUME Inductive, NEW d \in Deciders, Quiet, Frame(d), HandlerTypeOK',
         JobOK(d)', HandlerInv(d)',
         Executing(d)' => Executing(d) /\ Job(d)' = Job(d)
  PROVE  Inductive'
<1>1. TablesTypeOK' /\ RunTypeOK'
  BY DEF Inductive, TypeOK, TablesTypeOK, RunTypeOK, Quiet, tableVars, recordVars, brokerVars
<1>2. SettingsTypeOK'
  BY DEF Inductive, TypeOK, SettingsTypeOK, Quiet, settingVars
<1>3. ASSUME NEW e \in Deciders PROVE JobOK(e)' /\ HandlerInv(e)'
  <2>1. CASE e = d
    BY <2>1
  <2>2. CASE e # d
    <3>1. handler'[e] = handler[e]
      BY <2>2 DEF Frame
    <3>2. JobOK(e) /\ HandlerInv(e)
      BY DEF Inductive, TypeOK, JobTypeOK, JobOK, HandlerInv
    <3> QED
      BY <3>1, <3>2 DEF JobOK, HandlerInv, AgendaInv, ExecutorInv, ChosenInv, Job, At,
        Executing, Quiet, tableVars, recordVars
  <2> QED
    BY <2>1, <2>2
<1>4. \A s \in Signals : SignalInv(s)'
  BY DEF Inductive, SignalInv, Quiet, tableVars, recordVars, brokerVars, settingVars
<1>5. OneExecutor'
  <2>1. \A e \in Deciders : Executing(e)' => Executing(e) /\ Job(e)' = Job(e)
    BY DEF Frame, Executing, Job
  <2> QED
    BY <2>1 DEF Inductive, OneExecutor
<1>6. PositionsAreBacked'
  BY DEF Inductive, PositionsAreBacked, Quiet, tableVars, recordVars
<1> QED
  BY <1>1, <1>2, <1>3, <1>4, <1>5, <1>6
  DEF Inductive, TypeOK, JobTypeOK, JobOK, HandlerInv

\* Giving up, finishing and crashing are quiet and leave nobody misplaced.
LEMMA QuietFinish ==
  ASSUME Inductive, NEW d \in Deciders, Quiet, Finish(d) \/ Leave(d)
  PROVE  Inductive'
<1>1. /\ HandlerTypeOK' /\ Frame(d)
      /\ handler'[d].pc \in {"idle", "sweeping"} /\ handler'[d].say = "none"
      /\ handler'[d].todo \subseteq handler[d].todo
  BY FinishMoves DEF Inductive, TypeOK
<1>2. JobOK(d)' /\ ~Executing(d)'
  BY <1>1 DEF JobOK, Executing, ExecutePcs
<1>3. AgendaInv(d)' /\ ChosenInv(d)' /\ ExecutorInv(d)'
  BY <1>1, <1>2 DEF Inductive, AgendaInv, ChosenInv, ExecutorInv, Quiet, tableVars
<1> QED
  BY <1>1, <1>2, <1>3, QuietStep DEF HandlerInv

\* A quiet move to l: what l asks of the handler is all there is to show.
LEMMA QuietGoto ==
  ASSUME Inductive, NEW d \in Deciders, Quiet,
         NEW l \in (DecidePcs \ {"listing", "sweeping"}) \cup ExecutePcs, Goto(d, l),
         handler[d].pc \notin {"idle", "listing", "sweeping"},
         l \in ExecutePcs => Executing(d),
         HandlerInv(d)'
  PROVE  Inductive'
<1>1. /\ HandlerTypeOK' /\ Frame(d)
      /\ handler'[d].pc = l /\ handler'[d].job = handler[d].job
      /\ handler'[d].say = handler[d].say
  BY GotoMoves DEF Inductive, TypeOK
<1>2. JobOK(d)'
  BY <1>1 DEF Inductive, TypeOK, JobTypeOK, JobOK, Job, Quiet, tableVars, DecidePcs, ExecutePcs
<1>3. Executing(d)' => Executing(d) /\ Job(d)' = Job(d)
  BY <1>1 DEF Executing, Job
<1> QED
  BY <1>1, <1>2, <1>3, QuietStep

\* A request that arrives takes up a pending signal and nothing else.
LEMMA ReceiveRequestStep ==
  ASSUME Inductive, NEW d \in Deciders, ReceiveRequest(d) PROVE Inductive'
<1>1. PICK s \in Signals, say \in {"reject", "approve", "confirm"} :
        /\ status[s] = "pending"
        /\ Enter(d, IF say = "reject" THEN "transition" ELSE "preflight", s, say, {})
  BY DEF ReceiveRequest
<1> DEFINE l == IF say = "reject" THEN "transition" ELSE "preflight"
<1>2. Quiet /\ l \in DecidePcs
  BY DEF ReceiveRequest, Quiet, DecidePcs
<1>3. /\ HandlerTypeOK' /\ Frame(d)
      /\ handler'[d].pc = l /\ handler'[d].job = s /\ handler'[d].say = say
      /\ handler'[d].todo = {}
  <2> HIDE DEF l
  <2> QED
    BY <1>1, <1>2, EnterMoves DEF l, Inductive, TypeOK
<1>4. JobOK(d)' /\ HandlerInv(d)' /\ ~Executing(d)'
  BY <1>1, <1>2, <1>3 DEF JobOK, Job, HandlerInv, AgendaInv, ChosenInv, ExecutorInv, Executing,
    ExecutePcs, Quiet, tableVars
<1> QED
  BY <1>2, <1>3, <1>4, QuietStep

\* The command line takes up a pending signal, and a live one never on a bare
\* approve.
LEMMA RunCliStep ==
  ASSUME Inductive, NEW d \in Deciders, RunCli(d) PROVE Inductive'
<1>1. PICK s \in Signals, say \in {"reject", "approve", "confirm"} :
        /\ status[s] = "pending" /\ (mode[s] = "live" => say # "approve")
        /\ Enter(d, "transition", s, say, {})
  BY DEF RunCli
<1>2. Quiet
  BY DEF RunCli, Quiet
<1>3. /\ HandlerTypeOK' /\ Frame(d)
      /\ handler'[d].pc = "transition" /\ handler'[d].job = s /\ handler'[d].say = say
      /\ handler'[d].todo = {}
  <2>1. HandlerTypeOK
    BY DEF Inductive, TypeOK
  <2>2. "transition" \in DecidePcs
    BY DEF DecidePcs
  <2> QED
    BY <1>1, <2>1, <2>2, EnterMoves
<1>4. JobOK(d)' /\ HandlerInv(d)' /\ ~Executing(d)'
  BY <1>1, <1>2, <1>3 DEF JobOK, Job, HandlerInv, AgendaInv, ChosenInv, ExecutorInv, Executing,
    ExecutePcs, Quiet, tableVars
<1> QED
  BY <1>2, <1>3, <1>4, QuietStep

\* A sweep that fires under autonomy has nothing on its list yet.
LEMMA FireSweepStep ==
  ASSUME Inductive, NEW d \in Deciders, FireSweep(d) PROVE Inductive'
<1>1. Enter(d, "listing", NoSignal, "none", {}) /\ Quiet /\ AutonomyEnabled
  BY DEF FireSweep, Quiet
<1>2. /\ HandlerTypeOK' /\ Frame(d)
      /\ handler'[d].pc = "listing" /\ handler'[d].say = "none" /\ handler'[d].todo = {}
  <2>1. HandlerTypeOK
    BY DEF Inductive, TypeOK
  <2>2. "listing" \in DecidePcs
    BY DEF DecidePcs
  <2> QED
    BY <1>1, <2>1, <2>2, EnterMoves
<1>3. JobOK(d)' /\ HandlerInv(d)' /\ ~Executing(d)'
  BY <1>1, <1>2 DEF JobOK, HandlerInv, AgendaInv, ChosenInv, ExecutorInv, Executing, ExecutePcs
<1> QED
  BY <1>1, <1>2, <1>3, QuietStep

\* It lists pending signals born under autonomy.
LEMMA ListDueStep ==
  ASSUME Inductive, NEW d \in Deciders, ListDue(d) PROVE Inductive'
<1>1. PICK due \in SUBSET {s \in Signals : status[s] = "pending" /\ auto[s]} :
        IF due = {} THEN Leave(d) ELSE Enter(d, "sweeping", NoSignal, "none", due)
  BY DEF ListDue
<1>2. Quiet
  BY DEF ListDue, Quiet
<1>5. AutonomyEnabled
  BY DEF ListDue, At, Inductive, AgendaInv
<1>3. CASE due = {}
  BY <1>1, <1>2, <1>3, QuietFinish
<1>4. CASE due # {}
  <2>1. /\ HandlerTypeOK' /\ Frame(d)
        /\ handler'[d].pc = "sweeping" /\ handler'[d].say = "none" /\ handler'[d].todo = due
    <3>1. due \in SUBSET Signals /\ "sweeping" \in DecidePcs /\ HandlerTypeOK
      BY DEF DecidePcs, Inductive, TypeOK
    <3>2. Enter(d, "sweeping", NoSignal, "none", due)
      BY <1>1, <1>4
    <3> QED
      BY <3>1, <3>2, EnterMoves
  <2>2. \A s \in due : AutonomyEnabled /\ auto'[s] /\ status'[s] # "none"
    <3>1. status' = status /\ auto' = auto
      BY <1>2 DEF Quiet, tableVars
    <3>2. \A s \in due : auto[s] /\ status[s] = "pending"
      BY <1>1
    <3> QED
      BY <3>1, <3>2, <1>5
  <2>3. JobOK(d)' /\ HandlerInv(d)' /\ ~Executing(d)'
    BY <2>1, <2>2 DEF JobOK, HandlerInv, AgendaInv, ChosenInv, ExecutorInv, Executing, ExecutePcs
  <2> QED
    BY <1>2, <2>1, <2>3, QuietStep
<1> QED
  BY <1>3, <1>4

\* A sweep that takes the next signal off its list knows what it listed.
LEMMA TakeDueStep ==
  ASSUME Inductive, NEW d \in Deciders, TakeDue(d) PROVE Inductive'
<1>1. PICK s \in handler[d].todo :
        Enter(d, IF IsSell(s) THEN "preflightLots" ELSE "transition", s, "auto",
              handler[d].todo \ {s})
  BY DEF TakeDue
<1> DEFINE l == IF IsSell(s) THEN "preflightLots" ELSE "transition"
<1>2. Quiet /\ l \in {"preflightLots", "transition"}
  BY DEF TakeDue, Quiet
<1>3. s \in Signals /\ handler[d].todo \in SUBSET Signals
  BY DEF Inductive, TypeOK, HandlerTypeOK
<1>4. AutonomyEnabled /\ auto[s] /\ status[s] # "none"
  BY DEF Inductive, AgendaInv
<1>5. /\ HandlerTypeOK' /\ Frame(d)
      /\ handler'[d].pc = l /\ handler'[d].job = s /\ handler'[d].say = "auto"
      /\ handler'[d].todo = handler[d].todo \ {s}
  <2> HIDE DEF l
  <2> QED
    BY <1>1, <1>2, <1>3, EnterMoves DEF l, Inductive, TypeOK, DecidePcs
<1>6. JobOK(d)' /\ ~Executing(d)'
  BY <1>2, <1>3, <1>4, <1>5 DEF JobOK, Job, Executing, ExecutePcs, Quiet, tableVars
<1>7. AgendaInv(d)'
  BY <1>2, <1>4, <1>5 DEF Inductive, AgendaInv, Job, Quiet, tableVars
<1>8. ChosenInv(d)' /\ ExecutorInv(d)'
  BY <1>2, <1>5, <1>6 DEF ChosenInv, ExecutorInv
<1> QED
  BY <1>2, <1>5, <1>6, <1>7, <1>8, QuietStep DEF HandlerInv

\* The guards on the way to transitionSignal and to the executor's writes.
LEMMA GuardStep ==
  ASSUME Inductive, NEW d \in Deciders,
         \/ Preflight(d) \/ PreflightLots(d) \/ AssertKillSwitchOff(d) \/ SelectLots(d)
         \/ CheckLots(d) \/ LiveGates(d) \/ LiveLots(d)
  PROVE  Inductive'
<1>1. Quiet /\ handler[d].pc \notin {"idle", "listing", "sweeping"}
  BY DEF Preflight, PreflightLots, AssertKillSwitchOff, SelectLots, CheckLots, LiveGates,
    LiveLots, Quiet, At
<1>2. HandlerTypeOK /\ HandlerInv(d) /\ JobOK(d)
  BY DEF Inductive, TypeOK, JobTypeOK, JobOK, HandlerInv
<1>3. CASE Finish(d)
  BY <1>1, <1>3, QuietFinish
<1> USE DEF HandlerInv, AgendaInv, ExecutorInv, ChosenInv, Job, At, Executing, Quiet, tableVars,
    recordVars, DecidePcs, ExecutePcs, PaperPcs, LivePcs, AfterRecordPcs
<1>4. CASE Preflight(d) /\ ~Finish(d)
  <2>1. PICK l \in {"preflightLots", "transition"} : Goto(d, l)
    BY <1>4 DEF Preflight
  <2>2. handler[d].pc = "preflight" /\ Confirmed(d)
    BY <1>4 DEF Preflight
  <2>3. HandlerInv(d)'
    BY <1>1, <1>2, <2>1, <2>2, GotoMoves DEF Confirmed
  <2> QED
    BY <1>1, <2>1, <2>3, QuietGoto
<1>5. CASE PreflightLots(d) /\ ~Finish(d)
  <2>1. Goto(d, "transition") /\ handler[d].pc = "preflightLots"
    BY <1>5 DEF PreflightLots
  <2>2. HandlerInv(d)'
    BY <1>1, <1>2, <2>1, GotoMoves
  <2> QED
    BY <1>1, <2>1, <2>2, QuietGoto
<1>6. CASE AssertKillSwitchOff(d) /\ ~Finish(d)
  <2>1. handler[d].pc = "killSwitch" /\ ~kill
    BY <1>6 DEF AssertKillSwitchOff, KillSwitchOff
  <2>2. PICK l \in {"liveGates", "selectLots", "recordExecution"} :
          Goto(d, l) /\ (l = "liveGates" <=> mode[Job(d)] = "live")
    BY <1>6 DEF AssertKillSwitchOff, KillSwitchOff, ExecutorFor, FirstStep
  <2>3. Job(d) \in Signals /\ mode[Job(d)] \in {"paper", "live"} /\ Job(d) \notin halted
    BY <1>2, <2>1 DEF Inductive, TypeOK, TablesTypeOK, Modes, JobOK, SignalInv
  <2>4. HandlerInv(d)'
    BY <1>1, <1>2, <2>1, <2>2, <2>3, GotoMoves
  <2> QED
    BY <1>1, <2>1, <2>2, <2>4, QuietGoto
<1>7. CASE SelectLots(d) /\ ~Finish(d)
  <2>1. Goto(d, "recordExecution") /\ handler[d].pc = "selectLots"
    BY <1>7 DEF SelectLots
  <2>2. HandlerInv(d)'
    BY <1>1, <1>2, <2>1, GotoMoves
  <2> QED
    BY <1>1, <2>1, <2>2, QuietGoto
<1>8. CASE CheckLots(d) /\ ~Finish(d)
  <2>1. Goto(d, "commitClose") /\ handler[d].pc = "closeLots"
    BY <1>8 DEF CheckLots
  <2>2. HandlerInv(d)'
    BY <1>1, <1>2, <2>1, GotoMoves DEF IsSell
  <2> QED
    BY <1>1, <2>1, <2>2, QuietGoto
<1>9. CASE LiveGates(d) /\ ~Finish(d)
  <2>1. PICK l \in {"liveLots", "place"} : Goto(d, l)
    BY <1>9 DEF LiveGates
  <2>2. handler[d].pc = "liveGates" /\ LiveTradingEnabled
    BY <1>9 DEF LiveGates, LiveGatesOpen
  <2>3. HandlerInv(d)'
    BY <1>1, <1>2, <2>1, <2>2, GotoMoves
  <2> QED
    BY <1>1, <2>1, <2>2, <2>3, QuietGoto
<1>10. CASE LiveLots(d) /\ ~Finish(d)
  <2>1. Goto(d, "place") /\ handler[d].pc = "liveLots"
    BY <1>10 DEF LiveLots
  <2>2. HandlerInv(d)'
    BY <1>1, <1>2, <2>1, GotoMoves
  <2> QED
    BY <1>1, <2>1, <2>2, QuietGoto
<1> QED
  BY <1>3, <1>4, <1>5, <1>6, <1>7, <1>8, <1>9, <1>10

\* The second selection only ever takes open lots of the exit's own symbol.
LEMMA SelectionsAreOpenLots ==
  ASSUME NEW s \in Signals, NEW C \in Selections(s), NEW l \in C
  PROVE  l \in Signals /\ Symbol[l] = Symbol[s] /\ size[l] > 0
  BY DEF Selections, OpenLots, IsOpen

\* The second look at the ledger chooses open lots of the exit's symbol, or
\* gives up.
LEMMA SettleSellStep ==
  ASSUME Inductive, NEW d \in Deciders, SettleSell(d) PROVE Inductive'
<1>1. Quiet /\ handler[d].pc = "settleLots" /\ IsSell(Job(d))
  BY DEF SettleSell, Quiet, At
<1>2. HandlerTypeOK /\ HandlerInv(d) /\ JobOK(d) /\ Job(d) \in Signals
  BY <1>1 DEF Inductive, TypeOK, JobTypeOK, JobOK, HandlerInv
<1>3. CASE Finish(d)
  BY <1>1, <1>3, QuietFinish
<1>4. CASE ~Finish(d)
  <2>1. PICK lots \in Selections(Job(d)) :
          handler' = [handler EXCEPT ![d].pc = "closeLots", ![d].chosen = lots]
    BY <1>4 DEF SettleSell
  <2>2. \A l \in lots : l \in Signals /\ Symbol[l] = Symbol[Job(d)] /\ size[l] > 0
    BY <1>2, SelectionsAreOpenLots
  <2>3. /\ HandlerTypeOK' /\ Frame(d)
        /\ handler'[d].pc = "closeLots" /\ handler'[d].job = handler[d].job
        /\ handler'[d].say = handler[d].say /\ handler'[d].todo = handler[d].todo
        /\ handler'[d].chosen = lots
    BY <1>2, <2>1, <2>2 DEF HandlerTypeOK, Frame, ExecutePcs
  <2>4. JobOK(d)' /\ Executing(d) /\ Job(d)' = Job(d)
    BY <1>1, <1>2, <2>3 DEF JobOK, Job, Executing, ExecutePcs, Quiet, tableVars
  <2>5. HandlerInv(d)'
    BY <1>1, <1>2, <2>2, <2>3 DEF HandlerInv, AgendaInv, ExecutorInv, ChosenInv, Job, At,
      Executing, Quiet, tableVars, recordVars, ExecutePcs, PaperPcs, LivePcs, AfterRecordPcs, IsSell
  <2> QED
    BY <1>1, <2>3, <2>4, <2>5, QuietStep
<1> QED
  BY <1>3, <1>4

\* Every quiet action of a handler, together.
LEMMA QuietActions ==
  ASSUME Inductive, NEW d \in Deciders,
         \/ Abort(d) \/ EndSweep(d) \/ LoseRace(d)
         \/ ReceiveRequest(d) \/ RunCli(d) \/ FireSweep(d) \/ ListDue(d) \/ TakeDue(d)
         \/ Preflight(d) \/ PreflightLots(d) \/ AssertKillSwitchOff(d) \/ SelectLots(d)
         \/ CheckLots(d) \/ LiveGates(d) \/ LiveLots(d) \/ SettleSell(d)
  PROVE  Inductive'
<1>1. CASE Abort(d) \/ EndSweep(d) \/ LoseRace(d)
  BY <1>1, QuietFinish DEF Abort, EndSweep, LoseRace, Quiet
<1> QED
  BY <1>1, ReceiveRequestStep, RunCliStep, FireSweepStep, ListDueStep, TakeDueStep, GuardStep, SettleSellStep
-----------------------------------------------------------------------------
(* Steps of the pipeline, the sweeps and the settings: no handler moves.    *)

Placed == \A e \in Deciders : JobOK(e) /\ HandlerInv(e)

\* With the handlers still, the parts of the invariant to show are the tables,
\* the placement of every handler, and the signals' own facts.
LEMMA TableStep ==
  ASSUME Inductive, UNCHANGED handler,
         TablesTypeOK', SettingsTypeOK', RunTypeOK', Placed',
         \A s \in Signals : SignalInv(s)', PositionsAreBacked'
  PROVE  Inductive'
<1>1. HandlerTypeOK' /\ OneExecutor'
  BY DEF Inductive, TypeOK, HandlerTypeOK, OneExecutor, Executing, Job
<1> QED
  BY <1>1 DEF Inductive, TypeOK, JobTypeOK, JobOK, Placed, HandlerInv

\* What the run found held has a sum.
LEMMA HeldHasSum ==
  ASSUME Inductive, HeldInv, NEW sym
  PROVE  Total({l \in run.held : Symbol[l] = sym}) \in Nat
<1> DEFINE lots == {l \in run.held : Symbol[l] = sym}
<1>1. lots \subseteq Opened /\ IsFiniteSet(lots)
  BY FS_Subset DEF HeldInv
<1>2. \A l \in lots : size[l] \in Nat
  BY <1>1 DEF Inductive, TypeOK, TablesTypeOK, Opened
<1> HIDE DEF lots
<1>3. SumFunctionOnSet(size, lots) \in Nat
  BY <1>1, <1>2, SumType
<1>4. Total(lots) = SumFunctionOnSet(size, lots)
  BY DEF Total, MapThenSumSet, SumFunctionOnSet, FoldFunctionOnSet, MapThenFoldSet
<1> QED
  BY <1>3, <1>4 DEF lots

\* A pipeline step, whichever signal it inserts, disturbs no decision.
LEMMA PipelineStep ==
  ASSUME Inductive, HeldInv, Pipeline PROVE Inductive'
<1>1. CASE RunPipeline \/ ReadPositions \/ EndRun
  <2> USE <1>1 DEF RunPipeline, ReadPositions, EndRun, tableVars, recordVars, brokerVars,
          settingVars
  <2>1. TablesTypeOK'
    BY DEF Inductive, TypeOK, TablesTypeOK
  <2>2. SettingsTypeOK'
    BY DEF Inductive, TypeOK, SettingsTypeOK
  <2>3. RunTypeOK'
    <3>1. execMode \in Modes /\ (AutonomyEnabled /\ autonomy) \in BOOLEAN
      BY DEF Inductive, TypeOK, SettingsTypeOK
    <3>2. CASE RunPipeline
      BY <3>1, <3>2 DEF RunTypeOK
    <3>3. CASE ReadPositions
      BY <3>3 DEF Inductive, TypeOK, RunTypeOK
    <3>4. CASE EndRun
      BY <3>4 DEF RunTypeOK, NoRun, Modes
    <3> QED
      BY <3>2, <3>3, <3>4
  <2>4. Placed'
    BY DEF Inductive, TypeOK, JobTypeOK, Placed, JobOK, HandlerInv, AgendaInv, ExecutorInv,
      ChosenInv, Job, At, Executing
  <2>5. \A s \in Signals : SignalInv(s)'
    BY DEF Inductive, SignalInv
  <2>6. PositionsAreBacked'
    BY DEF Inductive, PositionsAreBacked
  <2> QED
    BY <2>1, <2>2, <2>3, <2>4, <2>5, <2>6, TableStep
<1>2. ASSUME NEW s \in Signals, InsertSignal(s) PROVE Inductive'
  <2> USE <1>2 DEF InsertSignal, recordVars, brokerVars, settingVars
  <2>1. PICK q \in ProposedQuantities(s) : qty' = [qty EXCEPT ![s] = q]
    OBVIOUS
  <2>2. q \in Nat \ {0}
    <3>1. Total({l \in run.held : Symbol[l] = Symbol[s]}) \in Nat
      BY HeldHasSum
    <3> QED
      BY <2>1, <3>1, ConstantsAssumption DEF ProposedQuantities
  <2>3. run.mode \in Modes /\ run.auto \in BOOLEAN
    BY DEF Inductive, TypeOK, RunTypeOK
  <2>4. TablesTypeOK'
    BY <2>1, <2>2, <2>3, ConstantsAssumption DEF Inductive, TypeOK, TablesTypeOK
  <2>5. SettingsTypeOK'
    BY DEF Inductive, TypeOK, SettingsTypeOK
  <2>6. RunTypeOK'
    BY DEF Inductive, TypeOK, RunTypeOK
  <2>7. ASSUME NEW e \in Deciders PROVE JobOK(e)' /\ HandlerInv(e)'
    <3>1. JobOK(e) /\ HandlerInv(e) /\ handler[e].todo \subseteq Signals
      BY DEF Inductive, TypeOK, HandlerTypeOK, JobTypeOK, JobOK, HandlerInv
    <3>2. /\ status' = [status EXCEPT ![s] = "pending"] /\ status[s] = "none"
          /\ \A t \in Signals \ {s} : mode'[t] = mode[t] /\ auto'[t] = auto[t]
      BY DEF Inductive, TypeOK, TablesTypeOK
    <3>3. \A t \in Signals : status[t] # "none" => status'[t] = status[t] /\ t # s
      BY <3>2 DEF Inductive, TypeOK, TablesTypeOK
    <3>4. CASE handler[e].pc \in {"idle", "listing", "sweeping"}
      BY <3>1, <3>2, <3>3, <3>4 DEF JobOK, HandlerInv, AgendaInv, ExecutorInv, ChosenInv,
        Executing, ExecutePcs, Job
    <3>5. CASE handler[e].pc \notin {"idle", "listing", "sweeping"}
      BY <3>1, <3>2, <3>3, <3>5 DEF JobOK, HandlerInv, AgendaInv, ExecutorInv, ChosenInv,
        Executing, Job, At
    <3> QED
      BY <3>4, <3>5
  <2>8. \A t \in Signals : SignalInv(t)'
    BY DEF Inductive, TypeOK, TablesTypeOK, SignalInv
  <2>9. PositionsAreBacked'
    BY DEF Inductive, TypeOK, TablesTypeOK, PositionsAreBacked, SignalInv
  <2> QED
    BY <2>4, <2>5, <2>6, <2>7, <2>8, <2>9, TableStep DEF Placed
<1> QED
  BY <1>1, <1>2 DEF Pipeline

\* Expiry decides a pending signal, which no executor has.
LEMMA ExpireStep ==
  ASSUME Inductive, NEW s \in Signals, ExpireSignal(s) PROVE Inductive'
<1> USE DEF ExpireSignal, Expirable, Undecided, recordVars, brokerVars, settingVars
<1>1. TablesTypeOK' /\ RunTypeOK'
  BY DEF Inductive, TypeOK, TablesTypeOK, RunTypeOK
<1>2. SettingsTypeOK'
  BY DEF Inductive, TypeOK, SettingsTypeOK
<1>3. Placed'
  BY DEF Inductive, TypeOK, TablesTypeOK, HandlerTypeOK, JobTypeOK, Placed, JobOK, HandlerInv,
    AgendaInv, ExecutorInv, ChosenInv, Job, At, Executing
<1>4. \A t \in Signals : SignalInv(t)'
  BY DEF Inductive, TypeOK, TablesTypeOK, SignalInv
<1>5. PositionsAreBacked'
  BY DEF Inductive, PositionsAreBacked
<1> QED
  BY <1>1, <1>2, <1>3, <1>4, <1>5, TableStep

\* The publish sweep shows a signal that is filled.
LEMMA SweepPublishStep ==
  ASSUME Inductive, NEW s \in Signals, SweepPublish(s) PROVE Inductive'
<1> USE DEF SweepPublish, FilledUnpublished, recordVars, brokerVars, settingVars
<1>1. TablesTypeOK' /\ RunTypeOK'
  BY DEF Inductive, TypeOK, TablesTypeOK, RunTypeOK
<1>2. SettingsTypeOK'
  BY DEF Inductive, TypeOK, SettingsTypeOK
<1>3. Placed'
  BY DEF Inductive, TypeOK, JobTypeOK, Placed, JobOK, HandlerInv,
    AgendaInv, ExecutorInv, ChosenInv, Job, At, Executing
<1>4. \A t \in Signals : SignalInv(t)'
  BY DEF Inductive, TypeOK, TablesTypeOK, SignalInv
<1>5. PositionsAreBacked'
  BY DEF Inductive, PositionsAreBacked
<1> QED
  BY <1>1, <1>2, <1>3, <1>4, <1>5, TableStep

\* No settings write disturbs the invariant: lifting the halt empties halted.
LEMMA SettingsStep ==
  ASSUME Inductive, SetSettings PROVE Inductive'
<1> USE DEF tableVars, recordVars, brokerVars
<1>1. ASSUME NEW on \in BOOLEAN, SetKillSwitch(on) PROVE Inductive'
  <2> USE <1>1 DEF SetKillSwitch
  <2>1. TablesTypeOK' /\ RunTypeOK'
    BY DEF Inductive, TypeOK, TablesTypeOK, RunTypeOK
  <2>2. SettingsTypeOK'
    BY DEF Inductive, TypeOK, SettingsTypeOK
  <2>3. halted' \subseteq halted /\ (halted' # {} => kill')
    OBVIOUS
  <2>4. Placed'
    BY <2>3 DEF Inductive, TypeOK, JobTypeOK, Placed, JobOK, HandlerInv,
      AgendaInv, ExecutorInv, ChosenInv, Job, At, Executing
  <2>5. \A t \in Signals : SignalInv(t)'
    BY <2>3 DEF Inductive, SignalInv
  <2>6. PositionsAreBacked'
    BY DEF Inductive, PositionsAreBacked
  <2> QED
    BY <2>1, <2>2, <2>4, <2>5, <2>6, TableStep
<1>2. CASE (\E on \in BOOLEAN : SetAutonomy(on)) \/ (\E m \in Modes : SetExecutionMode(m))
  <2> USE <1>2 DEF SetAutonomy, SetExecutionMode
  <2>1. TablesTypeOK' /\ RunTypeOK'
    BY DEF Inductive, TypeOK, TablesTypeOK, RunTypeOK
  <2>2. SettingsTypeOK'
    BY DEF Inductive, TypeOK, SettingsTypeOK
  <2>3. Placed'
    BY DEF Inductive, TypeOK, JobTypeOK, Placed, JobOK, HandlerInv,
      AgendaInv, ExecutorInv, ChosenInv, Job, At, Executing
  <2>4. \A t \in Signals : SignalInv(t)'
    BY DEF Inductive, SignalInv
  <2>5. PositionsAreBacked'
    BY DEF Inductive, PositionsAreBacked
  <2> QED
    BY <2>1, <2>2, <2>3, <2>4, <2>5, TableStep
<1> QED
  BY <1>1, <1>2 DEF SetSettings
-----------------------------------------------------------------------------
(* Steps in which a handler writes.                                         *)

\* A handler other than d keeps its place when the rows it relies on do.
LEMMA WritingStep ==
  ASSUME Inductive, NEW d \in Deciders, Frame(d), HandlerTypeOK',
         TablesTypeOK', SettingsTypeOK', RunTypeOK',
         \A e \in Deciders : JobOK(e)' /\ HandlerInv(e)',
         Executing(d)' => /\ Job(d)' = Job(d)
                          /\ \A e \in Deciders \ {d} : Executing(e) => Job(e) # Job(d),
         \A s \in Signals : SignalInv(s)', PositionsAreBacked'
  PROVE  Inductive'
<1>1. OneExecutor'
  BY DEF Inductive, OneExecutor, Frame, Executing, Job
<1> QED
  BY <1>1 DEF Inductive, TypeOK, JobTypeOK, JobOK, HandlerInv

\* An executing handler is alone with its signal, which is approved and unhalted.
LEMMA Alone ==
  ASSUME Inductive, NEW d \in Deciders, Executing(d)
  PROVE  /\ Job(d) \in Signals /\ status[Job(d)] = "approved" /\ JobOK(d) /\ HandlerInv(d)
         /\ ~At(d, "killSwitch") => Job(d) \notin halted
         /\ \A e \in Deciders \ {d} : Executing(e) => Job(e) # Job(d)
  BY DEF Inductive, TypeOK, JobTypeOK, JobOK, HandlerInv, ExecutorInv, OneExecutor, Executing,
    ExecutePcs

\* The transition hands a pending signal to one executor, and to no other.
LEMMA TransitionStep ==
  ASSUME Inductive, NEW d \in Deciders, Transition(d) PROVE Inductive'
<1> DEFINE j == Job(d)
<1> USE DEF Transition, Undecided, recordVars, brokerVars, settingVars
<1>1. /\ handler[d].pc = "transition" /\ status[j] = "pending" /\ j \in Signals
      /\ HandlerTypeOK /\ JobOK(d) /\ HandlerInv(d)
  BY DEF Inductive, TypeOK, JobTypeOK, JobOK, HandlerInv, At
<1>2. Verdict(d) \in {"approved", "rejected"} /\ status' = [status EXCEPT ![j] = Verdict(d)]
  BY DEF Verdict
<1>3. /\ \A t \in Signals \ {j} : status'[t] = status[t]
      /\ status'[j] = Verdict(d) /\ (status[j] # "approved")
  BY <1>1, <1>2 DEF Inductive, TypeOK, TablesTypeOK
<1>4. execs[j] = 0 /\ broker[j] = "none" /\ j \notin halted
  BY <1>1 DEF Inductive, TypeOK, TablesTypeOK, SignalInv
<1>5. ASSUME NEW e \in Deciders PROVE Executing(e) => Job(e) # j
  BY <1>1 DEF Inductive, ExecutorInv
<1>6. SettingsTypeOK'
  BY DEF Inductive, TypeOK, SettingsTypeOK
<1>7. /\ HandlerTypeOK' /\ Frame(d) /\ JobOK(d)' /\ AgendaInv(d)' /\ ChosenInv(d)'
      /\ Executing(d)' => /\ Verdict(d) = "approved" /\ At(d, "killSwitch")' /\ Job(d)' = j
  <2>1. CASE Verdict(d) = "approved"
    <3>1. Goto(d, "killSwitch")
      BY <2>1
    <3>2. /\ HandlerTypeOK' /\ Frame(d) /\ handler'[d].pc = "killSwitch"
          /\ handler'[d].job = handler[d].job /\ handler'[d].say = handler[d].say
          /\ handler'[d].todo = handler[d].todo
      BY <1>1, <3>1, GotoMoves DEF ExecutePcs
    <3> QED
      BY <1>1, <1>3, <2>1, <3>2 DEF JobOK, HandlerInv, AgendaInv, ChosenInv, Job, At,
        Inductive, TypeOK, TablesTypeOK, HandlerTypeOK
  <2>2. CASE Verdict(d) = "rejected"
    <3>1. /\ HandlerTypeOK' /\ Frame(d)
          /\ handler'[d].pc \in {"idle", "sweeping"} /\ handler'[d].say = "none"
          /\ handler'[d].todo \subseteq handler[d].todo
      BY <1>1, <2>2, FinishMoves
    <3> QED
      BY <1>1, <1>3, <2>2, <3>1 DEF JobOK, HandlerInv, AgendaInv, ChosenInv, Executing,
        ExecutePcs, Inductive, TypeOK, TablesTypeOK, HandlerTypeOK
  <2> QED
    BY <1>2, <2>1, <2>2
<1>8. handler[d].say \in {"reject", "approve", "confirm", "auto"}
  BY <1>1 DEF HandlerTypeOK, JobOK
<1>9. TablesTypeOK' /\ RunTypeOK'
  BY <1>1, <1>2, <1>8 DEF Inductive, TypeOK, TablesTypeOK, RunTypeOK, Verdict
<1>10. ExecutorInv(d)'
  BY <1>1, <1>3, <1>4, <1>7 DEF ExecutorInv, At, AfterRecordPcs, PaperPcs, LivePcs
<1>11. ASSUME NEW e \in Deciders PROVE JobOK(e)' /\ HandlerInv(e)'
  <2>1. CASE e = d
    BY <1>7, <1>10, <2>1 DEF HandlerInv
  <2>2. CASE e # d
    <3>1. handler'[e] = handler[e] /\ JobOK(e) /\ HandlerInv(e) /\ handler[e].todo \subseteq Signals
      BY <1>7, <2>2 DEF Frame, Inductive, TypeOK, HandlerTypeOK, JobTypeOK, JobOK, HandlerInv
    <3>2. \A t \in Signals : status[t] # "none" => status'[t] # "none"
      BY <1>2, <1>3
    <3>3. JobOK(e)' /\ AgendaInv(e)' /\ ChosenInv(e)'
      BY <3>1, <3>2 DEF JobOK, HandlerInv, AgendaInv, ChosenInv, Job
    <3>4. halted' \subseteq halted \cup {j}
      OBVIOUS
    <3>5. ExecutorInv(e)'
      BY <1>3, <1>5, <3>1, <3>4 DEF JobOK, HandlerInv, ExecutorInv, Executing, ExecutePcs, Job, At
    <3> QED
      BY <3>3, <3>5 DEF HandlerInv
  <2> QED
    BY <2>1, <2>2
<1>12. \A t \in Signals : SignalInv(t)'
  <2> SUFFICES ASSUME NEW t \in Signals PROVE SignalInv(t)'
    OBVIOUS
  <2>1. CASE t # j
    BY <1>3, <2>1 DEF Inductive, TypeOK, TablesTypeOK, SignalInv
  <2>2. CASE t = j
    <3>1. Verdict(d) = "approved" /\ mode[j] = "live" =>
            \/ approvedBy'[j] = "confirm"
            \/ approvedBy'[j] = "auto" /\ AutonomyEnabled /\ auto[j]
      BY <1>1, <1>8 DEF Inductive, TypeOK, TablesTypeOK, HandlerInv, AgendaInv, Verdict
    <3>2. j \in halted' => kill /\ Verdict(d) = "approved"
      BY <1>2, <1>4
    <3>3. published[j] => execs[j] > 0
      BY <1>1 DEF Inductive, SignalInv
    <3> QED
      BY <1>3, <1>4, <2>2, <3>1, <3>2, <3>3 DEF SignalInv
  <2> QED
    BY <2>1, <2>2
<1>13. PositionsAreBacked'
  BY DEF Inductive, PositionsAreBacked
<1> QED
  BY <1>5, <1>6, <1>7, <1>9, <1>11, <1>12, <1>13, WritingStep

\* Where an executor stands after a write: on with its signal, or finished.
LEMMA ExecutorMoves ==
  ASSUME Inductive, NEW d \in Deciders, Executing(d),
         Finish(d) \/ \E l \in ExecutePcs : Goto(d, l)
  PROVE  /\ HandlerTypeOK' /\ Frame(d)
         /\ handler'[d].todo \subseteq handler[d].todo
         /\ \/ handler'[d].pc \in {"idle", "sweeping"} /\ handler'[d].say = "none"
            \/ /\ handler'[d].pc \in ExecutePcs /\ Goto(d, handler'[d].pc)
               /\ handler'[d].job = handler[d].job /\ handler'[d].say = handler[d].say
               /\ handler'[d].chosen = handler[d].chosen
<1>1. HandlerTypeOK
  BY DEF Inductive, TypeOK
<1>2. CASE Finish(d)
  BY <1>1, <1>2, FinishMoves
<1>3. ASSUME NEW l \in ExecutePcs, Goto(d, l) PROVE handler'[d].pc = l
  BY <1>1, <1>3, GotoMoves
<1> QED
  BY <1>1, <1>2, <1>3, GotoMoves

\* A write by an executor that touches only its own signal's fill, order and
\* publication: the other handlers and the other signals cannot tell.
LEMMA ExecutorWrite ==
  ASSUME Inductive, NEW d \in Deciders, Executing(d), ~At(d, "killSwitch"),
         NEW j \in Signals, Job(d) = j,
         UNCHANGED <<status, mode, auto, qty, approvedBy, size, closers, settingVars, run, halted>>,
         Finish(d) \/ \E l \in ExecutePcs : Goto(d, l),
         TablesTypeOK',
         \A t \in Signals \ {j} :
           execs'[t] = execs[t] /\ broker'[t] = broker[t] /\ published'[t] = published[t],
         execs'[j] >= execs[j],
         ExecutorInv(d)', ChosenInv(d)', SignalInv(j)'
  PROVE  Inductive'
<1>1. /\ HandlerTypeOK' /\ Frame(d) /\ handler'[d].todo \subseteq handler[d].todo
      /\ \/ handler'[d].pc \in {"idle", "sweeping"} /\ handler'[d].say = "none"
         \/ /\ handler'[d].pc \in ExecutePcs
            /\ handler'[d].job = handler[d].job /\ handler'[d].say = handler[d].say
  BY ExecutorMoves
<1>2. /\ Job(d) \in Signals /\ Job(d) \notin halted /\ JobOK(d) /\ HandlerInv(d)
      /\ \A e \in Deciders \ {d} : Executing(e) => Job(e) # Job(d)
  BY Alone
<1>3. RunTypeOK'
  BY DEF Inductive, TypeOK, RunTypeOK
<1>4. SettingsTypeOK'
  BY DEF Inductive, TypeOK, SettingsTypeOK, settingVars
<1>5. JobOK(d)' /\ AgendaInv(d)'
  BY <1>1, <1>2 DEF JobOK, HandlerInv, AgendaInv, Job, Executing, DecidePcs, ExecutePcs
<1>6. ASSUME NEW e \in Deciders PROVE JobOK(e)' /\ HandlerInv(e)'
  <2>1. CASE e = d
    BY <1>5, <2>1 DEF HandlerInv
  <2>2. CASE e # d
    <3>1. /\ handler'[e] = handler[e] /\ JobOK(e) /\ HandlerInv(e)
          /\ Executing(e) => Job(e) # Job(d) /\ Job(e) \in Signals
      BY <1>1, <1>2, <2>2
      DEF Frame, Inductive, TypeOK, JobTypeOK, JobOK, HandlerInv, Executing, ExecutePcs
    <3> QED
      BY <3>1 DEF JobOK, HandlerInv, AgendaInv, ExecutorInv, ChosenInv, Executing, Job, At
  <2> QED
    BY <2>1, <2>2
<1>7. Executing(d)' => Job(d)' = Job(d)
  BY <1>1 DEF Executing, Job, ExecutePcs
<1>8. \A t \in Signals : SignalInv(t)'
  BY DEF Inductive, SignalInv, settingVars
<1>9. PositionsAreBacked'
  <2>1. \A t \in Signals : execs[t] > 0 => execs'[t] > 0
    BY <1>2 DEF Inductive, TypeOK, TablesTypeOK
  <2> QED
    BY <2>1 DEF Inductive, TypeOK, TablesTypeOK, PositionsAreBacked
<1> QED
  BY <1>1, <1>2, <1>3, <1>4, <1>6, <1>7, <1>8, <1>9, WritingStep

\* The executor records the one execution its signal will ever have.
LEMMA RecordExecutionStep ==
  ASSUME Inductive, NEW d \in Deciders, RecordExecution(d) PROVE Inductive'
<1>1. /\ handler[d].pc = "recordExecution" /\ Executing(d) /\ ~At(d, "killSwitch")
      /\ Goto(d, "settleLots") /\ "settleLots" \in ExecutePcs
  BY DEF RecordExecution, At, Executing, ExecutePcs
<1>2. PICK j \in Signals : Job(d) = j /\ status[j] = "approved" /\ HandlerInv(d)
  BY <1>1, Alone
<1>3. execs[j] = 0 /\ mode[j] = "paper" /\ j \notin halted
  BY <1>1, <1>2 DEF HandlerInv, ExecutorInv, At, PaperPcs, AfterRecordPcs
<1>4. /\ UNCHANGED <<status, mode, auto, qty, approvedBy, size, closers, settingVars, run, halted>>
      /\ UNCHANGED <<broker, order, published>> /\ execs' = [execs EXCEPT ![j] = @ + 1]
  BY <1>2 DEF RecordExecution, tableVars, brokerVars
<1>5. TablesTypeOK'
  <2>1. execs' \in [Signals -> Nat]
    BY <1>4 DEF Inductive, TypeOK, TablesTypeOK
  <2> QED
    BY <1>4, <2>1 DEF Inductive, TypeOK, TablesTypeOK
<1>6. execs'[j] = 1 /\ \A t \in Signals \ {j} : execs'[t] = execs[t]
  BY <1>2, <1>3, <1>4 DEF Inductive, TypeOK, TablesTypeOK
<1>7. handler'[d].pc = "settleLots" /\ handler'[d].job = j
  BY <1>1, <1>2, GotoMoves DEF Inductive, TypeOK, Job
<1>8. ExecutorInv(d)' /\ ChosenInv(d)'
  BY <1>2, <1>3, <1>4, <1>6, <1>7
  DEF ExecutorInv, ChosenInv, Job, At, PaperPcs, LivePcs, AfterRecordPcs
<1>9. SignalInv(j)'
  BY <1>2, <1>3, <1>4, <1>6 DEF Inductive, SignalInv, settingVars
<1> QED
  BY <1>1, <1>2, <1>3, <1>4, <1>5, <1>6, <1>8, <1>9, ExecutorWrite

\* The executor places the order of a live, confirmed signal.
LEMMA PlaceOrderStep ==
  ASSUME Inductive, NEW d \in Deciders, PlaceOrder(d) PROVE Inductive'
<1>1. /\ handler[d].pc = "place" /\ Executing(d) /\ ~At(d, "killSwitch")
      /\ Goto(d, "recordPlaced") /\ "recordPlaced" \in ExecutePcs
  BY DEF PlaceOrder, At, Executing, ExecutePcs
<1>2. PICK j \in Signals : Job(d) = j /\ status[j] = "approved" /\ HandlerInv(d)
  BY <1>1, Alone
<1>3. execs[j] = 0 /\ mode[j] = "live" /\ LiveTradingEnabled /\ j \notin halted
  BY <1>1, <1>2 DEF HandlerInv, ExecutorInv, At, LivePcs, AfterRecordPcs
<1>4. /\ UNCHANGED <<status, mode, auto, qty, approvedBy, size, closers, settingVars, run, halted>>
      /\ UNCHANGED <<execs, order, published>>
      /\ broker' = [broker EXCEPT ![j] = IF @ = "none" THEN "working" ELSE @]
  BY <1>2 DEF PlaceOrder, tableVars, recordVars
<1>5. TablesTypeOK'
  BY <1>4 DEF Inductive, TypeOK, TablesTypeOK
<1>6. \A t \in Signals \ {j} : broker'[t] = broker[t]
  BY <1>2, <1>4 DEF Inductive, TypeOK, TablesTypeOK
<1>7. handler'[d].pc = "recordPlaced" /\ handler'[d].job = j
  BY <1>1, <1>2, GotoMoves DEF Inductive, TypeOK, Job
<1>8. ExecutorInv(d)' /\ ChosenInv(d)'
  BY <1>2, <1>3, <1>4, <1>7
  DEF ExecutorInv, ChosenInv, Job, At, PaperPcs, LivePcs, AfterRecordPcs
<1>9. SignalInv(j)'
  BY <1>2, <1>3, <1>4 DEF Inductive, SignalInv, settingVars
<1> QED
  BY <1>1, <1>2, <1>3, <1>4, <1>5, <1>6, <1>8, <1>9, ExecutorWrite

\* A handler publishes the signal whose execution it has recorded.
LEMMA PublishStep ==
  ASSUME Inductive, NEW d \in Deciders, Publish(d) PROVE Inductive'
<1>1. /\ handler[d].pc = "publish" /\ Executing(d) /\ ~At(d, "killSwitch") /\ Finish(d)
  BY DEF Publish, At, Executing, ExecutePcs
<1>2. PICK j \in Signals : Job(d) = j /\ HandlerInv(d)
  BY <1>1, Alone
<1>3. execs[j] = 1
  BY <1>1, <1>2 DEF HandlerInv, ExecutorInv, AfterRecordPcs
<1>4. /\ UNCHANGED <<status, mode, auto, qty, approvedBy, size, closers, settingVars, run, halted>>
      /\ UNCHANGED <<execs, broker, order>> /\ published' = [published EXCEPT ![j] = TRUE]
  BY <1>2 DEF Publish, recordVars, brokerVars
<1>5. TablesTypeOK' /\ \A t \in Signals \ {j} : published'[t] = published[t]
  BY <1>4 DEF Inductive, TypeOK, TablesTypeOK
<1>9. execs'[j] >= execs[j]
  BY <1>3, <1>4
<1>6. handler'[d].pc \in {"idle", "sweeping"}
  BY <1>1, FinishMoves DEF Inductive, TypeOK
<1>7. ExecutorInv(d)' /\ ChosenInv(d)'
  BY <1>6 DEF ExecutorInv, ChosenInv, Executing, ExecutePcs
<1>8. SignalInv(j)'
  BY <1>2, <1>3, <1>4 DEF Inductive, SignalInv, settingVars
<1> QED
  BY <1>1, <1>2, <1>4, <1>5, <1>7, <1>8, <1>9, ExecutorWrite

\* Writing the live_orders row changes nothing the invariant reads.
LEMMA RecordPlacedStep ==
  ASSUME Inductive, NEW d \in Deciders, RecordPlaced(d) PROVE Inductive'
<1>1. /\ handler[d].pc = "recordPlaced" /\ Executing(d) /\ ~At(d, "killSwitch") /\ Finish(d)
  BY DEF RecordPlaced, At, Executing, ExecutePcs
<1>2. PICK j \in Signals : Job(d) = j
  BY <1>1, Alone
<1>3. /\ UNCHANGED <<status, mode, auto, qty, approvedBy, size, closers, settingVars, run, halted>>
      /\ UNCHANGED <<execs, broker, published>> /\ order' = [order EXCEPT ![j] = TRUE]
  BY <1>2 DEF RecordPlaced, tableVars, recordVars
<1>4. TablesTypeOK'
  BY <1>3 DEF Inductive, TypeOK, TablesTypeOK
<1>5. handler'[d].pc \in {"idle", "sweeping"}
  BY <1>1, FinishMoves DEF Inductive, TypeOK
<1>6. ExecutorInv(d)' /\ ChosenInv(d)'
  BY <1>5 DEF ExecutorInv, ChosenInv, Executing, ExecutePcs
<1>7. SignalInv(j)'
  BY <1>2, <1>3 DEF Inductive, SignalInv, settingVars, Job
<1>8. execs[j] \in Nat
  BY <1>2 DEF Inductive, TypeOK, TablesTypeOK
<1> QED
  BY <1>1, <1>2, <1>3, <1>4, <1>6, <1>7, <1>8, ExecutorWrite

\* A write to the lot ledger by an executor that has recorded its execution.
LEMMA LedgerWrite ==
  ASSUME Inductive, NEW d \in Deciders, handler[d].pc \in AfterRecordPcs, AfterFill(d),
         UNCHANGED <<tableVars, execs, brokerVars, settingVars, run, halted>>,
         TablesTypeOK', \A l \in Signals : size[l] > 0 => size'[l] > 0,
         PositionsAreBacked'
  PROVE  Inductive'
<1>1. Executing(d) /\ ~At(d, "killSwitch")
  BY DEF AfterRecordPcs, Executing, ExecutePcs, At
<1>2. PICK j \in Signals : Job(d) = j /\ status[j] = "approved" /\ JobOK(d) /\ HandlerInv(d)
  BY <1>1, Alone
<1>3. execs[j] = 1 /\ mode[j] = "paper" /\ j \notin halted
  BY <1>1, <1>2 DEF HandlerInv, ExecutorInv, At, PaperPcs
<1>4. \A e \in Deciders \ {d} : Executing(e) => Job(e) # j
  BY <1>1, <1>2, Alone
<1>5. Finish(d) \/ Goto(d, "publish")
  BY DEF AfterFill
<1>6. /\ HandlerTypeOK' /\ Frame(d) /\ handler'[d].todo \subseteq handler[d].todo
      /\ \/ handler'[d].pc \in {"idle", "sweeping"} /\ handler'[d].say = "none"
         \/ /\ handler'[d].pc = "publish"
            /\ handler'[d].job = handler[d].job /\ handler'[d].say = handler[d].say
  BY <1>5, FinishMoves, GotoMoves DEF Inductive, TypeOK, ExecutePcs
<1>7. RunTypeOK'
  BY DEF Inductive, TypeOK, RunTypeOK
<1>8. SettingsTypeOK'
  BY DEF Inductive, TypeOK, SettingsTypeOK, settingVars
<1>9. Executing(d)' => Job(d)' = Job(d)
  BY <1>6 DEF Executing, Job, ExecutePcs
<1>10. JobOK(d)' /\ AgendaInv(d)' /\ ChosenInv(d)'
  BY <1>1, <1>2, <1>6 DEF JobOK, HandlerInv, AgendaInv, ChosenInv, Job, tableVars, Executing,
    ExecutePcs
<1>11. ExecutorInv(d)'
  BY <1>2, <1>3, <1>6 DEF ExecutorInv, Job, At, tableVars, Executing, ExecutePcs, PaperPcs,
    LivePcs, AfterRecordPcs
<1>12. ASSUME NEW e \in Deciders PROVE JobOK(e)' /\ HandlerInv(e)'
  <2>1. CASE e = d
    BY <1>10, <1>11, <2>1 DEF HandlerInv
  <2>2. CASE e # d
    <3>1. handler'[e] = handler[e] /\ JobOK(e) /\ HandlerInv(e) /\ handler[e].chosen \subseteq Signals
      BY <1>6, <2>2 DEF Frame, Inductive, TypeOK, HandlerTypeOK, JobTypeOK, JobOK, HandlerInv
    <3> QED
      BY <3>1 DEF JobOK, HandlerInv, AgendaInv, ExecutorInv, ChosenInv, Executing, Job, At,
        tableVars
  <2> QED
    BY <2>1, <2>2
<1>13. \A t \in Signals : SignalInv(t)'
  BY DEF Inductive, SignalInv, tableVars, brokerVars, settingVars
<1> QED
  BY <1>2, <1>4, <1>6, <1>7, <1>8, <1>9, <1>12, <1>13, WritingStep

\* A buy opens the lot of the execution it has recorded.
LEMMA SettleBuyStep ==
  ASSUME Inductive, NEW d \in Deciders, SettleBuy(d) PROVE Inductive'
<1>1. handler[d].pc = "settleLots" /\ ~IsSell(Job(d)) /\ AfterFill(d) /\ Executing(d)
  BY DEF SettleBuy, At, Executing, ExecutePcs
<1>2. PICK j \in Signals : Job(d) = j /\ status[j] = "approved" /\ HandlerInv(d)
  BY <1>1, Alone
<1>3. execs[j] = 1 /\ qty[j] \in Nat \ {0} /\ Side[j] = "buy"
  <2>1. execs[j] = 1
    BY <1>1, <1>2 DEF HandlerInv, ExecutorInv, AfterRecordPcs
  <2>2. qty[j] \in Nat \ {0}
    BY <1>2, ConstantsAssumption DEF Inductive, TypeOK, TablesTypeOK
  <2> QED
    BY <1>1, <1>2, <2>1, <2>2, ConstantsAssumption DEF IsSell
<1>4. /\ UNCHANGED <<tableVars, execs, closers, brokerVars, settingVars, run, halted>>
      /\ size' = [size EXCEPT ![j] = qty[j]]
  BY <1>2 DEF SettleBuy
<1>5. TablesTypeOK'
  BY <1>3, <1>4, ConstantsAssumption DEF Inductive, TypeOK, TablesTypeOK, tableVars, brokerVars
<1>6. /\ \A l \in Signals \ {j} : size'[l] = size[l]
      /\ size'[j] = qty[j] /\ qty[j] > 0
  BY <1>2, <1>3, <1>4, ConstantsAssumption DEF Inductive, TypeOK, TablesTypeOK
<1>7. \A l \in Signals : size[l] > 0 => size'[l] > 0
  BY <1>6
<1>8. PositionsAreBacked'
  BY <1>3, <1>4, <1>6, <1>7 DEF Inductive, PositionsAreBacked, tableVars
<1> QED
  BY <1>1, <1>4, <1>5, <1>7, <1>8, LedgerWrite DEF AfterRecordPcs

\* A sell closes the lots it chose, for the execution it has recorded.
LEMMA CommitCloseStep ==
  ASSUME Inductive, NEW d \in Deciders, CommitClose(d) PROVE Inductive'
<1>1. handler[d].pc = "commitClose" /\ AfterFill(d) /\ Executing(d)
  BY DEF CommitClose, At, Executing, ExecutePcs
<1>2. PICK j \in Signals : Job(d) = j /\ status[j] = "approved" /\ HandlerInv(d)
  BY <1>1, Alone
<1>3. /\ execs[j] = 1 /\ Side[j] = "sell"
      /\ \A l \in handler[d].chosen : size[l] > 0 /\ Symbol[l] = Symbol[j]
  BY <1>1, <1>2 DEF HandlerInv, ExecutorInv, ChosenInv, AfterRecordPcs, IsSell
<1>4. /\ UNCHANGED <<tableVars, execs, size, brokerVars, settingVars, run, halted>>
      /\ closers' = [l \in Signals |->
           IF l \in handler[d].chosen THEN closers[l] \cup {j} ELSE closers[l]]
  BY <1>2 DEF CommitClose
<1>5. TablesTypeOK'
  <2>1. closers' \in [Signals -> SUBSET Signals]
    BY <1>2, <1>4 DEF Inductive, TypeOK, TablesTypeOK
  <2> QED
    BY <1>4, <2>1 DEF Inductive, TypeOK, TablesTypeOK, tableVars, brokerVars
<1>6. PositionsAreBacked'
  BY <1>3, <1>4 DEF Inductive, PositionsAreBacked, tableVars
<1> QED
  BY <1>1, <1>4, <1>5, <1>6, LedgerWrite DEF AfterRecordPcs
-----------------------------------------------------------------------------
(* The invariant, and what follows from it.                                 *)

\* Every variable has its shape at the start.
LEMMA InitType == Init => TypeOK
<1> SUFFICES ASSUME Init PROVE TypeOK
  OBVIOUS
<1>1. TablesTypeOK
  BY ConstantsAssumption DEF Init, TablesTypeOK, Modes
<1>2. SettingsTypeOK
  BY DEF Init, SettingsTypeOK, Modes
<1>3. RunTypeOK
  BY DEF Init, RunTypeOK, NoRun, Modes
<1>4. HandlerTypeOK /\ JobTypeOK
  BY DEF Init, HandlerTypeOK, JobTypeOK, Idle
<1> QED
  BY <1>1, <1>2, <1>3, <1>4 DEF TypeOK

\* The empty tables satisfy the inductive invariant.
LEMMA InitInductive == Init => Inductive
<1> SUFFICES ASSUME Init PROVE Inductive
  OBVIOUS
<1>1. \A d \in Deciders : AgendaInv(d) /\ ExecutorInv(d) /\ ChosenInv(d) /\ ~Executing(d)
  BY DEF Init, Idle, AgendaInv, ExecutorInv, ChosenInv, Executing, ExecutePcs
<1>2. (\A s \in Signals : SignalInv(s)) /\ PositionsAreBacked
  BY DEF Init, SignalInv, PositionsAreBacked
<1> QED
  BY <1>1, <1>2, InitType DEF Inductive, OneExecutor

\* A lot once opened keeps its quantity, and only a buy that settles opens one.
LEMMA HeldStep ==
  ASSUME Inductive, HeldInv, [Next]_vars
  PROVE  HeldInv'
<1> USE DEF recordVars
<1>1. CASE \E d \in Deciders : SettleBuy(d)
  <2>1. PICK d \in Deciders : SettleBuy(d)
    BY <1>1
  <2>2. PICK j \in Signals : Job(d) = j /\ qty[j] \in Nat \ {0}
    BY <2>1, Alone DEF SettleBuy, At, Executing, ExecutePcs, Inductive, TypeOK, TablesTypeOK
  <2>3. run' = run /\ size' = [size EXCEPT ![j] = qty[j]] /\ size \in [Signals -> Nat]
    BY <2>1, <2>2 DEF SettleBuy, Inductive, TypeOK, TablesTypeOK
  <2>4. Opened' = Opened \cup {j}
    BY <2>2, <2>3 DEF Opened
  <2>5. IsFiniteSet(Opened \cup {j})
    BY FS_AddElement DEF HeldInv
  <2> QED
    BY <2>3, <2>4, <2>5 DEF HeldInv
<1>2. CASE ReadPositions
  BY <1>2 DEF ReadPositions, HeldInv, Opened, IsOpen
<1>3. CASE RunPipeline \/ EndRun
  BY <1>3 DEF RunPipeline, EndRun, NoRun, HeldInv, Opened
<1>4. CASE \E s \in Signals : InsertSignal(s)
  BY <1>4 DEF InsertSignal, HeldInv, Opened
<1>5. CASE UNCHANGED <<run, size>>
  BY <1>5 DEF HeldInv, Opened
<1>6. CASE \/ SweepStep \/ SetSettings \/ UNCHANGED vars
           \/ \E d \in Deciders : Decide(d) \/ Abort(d)
  BY <1>5, <1>6 DEF SweepStep, ExpireSignal, SweepPublish, SetSettings, SetKillSwitch, SetAutonomy,
     SetExecutionMode, vars, Decide, ReceiveRequest, Preflight, PreflightLots, RunCli, FireSweep,
     ListDue, TakeDue, EndSweep, Transition, LoseRace, Abort
<1>7. ASSUME NEW d \in Deciders, ExecuteStep(d), ~SettleBuy(d) PROVE HeldInv'
  BY <1>5, <1>7 DEF ExecuteStep, AssertKillSwitchOff, SelectLots, RecordExecution, SettleSell,
     CheckLots, CommitClose, Publish, LiveGates, LiveLots, PlaceOrder, RecordPlaced
<1> QED
  BY <1>1, <1>2, <1>3, <1>4, <1>6, <1>7 DEF Next, Pipeline

\* Every step of the system preserves the inductive invariant.
LEMMA StepInductive == Inductive /\ HeldInv /\ [Next]_vars => Inductive'
<1> SUFFICES ASSUME Inductive, HeldInv, [Next]_vars PROVE Inductive'
  OBVIOUS
<1>1. CASE Pipeline
  BY <1>1, PipelineStep
<1>2. CASE SweepStep
  BY <1>2, ExpireStep, SweepPublishStep DEF SweepStep
<1>3. CASE SetSettings
  BY <1>3, SettingsStep
<1>4. ASSUME NEW d \in Deciders, Decide(d) PROVE Inductive'
  BY <1>4, QuietActions, TransitionStep DEF Decide
<1>5. ASSUME NEW d \in Deciders, ExecuteStep(d) PROVE Inductive'
  BY <1>5, QuietActions, RecordExecutionStep, SettleBuyStep, CommitCloseStep, PublishStep,
    PlaceOrderStep, RecordPlacedStep DEF ExecuteStep
<1>6. ASSUME NEW d \in Deciders, Abort(d) PROVE Inductive'
  BY <1>6, QuietActions
<1>7. CASE UNCHANGED vars
  <2> USE <1>7 DEF vars, tableVars, recordVars, brokerVars, settingVars
  <2>1. TablesTypeOK' /\ RunTypeOK'
    BY DEF Inductive, TypeOK, TablesTypeOK, RunTypeOK
  <2>2. SettingsTypeOK'
    BY DEF Inductive, TypeOK, SettingsTypeOK
  <2>3. Placed'
    BY DEF Inductive, TypeOK, JobTypeOK, Placed, JobOK, HandlerInv,
      AgendaInv, ExecutorInv, ChosenInv, Job, At, Executing
  <2>4. \A t \in Signals : SignalInv(t)'
    BY DEF Inductive, SignalInv
  <2>5. PositionsAreBacked'
    BY DEF Inductive, PositionsAreBacked
  <2> QED
    BY <2>1, <2>2, <2>3, <2>4, <2>5, TableStep
<1> QED
  BY <1>1, <1>2, <1>3, <1>4, <1>5, <1>6, <1>7 DEF Next

\* The inductive invariant holds in every reachable state: each handler stands
\* where its signal's row licenses it, an approved signal has one executor, and
\* what is held has a sum.
THEOREM InductiveHolds == Spec => [](Inductive /\ HeldInv)
<1>1. Init => HeldInv
  <2>1. Init => Opened = {} /\ run.held = {}
    BY DEF Init, Opened, NoRun
  <2> QED
    BY <2>1, FS_EmptySet DEF HeldInv
<1>2. Inductive /\ HeldInv /\ [Next]_vars => HeldInv'
  BY HeldStep
<1> QED
  BY <1>1, <1>2, InitInductive, StepInductive, PTL DEF Spec

\* Every variable keeps its shape.
THEOREM TypeCorrect == Spec => []TypeOK
<1>1. Inductive => TypeOK
  BY DEF Inductive
<1> QED
  BY <1>1, InductiveHolds, PTL

\* However many handlers race for a signal, it is filled at most once, and never
\* both on paper and at the broker.
THEOREM FilledAtMostOnce == Spec => []OneFillPerDecision
<1>1. Inductive => OneFillPerDecision
  BY DEF Inductive, TypeOK, TablesTypeOK, SignalInv, OneFillPerDecision
<1> QED
  BY <1>1, InductiveHolds, PTL

\* Subscribers only see approved, filled signals; fills and orders only stand
\* behind approved ones.
THEOREM PublicationIsBacked == Spec => []PublishedIsFilled
<1>1. Inductive => PublishedIsFilled
  BY DEF Inductive, SignalInv, PublishedIsFilled
<1> QED
  BY <1>1, InductiveHolds, PTL

\* Every lot stands on a filled buy of its size, and every close on a filled sell
\* of the same symbol.
THEOREM LotsAreBacked == Spec => []PositionsAreBacked
<1>1. Inductive => PositionsAreBacked
  BY DEF Inductive
<1> QED
  BY <1>1, InductiveHolds, PTL

\* A signal approved while the kill switch is on is neither filled nor placed
\* until the switch goes off.
THEOREM KillSwitchHolds == Spec => []HaltHolds
<1>1. Inductive => HaltHolds
  BY DEF Inductive, TypeOK, TablesTypeOK, SignalInv, HaltHolds
<1> QED
  BY <1>1, InductiveHolds, PTL

\* No order reaches the broker without the deploy flag, a live signal, and a
\* confirmation or the autonomy the signal was born under.
THEOREM LiveOrdersAreGated == Spec => []LiveOrderIsGated
<1>1. Inductive => LiveOrderIsGated
  BY DEF Inductive, SignalInv, LiveOrderIsGated
<1> QED
  BY <1>1, InductiveHolds, PTL
-----------------------------------------------------------------------------
(* What an exit closes: the sums of Covered, by the lemmas of Sums.         *)

ClosedBy(s) == {l \in Signals : s \in closers[l]}

\* Total is the library's sum of the sizes, now and in the next state.
LEMMA TotalIsSum ==
  /\ \A C : Total(C) = SumFunctionOnSet(size, C)
  /\ ExitCoversWhatItCloses <=>
       \A s \in Signals : SumFunctionOnSet(size, ClosedBy(s)) <= qty[s]
  /\ ExitCoversWhatItCloses' <=>
       \A s \in Signals : SumFunctionOnSet(size', ClosedBy(s)') <= qty'[s]
  /\ \A d \in Deciders : CoverInv(d) <=>
       (handler[d].pc \in ClosingPcs =>
          /\ \A l \in Signals : Job(d) \notin closers[l]
          /\ handler[d].pc # "settleLots" =>
               SumFunctionOnSet(size, handler[d].chosen) <= qty[Job(d)])
  /\ \A d \in Deciders : CoverInv(d)' <=>
       (handler'[d].pc \in ClosingPcs =>
          /\ \A l \in Signals : Job(d)' \notin closers'[l]
          /\ handler'[d].pc # "settleLots" =>
               SumFunctionOnSet(size', handler'[d].chosen) <= qty'[Job(d)'])
BY DEF ExitCoversWhatItCloses, ClosedBy, CoverInv, Total, MapThenSumSet, SumFunctionOnSet,
     FoldFunctionOnSet, MapThenFoldSet

\* What a sell closed, or is about to close, was opened, and has a size.
LEMMA ClosedWereOpened ==
  ASSUME Inductive, Covered
  PROVE  /\ \A l \in Opened : size[l] \in Nat
         /\ \A s \in Signals : ClosedBy(s) \subseteq Opened /\ IsFiniteSet(ClosedBy(s))
         /\ \A d \in Deciders : handler[d].pc \in {"closeLots", "commitClose"} =>
              handler[d].chosen \subseteq Opened /\ IsFiniteSet(handler[d].chosen)
<1>1. \A l \in Opened : size[l] \in Nat
  BY ConstantsAssumption DEF Opened, Inductive, TypeOK, TablesTypeOK
<1>2. \A s \in Signals : ClosedBy(s) \subseteq Opened
  BY DEF Inductive, PositionsAreBacked, ClosedBy, Opened
<1>3. \A d \in Deciders : handler[d].pc \in {"closeLots", "commitClose"} =>
        handler[d].chosen \subseteq Opened
  BY DEF Inductive, ChosenInv, TypeOK, HandlerTypeOK, Opened
<1>4. \A S \in SUBSET Opened : IsFiniteSet(S)
  BY FS_Subset DEF Covered
<1> QED  BY <1>1, <1>2, <1>3, <1>4

\* What a step may do to the record without touching what was closed: open lots,
\* and fill in the quantity of a signal that had no row.
Kept ==
  /\ closers' = closers
  /\ \A l \in Opened : size'[l] = size[l]
  /\ \A s \in Signals : status[s] # "none" => qty'[s] = qty[s]

\* The lots of an opened set keep their sum.
LEMMA SumsKept ==
  ASSUME Inductive, Covered, Kept, NEW S \in SUBSET Opened, IsFiniteSet(S)
  PROVE  SumFunctionOnSet(size', S) = SumFunctionOnSet(size, S)
<1>1. \A l \in S : size[l] \in Nat /\ size'[l] = size[l]
  BY ClosedWereOpened DEF Kept
<1> QED  BY <1>1, SumEqual

\* A handler that stays where it was stays covered.
LEMMA HandlerKept ==
  ASSUME Inductive, Covered, Kept, NEW d \in Deciders, handler'[d] = handler[d]
  PROVE  CoverInv(d)'
<1> SUFFICES ASSUME handler[d].pc \in ClosingPcs PROVE CoverInv(d)'
  BY DEF CoverInv
<1>1. /\ \A l \in Signals : Job(d) \notin closers[l]
      /\ handler[d].pc # "settleLots" =>
           SumFunctionOnSet(size, handler[d].chosen) <= qty[Job(d)]
  BY TotalIsSum DEF Covered
<1>2. Job(d)' = Job(d) /\ closers' = closers
  BY DEF Job, Kept
<1>3. Job(d) \in Signals /\ status[Job(d)] # "none"
  BY DEF Inductive, TypeOK, JobTypeOK, ClosingPcs
<1>4. qty'[Job(d)'] = qty[Job(d)]
  BY <1>2, <1>3 DEF Kept
<1>5. ASSUME handler[d].pc # "settleLots"
      PROVE  SumFunctionOnSet(size', handler'[d].chosen) <= qty'[Job(d)']
  <2>1. handler[d].chosen \subseteq Opened /\ IsFiniteSet(handler[d].chosen)
    BY <1>5, ClosedWereOpened DEF ClosingPcs
  <2>2. SumFunctionOnSet(size', handler[d].chosen) = SumFunctionOnSet(size, handler[d].chosen)
    BY <2>1, SumsKept
  <2> QED  BY <1>1, <1>4, <1>5, <2>2
<1> QED  BY <1>1, <1>2, <1>5, TotalIsSum

\* A step that closes nothing keeps what every exit closed within its size.
LEMMA SameClosers ==
  ASSUME Inductive, Inductive', Covered, Kept, IsFiniteSet(Opened'),
         \A d \in Deciders : CoverInv(d)'
  PROVE  Covered'
<1>1. ASSUME NEW s \in Signals PROVE SumFunctionOnSet(size', ClosedBy(s)') <= qty'[s]
  <2>1. ClosedBy(s)' = ClosedBy(s)
    BY DEF ClosedBy, Kept
  <2>2. ClosedBy(s) \subseteq Opened /\ IsFiniteSet(ClosedBy(s))
    BY ClosedWereOpened
  <2>3. SumFunctionOnSet(size', ClosedBy(s)) = SumFunctionOnSet(size, ClosedBy(s))
    BY <2>2, SumsKept
  <2>4. SumFunctionOnSet(size, ClosedBy(s)) <= qty[s]
    BY TotalIsSum DEF Covered
  <2>5. CASE status[s] # "none"
    <3>1. qty'[s] = qty[s]
      BY <2>5 DEF Kept
    <3> QED  BY <2>1, <2>3, <2>4, <3>1
  <2>6. CASE status[s] = "none"
    <3>1. execs[s] = 0
      BY <2>6 DEF Inductive, SignalInv, TypeOK, TablesTypeOK
    <3>2. ClosedBy(s) = {}
      BY <3>1 DEF ClosedBy, Inductive, PositionsAreBacked
    <3>3. SumFunctionOnSet(size, {}) = 0
      BY SumOfNone
    <3>4. qty'[s] \in Nat
      BY ConstantsAssumption DEF Inductive, TypeOK, TablesTypeOK
    <3> QED  BY <2>1, <2>3, <3>2, <3>3, <3>4
  <2> QED  BY <2>5, <2>6
<1>2. ExitCoversWhatItCloses'
  BY <1>1, TotalIsSum
<1> QED  BY <1>2 DEF Covered

\* A step in which one handler moves, and is not about to close anything then.
LEMMA MovedAway ==
  ASSUME Inductive, Inductive', Covered, NEW d \in Deciders, Frame(d),
         handler'[d].pc \notin ClosingPcs, UNCHANGED <<qty, size, closers>>
  PROVE  Covered'
<1>1. Kept /\ Opened' = Opened
  BY DEF Kept, Opened
<1>2. \A e \in Deciders : CoverInv(e)'
  <2>1. CoverInv(d)'
    BY DEF CoverInv
  <2>2. ASSUME NEW e \in Deciders \ {d} PROVE CoverInv(e)'
    BY <1>1, HandlerKept DEF Frame
  <2> QED  BY <2>1, <2>2
<1>3. IsFiniteSet(Opened')
  BY <1>1 DEF Covered
<1> QED  BY <1>1, <1>2, <1>3, SameClosers

\* A step in which no handler moves and no lot does.
LEMMA NobodyMoves ==
  ASSUME Inductive, Inductive', Covered, UNCHANGED <<size, closers, handler>>,
         \A s \in Signals : status[s] # "none" => qty'[s] = qty[s]
  PROVE  Covered'
<1>1. Kept /\ Opened' = Opened
  BY DEF Kept, Opened
<1>2. \A e \in Deciders : CoverInv(e)'
  BY <1>1, HandlerKept
<1>3. IsFiniteSet(Opened')
  BY <1>1 DEF Covered
<1> QED  BY <1>1, <1>2, <1>3, SameClosers

\* Where the moves of a handler that closes nothing leave it.
LEMMA AwayMoves ==
  ASSUME HandlerTypeOK, NEW d \in Deciders,
         \/ Finish(d) \/ Leave(d)
         \/ \E l \in (DecidePcs \cup ExecutePcs) \ ClosingPcs : Goto(d, l)
  PROVE  Frame(d) /\ handler'[d].pc \notin ClosingPcs
<1>1. CASE Finish(d) \/ Leave(d)
  BY <1>1, FinishMoves DEF ClosingPcs
<1>2. CASE \E l \in (DecidePcs \cup ExecutePcs) \ ClosingPcs : Goto(d, l)
  BY <1>2, GotoMoves
<1> QED  BY <1>1, <1>2

\* Every action of a handler but the five that come to closing lots.
LEMMA AwayCovered ==
  ASSUME Inductive, Inductive', Covered, NEW d \in Deciders,
         \/ Decide(d) \/ Abort(d)
         \/ AssertKillSwitchOff(d) \/ SelectLots(d) \/ Publish(d)
         \/ LiveGates(d) \/ LiveLots(d) \/ PlaceOrder(d) \/ RecordPlaced(d)
  PROVE  Covered'
<1>1. HandlerTypeOK /\ handler[d].todo \in SUBSET Signals
  BY DEF Inductive, TypeOK, HandlerTypeOK
<1> DEFINE Gone == \/ Finish(d) \/ Leave(d)
                   \/ \E l \in (DecidePcs \cup ExecutePcs) \ ClosingPcs : Goto(d, l)
<1>2. UNCHANGED <<qty, size, closers>>
  BY DEF Decide, ReceiveRequest, Preflight, PreflightLots, RunCli, FireSweep, ListDue, TakeDue,
     EndSweep, Transition, LoseRace, Abort, AssertKillSwitchOff, SelectLots, Publish,
     LiveGates, LiveLots, PlaceOrder, RecordPlaced, tableVars, recordVars
<1>3. CASE ReceiveRequest(d) \/ RunCli(d) \/ FireSweep(d) \/ ListDue(d) \/ TakeDue(d)
  <2>1. PICK l \in {"idle", "listing", "sweeping", "preflight", "preflightLots", "transition"} :
          \E s, say, due : Enter(d, l, s, say, due)
    BY <1>3 DEF ReceiveRequest, RunCli, FireSweep, ListDue, TakeDue, Leave
  <2>2. Frame(d) /\ handler'[d].pc = l
    BY <1>1, <2>1 DEF Enter, HandlerTypeOK, Frame
  <2> QED  BY <1>2, <2>2, MovedAway DEF ClosingPcs
<1>4. CASE \/ Preflight(d) \/ PreflightLots(d) \/ EndSweep(d) \/ Transition(d) \/ LoseRace(d)
           \/ Abort(d) \/ AssertKillSwitchOff(d) \/ SelectLots(d) \/ Publish(d)
           \/ LiveGates(d) \/ LiveLots(d) \/ PlaceOrder(d) \/ RecordPlaced(d)
  <2>1. Gone
    BY <1>4 DEF Preflight, PreflightLots, EndSweep, Transition, LoseRace, Abort,
       AssertKillSwitchOff, SelectLots, Publish, LiveGates, LiveLots, PlaceOrder,
       RecordPlaced, FirstStep, DecidePcs, ExecutePcs, ClosingPcs
  <2> QED  BY <1>1, <1>2, <2>1, AwayMoves, MovedAway
<1> QED  BY <1>3, <1>4 DEF Decide

\* An exit's execution is recorded before any lot names it.
LEMMA RecordCovered ==
  ASSUME Inductive, Inductive', Covered, NEW d \in Deciders, RecordExecution(d)
  PROVE  Covered'
<1>1. /\ handler[d].pc = "recordExecution" /\ Goto(d, "settleLots") /\ Executing(d)
      /\ UNCHANGED <<qty, size, closers>>
  BY DEF RecordExecution, At, Executing, ExecutePcs, tableVars
<1>2. Frame(d) /\ handler'[d].pc = "settleLots" /\ handler'[d].job = handler[d].job
  BY <1>1, GotoMoves DEF Inductive, TypeOK, ExecutePcs
<1>3. Job(d) \in Signals /\ execs[Job(d)] = 0
  BY <1>1, Alone DEF HandlerInv, ExecutorInv, AfterRecordPcs
<1>4. \A l \in Signals : Job(d) \notin closers[l]
  BY <1>3 DEF Inductive, PositionsAreBacked
<1>5. CoverInv(d)'
  BY <1>1, <1>2, <1>4 DEF CoverInv, Job
<1>6. Kept /\ Opened' = Opened
  BY <1>1 DEF Kept, Opened
<1>7. \A e \in Deciders \ {d} : CoverInv(e)'
  BY <1>2, <1>6, HandlerKept DEF Frame
<1>8. IsFiniteSet(Opened')
  BY <1>6 DEF Covered
<1> QED  BY <1>5, <1>6, <1>7, <1>8, SameClosers

\* The lots an exit selects fit what it sells.
LEMMA SettleSellCovered ==
  ASSUME Inductive, Inductive', Covered, NEW d \in Deciders, SettleSell(d)
  PROVE  Covered'
<1>1. /\ handler[d].pc = "settleLots" /\ UNCHANGED <<qty, size, closers>>
      /\ HandlerTypeOK /\ Job(d) \in Signals
  BY DEF SettleSell, At, tableVars, recordVars, Inductive, TypeOK, JobTypeOK
<1>2. CASE Finish(d)
  BY <1>1, <1>2, AwayMoves, MovedAway
<1>3. CASE ~Finish(d)
  <2>1. PICK lots \in Selections(Job(d)) :
          handler' = [handler EXCEPT ![d].pc = "closeLots", ![d].chosen = lots]
    BY <1>3 DEF SettleSell
  <2>2. /\ Frame(d) /\ handler'[d].pc = "closeLots"
        /\ handler'[d].job = handler[d].job /\ handler'[d].chosen = lots
    BY <1>1, <2>1 DEF HandlerTypeOK, Frame
  <2>3. Total(lots) <= qty[Job(d)]
    BY DEF Selections
  <2>4. SumFunctionOnSet(size, lots) <= qty[Job(d)]
    BY <2>3, TotalIsSum
  <2>5. \A l \in Signals : Job(d) \notin closers[l]
    BY <1>1 DEF Covered, CoverInv, ClosingPcs
  <2>6. Job(d)' = Job(d) /\ size' = size /\ closers' = closers /\ qty' = qty
    BY <1>1, <2>2 DEF Job
  <2>7. CoverInv(d)'
    BY <2>2, <2>4, <2>5, <2>6, TotalIsSum
  <2>8. Kept /\ Opened' = Opened
    BY <2>6 DEF Kept, Opened
  <2>9. \A e \in Deciders \ {d} : CoverInv(e)'
    BY <2>2, <2>8, HandlerKept DEF Frame
  <2>10. IsFiniteSet(Opened')
    BY <2>8 DEF Covered
  <2> QED  BY <2>7, <2>8, <2>9, <2>10, SameClosers
<1> QED  BY <1>2, <1>3

\* The check of the lots keeps the choice.
LEMMA CheckCovered ==
  ASSUME Inductive, Inductive', Covered, NEW d \in Deciders, CheckLots(d)
  PROVE  Covered'
<1>1. /\ handler[d].pc = "closeLots" /\ UNCHANGED <<qty, size, closers>>
      /\ HandlerTypeOK
  BY DEF CheckLots, At, tableVars, recordVars, Inductive, TypeOK
<1>2. CASE Finish(d)
  BY <1>1, <1>2, AwayMoves, MovedAway
<1>3. CASE Goto(d, "commitClose")
  <2>1. /\ Frame(d) /\ handler'[d].pc = "commitClose"
        /\ handler'[d].job = handler[d].job /\ handler'[d].chosen = handler[d].chosen
    BY <1>1, <1>3, GotoMoves DEF ExecutePcs
  <2>2. /\ \A l \in Signals : Job(d) \notin closers[l]
        /\ SumFunctionOnSet(size, handler[d].chosen) <= qty[Job(d)]
    BY <1>1, TotalIsSum DEF Covered, ClosingPcs
  <2>3. Job(d)' = Job(d) /\ size' = size /\ closers' = closers /\ qty' = qty
    BY <1>1, <2>1 DEF Job
  <2>4. CoverInv(d)'
    BY <2>1, <2>2, <2>3, TotalIsSum
  <2>5. Kept /\ Opened' = Opened
    BY <2>3 DEF Kept, Opened
  <2>6. \A e \in Deciders \ {d} : CoverInv(e)'
    BY <2>1, <2>5, HandlerKept DEF Frame
  <2>7. IsFiniteSet(Opened')
    BY <2>5 DEF Covered
  <2> QED  BY <2>4, <2>5, <2>6, <2>7, SameClosers
<1> QED  BY <1>2, <1>3 DEF CheckLots

\* What a handler does after the fill is no close.
LEMMA AfterFillMoves ==
  ASSUME HandlerTypeOK, NEW d \in Deciders, AfterFill(d)
  PROVE  Frame(d) /\ handler'[d].pc \notin ClosingPcs
<1>1. Finish(d) \/ Goto(d, "publish")
  BY DEF AfterFill
<1>2. "publish" \in (DecidePcs \cup ExecutePcs) \ ClosingPcs
  BY DEF ExecutePcs, ClosingPcs
<1> QED  BY <1>1, <1>2, AwayMoves

\* A new lot is one more; the others keep their sizes.
LEMMA SettleBuyCovered ==
  ASSUME Inductive, Inductive', Covered, NEW d \in Deciders, SettleBuy(d)
  PROVE  Covered'
<1> DEFINE b == Job(d)
<1>1. /\ handler[d].pc = "settleLots" /\ Executing(d) /\ AfterFill(d)
      /\ size' = [size EXCEPT ![b] = qty[b]] /\ UNCHANGED <<qty, closers>>
  BY DEF SettleBuy, At, Executing, ExecutePcs, tableVars
<1>2. b \in Signals
  BY <1>1, Alone
<1>3. Frame(d) /\ handler'[d].pc \notin ClosingPcs
  BY <1>1, AfterFillMoves DEF Inductive, TypeOK
<1>4. Kept
  <2>1. \A l \in Opened : size'[l] = size[l]
    BY <1>1, <1>2 DEF Inductive, PositionsAreBacked, TypeOK, TablesTypeOK, Opened
  <2> QED  BY <1>1, <2>1 DEF Kept
<1>5. IsFiniteSet(Opened')
  <2>1. Opened' \subseteq Opened \cup {b}
    BY <1>1 DEF Inductive, TypeOK, TablesTypeOK, Opened
  <2>2. IsFiniteSet(Opened \cup {b})
    BY FS_AddElement DEF Covered
  <2> QED  BY <2>1, <2>2, FS_Subset
<1>6. \A e \in Deciders : CoverInv(e)'
  <2>1. CoverInv(d)'
    BY <1>3 DEF CoverInv
  <2>2. \A e \in Deciders \ {d} : CoverInv(e)'
    BY <1>3, <1>4, HandlerKept DEF Frame
  <2> QED  BY <2>1, <2>2
<1> QED  BY <1>4, <1>5, <1>6, SameClosers

\* An exit closes what it chose, all at once; every other handler works on
\* another signal.
LEMMA CommitCovered ==
  ASSUME Inductive, Inductive', Covered, NEW d \in Deciders, CommitClose(d)
  PROVE  Covered'
<1> DEFINE j == Job(d)  C == handler[d].chosen
<1>1. /\ handler[d].pc = "commitClose" /\ Executing(d) /\ AfterFill(d)
      /\ UNCHANGED <<qty, size>>
      /\ closers' = [l \in Signals |-> IF l \in C THEN closers[l] \cup {j} ELSE closers[l]]
  BY DEF CommitClose, At, Executing, ExecutePcs, tableVars
<1>2. /\ j \in Signals /\ C \subseteq Signals
      /\ \A e \in Deciders \ {d} : Executing(e) => Job(e) # j
  BY <1>1, Alone DEF Inductive, TypeOK, HandlerTypeOK
<1>3. Frame(d) /\ handler'[d].pc \notin ClosingPcs
  BY <1>1, AfterFillMoves DEF Inductive, TypeOK
<1>4. SumFunctionOnSet(size, C) <= qty[j] /\ \A l \in Signals : j \notin closers[l]
  BY <1>1, TotalIsSum DEF Covered, ClosingPcs
<1>5. ASSUME NEW s \in Signals PROVE SumFunctionOnSet(size', ClosedBy(s)') <= qty'[s]
  <2>1. size' = size /\ qty' = qty
    BY <1>1
  <2>2. CASE s = j
    <3>1. ClosedBy(s)' = C
      BY <1>1, <1>2, <1>4, <2>2 DEF ClosedBy
    <3> QED  BY <1>4, <2>1, <2>2, <3>1
  <2>3. CASE s # j
    <3>1. ClosedBy(s)' = ClosedBy(s)
      BY <1>1, <2>3 DEF ClosedBy
    <3>2. SumFunctionOnSet(size, ClosedBy(s)) <= qty[s]
      BY TotalIsSum DEF Covered
    <3> QED  BY <2>1, <3>1, <3>2
  <2> QED  BY <2>2, <2>3
<1>6. ExitCoversWhatItCloses'
  BY <1>5, TotalIsSum
<1>7. ASSUME NEW e \in Deciders \ {d}, handler[e].pc \in ClosingPcs
      PROVE  CoverInv(e)'
  <2>1. handler'[e] = handler[e] /\ Job(e)' = Job(e)
    BY <1>3 DEF Frame, Job
  <2>2. Job(e) # j
    BY <1>2, <1>7 DEF Executing, ExecutePcs, ClosingPcs
  <2>3. /\ \A l \in Signals : Job(e) \notin closers[l]
        /\ handler[e].pc # "settleLots" =>
             SumFunctionOnSet(size, handler[e].chosen) <= qty[Job(e)]
    BY <1>7, TotalIsSum DEF Covered
  <2>4. \A l \in Signals : Job(e) \notin closers'[l]
    BY <1>1, <2>2, <2>3
  <2>5. size' = size /\ qty' = qty
    BY <1>1
  <2> QED  BY <2>1, <2>3, <2>4, <2>5, TotalIsSum
<1>8. \A e \in Deciders : CoverInv(e)'
  <2>1. CoverInv(d)'
    BY <1>3 DEF CoverInv
  <2>2. ASSUME NEW e \in Deciders \ {d}, handler[e].pc \notin ClosingPcs PROVE CoverInv(e)'
    BY <1>3, <2>2 DEF CoverInv, Frame
  <2> QED  BY <1>7, <2>1, <2>2
<1>9. Opened' = Opened
  BY <1>1 DEF Opened
<1> QED  BY <1>6, <1>8, <1>9 DEF Covered

\* What the pipeline, the sweeps and the settings do.
LEMMA OthersCovered ==
  ASSUME Inductive, Inductive', Covered, Pipeline \/ SweepStep \/ SetSettings \/ UNCHANGED vars
  PROVE  Covered'
<1>1. UNCHANGED <<size, closers, handler>>
  BY DEF Pipeline, RunPipeline, ReadPositions, EndRun, InsertSignal, SweepStep, ExpireSignal,
     SweepPublish, SetSettings, SetKillSwitch, SetAutonomy, SetExecutionMode, vars, recordVars
<1>2. CASE \E s \in Signals : InsertSignal(s)
  <2>1. PICK s \in Signals : status[s] = "none" /\ \E q : qty' = [qty EXCEPT ![s] = q]
    BY <1>2 DEF InsertSignal, ProposedQuantities
  <2>2. \A t \in Signals : status[t] # "none" => qty'[t] = qty[t]
    BY <2>1 DEF Inductive, TypeOK, TablesTypeOK
  <2> QED  BY <1>1, <2>2, NobodyMoves
<1>3. CASE ~\E s \in Signals : InsertSignal(s)
  <2>1. qty' = qty
    BY <1>3 DEF Pipeline, RunPipeline, ReadPositions, EndRun, SweepStep, ExpireSignal,
       SweepPublish, SetSettings, SetKillSwitch, SetAutonomy, SetExecutionMode, vars, tableVars
  <2> QED  BY <1>1, <2>1, NobodyMoves
<1> QED  BY <1>2, <1>3

LEMMA StepCovered == Inductive /\ HeldInv /\ Covered /\ [Next]_vars => Covered'
<1> SUFFICES ASSUME Inductive, HeldInv, Covered, [Next]_vars PROVE Covered'
  OBVIOUS
<1>1. Inductive'
  BY StepInductive
<1>2. CASE Pipeline \/ SweepStep \/ SetSettings \/ UNCHANGED vars
  BY <1>1, <1>2, OthersCovered
<1>3. ASSUME NEW d \in Deciders, Decide(d) \/ ExecuteStep(d) \/ Abort(d)
      PROVE  Covered'
  BY <1>1, <1>3, AwayCovered, RecordCovered, SettleBuyCovered, SettleSellCovered, CheckCovered,
     CommitCovered DEF ExecuteStep
<1> QED  BY <1>2, <1>3 DEF Next

LEMMA InitCovered == Init => Covered
<1> SUFFICES ASSUME Init PROVE Covered
  OBVIOUS
<1>1. IsFiniteSet(Opened)
  <2>1. Opened = {}
    BY DEF Init, Opened
  <2> QED  BY <2>1, FS_EmptySet
<1>2. \A d \in Deciders : CoverInv(d)
  BY DEF Init, Idle, CoverInv, ClosingPcs
<1>3. ASSUME NEW s \in Signals PROVE SumFunctionOnSet(size, ClosedBy(s)) <= qty[s]
  <2>1. ClosedBy(s) = {} /\ qty[s] = 0
    BY DEF Init, ClosedBy
  <2>2. SumFunctionOnSet(size, {}) = 0
    BY SumOfNone
  <2> QED  BY <2>1, <2>2
<1>4. ExitCoversWhatItCloses
  BY <1>3, TotalIsSum
<1> QED  BY <1>1, <1>2, <1>4 DEF Covered

\* No exit closes more shares than it sold, however many handlers settle at once
\* and whatever they found when they looked at the ledger again.
THEOREM ExitsCoverWhatTheyClose == Spec => []ExitCoversWhatItCloses
<1>1. Init => Covered
  BY InitCovered
<1>2. Inductive /\ HeldInv /\ Covered /\ [Next]_vars => Covered'
  BY StepCovered
<1>3. Covered => ExitCoversWhatItCloses
  BY DEF Covered
<1> QED
  BY <1>1, <1>2, <1>3, InductiveHolds, PTL DEF Spec
-----------------------------------------------------------------------------
(* The refinement: each step is a step of the record, or invisible to it.   *)

Filled  == {s \in Signals : execs[s] > 0}
Visible == {s \in Signals : published[s]}
Closed  == {s \in Signals : closers[s] # {}}

Recorded == <<status, Filled, Visible, Opened, Closed>>

\* A step that writes none of the record's five columns cannot be seen in it.
LEMMA Unseen ==
  ASSUME UNCHANGED <<status, execs, published, size, closers>>
  PROVE  UNCHANGED Recorded
  BY DEF Recorded, Filled, Visible, Opened, Closed

\* Every step, from a state the invariant allows, is a step of the record or
\* leaves its five columns alone.
LEMMA RecordStep ==
  ASSUME Inductive, Inductive', [Next]_vars
  PROVE  [Record!Next]_Recorded
<1> USE DEF tableVars, recordVars, brokerVars, settingVars
<1>1. CASE UNCHANGED <<status, execs, published, size, closers>>
  BY <1>1, Unseen
<1>2. ASSUME NEW s \in Signals, InsertSignal(s) PROVE [Record!Next]_Recorded
  <2>1. Record!Propose(s)
    BY <1>2 DEF InsertSignal, Record!Propose
  <2> QED
    BY <2>1 DEF Record!Next
<1>3. ASSUME NEW s \in Signals, ExpireSignal(s) PROVE [Record!Next]_Recorded
  <2>1. Record!Decide(s, "expired")
    BY <1>3 DEF ExpireSignal, Expirable, Undecided, Record!Decide
  <2> QED
    BY <2>1 DEF Record!Next
<1>4. ASSUME NEW d \in Deciders, Transition(d) PROVE [Record!Next]_Recorded
  <2>1. PICK j \in Signals : Job(d) = j /\ handler[d].pc = "transition"
    BY <1>4 DEF Transition, At, Inductive, TypeOK, JobTypeOK
  <2>2. Record!Decide(j, Verdict(d)) /\ Verdict(d) \in {"approved", "rejected"}
    BY <1>4, <2>1 DEF Transition, Undecided, Verdict, Record!Decide
  <2> QED
    BY <2>2 DEF Record!Next
<1>5. ASSUME NEW j \in Signals, execs[j] > 0, published' = [published EXCEPT ![j] = TRUE],
             UNCHANGED <<status, execs, size, closers>>
      PROVE [Record!Next]_Recorded
  <2>1. Visible' = Visible \cup {j} /\ Filled' = Filled /\ j \in Filled
    BY <1>5 DEF Visible, Filled, Inductive, TypeOK, TablesTypeOK
  <2>2. Record!Show(j)
    BY <1>5, <2>1 DEF Record!Show, Visible, Filled
  <2> QED
    BY <2>2 DEF Record!Next
<1>6. ASSUME NEW s \in Signals, SweepPublish(s) PROVE [Record!Next]_Recorded
  BY <1>5, <1>6 DEF SweepPublish, FilledUnpublished
<1>7. ASSUME NEW d \in Deciders, Publish(d) PROVE [Record!Next]_Recorded
  <2>1. Executing(d) /\ handler[d].pc = "publish"
    BY <1>7 DEF Publish, At, Executing, ExecutePcs
  <2>2. PICK j \in Signals : Job(d) = j /\ HandlerInv(d)
    BY <2>1, Alone
  <2>3. execs[j] > 0
    BY <2>1, <2>2 DEF HandlerInv, ExecutorInv, AfterRecordPcs
  <2> QED
    BY <1>5, <1>7, <2>2, <2>3 DEF Publish
<1>8. ASSUME NEW d \in Deciders, RecordExecution(d) PROVE [Record!Next]_Recorded
  <2>1. Executing(d) /\ handler[d].pc = "recordExecution"
    BY <1>8 DEF RecordExecution, At, Executing, ExecutePcs
  <2>2. PICK j \in Signals : Job(d) = j /\ status[j] = "approved" /\ HandlerInv(d)
    BY <2>1, Alone
  <2>3. execs' = [execs EXCEPT ![j] = @ + 1] /\ execs \in [Signals -> Nat]
    BY <1>8, <2>2 DEF RecordExecution, Inductive, TypeOK, TablesTypeOK
  <2>4. Filled' = Filled \cup {j}
    BY <2>3 DEF Filled
  <2>5. Record!Fill(j)
    BY <1>8, <2>2, <2>4 DEF RecordExecution, Record!Fill, Filled
  <2> QED
    BY <2>5 DEF Record!Next
<1>9. ASSUME NEW d \in Deciders, SettleBuy(d) PROVE [Record!Next]_Recorded
  <2>1. Executing(d) /\ handler[d].pc = "settleLots"
    BY <1>9 DEF SettleBuy, At, Executing, ExecutePcs
  <2>2. PICK j \in Signals : Job(d) = j /\ status[j] = "approved" /\ HandlerInv(d)
    BY <2>1, Alone
  <2>3. execs[j] > 0 /\ qty[j] > 0
    BY <2>1, <2>2, ConstantsAssumption DEF HandlerInv, ExecutorInv, AfterRecordPcs, Inductive, TypeOK, TablesTypeOK
  <2>4. size' = [size EXCEPT ![j] = qty[j]] /\ Side[j] = "buy"
    BY <1>9, <2>2, ConstantsAssumption DEF SettleBuy, IsSell
  <2>5. Opened' = Opened \cup {j}
    BY <2>3, <2>4 DEF Opened, Inductive, TypeOK, TablesTypeOK
  <2>6. Record!OpenLot(j)
    BY <1>9, <2>3, <2>4, <2>5 DEF SettleBuy, Record!OpenLot, Opened
  <2> QED
    BY <2>6 DEF Record!Next
<1>10. ASSUME NEW d \in Deciders, CommitClose(d) PROVE [Record!Next]_Recorded
  <2>1. Executing(d) /\ handler[d].pc = "commitClose"
    BY <1>10 DEF CommitClose, At, Executing, ExecutePcs
  <2>2. PICK j \in Signals : Job(d) = j /\ status[j] = "approved" /\ HandlerInv(d)
    BY <2>1, Alone
  <2>3. PICK lots \in SUBSET Signals :
          lots = handler[d].chosen /\ execs[j] > 0 /\ Side[j] = "sell" /\ lots \subseteq Opened
    BY <2>1, <2>2 DEF HandlerInv, ExecutorInv, ChosenInv, AfterRecordPcs, IsSell, Opened,
      Inductive, TypeOK, HandlerTypeOK
  <2>4. Closed' = Closed \cup lots
    BY <1>10, <2>2, <2>3 DEF CommitClose, Closed, Inductive, TypeOK, TablesTypeOK
  <2>5. Record!CloseLots(j, lots)
    BY <1>10, <2>3, <2>4 DEF CommitClose, Record!CloseLots, Closed, Opened
  <2> QED
    BY <2>5 DEF Record!Next
<1>11. CASE \/ RunPipeline \/ ReadPositions \/ EndRun \/ SetSettings \/ UNCHANGED vars
  BY <1>1, <1>11 DEF RunPipeline, ReadPositions, EndRun, SetSettings, SetKillSwitch,
    SetAutonomy, SetExecutionMode, vars
<1>12. ASSUME NEW d \in Deciders,
         \/ Abort(d) \/ EndSweep(d) \/ LoseRace(d)
         \/ ReceiveRequest(d) \/ RunCli(d) \/ FireSweep(d) \/ ListDue(d) \/ TakeDue(d)
         \/ Preflight(d) \/ PreflightLots(d) \/ AssertKillSwitchOff(d) \/ SelectLots(d)
         \/ CheckLots(d) \/ LiveGates(d) \/ LiveLots(d) \/ SettleSell(d)
         \/ PlaceOrder(d) \/ RecordPlaced(d)
       PROVE [Record!Next]_Recorded
  BY <1>1, <1>12 DEF Abort, EndSweep, LoseRace, ReceiveRequest, RunCli, FireSweep, ListDue, TakeDue,
    Preflight, PreflightLots, AssertKillSwitchOff, SelectLots, CheckLots, LiveGates, LiveLots,
    SettleSell, PlaceOrder, RecordPlaced
<1> QED
  BY <1>2, <1>3, <1>4, <1>6, <1>7, <1>8, <1>9, <1>10, <1>11, <1>12
  DEF Next, Pipeline, SweepStep, Decide, ExecuteStep

\* Decisions implements the record Ollie promises: decided once, filled only if
\* approved, shown only if filled, positions only behind fills, nothing undone.
THEOREM RecordIsImplemented == Spec => ImplementsRecord
<1>1. Init => Record!Init
  BY DEF Init, Record!Init
<1>2. Inductive /\ Inductive' /\ [Next]_vars => [Record!Next]_Record!vars
  BY RecordStep DEF Recorded, Filled, Visible, Opened, Closed, Record!vars
<1> QED
  BY <1>1, <1>2, InductiveHolds, PTL DEF Spec, ImplementsRecord, Record!Spec
=============================================================================
