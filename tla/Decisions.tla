----------------------------- MODULE Decisions -----------------------------
(***************************************************************************)
(* The owner side of Ollie between a proposed signal and its published     *)
(* fill.  Handlers run concurrently over one Postgres database; each of    *)
(* their steps is one await: one statement, one transaction, or one broker *)
(* call.  Three kinds of handler decide signals:                           *)
(*                                                                         *)
(*   Requests  POST /v1/signals/:id/decision in flight                     *)
(*   Clis      runs of scripts/decide-signal.ts                            *)
(*   Sweeps    firings of the autonomy sweep                               *)
(*                                                                         *)
(* and all of them share transitionSignal, the executors and settleLots.   *)
(* The pipeline proposes, the expiry and publish sweeps run beside them,   *)
(* and the owner flips the three runtime settings at any moment.  Any      *)
(* handler may stop at any await (an error, or the process dying): Abort.  *)
(*                                                                         *)
(* Clock time is not modelled: an approval or veto window may close at any *)
(* step, and the order of a symbol's open lots (recorded_at) is any order. *)
(***************************************************************************)
EXTENDS Naturals, FiniteSets, FiniteSetsExt

CONSTANTS
  Signals,             \* the signals rows that may be inserted
  Symbol,              \* [Signals -> symbols]
  Side,                \* [Signals -> {"buy", "sell"}]
  Requests, Clis, Sweeps,
  NoSignal,            \* the job of an idle handler
  LiveTradingEnabled,  \* LIVE_TRADING_ENABLED, the deploy half of the live gate
  AutonomyEnabled,     \* AUTONOMY_ENABLED, the deploy half of the autonomy gate
  MaxShares            \* bound on a buy's quantity and a live exit's, in shares

Deciders == Requests \cup Clis \cup Sweeps
Symbols  == {Symbol[s] : s \in Signals}
Modes    == {"paper", "live"}

ASSUME ConstantsAssumption ==
  /\ Side \in [Signals -> {"buy", "sell"}]
  /\ Symbol = [s \in Signals |-> Symbol[s]]
  /\ Requests \cap Clis = {} /\ Requests \cap Sweeps = {} /\ Clis \cap Sweeps = {}
  /\ NoSignal \notin Signals
  /\ LiveTradingEnabled \in BOOLEAN /\ AutonomyEnabled \in BOOLEAN
  /\ MaxShares \in Nat \ {0}

VARIABLES
  \* the signals table
  status,      \* "none" until inserted
  mode,        \* execution_mode, frozen at insert
  auto,        \* auto_decide_at is set
  qty,         \* quantity
  published,
  \* executions, track_record, live_orders, and the broker's own order book
  execs,       \* how many executions rows a signal has
  size,        \* the quantity of the lot a signal opened, 0 before it opens
  closers,     \* the sell signals that appended a closed row for a lot
  broker,      \* the broker's order for a signal's ref_id: "none" or its state
  order,       \* the live_orders row exists
  \* app_settings (kill: either kill switch, KILL_SWITCH or the column)
  kill, execMode, autonomy,
  \* processes
  run,         \* the pipeline run in progress
  handler,     \* [Deciders -> where each stands and its local variables]
  \* history
  approvedBy,  \* what approved a signal
  halted       \* approved while halted, and halted ever since

tableVars   == <<status, mode, auto, qty, published, approvedBy>>
recordVars  == <<execs, size, closers>>
brokerVars  == <<broker, order>>
settingVars == <<kill, execMode, autonomy>>
vars == <<tableVars, recordVars, brokerVars, settingVars, run, handler, halted>>

NoRun == [at |-> "idle", mode |-> "paper", auto |-> FALSE, held |-> {}, todo |-> {}]
Idle  == [pc |-> "idle", job |-> NoSignal, say |-> "none", todo |-> {}, chosen |-> {}]

Init ==
  /\ status = [s \in Signals |-> "none"]
  /\ mode = [s \in Signals |-> "paper"]
  /\ auto = [s \in Signals |-> FALSE]
  /\ qty = [s \in Signals |-> 0]
  /\ published = [s \in Signals |-> FALSE]
  /\ execs = [s \in Signals |-> 0]
  /\ size = [s \in Signals |-> 0]
  /\ closers = [s \in Signals |-> {}]
  /\ broker = [s \in Signals |-> "none"]
  /\ order = [s \in Signals |-> FALSE]
  /\ kill = FALSE /\ execMode = "paper" /\ autonomy = FALSE
  /\ run = NoRun
  /\ handler = [d \in Deciders |-> Idle]
  /\ approvedBy = [s \in Signals |-> "nobody"]
  /\ halted = {}

-----------------------------------------------------------------------------
(* The lot ledger: the latest row of a lot is open until some sell appends  *)
(* a closed row.  A selection takes whole lots, first to last, and stops at *)
(* the first that would overshoot: over all orders, a set that fits and     *)
(* that either leaves nothing or leaves a lot too large to add.             *)

IsOpen(lot)   == size[lot] > 0 /\ closers[lot] = {}
OpenLots(sym) == {l \in Signals : Symbol[l] = sym /\ IsOpen(l)}
Total(lots)   == MapThenSumSet(LAMBDA l : size[l], lots)

\* Bug: everything held is sold, whatever the exit's own size.
Selections_TakeAll(s) == {OpenLots(Symbol[s])}

Selections(s) ==
  LET open == OpenLots(Symbol[s])
  IN  {C \in SUBSET open :
        /\ Total(C) <= qty[s]
        /\ C = open \/ \E l \in open \ C : Total(C) + size[l] > qty[s]}
-----------------------------------------------------------------------------
(* The pipeline run, as far as it reaches the signals table.                *)

RunPipeline ==
  /\ run.at = "idle" /\ ~kill
  /\ run' = [at |-> "fetch", mode |-> execMode, auto |-> AutonomyEnabled /\ autonomy,
             held |-> {}, todo |-> {}]
  /\ UNCHANGED <<tableVars, recordVars, brokerVars, settingVars, handler, halted>>

ReadPositions ==
  /\ run.at = "fetch"
  /\ run' = [run EXCEPT !.at = "insert", !.todo = Symbols,
                        !.held = {l \in Signals : IsOpen(l)}]
  /\ UNCHANGED <<tableVars, recordVars, brokerVars, settingVars, handler, halted>>

\* Bug: the risk gate lets a sell of nothing through.
ProposedQuantities_Zero(s) == 0 .. MaxShares

\* A paper exit is sized to the lots held; a live one to what the broker says
\* is sellable.  Neither is proposed for nothing (sell_without_position).
ProposedQuantities(s) ==
  LET held == {l \in run.held : Symbol[l] = Symbol[s]}
  IN  IF Side[s] = "sell" /\ run.mode = "paper" THEN {Total(held)} \ {0}
      ELSE 1 .. MaxShares

InsertSignal(s) ==
  /\ run.at = "insert" /\ Symbol[s] \in run.todo
  /\ status[s] = "none"
  /\ \E q \in ProposedQuantities(s) : qty' = [qty EXCEPT ![s] = q]
  /\ status' = [status EXCEPT ![s] = "pending"]
  /\ mode' = [mode EXCEPT ![s] = run.mode]
  /\ auto' = [auto EXCEPT ![s] = run.auto]
  /\ run' = [run EXCEPT !.todo = @ \ {Symbol[s]}]
  /\ UNCHANGED <<published, approvedBy, recordVars, brokerVars, settingVars, handler, halted>>

EndRun ==
  /\ run.at # "idle"
  /\ run' = NoRun
  /\ UNCHANGED <<tableVars, recordVars, brokerVars, settingVars, handler, halted>>

-----------------------------------------------------------------------------
(* How a handler moves.  A sweep goes back to its list, everyone else ends. *)

Goto(d, l) == handler' = [handler EXCEPT ![d].pc = l]

Enter(d, l, s, say, due) == handler' =
  [handler EXCEPT ![d] = [pc |-> l, job |-> s, say |-> say, todo |-> due, chosen |-> {}]]

Finish(d) ==
  Enter(d, IF d \in Sweeps THEN "sweeping" ELSE "idle", NoSignal, "none", handler[d].todo)

Leave(d) == Enter(d, "idle", NoSignal, "none", {})

Job(d)    == handler[d].job
At(d, l)  == handler[d].pc = l
IsSell(s) == Side[s] = "sell"

DecidePcs  == {"listing", "sweeping", "preflight", "preflightLots", "transition"}
ExecutePcs == {"killSwitch", "selectLots", "recordExecution", "settleLots", "closeLots",
               "commitClose", "publish", "liveGates", "liveLots", "place", "recordPlaced"}
Executing(d) == handler[d].pc \in ExecutePcs

\* An error or a crash at an await: the handler is gone, or (a sweep executing,
\* inside its per-signal try block) moves on to the next signal.
Abort(d) ==
  /\ ~At(d, "idle")
  /\ Leave(d) \/ (Executing(d) /\ Finish(d))
  /\ UNCHANGED <<tableVars, recordVars, brokerVars, settingVars, run, halted>>
-----------------------------------------------------------------------------
(* Deciding.                                                                *)

\* The live confirmation is read for a live signal only.
Sayable(s, say) == say = "confirm" => mode[s] = "live"

\* A request reads the signal and answers 409 unless it is pending.
ReceiveRequest(d) ==
  /\ d \in Requests /\ At(d, "idle")
  /\ \E s \in Signals, say \in {"reject", "approve", "confirm"} :
       /\ status[s] = "pending" /\ Sayable(s, say)
       /\ Enter(d, IF say = "reject" THEN "transition" ELSE "preflight", s, say, {})
  /\ UNCHANGED <<tableVars, recordVars, brokerVars, settingVars, run, halted>>

\* Bug: the confirmation is not asked for.
Confirmed_Never(d) == TRUE

LiveGatesOpen(s) == LiveTradingEnabled /\ execMode = "live" /\ mode[s] = "live"
Confirmed(d)     == mode[Job(d)] = "live" => handler[d].say = "confirm"

Preflight(d) ==
  /\ At(d, "preflight")
  /\ IF ~kill /\ (mode[Job(d)] = "live" => LiveGatesOpen(Job(d))) /\ Confirmed(d)
     THEN Goto(d, IF IsSell(Job(d)) THEN "preflightLots" ELSE "transition")
     ELSE Finish(d)
  /\ UNCHANGED <<tableVars, recordVars, brokerVars, settingVars, run, halted>>

PreflightLots(d) ==
  /\ At(d, "preflightLots")
  /\ IF OpenLots(Symbol[Job(d)]) # {} THEN Goto(d, "transition") ELSE Finish(d)
  /\ UNCHANGED <<tableVars, recordVars, brokerVars, settingVars, run, halted>>

\* The command line asks for its confirmation and nothing else.
RunCli(d) ==
  /\ d \in Clis /\ At(d, "idle")
  /\ \E s \in Signals, say \in {"reject", "approve", "confirm"} :
       /\ status[s] = "pending" /\ Sayable(s, say)
       /\ mode[s] = "live" => say # "approve"
       /\ Enter(d, "transition", s, say, {})
  /\ UNCHANGED <<tableVars, recordVars, brokerVars, settingVars, run, halted>>

\* The autonomy sweep checks its gates once, ...
FireSweep(d) ==
  /\ d \in Sweeps /\ At(d, "idle")
  /\ ~kill /\ AutonomyEnabled /\ autonomy
  /\ Enter(d, "listing", NoSignal, "none", {})
  /\ UNCHANGED <<tableVars, recordVars, brokerVars, settingVars, run, halted>>

\* ...then lists the signals whose veto window has closed (any of those that
\* carry one).
ListDue(d) ==
  /\ At(d, "listing")
  /\ \E due \in SUBSET {s \in Signals : status[s] = "pending" /\ auto[s]} :
       IF due = {} THEN Leave(d) ELSE Enter(d, "sweeping", NoSignal, "none", due)
  /\ UNCHANGED <<tableVars, recordVars, brokerVars, settingVars, run, halted>>

TakeDue(d) ==
  /\ At(d, "sweeping")
  /\ \E s \in handler[d].todo :
       Enter(d, IF IsSell(s) THEN "preflightLots" ELSE "transition", s, "auto",
             handler[d].todo \ {s})
  /\ UNCHANGED <<tableVars, recordVars, brokerVars, settingVars, run, halted>>

EndSweep(d) ==
  /\ At(d, "sweeping") /\ handler[d].todo = {}
  /\ Leave(d)
  /\ UNCHANGED <<tableVars, recordVars, brokerVars, settingVars, run, halted>>

\* Bugs: the update does not carry the status the handler read.
Undecided_Approved(s) == status[s] \in {"pending", "approved"}
Undecided_Rejected(s) == status[s] \in {"pending", "rejected"}

\* transitionSignal: one transaction whose UPDATE carries status = 'pending'.
\* The loser of a race updates no row and gives up.
Undecided(s) == status[s] = "pending"
Verdict(d)   == IF handler[d].say = "reject" THEN "rejected" ELSE "approved"

Transition(d) ==
  /\ At(d, "transition") /\ Undecided(Job(d))
  /\ status' = [status EXCEPT ![Job(d)] = Verdict(d)]
  /\ IF Verdict(d) = "approved"
     THEN /\ approvedBy' = [approvedBy EXCEPT ![Job(d)] = handler[d].say]
          /\ halted' = IF kill THEN halted \cup {Job(d)} ELSE halted
          /\ Goto(d, "killSwitch")
     ELSE Finish(d) /\ UNCHANGED <<approvedBy, halted>>
  /\ UNCHANGED <<mode, auto, qty, published, recordVars, brokerVars, settingVars, run>>

LoseRace(d) ==
  /\ At(d, "transition") /\ ~Undecided(Job(d))
  /\ Finish(d)
  /\ UNCHANGED <<tableVars, recordVars, brokerVars, settingVars, run, halted>>
-----------------------------------------------------------------------------
(* Executing: the executor is chosen by the signal's own mode.              *)

\* Bugs: the executor trusts the pre-flight; a buy settles before its execution
\* is durable.
KillSwitchOff_Trusted      == TRUE
FirstStep_BuyUnrecorded(s) == IF IsSell(s) THEN "selectLots" ELSE "settleLots"

KillSwitchOff  == ~kill
ExecutorFor(s) == mode[s]

\* PaperExecutor: an exit looks for lots before its execution is recorded...
FirstStep(s) == IF IsSell(s) THEN "selectLots" ELSE "recordExecution"

AssertKillSwitchOff(d) ==
  /\ At(d, "killSwitch")
  /\ CASE ~KillSwitchOff -> Finish(d)
       [] KillSwitchOff /\ ExecutorFor(Job(d)) = "live" -> Goto(d, "liveGates")
       [] OTHER -> Goto(d, FirstStep(Job(d)))
  /\ UNCHANGED <<tableVars, recordVars, brokerVars, settingVars, run, halted>>

SelectLots(d) ==
  /\ At(d, "selectLots")
  /\ \E lots \in Selections(Job(d)) :
       IF lots = {} THEN Finish(d) ELSE Goto(d, "recordExecution")
  /\ UNCHANGED <<tableVars, recordVars, brokerVars, settingVars, run, halted>>

RecordExecution(d) ==
  /\ At(d, "recordExecution")
  /\ execs' = [execs EXCEPT ![Job(d)] = @ + 1]
  /\ Goto(d, "settleLots")
  /\ UNCHANGED <<tableVars, size, closers, brokerVars, settingVars, run, halted>>

\* The command line never publishes; the publish sweep does it instead.
AfterFill(d) == IF d \in Clis THEN Finish(d) ELSE Goto(d, "publish")

\* settleLots, a buy: append the open row.
SettleBuy(d) ==
  /\ At(d, "settleLots") /\ ~IsSell(Job(d))
  /\ size' = [size EXCEPT ![Job(d)] = qty[Job(d)]]
  /\ AfterFill(d)
  /\ UNCHANGED <<tableVars, execs, closers, brokerVars, settingVars, run, halted>>

\* settleLots, a sell: ...and selects them again to close them.
SettleSell(d) ==
  /\ At(d, "settleLots") /\ IsSell(Job(d))
  /\ \E lots \in Selections(Job(d)) :
       IF lots = {} THEN Finish(d)
       ELSE handler' = [handler EXCEPT ![d].pc = "closeLots", ![d].chosen = lots]
  /\ UNCHANGED <<tableVars, recordVars, brokerVars, settingVars, run, halted>>

\* closeLots: one READ COMMITTED transaction, which reads each lot's latest row
\* and then commits a closed row for each.  A lot found open was open at every
\* earlier read of this handler, so the reads are one step.
CheckLots(d) ==
  /\ At(d, "closeLots")
  /\ IF \A l \in handler[d].chosen : IsOpen(l) THEN Goto(d, "commitClose") ELSE Finish(d)
  /\ UNCHANGED <<tableVars, recordVars, brokerVars, settingVars, run, halted>>

CommitClose(d) ==
  /\ At(d, "commitClose")
  /\ closers' = [l \in Signals |->
       IF l \in handler[d].chosen THEN closers[l] \cup {Job(d)} ELSE closers[l]]
  /\ AfterFill(d)
  /\ UNCHANGED <<tableVars, execs, size, brokerVars, settingVars, run, halted>>

\* publishSignal: its UPDATE carries published = false, so a repeat changes nothing.
Publish(d) ==
  /\ At(d, "publish")
  /\ published' = [published EXCEPT ![Job(d)] = TRUE]
  /\ Finish(d)
  /\ UNCHANGED <<status, mode, auto, qty, approvedBy, recordVars, brokerVars, settingVars,
                 run, halted>>

\* LiveExecutor: its own gates, a lot to sell, then the broker.  The
\* execution-time review changes nothing, and its failure is an Abort.
LiveGates(d) ==
  /\ At(d, "liveGates")
  /\ IF LiveGatesOpen(Job(d))
     THEN Goto(d, IF IsSell(Job(d)) THEN "liveLots" ELSE "place")
     ELSE Finish(d)
  /\ UNCHANGED <<tableVars, recordVars, brokerVars, settingVars, run, halted>>

LiveLots(d) ==
  /\ At(d, "liveLots")
  /\ IF OpenLots(Symbol[Job(d)]) # {} THEN Goto(d, "place") ELSE Finish(d)
  /\ UNCHANGED <<tableVars, recordVars, brokerVars, settingVars, run, halted>>

\* The broker keeps one order per ref_id.  Its answer may be lost: an Abort next.
PlaceOrder(d) ==
  /\ At(d, "place")
  /\ broker' = [broker EXCEPT ![Job(d)] = IF @ = "none" THEN "working" ELSE @]
  /\ Goto(d, "recordPlaced")
  /\ UNCHANGED <<tableVars, recordVars, order, settingVars, run, halted>>

RecordPlaced(d) ==
  /\ At(d, "recordPlaced")
  /\ order' = [order EXCEPT ![Job(d)] = TRUE]
  /\ Finish(d)
  /\ UNCHANGED <<tableVars, recordVars, broker, settingVars, run, halted>>
-----------------------------------------------------------------------------
(* The two sweeps.  What they list (a pending signal past its window; an    *)
(* approved, filled, unpublished one) is tested again by the update or can  *)
(* only stay true, so the read and the write are one step per signal.       *)

\* Bugs: a halted process stops expiring, or stops publishing; the publish sweep
\* takes an approval for a fill.
Expirable_Halted(s)         == Undecided(s) /\ ~kill
FilledUnpublished_Halted(s) == status[s] = "approved" /\ ~published[s] /\ execs[s] > 0 /\ ~kill
FilledUnpublished_NoFill(s) == status[s] = "approved" /\ ~published[s]

Expirable(s) == Undecided(s)

ExpireSignal(s) ==
  /\ Expirable(s)
  /\ status' = [status EXCEPT ![s] = "expired"]
  /\ UNCHANGED <<mode, auto, qty, published, approvedBy, recordVars, brokerVars, settingVars,
                 run, handler, halted>>

FilledUnpublished(s) == status[s] = "approved" /\ ~published[s] /\ execs[s] > 0

SweepPublish(s) ==
  /\ FilledUnpublished(s)
  /\ published' = [published EXCEPT ![s] = TRUE]
  /\ UNCHANGED <<status, mode, auto, qty, approvedBy, recordVars, brokerVars, settingVars,
                 run, handler, halted>>
-----------------------------------------------------------------------------
(* PUT /v1/settings writes its fields one by one.                           *)

SetKillSwitch(on) ==
  /\ kill # on /\ kill' = on
  /\ halted' = IF on THEN halted ELSE {}
  /\ UNCHANGED <<tableVars, recordVars, brokerVars, execMode, autonomy, run, handler>>

SetExecutionMode(m) ==
  /\ m = "live" => LiveTradingEnabled
  /\ execMode # m /\ execMode' = m
  /\ UNCHANGED <<tableVars, recordVars, brokerVars, kill, autonomy, run, handler, halted>>

SetAutonomy(on) ==
  /\ on => AutonomyEnabled
  /\ autonomy # on /\ autonomy' = on
  /\ UNCHANGED <<tableVars, recordVars, brokerVars, kill, execMode, run, handler, halted>>
-----------------------------------------------------------------------------
Pipeline ==
  RunPipeline \/ ReadPositions \/ EndRun \/ \E s \in Signals : InsertSignal(s)

Decide(d) ==
  \/ ReceiveRequest(d) \/ Preflight(d) \/ PreflightLots(d)
  \/ RunCli(d)
  \/ FireSweep(d) \/ ListDue(d) \/ TakeDue(d) \/ EndSweep(d)
  \/ Transition(d) \/ LoseRace(d)

ExecuteStep(d) ==
  \/ AssertKillSwitchOff(d)
  \/ SelectLots(d) \/ RecordExecution(d) \/ SettleBuy(d) \/ SettleSell(d)
  \/ CheckLots(d) \/ CommitClose(d) \/ Publish(d)
  \/ LiveGates(d) \/ LiveLots(d) \/ PlaceOrder(d) \/ RecordPlaced(d)

SweepStep == \E s \in Signals : ExpireSignal(s) \/ SweepPublish(s)

SetSettings ==
  \/ \E on \in BOOLEAN : SetKillSwitch(on) \/ SetAutonomy(on)
  \/ \E m \in Modes : SetExecutionMode(m)

Next ==
  \/ Pipeline \/ SweepStep \/ SetSettings
  \/ \E d \in Deciders : Decide(d) \/ ExecuteStep(d) \/ Abort(d)

Spec == Init /\ [][Next]_vars

\* The two sweeps are cron jobs that fire for as long as the process is up and
\* survive a failed firing; nothing else is assumed to make progress.
Fairness == \A s \in Signals : WF_vars(ExpireSignal(s)) /\ WF_vars(SweepPublish(s))
FairSpec == Spec /\ Fairness
-----------------------------------------------------------------------------
(* Properties.                                                              *)

\* Every variable keeps its shape; a row exists only with a positive quantity.
TablesTypeOK ==
  /\ status \in [Signals -> {"none", "pending", "approved", "rejected", "expired"}]
  /\ mode \in [Signals -> Modes] /\ auto \in [Signals -> BOOLEAN]
  /\ qty \in [Signals -> Nat]
  /\ \A s \in Signals : status[s] # "none" => qty[s] > 0
  /\ published \in [Signals -> BOOLEAN]
  /\ execs \in [Signals -> Nat] /\ size \in [Signals -> Nat]
  /\ closers \in [Signals -> SUBSET Signals]
  /\ broker \in [Signals -> {"none", "working"}] /\ order \in [Signals -> BOOLEAN]
  /\ approvedBy \in [Signals -> {"nobody", "approve", "confirm", "auto"}]
  /\ halted \subseteq Signals

SettingsTypeOK == kill \in BOOLEAN /\ autonomy \in BOOLEAN /\ execMode \in Modes

RunTypeOK == run \in [at : {"idle", "fetch", "insert"}, mode : Modes, auto : BOOLEAN,
                      held : SUBSET Signals, todo : SUBSET Symbols]

HandlerTypeOK == handler \in
  [Deciders -> [pc : {"idle"} \cup DecidePcs \cup ExecutePcs,
                job : Signals \cup {NoSignal},
                say : {"none", "reject", "approve", "confirm", "auto"},
                todo : SUBSET Signals, chosen : SUBSET Signals]]

\* A handler past its list has read a signal and has something to say about it.
JobTypeOK == \A d \in Deciders :
  IF handler[d].pc \in {"idle", "listing", "sweeping"} THEN handler[d].say = "none"
  ELSE Job(d) \in Signals /\ status[Job(d)] # "none" /\ handler[d].say # "none"

TypeOK == TablesTypeOK /\ SettingsTypeOK /\ RunTypeOK /\ HandlerTypeOK /\ JobTypeOK

\* However many requests, command lines and sweeps race for a signal, it is
\* filled at most once, and never both on paper and at the broker (the status
\* predicate of transitionSignal, signals.ts).
OneFillPerDecision ==
  \A s \in Signals : execs[s] <= 1 /\ (execs[s] = 1 => broker[s] = "none")

\* A subscriber never sees a signal the owner has not approved and filled, and
\* no fill or order ever stands behind a signal that was not approved (the
\* order of transition, execution and publication in every handler).
PublishedIsFilled ==
  \A s \in Signals :
    /\ published[s] => execs[s] > 0
    /\ execs[s] > 0 \/ broker[s] # "none" => status[s] = "approved"

\* The lot ledger stands on fills: an open lot has its filled buy and that
\* buy's quantity, a closed lot was open, and whoever closed it is a filled
\* sell of the same symbol (recordExecution before settleLots).
PositionsAreBacked ==
  \A l \in Signals :
    /\ size[l] > 0 => Side[l] = "buy" /\ execs[l] > 0 /\ size[l] = qty[l]
    /\ closers[l] # {} => size[l] > 0
    /\ \A s \in closers[l] :
         Side[s] = "sell" /\ Symbol[s] = Symbol[l] /\ execs[s] > 0

\* An exit never closes more shares than it sold, whichever lots it finds when
\* it looks the second time (whole lots only, selectLotsToClose).
ExitCoversWhatItCloses ==
  \A s \in Signals : Total({l \in Signals : s \in closers[l]}) <= qty[s]

\* The kill switch stops what is already in flight: a signal approved while
\* halted, and halted ever since, reaches neither a fill nor the broker
\* (assertKillSwitchOff after the irreversible transition).
HaltHolds ==
  \A s \in halted : execs[s] = 0 /\ broker[s] = "none"

\* A real order needs its four gates: the deploy flag, a signal born live, an
\* approval that confirmed it or the autonomy it was born under, never a bare
\* approve.  A paper signal never reaches the broker.
LiveOrderIsGated ==
  \A s \in Signals : broker[s] # "none" =>
    /\ LiveTradingEnabled /\ mode[s] = "live"
    /\ approvedBy[s] = "confirm" \/ (approvedBy[s] = "auto" /\ AutonomyEnabled /\ auto[s])

\* The inductive invariant behind these.  Beyond what they say, it places every
\* handler: what it is about to do is licensed by its signal's row, an approved
\* signal has one executor, and a halted one has not moved past its first check.
AfterRecordPcs == {"settleLots", "closeLots", "commitClose", "publish"}
PaperPcs       == {"selectLots", "recordExecution"} \cup AfterRecordPcs
LivePcs        == {"liveGates", "liveLots", "place", "recordPlaced"}

AgendaInv(d) ==
  /\ \A s \in handler[d].todo : AutonomyEnabled /\ auto[s] /\ status[s] # "none"
  /\ handler[d].pc = "listing" => AutonomyEnabled
  /\ handler[d].say = "auto" => AutonomyEnabled /\ auto[Job(d)]
  /\ handler[d].pc \in {"preflightLots", "transition"} /\ mode[Job(d)] = "live" =>
       handler[d].say # "approve"

ExecutorInv(d) == Executing(d) =>
  /\ status[Job(d)] = "approved"
  /\ handler[d].pc \in PaperPcs => mode[Job(d)] = "paper"
  /\ handler[d].pc \in LivePcs => mode[Job(d)] = "live"
  /\ handler[d].pc \in LivePcs \ {"liveGates"} => LiveTradingEnabled
  /\ execs[Job(d)] = IF handler[d].pc \in AfterRecordPcs THEN 1 ELSE 0
  /\ Job(d) \in halted => At(d, "killSwitch")

ChosenInv(d) == handler[d].pc \in {"closeLots", "commitClose"} =>
  /\ IsSell(Job(d))
  /\ \A l \in handler[d].chosen : size[l] > 0 /\ Symbol[l] = Symbol[Job(d)]

SignalInv(s) ==
  /\ execs[s] > 0 => execs[s] = 1 /\ status[s] = "approved" /\ mode[s] = "paper"
  /\ broker[s] # "none" => status[s] = "approved" /\ mode[s] = "live" /\ LiveTradingEnabled
  /\ published[s] => execs[s] > 0
  /\ status[s] = "approved" /\ mode[s] = "live" =>
       approvedBy[s] = "confirm" \/ (approvedBy[s] = "auto" /\ AutonomyEnabled /\ auto[s])
  /\ s \in halted => kill /\ status[s] = "approved" /\ execs[s] = 0 /\ broker[s] = "none"

OneExecutor ==
  \A d, e \in Deciders : Executing(d) /\ Executing(e) /\ Job(d) = Job(e) => d = e

Inductive ==
  /\ TypeOK
  /\ \A d \in Deciders : AgendaInv(d) /\ ExecutorInv(d) /\ ChosenInv(d)
  /\ \A s \in Signals : SignalInv(s)
  /\ OneExecutor
  /\ PositionsAreBacked

\* The lots are so many as were opened, and the run read no others: what is held
\* has a sum, and so a paper exit a size.
Opened  == {s \in Signals : size[s] > 0}
HeldInv == IsFiniteSet(Opened) /\ run.held \subseteq Opened

\* What ExitCoversWhatItCloses rests on: an exit chose no more than it sells, and
\* until it commits no lot names it; the lots' sizes have a sum.
ClosingPcs == {"settleLots", "closeLots", "commitClose"}

CoverInv(d) == handler[d].pc \in ClosingPcs =>
  /\ \A l \in Signals : Job(d) \notin closers[l]
  /\ handler[d].pc # "settleLots" => Total(handler[d].chosen) <= qty[Job(d)]

Covered == IsFiniteSet(Opened) /\ ExitCoversWhatItCloses /\ \A d \in Deciders : CoverInv(d)

\* All of this implements the record Ollie promises: each step is a step of
\* SignalRecord or changes nothing it can see.
Record == INSTANCE SignalRecord WITH
  decision <- status,
  filled   <- {s \in Signals : execs[s] > 0},
  visible  <- {s \in Signals : published[s]},
  opened   <- {s \in Signals : size[s] > 0},
  closed   <- {s \in Signals : closers[s] # {}}

ImplementsRecord == Record!Spec

\* Nothing stays pending for ever: the owner, autonomy or expiry decides it.
PendingIsDecided ==
  \A s \in Signals : status[s] = "pending" ~> status[s] \notin {"none", "pending"}

\* A fill is published in the end, even when the handler that recorded it died
\* before publishing, was the command line, or the kill switch came on.
FilledIsPublished ==
  \A s \in Signals : execs[s] > 0 ~> published[s]
=============================================================================
