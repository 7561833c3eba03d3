----------------------------- MODULE LiveOrders -----------------------------
(***************************************************************************)
(* The live half of an execution: from a placed order to its fill in the   *)
(* record.  The executor places one order per approved live signal and     *)
(* writes its live_orders row; the broker fills it, in parts, or ends it;  *)
(* the order poll reads open orders back and, once an order has ended with *)
(* something filled, records the execution, settles the lots, publishes    *)
(* and stamps the row.  Each step is one await, and any of them may fail.  *)
(*                                                                         *)
(* Polls are the firings of the job that may be in flight at once.  A      *)
(* firing that outlives its minute overlaps the next: the cron callback    *)
(* returns before the poll it starts (scheduler.ts).                       *)
(***************************************************************************)
EXTENDS Naturals, FiniteSets, FiniteSetsExt

CONSTANTS
  Signals,    \* approved live signals
  Symbol,     \* [Signals -> symbols]
  Side,       \* [Signals -> {"buy", "sell"}]
  Quantity,   \* [Signals -> shares ordered]
  Polls,
  NoSignal,   \* the job of a poll between two orders
  MaxFaults   \* bound on failed calls, lost answers and crashes

ASSUME ConstantsAssumption ==
  /\ Side \in [Signals -> {"buy", "sell"}]
  /\ Quantity \in [Signals -> Nat \ {0}]
  /\ NoSignal \notin Signals
  /\ MaxFaults \in Nat

VARIABLES
  executor,   \* where the live executor of a signal stands
  broker,     \* the broker's order: its state and cumulative quantity
  row,        \* the live_orders row: what was last written, and terminalAt = null
  recorded,   \* the shares of a signal's executions rows, all together
  size,       \* the quantity of the lot a buy opened, 0 before
  open,       \* the lots whose latest row is open
  closers,    \* the sells that appended a closed row for a lot
  published,
  poll,       \* [Polls -> where each stands and its local variables]
  faults,
  listedTwice,  \* history: the orders two firings in flight had to read
  heldTwice     \* history: the orders two firings were at work on at once

recordVars == <<recorded, size, open, closers, published>>
overlaps   == <<listedTwice, heldTwice>>
vars == <<executor, broker, row, recordVars, poll, faults, overlaps>>

\* A state of the broker's order; "ended" is cancelled, rejected, failed or voided.
NoOrder == [state |-> "none", cum |-> 0]
NoRow   == [state |-> "none", cum |-> 0, open |-> FALSE]
Resting == [pc |-> "idle", todo |-> {}, job |-> NoSignal, seen |-> NoOrder, chosen |-> {}]

Terminal(answer) == answer.state \in {"filled", "ended"}

\* Bug: any cumulative quantity is taken for the fill.
HasFill_Partial(answer) == answer.cum > 0

HasFill(answer) == answer.state = "filled" \/ (Terminal(answer) /\ answer.cum > 0)

Init ==
  /\ executor = [s \in Signals |-> "ready"]
  /\ broker = [s \in Signals |-> NoOrder]
  /\ row = [s \in Signals |-> NoRow]
  /\ recorded = [s \in Signals |-> 0]
  /\ size = [s \in Signals |-> 0]
  /\ open = {}
  /\ closers = [s \in Signals |-> {}]
  /\ published = [s \in Signals |-> FALSE]
  /\ poll = [p \in Polls |-> Resting]
  /\ faults = 0
  /\ listedTwice = {} /\ heldTwice = {}

Fault == faults < MaxFaults /\ faults' = faults + 1
-----------------------------------------------------------------------------
(* The executor, past its gates (Decisions), and the broker.                *)

PlaceEquityOrder(s) ==
  /\ executor[s] = "ready"
  /\ executor' = [executor EXCEPT ![s] = "sent"]
  /\ broker' = [broker EXCEPT ![s] = [state |-> "working", cum |-> 0]]
  /\ UNCHANGED <<row, recordVars, poll, faults, overlaps>>

RecordPlacedOrder(s) ==
  /\ executor[s] = "sent"
  /\ executor' = [executor EXCEPT ![s] = "done"]
  /\ row' = [row EXCEPT ![s] = [state |-> "working", cum |-> 0, open |-> TRUE]]
  /\ UNCHANGED <<broker, recordVars, poll, faults, overlaps>>

\* The placement fails, its answer is lost, or the process dies before the row.
LoseExecutor(s) ==
  /\ executor[s] \in {"ready", "sent"} /\ Fault
  /\ executor' = [executor EXCEPT ![s] = "done"]
  /\ UNCHANGED <<broker, row, recordVars, poll, overlaps>>

\* The broker fills some of what is left, or ends the order as it stands.
Trade(s) ==
  /\ broker[s].state = "working"
  /\ \E cum \in broker[s].cum + 1 .. Quantity[s] :
       broker' = [broker EXCEPT ![s] =
         [state |-> IF cum = Quantity[s] THEN "filled" ELSE "working", cum |-> cum]]
  /\ UNCHANGED <<executor, row, recordVars, poll, faults, overlaps>>

EndOrder(s) ==
  /\ broker[s].state = "working"
  /\ broker' = [broker EXCEPT ![s] = [state |-> "ended", cum |-> @.cum]]
  /\ UNCHANGED <<executor, row, recordVars, poll, faults, overlaps>>
-----------------------------------------------------------------------------
(* One firing of the poll.                                                  *)

At(p, l) == poll[p].pc = l
Job(p)   == poll[p].job
Seen(p)  == poll[p].seen
Goto(p, l) == poll' = [poll EXCEPT ![p].pc = l]

\* What a firing has still to do: an order twice on an agenda is an overlap.
Agenda(p) == poll[p].todo \cup {Job(p)}

Polling(due) ==
  [pc |-> "polling", todo |-> due, job |-> NoSignal, seen |-> NoOrder, chosen |-> {}]

NextOrder(p) == poll' = [poll EXCEPT ![p] = Polling(poll[p].todo)]

Rest(p) == poll' = [poll EXCEPT ![p] = Resting]

\* Bug: closed orders are read back too.
OpenOrders_All == {s \in Signals : row[s].state # "none"}

OpenOrders == {s \in Signals : row[s].open}

\* listOpenOrders
FirePoll(p) ==
  /\ At(p, "idle") /\ OpenOrders # {}
  /\ poll' = [poll EXCEPT ![p] = Polling(OpenOrders)]
  /\ listedTwice' = listedTwice \cup {s \in OpenOrders : \E q \in Polls \ {p} : s \in Agenda(q)}
  /\ UNCHANGED <<executor, broker, row, recordVars, faults, heldTwice>>

EndPoll(p) ==
  /\ At(p, "polling") /\ poll[p].todo = {}
  /\ Rest(p)
  /\ UNCHANGED <<executor, broker, row, recordVars, faults, overlaps>>

\* getEquityOrder; a failed call, or "no such order", skips to the next one.
GetEquityOrder(p) ==
  /\ At(p, "polling")
  /\ \E s \in poll[p].todo :
       /\ poll' = [poll EXCEPT ![p] =
            [pc |-> "update", todo |-> @.todo \ {s}, job |-> s, seen |-> broker[s], chosen |-> {}]]
       /\ heldTwice' = heldTwice \cup {j \in {s} : \E q \in Polls \ {p} : Job(q) = j}
  /\ UNCHANGED <<executor, broker, row, recordVars, faults, listedTwice>>

GetEquityOrderFails(p) ==
  /\ At(p, "polling") /\ Fault
  /\ \E s \in poll[p].todo : poll' = [poll EXCEPT ![p] = Polling(poll[p].todo \ {s})]
  /\ UNCHANGED <<executor, broker, row, recordVars, overlaps>>

WriteRow(p, isOpen) ==
  row' = [row EXCEPT ![Job(p)] =
    [state |-> Seen(p).state, cum |-> Seen(p).cum, open |-> isOpen]]

\* Bug: the row is stamped terminal with the first write, before the fill is.
TerminalAt_Early(p) == Terminal(Seen(p))

\* The first write leaves terminalAt null, whatever it was.
TerminalAt(p) == FALSE

UpdateOrder(p) ==
  /\ At(p, "update")
  /\ WriteRow(p, ~TerminalAt(p))
  /\ IF HasFill(Seen(p)) THEN Goto(p, "check")
     ELSE IF Terminal(Seen(p)) THEN Goto(p, "stamp") ELSE NextOrder(p)
  /\ UNCHANGED <<executor, broker, recordVars, faults, overlaps>>

\* A fill reported without its price is left for the next firing.
FillUnpriced(p) ==
  /\ At(p, "check") /\ Fault
  /\ NextOrder(p)
  /\ UNCHANGED <<executor, broker, row, recordVars, overlaps>>

\* Bug: every poll that sees the fill records it.
Unrecorded_Always(s) == TRUE

Unrecorded(s) == recorded[s] = 0

ListExecutions(p) ==
  /\ At(p, "check")
  /\ Goto(p, IF Unrecorded(Job(p)) THEN "record" ELSE "stamp")
  /\ UNCHANGED <<executor, broker, row, recordVars, faults, overlaps>>

RecordExecution(p) ==
  /\ At(p, "record")
  /\ recorded' = [recorded EXCEPT ![Job(p)] = @ + Seen(p).cum]
  /\ Goto(p, "settle")
  /\ UNCHANGED <<executor, broker, row, size, open, closers, published, faults, overlaps>>
-----------------------------------------------------------------------------
(* settleLots with the broker's quantity, publishSignal, and the stamp.     *)

\* Bug: the lot is as large as the signal, however much was filled.
LotQuantity_Ordered(p) == Quantity[Job(p)]

LotQuantity(p) == Seen(p).cum

\* An open row.  Only a second execution can find its lot closed already; its
\* row is the latest or not, by the clock.
SettleBuy(p) ==
  /\ At(p, "settle") /\ Side[Job(p)] = "buy"
  /\ size' = [size EXCEPT ![Job(p)] = LotQuantity(p)]
  /\ open' \in {open \cup {Job(p)}} \cup (IF closers[Job(p)] # {} THEN {open} ELSE {})
  /\ Goto(p, "publish")
  /\ UNCHANGED <<executor, broker, row, recorded, closers, published, faults, overlaps>>

Total(lots) == MapThenSumSet(LAMBDA l : size[l], lots)

\* Bug: the selection is sized by the order, not by its fill.
Wanted_Ordered(p) == Quantity[Job(p)]

Wanted(p) == Seen(p).cum

\* Whole lots in some order of the symbol's open ones, as far as they fit.
Selections(p) ==
  LET lots == {l \in open : Symbol[l] = Symbol[Job(p)]}
  IN  {C \in SUBSET lots :
        /\ Total(C) <= Wanted(p)
        /\ C = lots \/ \E l \in lots \ C : Total(C) + size[l] > Wanted(p)}

\* A live sell with no lot to close keeps its execution and is published.
SettleSell(p) ==
  /\ At(p, "settle") /\ Side[Job(p)] = "sell"
  /\ \E lots \in Selections(p) :
       IF lots = {} THEN Goto(p, "publish")
       ELSE poll' = [poll EXCEPT ![p].pc = "closeLots", ![p].chosen = lots]
  /\ UNCHANGED <<executor, broker, row, recordVars, faults, overlaps>>

\* closeLots: the reads, then the commit; a lot found closed fails the poll.
CheckLots(p) ==
  /\ At(p, "closeLots")
  /\ IF poll[p].chosen \subseteq open THEN Goto(p, "commitClose") ELSE Rest(p)
  /\ UNCHANGED <<executor, broker, row, recordVars, faults, overlaps>>

CommitClose(p) ==
  /\ At(p, "commitClose")
  /\ open' = open \ poll[p].chosen
  /\ closers' = [l \in Signals |->
       IF l \in poll[p].chosen THEN closers[l] \cup {Job(p)} ELSE closers[l]]
  /\ Goto(p, "publish")
  /\ UNCHANGED <<executor, broker, row, recorded, size, published, faults, overlaps>>

PublishSignal(p) ==
  /\ At(p, "publish")
  /\ published' = [published EXCEPT ![Job(p)] = TRUE]
  /\ Goto(p, "stamp")
  /\ UNCHANGED <<executor, broker, row, recorded, size, open, closers, faults, overlaps>>

\* A failure to publish is logged; the sweep retries.
PublishFails(p) ==
  /\ At(p, "publish") /\ Fault
  /\ Goto(p, "stamp")
  /\ UNCHANGED <<executor, broker, row, recordVars, overlaps>>

StampTerminal(p) ==
  /\ At(p, "stamp")
  /\ WriteRow(p, FALSE)
  /\ NextOrder(p)
  /\ UNCHANGED <<executor, broker, recordVars, faults, overlaps>>

\* Any other failure ends the firing where it stands, as does a crash.
AbortPoll(p) ==
  /\ ~At(p, "idle") /\ Fault
  /\ Rest(p)
  /\ UNCHANGED <<executor, broker, row, recordVars, overlaps>>

\* Bug: the sweep takes an order for a fill.
Sweepable_Ordered(s) == row[s].state # "none" /\ ~published[s]

Sweepable(s) == recorded[s] > 0 /\ ~published[s]

SweepPublish(s) ==
  /\ Sweepable(s)
  /\ published' = [published EXCEPT ![s] = TRUE]
  /\ UNCHANGED <<executor, broker, row, recorded, size, open, closers, poll, faults, overlaps>>
-----------------------------------------------------------------------------
PollStep(p) ==
  \/ EndPoll(p) \/ GetEquityOrder(p) \/ UpdateOrder(p) \/ ListExecutions(p)
  \/ RecordExecution(p) \/ SettleBuy(p) \/ SettleSell(p) \/ CheckLots(p) \/ CommitClose(p)
  \/ PublishSignal(p) \/ StampTerminal(p)

PollFault(p) ==
  GetEquityOrderFails(p) \/ FillUnpriced(p) \/ PublishFails(p) \/ AbortPoll(p)

OrderStep(s) ==
  \/ PlaceEquityOrder(s) \/ RecordPlacedOrder(s) \/ LoseExecutor(s)
  \/ Trade(s) \/ EndOrder(s) \/ SweepPublish(s)

Next ==
  \/ \E s \in Signals : OrderStep(s)
  \/ \E p \in Polls : FirePoll(p) \/ PollStep(p) \/ PollFault(p)

Spec == Init /\ [][Next]_vars

\* The job fires every minute of the session and a firing runs to its end unless
\* something fails; the publish sweep recurs.  Nothing is assumed of the broker.
Fairness ==
  /\ \A p \in Polls : WF_vars(FirePoll(p)) /\ WF_vars(PollStep(p))
  /\ \A s \in Signals : WF_vars(SweepPublish(s))

FairSpec == Spec /\ Fairness
-----------------------------------------------------------------------------
(* Properties.  Firings may overlap (scheduler.ts); what a property cannot say of *)
(* an order two of them shared, it says of all others, order by order.            *)

\* Every variable keeps its shape; no more is recorded, opened or reported than
\* was ordered.
States  == {"none", "working", "filled", "ended"}
Answers == [state : States, cum : Nat]
Firings == [pc : {"idle", "polling", "update", "check", "record", "settle", "closeLots",
                  "commitClose", "publish", "stamp"},
            todo : SUBSET Signals, job : Signals \cup {NoSignal}, seen : Answers,
            chosen : SUBSET Signals]

OrdersTypeOK ==
  /\ executor \in [Signals -> {"ready", "sent", "done"}]
  /\ broker \in [Signals -> Answers]
  /\ row \in [Signals -> [state : States, cum : Nat, open : BOOLEAN]]
  /\ \A s \in Signals : broker[s].cum <= Quantity[s] /\ row[s].cum <= broker[s].cum

RecordTypeOK ==
  /\ recorded \in [Signals -> Nat] /\ size \in [Signals -> Nat]
  /\ open \subseteq Signals
  /\ closers \in [Signals -> SUBSET Signals]
  /\ published \in [Signals -> BOOLEAN]

TypeOK ==
  /\ OrdersTypeOK /\ RecordTypeOK
  /\ poll \in [Polls -> Firings]
  /\ faults \in 0 .. MaxFaults
  /\ listedTwice \subseteq Signals /\ heldTwice \subseteq Signals

\* "Idempotent by construction" (orders.ts): whatever fails between the broker's
\* fill and the stamp, and however often the order is polled again, the executions
\* record what the broker filled, only when it is final and never less; and once,
\* unless two firings were at work on the order at once.
FillRecordedOnce ==
  \A s \in Signals : recorded[s] > 0 =>
    /\ Terminal(broker[s]) /\ recorded[s] >= broker[s].cum
    /\ s \notin heldTwice => recorded[s] = broker[s].cum

\* A lot is the broker's fill of its buy, partial or not, and is closed only by
\* a sell whose own fill is recorded (settleLots after recordExecution).  A lot
\* once closed is open again only if two firings settled its buy.
LedgerMatchesFills ==
  /\ \A l \in Signals :
       /\ size[l] > 0 => Side[l] = "buy" /\ recorded[l] > 0 /\ size[l] = broker[l].cum
       /\ l \in open => size[l] > 0 /\ (l \notin heldTwice => closers[l] = {})
       /\ \A s \in closers[l] :
            size[l] > 0 /\ Side[s] = "sell" /\ Symbol[s] = Symbol[l] /\ recorded[s] > 0

\* A partly filled exit closes no more shares than the broker sold, unless two
\* firings settled it.
ExitCoversFill ==
  \A s \in Signals \ heldTwice : Total({l \in Signals : s \in closers[l]}) <= recorded[s]

\* An order, or a partial fill still working, is never shown to subscribers,
\* whatever overlaps.
PublishedIsFilled ==
  \A s \in Signals : published[s] => recorded[s] > 0 /\ broker[s].state # "working"

\* "A terminal order is never polled again" (orders.ts).  A closed row is never
\* written again, unless a firing had listed it while another had it to read; and
\* even then no row goes back to an earlier quantity, or from a final state to
\* another, unless both were at work on the order at once.
RowNeverGoesBack ==
  [][\A s \in Signals :
       /\ s \notin heldTwice =>
            /\ row'[s].cum >= row[s].cum
            /\ Terminal(row[s]) => row'[s].state = row[s].state
       /\ s \notin listedTwice /\ row[s].state # "none" /\ ~row[s].open => row'[s] = row[s]]_vars

\* The inductive invariant behind these.  An unplaced or unrecorded order is
\* unknown to the poll; a final row is the broker's last word; an answer is no newer
\* than what the broker knows, and a final one is its last; past its check a firing
\* has recorded the fill.  An order on two agendas is listed twice, and one that two
\* firings have at hand is held twice; of any other, the one firing that has it
\* knows that the row is open and no newer than its answer, that it is the one that
\* records the fill, and that the lot is not yet there.
FillPcs == {"check", "record", "settle", "closeLots", "commitClose", "publish"}
PaidPcs == {"settle", "closeLots", "commitClose", "publish"}
BusyPcs == {"update", "stamp"} \cup FillPcs

OrderInv(s) ==
  /\ executor[s] = "ready" => broker[s] = NoOrder
  /\ executor[s] = "sent" => broker[s].state # "none"
  /\ executor[s] # "done" => row[s] = NoRow
  /\ row[s] = NoRow => recorded[s] = 0
  /\ row[s] # NoRow => row[s].state # "none" /\ broker[s].state # "none"
  /\ broker[s].state = "filled" => broker[s].cum > 0
  /\ Terminal(row[s]) => row[s].state = broker[s].state /\ row[s].cum = broker[s].cum

ApartInv(p, q) ==
  /\ Agenda(p) \cap Agenda(q) \cap Signals \subseteq listedTwice
  /\ Job(p) = Job(q) /\ Job(p) \in Signals => Job(p) \in heldTwice

AgendaInv(p) ==
  /\ \A s \in poll[p].todo :
       row[s] # NoRow /\ s # Job(p) /\ (s \notin listedTwice => row[s].open)
  /\ IF poll[p].pc \in BusyPcs
     THEN /\ Job(p) \in Signals /\ row[Job(p)] # NoRow
          /\ Job(p) \notin listedTwice => row[Job(p)].open
     ELSE Job(p) = NoSignal

AnswerInv(p) == poll[p].pc \in BusyPcs =>
  /\ Seen(p).cum <= broker[Job(p)].cum
  /\ Seen(p).state # "none"
  /\ Terminal(Seen(p)) => Seen(p) = broker[Job(p)]
  /\ poll[p].pc = "stamp" => Terminal(Seen(p))
  /\ poll[p].pc \in FillPcs => HasFill(Seen(p)) /\ Seen(p).cum > 0
  /\ Job(p) \notin heldTwice =>
       /\ row[Job(p)].cum <= Seen(p).cum
       /\ Terminal(row[Job(p)]) => Seen(p) = broker[Job(p)]

SettleInv(p) ==
  /\ poll[p].pc \in PaidPcs => recorded[Job(p)] >= Seen(p).cum
  /\ poll[p].pc \in {"closeLots", "commitClose"} =>
       /\ Side[Job(p)] = "sell"
       /\ \A l \in poll[p].chosen : size[l] > 0 /\ Symbol[l] = Symbol[Job(p)]
  /\ Job(p) \notin heldTwice =>
       /\ poll[p].pc = "record" => recorded[Job(p)] = 0
       /\ poll[p].pc \in PaidPcs => recorded[Job(p)] = Seen(p).cum
       /\ poll[p].pc = "settle" => size[Job(p)] = 0

Inductive ==
  /\ TypeOK
  /\ \A s \in Signals : OrderInv(s)
  /\ heldTwice \subseteq listedTwice
  /\ \A p, q \in Polls : p # q => ApartInv(p, q)
  /\ \A p \in Polls : AgendaInv(p) /\ AnswerInv(p) /\ SettleInv(p)
  /\ FillRecordedOnce /\ LedgerMatchesFills
  /\ \A s \in Signals : published[s] => recorded[s] > 0

\* What ExitCoversFill rests on: a firing chose no more than the fill it read,
\* and until it commits no lot names its sell; the lots are so many as were
\* opened, so that their sizes have a sum.
CoverInv(p) ==
  poll[p].pc \in {"settle", "closeLots", "commitClose"} /\ Job(p) \notin heldTwice =>
    /\ \A l \in Signals : Job(p) \notin closers[l]
    /\ poll[p].pc # "settle" => Total(poll[p].chosen) <= Seen(p).cum

Opened == {l \in Signals : size[l] > 0}

Covered == IsFiniteSet(Opened) /\ ExitCoversFill /\ \A p \in Polls : CoverInv(p)

\* An order that ended is closed in the end with the broker's last word on it,
\* and what it filled is in the record and published, whichever call failed on
\* the way, wherever the poll died and however its firings overlapped.
EndedOrderIsSettled ==
  \A s \in Signals :
    row[s].open /\ broker[s].state \in {"filled", "ended"} ~>
      /\ row[s] = [state |-> broker[s].state, cum |-> broker[s].cum, open |-> FALSE]
      /\ recorded[s] = broker[s].cum \/ s \in heldTwice
      /\ broker[s].cum > 0 => published[s]
-----------------------------------------------------------------------------
(* What the comments say and the code does not do.                          *)

\* "A crash between the two leaves the order open and re-polled" (orders.ts): a
\* buy is closed only once its fill has its lot.
ClosedBuyHasLot ==
  \A s \in Signals :
    Side[s] = "buy" /\ row[s].cum > 0 /\ row[s].state # "working" /\ ~row[s].open => size[s] > 0
=============================================================================
