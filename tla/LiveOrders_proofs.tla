-------------------------- MODULE LiveOrders_proofs --------------------------
(***************************************************************************)
(* Proofs about LiveOrders, for any signals, quantities, number of faults  *)
(* and firings of the poll in flight at once.  Inductive is shown to hold  *)
(* at the start and to survive each action, one lemma per kind of action;  *)
(* the properties then follow.  What a step of one firing does to another  *)
(* is said once: an order both have at hand is heldTwice, and of such an   *)
(* order the other claims nothing that the step could spoil.               *)
(***************************************************************************)
EXTENDS LiveOrders, Sums, TLAPS

\* What Inductive says of the orders, of overlaps, of the record and of one firing.
OrdersInv == \A s \in Signals : OrderInv(s)

OverlapInv ==
  /\ listedTwice \subseteq Signals /\ heldTwice \subseteq listedTwice
  /\ \A p, q \in Polls : p # q => ApartInv(p, q)

RecordInv ==
  /\ FillRecordedOnce /\ LedgerMatchesFills
  /\ \A s \in Signals : published[s] => recorded[s] > 0

FiringInv(p) == AgendaInv(p) /\ AnswerInv(p) /\ SettleInv(p)

\* The parts make the whole, now and in the next state.
LEMMA Parts ==
  /\ Inductive <=> /\ TypeOK /\ OrdersInv /\ OverlapInv /\ RecordInv
                   /\ \A p \in Polls : FiringInv(p)
  /\ Inductive' <=> /\ TypeOK' /\ OrdersInv' /\ OverlapInv' /\ RecordInv'
                    /\ \A p \in Polls : FiringInv(p)'
BY DEF Inductive, OrdersInv, OverlapInv, RecordInv, FiringInv, TypeOK

\* The answers of the broker are records of a state and a quantity.
LEMMA AnswerShape ==
  /\ \A a \in Answers : a.state \in States /\ a.cum \in Nat
  /\ \A st \in States, n \in Nat : [state |-> st, cum |-> n] \in Answers
BY DEF Answers

\* So are the rows, with whether they are open.
LEMMA RowShape ==
  /\ \A r \in [state : States, cum : Nat, open : BOOLEAN] :
       r.state \in States /\ r.cum \in Nat /\ r.open \in BOOLEAN
  /\ \A st \in States, n \in Nat, b \in BOOLEAN :
       [state |-> st, cum |-> n, open |-> b] \in [state : States, cum : Nat, open : BOOLEAN]
OBVIOUS

\* The empty tables satisfy the invariant.
LEMMA InitInductive == Init => Inductive
<1> SUFFICES ASSUME Init PROVE Inductive
  OBVIOUS
<1>a. "none" \in States
  BY DEF States
<1>2. OrdersTypeOK
  <2>1. NoOrder \in Answers /\ NoRow \in [state : States, cum : Nat, open : BOOLEAN]
    BY <1>a, AnswerShape, RowShape DEF NoOrder, NoRow
  <2>2. \A s \in Signals : broker[s].cum <= Quantity[s] /\ row[s].cum <= broker[s].cum
    BY ConstantsAssumption DEF Init, NoOrder, NoRow
  <2>3. QED BY <2>1, <2>2 DEF Init, OrdersTypeOK
<1>3. RecordTypeOK
  BY DEF Init, RecordTypeOK
<1>4. poll \in [Polls -> Firings]
  <2>1. NoOrder \in Answers
    BY <1>a, AnswerShape DEF NoOrder
  <2>2. Resting \in Firings
    BY <2>1 DEF Resting, Firings
  <2>3. QED BY <2>2 DEF Init
<1>5. faults \in 0 .. MaxFaults
  BY ConstantsAssumption DEF Init
<1>6. OrdersInv
  BY DEF Init, OrdersInv, OrderInv, NoOrder, NoRow, Terminal
<1>7. RecordInv
  BY DEF Init, RecordInv, FillRecordedOnce, LedgerMatchesFills
<1>8. \A p \in Polls : FiringInv(p)
  <2> SUFFICES ASSUME NEW p \in Polls PROVE FiringInv(p)
    OBVIOUS
  <2>1. poll[p].pc = "idle" /\ poll[p].todo = {} /\ poll[p].job = NoSignal
    BY DEF Init, Resting
  <2> QED
    BY <2>1, ConstantsAssumption
       DEF FiringInv, AgendaInv, AnswerInv, SettleInv, BusyPcs, PaidPcs, FillPcs, Job
<1>9. OverlapInv
  <2>1. \A p \in Polls : Agenda(p) \cap Signals = {} /\ Job(p) \notin Signals
    BY ConstantsAssumption DEF Init, Agenda, Job, Resting
  <2> QED
    BY <2>1 DEF Init, OverlapInv, ApartInv
<1> QED
  BY <1>2, <1>3, <1>4, <1>5, <1>6, <1>7, <1>8, <1>9, Parts DEF TypeOK, Init
-----------------------------------------------------------------------------
(* How a firing moves.                                                       *)

PollTypeOK == poll \in [Polls -> Firings]

Pcs == {"idle", "polling", "update", "check", "record", "settle", "closeLots",
        "commitClose", "publish", "stamp"}

OnlyMoves(p) == \A q \in Polls \ {p} : poll'[q] = poll[q]

\* A move to a program counter keeps everything else of the firing.
LEMMA GotoMoves ==
  ASSUME PollTypeOK, NEW p \in Polls, NEW l \in Pcs, Goto(p, l)
  PROVE  /\ PollTypeOK' /\ OnlyMoves(p)
         /\ poll'[p].pc = l /\ poll'[p].todo = poll[p].todo /\ poll'[p].job = poll[p].job
         /\ poll'[p].seen = poll[p].seen /\ poll'[p].chosen = poll[p].chosen
  BY DEF PollTypeOK, Firings, Goto, Pcs, OnlyMoves

\* A firing set on a list of signals has no job and nothing else.
LEMMA PollingMoves ==
  ASSUME PollTypeOK, NEW p \in Polls, NEW due \in SUBSET Signals,
         poll' = [poll EXCEPT ![p] = Polling(due)]
  PROVE  /\ PollTypeOK' /\ OnlyMoves(p)
         /\ poll'[p].pc = "polling" /\ poll'[p].job = NoSignal /\ poll'[p].todo = due
<1>1. NoOrder \in Answers
  BY DEF NoOrder, Answers, States
<1>2. Polling(due) \in Firings
  BY <1>1 DEF Firings, Polling
<1>3. poll'[p] = Polling(due) /\ OnlyMoves(p)
  BY DEF PollTypeOK, OnlyMoves
<1> QED
  BY <1>2, <1>3 DEF PollTypeOK, Polling

\* A firing done with an order goes back to its list; a firing at rest has none.
LEMMA LeaveMoves ==
  ASSUME PollTypeOK, NEW p \in Polls, NextOrder(p) \/ Rest(p)
  PROVE  /\ PollTypeOK' /\ OnlyMoves(p)
         /\ poll'[p].pc \in {"idle", "polling"} /\ poll'[p].job = NoSignal
         /\ poll'[p].todo \subseteq poll[p].todo
<1>1. CASE NextOrder(p)
  <2>1. poll[p].todo \in SUBSET Signals
    BY DEF PollTypeOK, Firings
  <2> QED
    BY <1>1, <2>1, PollingMoves DEF NextOrder
<1>2. CASE Rest(p)
  <2>1. NoOrder \in Answers
    BY DEF NoOrder, Answers, States
  <2>2. Resting \in Firings
    BY <2>1 DEF Firings, Resting
  <2>3. poll'[p] = Resting /\ OnlyMoves(p)
    BY <1>2 DEF PollTypeOK, Rest, OnlyMoves
  <2> QED
    BY <1>2, <2>2, <2>3 DEF PollTypeOK, Rest, Resting
<1> QED
  BY <1>1, <1>2

\* A firing that takes nothing on overlaps no more than it did.
LEMMA KeepApart ==
  ASSUME Inductive, NEW p \in Polls, OnlyMoves(p), UNCHANGED overlaps,
         poll'[p].todo \subseteq poll[p].todo, poll'[p].job \in {poll[p].job, NoSignal}
  PROVE  OverlapInv'
<1>1. OverlapInv
  BY Parts
<1>2. listedTwice' = listedTwice /\ heldTwice' = heldTwice
  BY DEF overlaps
<1>3. \A q \in Polls : /\ Agenda(q)' \subseteq Agenda(q) \cup {NoSignal}
                       /\ Job(q)' \in {Job(q), NoSignal}
  BY DEF OnlyMoves, Agenda, Job
<1>4. ASSUME NEW q \in Polls, NEW r \in Polls, q # r PROVE ApartInv(q, r)'
  <2>1. ApartInv(q, r)
    BY <1>1, <1>4 DEF OverlapInv
  <2>2. Agenda(q)' \cap Agenda(r)' \cap Signals \subseteq Agenda(q) \cap Agenda(r) \cap Signals
    BY <1>3, ConstantsAssumption
  <2>3. Job(q)' = Job(r)' /\ Job(q)' \in Signals => Job(q)' = Job(q) /\ Job(q) = Job(r)
    BY <1>3, ConstantsAssumption
  <2> QED
    BY <1>2, <2>1, <2>2, <2>3 DEF ApartInv
<1> QED
  BY <1>1, <1>2, <1>4 DEF OverlapInv

\* What a step of p leaves of the claims of another: the order p is at work on,
\* if both are, is heldTwice, and the other claims only that its row is there, that
\* no less is recorded than was and that a lot stays a lot.
LEMMA OthersKeep ==
  ASSUME Inductive, NEW p \in Polls, Job(p) \in Signals, OnlyMoves(p),
         UNCHANGED <<broker, overlaps>>,
         \A s \in Signals \ {Job(p)} :
           row'[s] = row[s] /\ recorded'[s] = recorded[s] /\ size'[s] = size[s],
         row'[Job(p)] # NoRow,
         recorded'[Job(p)] \in Nat, recorded'[Job(p)] >= recorded[Job(p)],
         size[Job(p)] > 0 => size'[Job(p)] > 0,
         NEW q \in Polls, q # p
  PROVE  FiringInv(q)'
<1>1. poll'[q] = poll[q] /\ listedTwice' = listedTwice /\ heldTwice' = heldTwice
  BY DEF OnlyMoves, overlaps
<1>2. poll[q] \in Firings /\ poll[q].todo \subseteq Signals
      /\ poll[q].chosen \subseteq Signals
  BY DEF Inductive, TypeOK, Firings
<1>3. AgendaInv(q) /\ AnswerInv(q) /\ SettleInv(q) /\ ApartInv(p, q)
  BY DEF Inductive
<1>4. Job(p) \in Agenda(q) => Job(p) \in listedTwice
  BY <1>3 DEF ApartInv, Agenda
<1>5. Job(q) = Job(p) => Job(p) \in heldTwice
  BY <1>3 DEF ApartInv
<1>6. AgendaInv(q)'
  <2>1. \A s \in poll[q].todo :
          row'[s] # NoRow /\ s # Job(q) /\ (s \notin listedTwice => row'[s].open)
    BY <1>2, <1>3, <1>4 DEF AgendaInv, Agenda
  <2>2. IF poll[q].pc \in BusyPcs
        THEN /\ Job(q) \in Signals /\ row'[Job(q)] # NoRow
             /\ Job(q) \notin listedTwice => row'[Job(q)].open
        ELSE Job(q) = NoSignal
    BY <1>3, <1>4 DEF AgendaInv, Agenda
  <2> QED
    BY <1>1, <2>1, <2>2 DEF AgendaInv, Job
<1>7. AnswerInv(q)'
  <2> SUFFICES ASSUME poll[q].pc \in BusyPcs PROVE AnswerInv(q)'
    BY <1>1 DEF AnswerInv
  <2>1. Job(q) \in Signals
    BY <1>3 DEF AgendaInv
  <2>2. Job(q) \notin heldTwice => row'[Job(q)] = row[Job(q)]
    BY <1>5, <2>1
  <2> QED
    BY <1>1, <1>3, <2>2 DEF AnswerInv, Job, Seen
<1>8. SettleInv(q)'
  <2> SUFFICES ASSUME poll[q].pc \in {"record"} \cup PaidPcs PROVE SettleInv(q)'
    BY <1>1 DEF SettleInv, PaidPcs
  <2>1. Job(q) \in Signals
    BY <1>3 DEF AgendaInv, BusyPcs, FillPcs, PaidPcs
  <2>2. Job(q) \notin heldTwice =>
          recorded'[Job(q)] = recorded[Job(q)] /\ size'[Job(q)] = size[Job(q)]
    BY <1>5, <2>1
  <2>3. Seen(q).cum \in Nat /\ recorded[Job(q)] \in Nat /\ recorded[Job(p)] \in Nat
    BY <1>2, <2>1, AnswerShape DEF Inductive, TypeOK, RecordTypeOK, Firings, Seen
  <2>4. recorded'[Job(q)] \in Nat /\ recorded'[Job(q)] >= recorded[Job(q)]
    BY <2>1, <2>3
  <2>5. poll[q].pc \in PaidPcs => recorded'[Job(q)] >= Seen(q).cum
    BY <1>3, <2>3, <2>4 DEF SettleInv
  <2>6. \A l \in Signals : size[l] > 0 => size'[l] > 0
    OBVIOUS
  <2>7. poll[q].pc \in {"closeLots", "commitClose"} =>
          /\ Side[Job(q)] = "sell"
          /\ \A l \in poll[q].chosen : size'[l] > 0 /\ Symbol[l] = Symbol[Job(q)]
    BY <1>2, <1>3, <2>6 DEF SettleInv
  <2>8. Job(q) \notin heldTwice =>
          /\ poll[q].pc = "record" => recorded'[Job(q)] = 0
          /\ poll[q].pc \in PaidPcs => recorded'[Job(q)] = Seen(q).cum
          /\ poll[q].pc = "settle" => size'[Job(q)] = 0
    BY <1>3, <2>2 DEF SettleInv
  <2> QED
    BY <1>1, <2>5, <2>7, <2>8 DEF SettleInv, Job, Seen
<1> QED
  BY <1>6, <1>7, <1>8 DEF FiringInv
-----------------------------------------------------------------------------
(* Steps that move a firing and write nothing.                               *)

Quiet == UNCHANGED <<executor, broker, row, recordVars>>

\* Nothing written: what is asked of the firing where it lands is all there is.
LEMMA QuietStep ==
  ASSUME Inductive, Quiet, PollTypeOK', faults' \in 0 .. MaxFaults, NEW p \in Polls,
         OnlyMoves(p), listedTwice \subseteq listedTwice', heldTwice \subseteq heldTwice',
         OverlapInv', FiringInv(p)'
  PROVE  Inductive'
<1>1. TypeOK'
  <2>1. listedTwice' \subseteq Signals /\ heldTwice' \subseteq Signals
    BY DEF OverlapInv
  <2> QED
    BY <2>1 DEF Inductive, TypeOK, OrdersTypeOK, RecordTypeOK, Quiet, recordVars, PollTypeOK
<1>2. OrdersInv'
  BY DEF Inductive, OrdersInv, OrderInv, Quiet, recordVars
<1>3. RecordInv'
  BY DEF Inductive, RecordInv, FillRecordedOnce, LedgerMatchesFills, Quiet, recordVars
<1>4. ASSUME NEW q \in Polls, q # p PROVE FiringInv(q)'
  <2>1. poll'[q] = poll[q]
    BY <1>4 DEF OnlyMoves
  <2>2. AgendaInv(q)'
    BY <2>1 DEF Inductive, AgendaInv, Quiet, Job
  <2>3. AnswerInv(q)'
    BY <2>1 DEF Inductive, AnswerInv, Quiet, Job, Seen
  <2>4. SettleInv(q)'
    BY <2>1 DEF Inductive, SettleInv, Quiet, recordVars, Job, Seen
  <2> QED
    BY <2>2, <2>3, <2>4 DEF FiringInv
<1> QED
  BY <1>1, <1>2, <1>3, <1>4, Parts

\* A quiet step of a firing that takes nothing on.
LEMMA CalmStep ==
  ASSUME Inductive, Quiet, PollTypeOK', faults' \in 0 .. MaxFaults, NEW p \in Polls,
         OnlyMoves(p), UNCHANGED overlaps, poll'[p].todo \subseteq poll[p].todo,
         poll'[p].job \in {poll[p].job, NoSignal}, FiringInv(p)'
  PROVE  Inductive'
<1>1. OverlapInv'
  BY KeepApart
<1>2. listedTwice' = listedTwice /\ heldTwice' = heldTwice
  BY DEF overlaps
<1> QED
  BY <1>1, <1>2, QuietStep

\* A firing without a job is asked nothing but the rows of its list.
LEMMA NoJob ==
  ASSUME NEW p \in Polls, poll'[p].pc \in {"idle", "polling"}, poll'[p].job = NoSignal,
         \A s \in poll'[p].todo :
           s \in Signals /\ row'[s] # NoRow /\ (s \notin listedTwice' => row'[s].open)
  PROVE  FiringInv(p)'
BY ConstantsAssumption DEF FiringInv, AgendaInv, AnswerInv, SettleInv, BusyPcs, FillPcs, PaidPcs, Job

\* Every fault and every end of a firing is quiet, and leaves it without a job.
LEMMA LeavingStep ==
  ASSUME Inductive, NEW p \in Polls,
         \/ EndPoll(p) \/ FillUnpriced(p) \/ AbortPoll(p) \/ (CheckLots(p) /\ Rest(p))
         \/ GetEquityOrderFails(p)
  PROVE  Inductive'
<1>1. PollTypeOK /\ faults \in 0 .. MaxFaults /\ Quiet /\ UNCHANGED overlaps
  BY DEF Inductive, TypeOK, PollTypeOK, EndPoll, FillUnpriced, AbortPoll, CheckLots, Quiet,
         GetEquityOrderFails
<1>2. faults' \in 0 .. MaxFaults
  BY <1>1, ConstantsAssumption
     DEF EndPoll, FillUnpriced, AbortPoll, CheckLots, Fault, GetEquityOrderFails
<1>3. /\ PollTypeOK' /\ OnlyMoves(p) /\ poll'[p].pc \in {"idle", "polling"}
      /\ poll'[p].job = NoSignal /\ poll'[p].todo \subseteq poll[p].todo
  <2>1. CASE GetEquityOrderFails(p)
    <3>1. PICK s \in poll[p].todo : poll' = [poll EXCEPT ![p] = Polling(poll[p].todo \ {s})]
      BY <2>1 DEF GetEquityOrderFails
    <3> DEFINE due == poll[p].todo \ {s}
    <3>2. due \in SUBSET Signals /\ due \subseteq poll[p].todo
      BY <1>1 DEF PollTypeOK, Firings
    <3>3. poll' = [poll EXCEPT ![p] = Polling(due)]
      BY <3>1
    <3> HIDE DEF due
    <3>4. PollTypeOK' /\ OnlyMoves(p)
          /\ poll'[p].pc = "polling" /\ poll'[p].job = NoSignal /\ poll'[p].todo = due
      BY <1>1, <3>2, <3>3, PollingMoves
    <3> QED
      BY <3>2, <3>4
  <2>2. CASE ~GetEquityOrderFails(p)
    <3>1. NextOrder(p) \/ Rest(p)
      BY <2>2 DEF EndPoll, FillUnpriced, AbortPoll
    <3> QED
      BY <1>1, <3>1, LeaveMoves
  <2> QED
    BY <2>1, <2>2
<1>4. \A s \in poll'[p].todo :
        s \in Signals /\ row'[s] # NoRow /\ (s \notin listedTwice' => row'[s].open)
  BY <1>1, <1>3 DEF Inductive, AgendaInv, Quiet, PollTypeOK, Firings, overlaps
<1> QED
  BY <1>1, <1>2, <1>3, <1>4, NoJob, CalmStep

\* A firing that starts has a list of open rows and no job; what another has to
\* read too is listed twice from now on.
LEMMA FirePollStep ==
  ASSUME Inductive, NEW p \in Polls, FirePoll(p)
  PROVE  Inductive'
<1>1. /\ PollTypeOK /\ faults' \in 0 .. MaxFaults /\ Quiet /\ heldTwice' = heldTwice
      /\ poll' = [poll EXCEPT ![p] = Polling(OpenOrders)]
      /\ listedTwice' =
           listedTwice \cup {s \in OpenOrders : \E q \in Polls \ {p} : s \in Agenda(q)}
  BY DEF Inductive, TypeOK, PollTypeOK, FirePoll, Quiet
<1>2. OpenOrders \in SUBSET Signals /\ \A s \in OpenOrders : row[s].open
  BY DEF OpenOrders
<1>3. /\ PollTypeOK' /\ OnlyMoves(p)
      /\ poll'[p].pc = "polling" /\ poll'[p].job = NoSignal /\ poll'[p].todo = OpenOrders
  BY <1>1, <1>2, PollingMoves
<1>4. \A s \in OpenOrders : row[s] # NoRow
  BY <1>2 DEF NoRow
<1>5. FiringInv(p)'
  <2>1. \A s \in poll'[p].todo :
          s \in Signals /\ row'[s] # NoRow /\ (s \notin listedTwice' => row'[s].open)
    BY <1>1, <1>2, <1>3, <1>4 DEF Quiet
  <2> QED
    BY <1>3, <2>1, NoJob
<1>6. listedTwice \subseteq listedTwice' /\ heldTwice \subseteq heldTwice'
  BY <1>1
<1>7. \A q \in Polls \ {p} : Agenda(q)' = Agenda(q) /\ Job(q)' = Job(q)
  BY <1>3 DEF OnlyMoves, Agenda, Job
<1>8. Agenda(p)' = OpenOrders \cup {NoSignal} /\ Job(p)' = NoSignal
  BY <1>3 DEF Agenda, Job
<1>9. ASSUME NEW q \in Polls, q # p
      PROVE  /\ OpenOrders \cap Agenda(q) \subseteq listedTwice'
             /\ (OpenOrders \cup {NoSignal}) \cap Agenda(q) \cap Signals \subseteq listedTwice'
  <2>1. OpenOrders \cap Agenda(q) \subseteq listedTwice'
    BY <1>1, <1>9
  <2> QED
    BY <2>1, ConstantsAssumption
<1>10. ASSUME NEW q \in Polls, NEW r \in Polls, q # r PROVE ApartInv(q, r)'
  <2>1. ApartInv(q, r)
    BY <1>10 DEF Inductive
  <2>2. CASE q # p /\ r # p
    BY <1>1, <1>7, <2>1, <2>2 DEF ApartInv
  <2>3. CASE q = p
    <3>1. r # p
      BY <1>10, <2>3
    <3> QED
      BY <1>7, <1>8, <1>9, <2>3, <3>1, ConstantsAssumption DEF ApartInv
  <2>4. CASE r = p
    <3>1. q # p
      BY <1>10, <2>4
    <3> QED
      BY <1>7, <1>8, <1>9, <2>4, <3>1, ConstantsAssumption DEF ApartInv
  <2> QED
    BY <2>2, <2>3, <2>4
<1>11. OverlapInv'
  <2>1. listedTwice' \subseteq Signals /\ heldTwice' \subseteq listedTwice'
    BY <1>1, <1>2, Parts DEF OverlapInv
  <2> QED
    BY <1>10, <2>1 DEF OverlapInv
<1> QED
  BY <1>1, <1>3, <1>5, <1>6, <1>11, QuietStep

\* What the broker answers is what the broker has; an order another firing is at
\* work on is held twice from now on.
LEMMA GetEquityOrderStep ==
  ASSUME Inductive, NEW p \in Polls, GetEquityOrder(p)
  PROVE  Inductive'
<1>1. PollTypeOK /\ faults' \in 0 .. MaxFaults /\ Quiet /\ listedTwice' = listedTwice
  BY DEF Inductive, TypeOK, PollTypeOK, GetEquityOrder, Quiet
<1>2. PICK s \in poll[p].todo :
        /\ poll' = [poll EXCEPT ![p] = [pc |-> "update", todo |-> poll[p].todo \ {s}, job |-> s,
                                        seen |-> broker[s], chosen |-> {}]]
        /\ heldTwice' = heldTwice \cup {j \in {s} : \E q \in Polls \ {p} : Job(q) = j}
  BY DEF GetEquityOrder
<1>3. /\ s \in Signals /\ row[s] # NoRow /\ poll[p].todo \subseteq Signals
      /\ s \notin listedTwice => row[s].open
  BY <1>1 DEF Inductive, AgendaInv, PollTypeOK, Firings
<1>4. /\ broker[s] \in Answers /\ row[s].cum <= broker[s].cum /\ broker[s].state # "none"
      /\ broker[s].cum \in Nat
  BY <1>3, AnswerShape DEF Inductive, TypeOK, OrdersTypeOK, OrderInv
<1>5. [pc |-> "update", todo |-> poll[p].todo \ {s}, job |-> s, seen |-> broker[s],
       chosen |-> {}] \in Firings
  BY <1>3, <1>4 DEF Firings
<1>6. poll'[p] = [pc |-> "update", todo |-> poll[p].todo \ {s}, job |-> s, seen |-> broker[s],
                  chosen |-> {}] /\ OnlyMoves(p)
  BY <1>1, <1>2 DEF PollTypeOK, OnlyMoves
<1>7. PollTypeOK'
  BY <1>1, <1>2, <1>5 DEF PollTypeOK
<1>8. AgendaInv(p)'
  BY <1>1, <1>3, <1>6 DEF Inductive, AgendaInv, Quiet, Job, BusyPcs
<1>9. AnswerInv(p)'
  <2>1. Seen(p)' = broker[s] /\ Job(p)' = s /\ poll'[p].pc = "update"
        /\ broker' = broker /\ row' = row
    BY <1>1, <1>6 DEF Seen, Job, Quiet
  <2> QED
    BY <1>4, <2>1 DEF AnswerInv, FillPcs
<1>10. SettleInv(p)'
  BY <1>6 DEF SettleInv, PaidPcs
<1>11. heldTwice \subseteq heldTwice' /\ listedTwice \subseteq listedTwice'
  BY <1>1, <1>2
<1>12. \A q \in Polls \ {p} : Agenda(q)' = Agenda(q) /\ Job(q)' = Job(q)
  BY <1>6 DEF OnlyMoves, Agenda, Job
<1>13. Agenda(p)' \subseteq Agenda(p) /\ Job(p)' = s /\ s \in Agenda(p)
  BY <1>6 DEF Agenda, Job
<1>14. ASSUME NEW q \in Polls, q # p
       PROVE  /\ Job(q) = s => s \in heldTwice' /\ s \in listedTwice
              /\ Agenda(p)' \cap Agenda(q)' \cap Signals \subseteq listedTwice'
  <2>1. Agenda(p) \cap Agenda(q) \cap Signals \subseteq listedTwice
    BY <1>14 DEF Inductive, ApartInv
  <2>2. Job(q) = s => s \in Agenda(q)
    BY DEF Agenda
  <2>3. Job(q) = s => s \in heldTwice'
    BY <1>2, <1>14
  <2> QED
    BY <1>1, <1>3, <1>12, <1>13, <1>14, <2>1, <2>2, <2>3
<1>15. ASSUME NEW q \in Polls, NEW r \in Polls, q # r PROVE ApartInv(q, r)'
  <2>1. ApartInv(q, r)
    BY <1>15 DEF Inductive
  <2>2. CASE q # p /\ r # p
    BY <1>1, <1>11, <1>12, <2>1, <2>2 DEF ApartInv
  <2>3. CASE q = p
    <3>1. r # p
      BY <1>15, <2>3
    <3> QED
      BY <1>12, <1>13, <1>14, <2>3, <3>1 DEF ApartInv
  <2>4. CASE r = p
    <3>1. q # p
      BY <1>15, <2>4
    <3>2. Agenda(p)' \cap Agenda(q)' \cap Signals = Agenda(q)' \cap Agenda(p)' \cap Signals
      OBVIOUS
    <3> QED
      BY <1>12, <1>13, <1>14, <2>4, <3>1, <3>2 DEF ApartInv
  <2> QED
    BY <2>2, <2>3, <2>4
<1>16. OverlapInv'
  <2>1. listedTwice \subseteq Signals /\ heldTwice \subseteq listedTwice
    BY Parts DEF OverlapInv
  <2>2. heldTwice' \subseteq listedTwice'
    BY <1>1, <1>2, <1>14, <2>1
  <2> QED
    BY <1>1, <1>15, <2>1, <2>2 DEF OverlapInv
<1> QED
  BY <1>1, <1>6, <1>7, <1>8, <1>9, <1>10, <1>11, <1>16, QuietStep DEF FiringInv

\* A move inside one order: the job and its answer stay, and the guard of the
\* move is what the next step asks.
LEMMA GotoStep ==
  ASSUME Inductive, Quiet, UNCHANGED overlaps, faults' \in 0 .. MaxFaults, NEW p \in Polls,
         poll[p].pc \in BusyPcs, NEW l \in {"stamp"} \cup FillPcs, Goto(p, l),
         l = "stamp" => Terminal(Seen(p)),
         l \in FillPcs => poll[p].pc \in FillPcs,
         l = "record" => recorded[Job(p)] = 0,
         l \in PaidPcs => poll[p].pc \in PaidPcs,
         l # "settle",
         l = "closeLots" => FALSE,
         l = "commitClose" => poll[p].pc = "closeLots"
  PROVE  Inductive'
<1>1. PollTypeOK /\ l \in Pcs
  BY DEF Inductive, TypeOK, PollTypeOK, FillPcs, Pcs
<1>2. /\ PollTypeOK' /\ OnlyMoves(p)
      /\ poll'[p].pc = l /\ poll'[p].todo = poll[p].todo /\ poll'[p].job = poll[p].job
      /\ poll'[p].seen = poll[p].seen /\ poll'[p].chosen = poll[p].chosen
  BY <1>1, GotoMoves
<1>3. AgendaInv(p)'
  BY <1>2 DEF Inductive, AgendaInv, Quiet, Job, BusyPcs, overlaps
<1>4. AnswerInv(p)'
  BY <1>2 DEF Inductive, AnswerInv, Quiet, Job, Seen, Terminal, HasFill, overlaps
<1>5. SettleInv(p)'
  BY <1>2 DEF Inductive, SettleInv, Quiet, Job, Seen, PaidPcs, recordVars, overlaps
<1> QED
  BY <1>2, <1>3, <1>4, <1>5, CalmStep DEF FiringInv

\* A fill is on a final answer.
LEMMA FillIsFinal ==
  ASSUME Inductive, NEW p \in Polls, poll[p].pc \in FillPcs
  PROVE  Terminal(Seen(p)) /\ poll[p].pc \in BusyPcs
BY DEF Inductive, AnswerInv, HasFill, Terminal, BusyPcs

\* The check of the executions, a sell with nothing to close, the check of its
\* lots, and a publication that fails.
LEMMA DecidingStep ==
  ASSUME Inductive, NEW p \in Polls,
         \/ ListExecutions(p) \/ PublishFails(p)
         \/ (SettleSell(p) /\ Goto(p, "publish"))
         \/ (CheckLots(p) /\ Goto(p, "commitClose"))
  PROVE  Inductive'
<1>1. Quiet /\ UNCHANGED overlaps /\ poll[p].pc \in FillPcs
  BY DEF ListExecutions, PublishFails, SettleSell, CheckLots, Quiet, At, FillPcs
<1>2. faults' \in 0 .. MaxFaults
  BY ConstantsAssumption DEF Inductive, TypeOK, ListExecutions, PublishFails, SettleSell,
       CheckLots, Fault
<1>3. Terminal(Seen(p)) /\ poll[p].pc \in BusyPcs
  BY <1>1, FillIsFinal
<1>4. CASE ListExecutions(p)
  <2>1. (Goto(p, "record") /\ recorded[Job(p)] = 0) \/ Goto(p, "stamp")
    BY <1>4 DEF ListExecutions, Unrecorded
  <2> QED
    BY <1>1, <1>2, <1>3, <2>1, GotoStep DEF FillPcs, PaidPcs
<1>5. CASE PublishFails(p)
  BY <1>1, <1>2, <1>3, <1>5, GotoStep DEF PublishFails, FillPcs, PaidPcs
<1>6. CASE SettleSell(p) /\ Goto(p, "publish")
  BY <1>1, <1>2, <1>3, <1>6, GotoStep DEF SettleSell, At, FillPcs, PaidPcs
<1>7. CASE CheckLots(p) /\ Goto(p, "commitClose")
  BY <1>1, <1>2, <1>3, <1>7, GotoStep DEF CheckLots, At, FillPcs, PaidPcs
<1> QED
  BY <1>4, <1>5, <1>6, <1>7

\* A sell that found lots goes on to close them.
LEMMA ChooseStep ==
  ASSUME Inductive, NEW p \in Polls, SettleSell(p), ~Goto(p, "publish")
  PROVE  Inductive'
<1>1. /\ PollTypeOK /\ Quiet /\ UNCHANGED overlaps /\ faults' \in 0 .. MaxFaults
      /\ poll[p].pc = "settle" /\ Side[Job(p)] = "sell"
  BY DEF Inductive, TypeOK, PollTypeOK, SettleSell, Quiet, At
<1>2. PICK lots \in Selections(p) :
        poll' = [poll EXCEPT ![p].pc = "closeLots", ![p].chosen = lots]
  BY DEF SettleSell
<1>3. lots \subseteq {l \in open : Symbol[l] = Symbol[Job(p)]}
  BY <1>2 DEF Selections
<1>4. lots \subseteq Signals
  BY <1>3 DEF Inductive, TypeOK, RecordTypeOK
<1>5. /\ PollTypeOK' /\ OnlyMoves(p)
      /\ poll'[p].pc = "closeLots" /\ poll'[p].todo = poll[p].todo /\ poll'[p].job = poll[p].job
      /\ poll'[p].seen = poll[p].seen /\ poll'[p].chosen = lots
  BY <1>1, <1>2, <1>4 DEF PollTypeOK, Firings, OnlyMoves
<1>6. AgendaInv(p)'
  BY <1>1, <1>5 DEF Inductive, AgendaInv, Quiet, Job, BusyPcs, FillPcs, overlaps
<1>7. AnswerInv(p)'
  BY <1>1, <1>5 DEF Inductive, AnswerInv, Quiet, Job, Seen, Terminal, HasFill, BusyPcs, FillPcs,
                    overlaps
<1>8. \A l \in lots : size[l] > 0 /\ Symbol[l] = Symbol[Job(p)]
  BY <1>3, <1>4 DEF Inductive, LedgerMatchesFills
<1>9. SettleInv(p)'
  BY <1>1, <1>5, <1>8 DEF Inductive, SettleInv, Quiet, Job, Seen, PaidPcs, recordVars, overlaps
<1> QED
  BY <1>1, <1>5, <1>6, <1>7, <1>9, CalmStep DEF FiringInv
-----------------------------------------------------------------------------
(* Steps of a firing that write.                                             *)

\* What is known of a busy firing's order.
LEMMA BusyFacts ==
  ASSUME Inductive, NEW p \in Polls, poll[p].pc \in BusyPcs
  PROVE  /\ Job(p) \in Signals /\ row[Job(p)] # NoRow
         /\ Job(p) \notin listedTwice => row[Job(p)].open
         /\ executor[Job(p)] = "done" /\ Job(p) \notin poll[p].todo
         /\ Seen(p) \in Answers /\ Seen(p).state # "none" /\ Seen(p).cum \in Nat
         /\ Seen(p).cum <= broker[Job(p)].cum
         /\ Terminal(Seen(p)) => Seen(p) = broker[Job(p)]
         /\ HasFill(Seen(p)) => Seen(p).cum > 0
         /\ Job(p) \notin heldTwice =>
              /\ row[Job(p)].cum <= Seen(p).cum
              /\ Terminal(row[Job(p)]) => Seen(p) = broker[Job(p)]
<1>1. /\ Job(p) \in Signals /\ row[Job(p)] # NoRow /\ Job(p) \notin poll[p].todo
      /\ Job(p) \notin listedTwice => row[Job(p)].open
  BY DEF Inductive, AgendaInv
<1>2. executor[Job(p)] \in {"ready", "sent", "done"}
  BY <1>1 DEF Inductive, TypeOK, OrdersTypeOK
<1>3. executor[Job(p)] = "done"
  BY <1>1, <1>2 DEF Inductive, OrderInv
<1>4. Seen(p) \in Answers
  BY DEF Inductive, TypeOK, Firings, Seen
<1>5. /\ Seen(p).state # "none" /\ Seen(p).cum <= broker[Job(p)].cum
      /\ Terminal(Seen(p)) => Seen(p) = broker[Job(p)]
      /\ Job(p) \notin heldTwice =>
           /\ row[Job(p)].cum <= Seen(p).cum
           /\ Terminal(row[Job(p)]) => Seen(p) = broker[Job(p)]
  BY DEF Inductive, AnswerInv
<1>6. HasFill(Seen(p)) => Seen(p).cum > 0
  BY <1>1, <1>5 DEF Inductive, OrderInv, Terminal, HasFill
<1>7. Seen(p).cum \in Nat
  BY <1>4, AnswerShape
<1> QED
  BY <1>1, <1>3, <1>4, <1>5, <1>6, <1>7

\* Writing a row as the broker last answered leaves the tables in order.
LEMMA WriteRowStep ==
  ASSUME Inductive, NEW p \in Polls, poll[p].pc \in BusyPcs, NEW b \in BOOLEAN,
         WriteRow(p, b), UNCHANGED <<executor, broker, recordVars, overlaps>>
  PROVE  /\ OrdersTypeOK' /\ RecordTypeOK' /\ OrdersInv' /\ RecordInv'
         /\ row'[Job(p)] = [state |-> Seen(p).state, cum |-> Seen(p).cum, open |-> b]
         /\ row'[Job(p)] # NoRow
         /\ \A s \in Signals \ {Job(p)} : row'[s] = row[s]
<1> DEFINE new == [state |-> Seen(p).state, cum |-> Seen(p).cum, open |-> b]
<1>1. OrdersTypeOK /\ RecordTypeOK /\ RecordInv
  BY Parts DEF TypeOK
<1>2. row' = [row EXCEPT ![Job(p)] = new]
  BY DEF WriteRow
<1>3. new \in [state : States, cum : Nat, open : BOOLEAN] /\ Job(p) \in Signals
  BY BusyFacts, AnswerShape, RowShape
<1>4. row'[Job(p)] = new /\ \A s \in Signals \ {Job(p)} : row'[s] = row[s]
  BY <1>1, <1>2, <1>3 DEF OrdersTypeOK
<1>5. new.cum <= broker[Job(p)].cum
  BY BusyFacts
<1>6. OrdersTypeOK'
  BY <1>1, <1>2, <1>3, <1>4, <1>5 DEF OrdersTypeOK
<1>a. new # NoRow /\ new.state # "none"
  BY BusyFacts DEF NoRow
<1>7. OrdersInv'
  <2> SUFFICES ASSUME NEW s \in Signals PROVE OrderInv(s)'
    BY DEF OrdersInv
  <2>1. CASE s # Job(p)
    BY <1>4, <2>1 DEF Inductive, OrderInv, recordVars, Terminal
  <2>2. CASE s = Job(p)
    <3>1. broker[s].state # "none" /\ executor[s] = "done"
      BY <2>2, BusyFacts DEF Inductive, OrderInv
    <3>2. Terminal(new) => new.state = broker[s].state /\ new.cum = broker[s].cum
      BY <2>2, BusyFacts DEF Terminal
    <3>3. broker[s].state = "filled" => broker[s].cum > 0
      BY DEF Inductive, OrderInv
    <3> HIDE DEF new
    <3> QED
      BY <1>4, <1>a, <2>2, <3>1, <3>2, <3>3 DEF OrderInv, Terminal
  <2> QED
    BY <2>1, <2>2
<1>8. RecordTypeOK' /\ RecordInv'
  BY <1>1 DEF RecordTypeOK, RecordInv, FillRecordedOnce, LedgerMatchesFills, recordVars, overlaps
<1> QED
  BY <1>4, <1>6, <1>7, <1>8, <1>a

\* The tables in order, the firing licensed and nothing taken from another's order:
\* the invariant.
LEMMA Assemble ==
  ASSUME Inductive, NEW p \in Polls, Job(p) \in Signals, OnlyMoves(p),
         UNCHANGED <<broker, overlaps>>,
         poll'[p].todo \subseteq poll[p].todo, poll'[p].job \in {poll[p].job, NoSignal},
         \A s \in Signals \ {Job(p)} :
           row'[s] = row[s] /\ recorded'[s] = recorded[s] /\ size'[s] = size[s],
         row'[Job(p)] # NoRow, recorded'[Job(p)] >= recorded[Job(p)],
         size[Job(p)] > 0 => size'[Job(p)] > 0,
         OrdersTypeOK', RecordTypeOK', PollTypeOK',
         faults' \in 0 .. MaxFaults, OrdersInv', RecordInv', FiringInv(p)'
  PROVE  Inductive'
<1>1. OverlapInv'
  <2>1. UNCHANGED overlaps
    OBVIOUS
  <2> QED
    BY <2>1, KeepApart
<1>2. recorded'[Job(p)] \in Nat
  BY DEF RecordTypeOK
<1>3. \A q \in Polls : q # p => FiringInv(q)'
  BY <1>2, OthersKeep
<1>4. TypeOK'
  BY <1>1 DEF TypeOK, PollTypeOK, OverlapInv
<1> QED
  BY <1>1, <1>3, <1>4, Parts

\* The first write of an order: the row is as answered and open.
LEMMA UpdateOrderStep ==
  ASSUME Inductive, NEW p \in Polls, UpdateOrder(p)
  PROVE  Inductive'
<1>1. /\ poll[p].pc = "update" /\ PollTypeOK /\ faults' \in 0 .. MaxFaults
      /\ UNCHANGED <<executor, broker, recordVars, overlaps>> /\ WriteRow(p, TRUE)
  BY DEF UpdateOrder, At, Inductive, TypeOK, PollTypeOK, TerminalAt
<1>2. poll[p].pc \in BusyPcs
  BY <1>1 DEF BusyPcs
<1>3. /\ OrdersTypeOK' /\ RecordTypeOK' /\ OrdersInv' /\ RecordInv'
      /\ row'[Job(p)] = [state |-> Seen(p).state, cum |-> Seen(p).cum, open |-> TRUE]
      /\ row'[Job(p)] # NoRow
      /\ \A s \in Signals \ {Job(p)} : row'[s] = row[s]
  BY <1>1, <1>2, WriteRowStep
<1>4. /\ \A s \in poll[p].todo :
           s \in Signals /\ row'[s] # NoRow /\ (s \notin listedTwice' => row'[s].open)
      /\ Job(p) \in Signals /\ Job(p) \notin poll[p].todo
  BY <1>1, <1>2, <1>3, BusyFacts DEF Inductive, AgendaInv, PollTypeOK, Firings, overlaps
<1>5. /\ UNCHANGED <<broker, overlaps>> /\ recorded' = recorded /\ size' = size
      /\ recorded'[Job(p)] >= recorded[Job(p)]
  BY <1>1, <1>4 DEF recordVars, Inductive, TypeOK, RecordTypeOK
<1>6. CASE NextOrder(p)
  <2>1. /\ FiringInv(p)' /\ PollTypeOK' /\ OnlyMoves(p)
        /\ poll'[p].todo \subseteq poll[p].todo /\ poll'[p].job = NoSignal
    BY <1>1, <1>4, <1>6, LeaveMoves, NoJob
  <2> QED
    BY <1>1, <1>3, <1>4, <1>5, <2>1, Assemble
<1>7. ASSUME NEW l \in {"check", "stamp"}, Goto(p, l), Terminal(Seen(p)),
             l = "check" => HasFill(Seen(p))
      PROVE  Inductive'
  <2>1. /\ PollTypeOK' /\ OnlyMoves(p) /\ poll'[p].pc = l /\ poll'[p].todo = poll[p].todo
        /\ poll'[p].job = poll[p].job /\ poll'[p].seen = poll[p].seen
    BY <1>1, <1>7, GotoMoves DEF Pcs
  <2>2. Job(p)' = Job(p) /\ Seen(p)' = Seen(p)
    BY <2>1 DEF Job, Seen
  <2>3. AgendaInv(p)'
    BY <1>2, <1>3, <1>4, <2>1, <2>2 DEF AgendaInv, BusyPcs, FillPcs
  <2>4. AnswerInv(p)'
    <3>1. /\ Seen(p).cum \in Nat /\ Seen(p).cum <= broker[Job(p)].cum
          /\ Seen(p).state # "none" /\ Seen(p) = broker[Job(p)]
      BY <1>2, <1>7, BusyFacts
    <3>2. l \in FillPcs => HasFill(Seen(p)) /\ Seen(p).cum > 0
      BY <1>2, <1>7, BusyFacts DEF FillPcs
    <3>3. row'[Job(p)].cum <= Seen(p).cum
      BY <1>3, <3>1
    <3> QED
      BY <1>5, <1>7, <2>1, <2>2, <3>1, <3>2, <3>3 DEF AnswerInv
  <2>5. SettleInv(p)'
    BY <2>1 DEF SettleInv, PaidPcs
  <2> QED
    BY <1>1, <1>3, <1>4, <1>5, <2>1, <2>3, <2>4, <2>5, Assemble DEF FiringInv
<1>8. \/ NextOrder(p)
      \/ Goto(p, "check") /\ HasFill(Seen(p)) /\ Terminal(Seen(p))
      \/ Goto(p, "stamp") /\ Terminal(Seen(p))
  BY DEF UpdateOrder, HasFill, Terminal
<1> QED
  BY <1>6, <1>7, <1>8

\* The stamp closes the row of a final answer, and the firing leaves it.
LEMMA StampStep ==
  ASSUME Inductive, NEW p \in Polls, StampTerminal(p)
  PROVE  Inductive'
<1>1. /\ poll[p].pc \in BusyPcs /\ PollTypeOK /\ faults' \in 0 .. MaxFaults
      /\ UNCHANGED <<executor, broker, recordVars, overlaps>> /\ WriteRow(p, FALSE)
      /\ NextOrder(p)
  BY DEF StampTerminal, At, Inductive, TypeOK, PollTypeOK, BusyPcs
<1>2. /\ OrdersTypeOK' /\ RecordTypeOK' /\ OrdersInv' /\ RecordInv'
      /\ row'[Job(p)] # NoRow
      /\ \A s \in Signals \ {Job(p)} : row'[s] = row[s]
  BY <1>1, WriteRowStep
<1>3. /\ \A s \in poll[p].todo :
           s \in Signals /\ row'[s] # NoRow /\ (s \notin listedTwice' => row'[s].open)
      /\ Job(p) \in Signals
  BY <1>1, <1>2, BusyFacts DEF Inductive, AgendaInv, PollTypeOK, Firings, overlaps
<1>4. /\ UNCHANGED <<broker, overlaps>> /\ recorded' = recorded /\ size' = size
      /\ recorded'[Job(p)] >= recorded[Job(p)]
  BY <1>1, <1>3 DEF recordVars, Inductive, TypeOK, RecordTypeOK
<1>5. /\ FiringInv(p)' /\ PollTypeOK' /\ OnlyMoves(p)
      /\ poll'[p].todo \subseteq poll[p].todo /\ poll'[p].job = NoSignal
  BY <1>1, <1>3, LeaveMoves, NoJob
<1> QED
  BY <1>1, <1>2, <1>3, <1>4, <1>5, Assemble

\* A write of the record by a firing with a fill that goes on to l: the orders
\* and the answer are as they were, and so is what other signals have on record.
LEMMA RecordingStep ==
  ASSUME Inductive, NEW p \in Polls, poll[p].pc \in FillPcs,
         NEW l \in {"settle", "publish", "stamp"}, Goto(p, l),
         UNCHANGED <<executor, broker, row, faults, overlaps>>,
         RecordTypeOK', RecordInv', OrdersInv',
         \A s \in Signals \ {Job(p)} : recorded'[s] = recorded[s] /\ size'[s] = size[s],
         recorded'[Job(p)] >= recorded[Job(p)], size[Job(p)] > 0 => size'[Job(p)] > 0,
         l \in PaidPcs => recorded'[Job(p)] >= Seen(p).cum,
         Job(p) \notin heldTwice =>
           /\ l \in PaidPcs => recorded'[Job(p)] = Seen(p).cum
           /\ l = "settle" => size'[Job(p)] = 0
  PROVE  Inductive'
<1>1. PollTypeOK /\ faults' \in 0 .. MaxFaults /\ OrdersTypeOK'
  BY DEF Inductive, TypeOK, PollTypeOK, OrdersTypeOK
<1>2. /\ PollTypeOK' /\ OnlyMoves(p) /\ poll'[p].pc = l /\ poll'[p].todo = poll[p].todo
      /\ poll'[p].job = poll[p].job /\ poll'[p].seen = poll[p].seen
  BY <1>1, GotoMoves DEF Pcs
<1>3. Terminal(Seen(p)) /\ poll[p].pc \in BusyPcs
  BY FillIsFinal
<1>4. AgendaInv(p)'
  BY <1>2, <1>3 DEF Inductive, AgendaInv, Job, BusyPcs, FillPcs, overlaps
<1>5. AnswerInv(p)'
  BY <1>2, <1>3 DEF Inductive, AnswerInv, Job, Seen, Terminal, HasFill, overlaps
<1>6. SettleInv(p)'
  BY <1>2 DEF SettleInv, Job, Seen, PaidPcs, overlaps
<1>7. Job(p) \in Signals /\ row'[Job(p)] # NoRow /\ row' = row
  BY <1>3, BusyFacts
<1>8. UNCHANGED <<broker, overlaps>>
  OBVIOUS
<1> QED
  BY <1>1, <1>2, <1>4, <1>5, <1>6, <1>7, <1>8, Assemble DEF FiringInv

\* What a firing with a fill to record knows of its order.
LEMMA FillFacts ==
  ASSUME Inductive, NEW p \in Polls, poll[p].pc \in FillPcs
  PROVE  /\ Job(p) \in Signals /\ row[Job(p)] # NoRow
         /\ Seen(p).cum \in Nat /\ Seen(p).cum > 0 /\ Seen(p) = broker[Job(p)]
         /\ Terminal(broker[Job(p)])
         /\ recorded[Job(p)] \in Nat /\ size[Job(p)] \in Nat
         /\ poll[p].pc \in PaidPcs => recorded[Job(p)] >= Seen(p).cum /\ recorded[Job(p)] > 0
<1>1. Terminal(Seen(p)) /\ poll[p].pc \in BusyPcs
  BY FillIsFinal
<1>2. /\ Job(p) \in Signals /\ row[Job(p)] # NoRow
      /\ Seen(p).cum \in Nat /\ Seen(p) = broker[Job(p)]
  BY <1>1, BusyFacts
<1>3. Seen(p).cum > 0
  BY DEF Inductive, AnswerInv, BusyPcs
<1>4. recorded[Job(p)] \in Nat /\ size[Job(p)] \in Nat
  BY <1>2 DEF Inductive, TypeOK, RecordTypeOK
<1>5. poll[p].pc \in PaidPcs => recorded[Job(p)] >= Seen(p).cum
  BY DEF Inductive, SettleInv
<1>6. poll[p].pc \in PaidPcs => recorded[Job(p)] > 0
  BY <1>2, <1>3, <1>4, <1>5
<1> QED
  BY <1>1, <1>2, <1>3, <1>4, <1>5, <1>6

\* The execution is the broker's final quantity, on a signal that has none unless
\* another firing is at work on it.
LEMMA RecordExecutionStep ==
  ASSUME Inductive, NEW p \in Polls, RecordExecution(p)
  PROVE  Inductive'
<1> DEFINE s == Job(p)  n == Seen(p).cum
<1>1. /\ poll[p].pc = "record" /\ Goto(p, "settle") /\ recorded' = [recorded EXCEPT ![s] = @ + n]
      /\ UNCHANGED <<executor, broker, row, size, open, closers, published, faults, overlaps>>
      /\ listedTwice' = listedTwice /\ heldTwice' = heldTwice
  BY DEF RecordExecution, At, overlaps
<1>2. poll[p].pc \in FillPcs
  BY <1>1 DEF FillPcs
<1>3. /\ s \in Signals /\ n \in Nat /\ n > 0 /\ Seen(p) = broker[s] /\ Terminal(broker[s])
      /\ row[s] # NoRow /\ recorded[s] \in Nat /\ size[s] \in Nat
  BY <1>2, FillFacts
<1>4. s \notin heldTwice => recorded[s] = 0 /\ size[s] = 0
  <2>1. s \notin heldTwice => recorded[s] = 0
    BY <1>1 DEF Inductive, SettleInv
  <2> QED
    BY <1>3, <2>1 DEF Inductive, LedgerMatchesFills
<1>5. /\ recorded'[s] = recorded[s] + n
      /\ \A t \in Signals \ {s} : recorded'[t] = recorded[t] /\ size'[t] = size[t]
  BY <1>1, <1>3 DEF Inductive, TypeOK, RecordTypeOK
<1>6. /\ recorded'[s] \in Nat /\ recorded'[s] > 0 /\ recorded'[s] >= n
      /\ recorded'[s] >= recorded[s] /\ (s \notin heldTwice => recorded'[s] = n)
  BY <1>3, <1>4, <1>5
<1>7. RecordTypeOK'
  BY <1>1, <1>3, <1>5 DEF Inductive, TypeOK, RecordTypeOK
<1>8. OrdersInv'
  BY <1>1, <1>3, <1>5 DEF Inductive, OrdersInv, OrderInv, Terminal
<1>9. FillRecordedOnce'
  <2>1. ASSUME NEW t \in Signals, recorded'[t] > 0
        PROVE  /\ Terminal(broker[t]) /\ recorded'[t] >= broker[t].cum
               /\ t \notin heldTwice => recorded'[t] = broker[t].cum
    <3>1. CASE t = s
      BY <1>3, <1>6, <3>1
    <3>2. CASE t # s
      BY <1>5, <2>1, <3>2 DEF Inductive, FillRecordedOnce
    <3> QED
      BY <3>1, <3>2
  <2> QED
    BY <1>1, <2>1 DEF FillRecordedOnce, Terminal
<1>10. LedgerMatchesFills'
  <2>1. \A t \in Signals : recorded[t] > 0 => recorded'[t] > 0
    BY <1>5, <1>6
  <2>2. \A l \in Signals : closers[l] \subseteq Signals
    BY DEF Inductive, TypeOK, RecordTypeOK
  <2> QED
    BY <1>1, <2>1, <2>2 DEF Inductive, LedgerMatchesFills
<1>11. \A t \in Signals : published'[t] => recorded'[t] > 0
  BY <1>1, <1>5, <1>6 DEF Inductive
<1> QED
  BY <1>1, <1>2, <1>4, <1>5, <1>6, <1>7, <1>8, <1>9, <1>10, <1>11, RecordingStep DEF RecordInv

\* The lot of a buy is as large as its fill, now and if it is settled again.
LEMMA SettleBuyStep ==
  ASSUME Inductive, NEW p \in Polls, SettleBuy(p)
  PROVE  Inductive'
<1> DEFINE s == Job(p)  n == Seen(p).cum
<1>1. /\ poll[p].pc = "settle" /\ Goto(p, "publish") /\ Side[s] = "buy"
      /\ size' = [size EXCEPT ![s] = n] /\ open' \subseteq open \cup {s} /\ open \subseteq open'
      /\ UNCHANGED <<executor, broker, row, recorded, closers, published, faults, overlaps>>
      /\ listedTwice' = listedTwice /\ heldTwice' = heldTwice
  BY DEF SettleBuy, At, LotQuantity, overlaps
<1>2. poll[p].pc \in FillPcs /\ poll[p].pc \in PaidPcs
  BY <1>1 DEF FillPcs, PaidPcs
<1>3. /\ s \in Signals /\ n \in Nat /\ n > 0 /\ n = broker[s].cum
      /\ recorded[s] \in Nat /\ recorded[s] >= n /\ recorded[s] > 0
  BY <1>2, FillFacts
<1>4. s \notin heldTwice => recorded[s] = n /\ size[s] = 0
  BY <1>1, <1>2 DEF Inductive, SettleInv
<1>5. s \notin heldTwice => closers[s] = {}
  BY <1>3, <1>4 DEF Inductive, LedgerMatchesFills, TypeOK, RecordTypeOK
<1>6. size'[s] = n /\ \A t \in Signals \ {s} : size'[t] = size[t] /\ recorded'[t] = recorded[t]
  BY <1>1, <1>3 DEF Inductive, TypeOK, RecordTypeOK
<1>7. RecordTypeOK'
  BY <1>1, <1>3, <1>6 DEF Inductive, TypeOK, RecordTypeOK
<1>8. OrdersInv' /\ FillRecordedOnce'
  BY <1>1 DEF Inductive, OrdersInv, OrderInv, FillRecordedOnce
<1>9. LedgerMatchesFills'
  <2>1. ASSUME NEW l \in Signals
        PROVE  /\ size'[l] > 0 => Side[l] = "buy" /\ recorded[l] > 0 /\ size'[l] = broker[l].cum
               /\ l \in open' => size'[l] > 0 /\ (l \notin heldTwice => closers[l] = {})
               /\ size[l] > 0 => size'[l] > 0
    <3>1. CASE l = s
      BY <1>1, <1>3, <1>5, <1>6, <3>1
    <3>2. CASE l # s
      BY <1>1, <1>6, <3>2 DEF Inductive, LedgerMatchesFills
    <3> QED
      BY <3>1, <3>2
  <2>2. \A l \in Signals : \A t \in closers[l] :
          size'[l] > 0 /\ Side[t] = "sell" /\ Symbol[t] = Symbol[l] /\ recorded[t] > 0
    BY <2>1 DEF Inductive, LedgerMatchesFills
  <2> QED
    BY <1>1, <2>1, <2>2 DEF LedgerMatchesFills
<1>10. \A t \in Signals : published'[t] => recorded'[t] > 0
  BY <1>1 DEF Inductive
<1> QED
  BY <1>1, <1>2, <1>3, <1>4, <1>6, <1>7, <1>8, <1>9, <1>10, RecordingStep DEF RecordInv

\* The closed rows are of lots, by the sell whose execution is recorded.
LEMMA CommitCloseStep ==
  ASSUME Inductive, NEW p \in Polls, CommitClose(p)
  PROVE  Inductive'
<1> DEFINE s == Job(p)
<1>1. /\ poll[p].pc = "commitClose" /\ Goto(p, "publish") /\ open' = open \ poll[p].chosen
      /\ closers' = [l \in Signals |->
           IF l \in poll[p].chosen THEN closers[l] \cup {s} ELSE closers[l]]
      /\ UNCHANGED <<executor, broker, row, recorded, size, published, faults, overlaps>>
      /\ listedTwice' = listedTwice /\ heldTwice' = heldTwice
  BY DEF CommitClose, At, overlaps
<1>2. poll[p].pc \in FillPcs /\ poll[p].pc \in PaidPcs
  BY <1>1 DEF FillPcs, PaidPcs
<1>3. /\ s \in Signals /\ recorded[s] \in Nat /\ recorded[s] > 0 /\ recorded[s] >= Seen(p).cum
      /\ s \notin heldTwice => recorded[s] = Seen(p).cum
  BY <1>2, FillFacts DEF Inductive, SettleInv
<1>4. Side[s] = "sell" /\ \A l \in poll[p].chosen : size[l] > 0 /\ Symbol[l] = Symbol[s]
  BY <1>1 DEF Inductive, SettleInv
<1>5. RecordTypeOK'
  BY <1>1, <1>3 DEF Inductive, TypeOK, RecordTypeOK
<1>6. OrdersInv' /\ FillRecordedOnce'
  BY <1>1 DEF Inductive, OrdersInv, OrderInv, FillRecordedOnce
<1>7. LedgerMatchesFills'
  <2>1. \A l \in Signals : l \in open' => closers'[l] = closers[l]
    BY <1>1
  <2>2. \A l \in Signals : \A t \in closers'[l] :
          t \in closers[l] \/ (t = s /\ l \in poll[p].chosen)
    BY <1>1
  <2> QED
    BY <1>1, <1>3, <1>4, <2>1, <2>2 DEF Inductive, LedgerMatchesFills
<1>8. \A t \in Signals : published'[t] => recorded'[t] > 0
  BY <1>1 DEF Inductive
<1>9. recorded[s] >= recorded[s]
  BY <1>3
<1> QED
  BY <1>1, <1>2, <1>3, <1>5, <1>6, <1>7, <1>8, <1>9, RecordingStep DEF RecordInv

\* A firing publishes the signal whose execution is recorded.
LEMMA PublishStep ==
  ASSUME Inductive, NEW p \in Polls, PublishSignal(p)
  PROVE  Inductive'
<1> DEFINE s == Job(p)
<1>1. /\ poll[p].pc = "publish" /\ Goto(p, "stamp") /\ published' = [published EXCEPT ![s] = TRUE]
      /\ UNCHANGED <<executor, broker, row, recorded, size, open, closers, faults, overlaps>>
      /\ listedTwice' = listedTwice /\ heldTwice' = heldTwice
  BY DEF PublishSignal, At, overlaps
<1>2. poll[p].pc \in FillPcs /\ poll[p].pc \in PaidPcs
  BY <1>1 DEF FillPcs, PaidPcs
<1>3. s \in Signals /\ recorded[s] > 0 /\ recorded[s] \in Nat /\ recorded[s] >= recorded[s]
  BY <1>2, FillFacts
<1>4. RecordTypeOK'
  BY <1>1, <1>3 DEF Inductive, TypeOK, RecordTypeOK
<1>5. OrdersInv' /\ FillRecordedOnce' /\ LedgerMatchesFills'
  BY <1>1 DEF Inductive, OrdersInv, OrderInv, FillRecordedOnce, LedgerMatchesFills
<1>6. \A t \in Signals : published'[t] => recorded'[t] > 0
  BY <1>1, <1>3 DEF Inductive, TypeOK, RecordTypeOK
<1> QED
  BY <1>1, <1>2, <1>3, <1>4, <1>5, <1>6, RecordingStep DEF RecordInv, PaidPcs
-----------------------------------------------------------------------------
(* Steps of the executor, of the broker and of the sweep.                    *)

\* Placing an order, trading it or ending it gives the broker a new answer on an
\* order that nobody has seen final.
LEMMA BrokerMoves ==
  ASSUME Inductive, NEW s \in Signals, NEW a \in Answers, broker' = [broker EXCEPT ![s] = a],
         UNCHANGED <<row, recordVars, poll, faults, overlaps>>,
         \/ executor' = executor /\ executor[s] # "ready"
         \/ executor[s] = "ready" /\ executor' = [executor EXCEPT ![s] = "sent"],
         broker[s].state \in {"none", "working"}, a.state # "none",
         broker[s].cum <= a.cum, a.cum <= Quantity[s], a.state = "filled" => a.cum > 0
  PROVE  Inductive'
<1>1. OrdersTypeOK /\ RecordTypeOK /\ broker[s].cum \in Nat /\ a.cum \in Nat
      /\ row[s].cum \in Nat /\ row[s].cum <= broker[s].cum /\ Quantity[s] \in Nat
  BY ConstantsAssumption, AnswerShape, RowShape DEF Inductive, TypeOK, OrdersTypeOK
<1>2. broker'[s] = a /\ \A t \in Signals \ {s} : broker'[t] = broker[t]
  BY <1>1 DEF OrdersTypeOK
<1>3. /\ executor' \in [Signals -> {"ready", "sent", "done"}] /\ executor'[s] # "ready"
      /\ executor'[s] # "done" => executor[s] # "done"
      /\ \A t \in Signals \ {s} : executor'[t] = executor[t]
  BY <1>1 DEF OrdersTypeOK
<1>4. OrdersTypeOK'
  <2>1. broker' \in [Signals -> Answers]
    BY <1>1 DEF OrdersTypeOK
  <2>2. row[s].cum <= a.cum
    BY <1>1
  <2>3. \A t \in Signals : broker'[t].cum <= Quantity[t] /\ row[t].cum <= broker'[t].cum
    BY <1>1, <1>2, <2>2 DEF OrdersTypeOK
  <2> QED
    BY <1>1, <1>3, <2>1, <2>3 DEF OrdersTypeOK
<1>5. TypeOK'
  BY <1>1, <1>4 DEF Inductive, TypeOK, RecordTypeOK, recordVars, overlaps
<1>a. ~Terminal(broker[s]) /\ ~Terminal(row[s])
  BY DEF Terminal, Inductive, OrderInv
<1>6. OrdersInv'
  <2> SUFFICES ASSUME NEW t \in Signals PROVE OrderInv(t)'
    BY DEF OrdersInv
  <2>1. CASE t = s
    <3>1. recorded[s] = 0 \/ row[s] # NoRow
      BY DEF Inductive, OrderInv
    <3>2. row' = row /\ recorded' = recorded
      BY DEF recordVars
    <3>3. executor'[s] # "done" => row[s] = NoRow
      BY <1>3 DEF Inductive, OrderInv
    <3>4. row[s] # NoRow => row[s].state # "none"
      BY DEF Inductive, OrderInv
    <3>5. executor'[s] # "ready" /\ broker'[s] = a
      BY <1>2, <1>3
    <3> QED
      BY <1>a, <2>1, <3>1, <3>2, <3>3, <3>4, <3>5 DEF OrderInv, Terminal
  <2>2. CASE t # s
    BY <1>2, <1>3, <2>2 DEF Inductive, OrderInv, recordVars, Terminal
  <2> QED
    BY <2>1, <2>2
<1>7. recorded[s] = 0
  BY <1>1, <1>a DEF Inductive, FillRecordedOnce, RecordTypeOK
<1>8. RecordInv'
  <2>1. size[s] = 0
    BY <1>1, <1>7 DEF Inductive, LedgerMatchesFills, RecordTypeOK
  <2>2. \A t \in Signals : recorded[t] > 0 \/ size[t] > 0 => broker'[t] = broker[t]
    BY <1>2, <1>7, <2>1
  <2>3. heldTwice' = heldTwice
    BY DEF overlaps
  <2> QED
    BY <2>2, <2>3 DEF Inductive, RecordInv, FillRecordedOnce, LedgerMatchesFills, recordVars, Terminal
<1>9. ASSUME NEW p \in Polls PROVE FiringInv(p)'
  <2>1. AgendaInv(p)' /\ SettleInv(p)'
    BY DEF Inductive, AgendaInv, SettleInv, recordVars, overlaps, Job, Seen
  <2>2. AnswerInv(p)'
    <3>1. CASE Job(p) # s
      BY <1>2, <3>1, BusyFacts DEF Inductive, AnswerInv, overlaps, Job, Seen
    <3>2. CASE Job(p) = s
      <4> SUFFICES ASSUME poll[p].pc \in BusyPcs PROVE AnswerInv(p)'
        BY DEF AnswerInv
      <4>1. ~Terminal(Seen(p)) /\ Seen(p).cum \in Nat /\ Seen(p).cum <= broker[s].cum
            /\ (s \notin heldTwice => row[s].cum <= Seen(p).cum)
        BY <1>a, <3>2, BusyFacts DEF Terminal
      <4>2. Seen(p).cum <= a.cum
        BY <1>1, <4>1
      <4>3. poll[p].pc # "stamp" /\ poll[p].pc \notin FillPcs
        BY <4>1, FillIsFinal DEF Inductive, AnswerInv
      <4>4. Seen(p).state # "none"
        BY BusyFacts
      <4> QED
        BY <1>2, <1>a, <3>2, <4>1, <4>2, <4>3, <4>4
           DEF AnswerInv, Job, Seen, Terminal, HasFill, overlaps
    <3> QED
      BY <3>1, <3>2
  <2> QED
    BY <2>1, <2>2 DEF FiringInv
<1>10. OverlapInv'
  BY DEF Inductive, TypeOK, OverlapInv, ApartInv, Agenda, Job, overlaps
<1> QED
  BY <1>5, <1>6, <1>8, <1>9, <1>10, Parts

\* The broker's order, from its placement to its end.
LEMMA BrokerStep ==
  ASSUME Inductive, NEW s \in Signals, PlaceEquityOrder(s) \/ Trade(s) \/ EndOrder(s)
  PROVE  Inductive'
<1>1. /\ broker[s] \in Answers /\ broker[s].cum \in Nat /\ broker[s].cum <= Quantity[s]
      /\ Quantity[s] \in Nat
      /\ broker \in [Signals -> Answers]
  BY ConstantsAssumption, AnswerShape DEF Inductive, TypeOK, OrdersTypeOK
<1>2. broker[s].state = "working" => executor[s] # "ready"
  BY DEF Inductive, OrderInv, NoOrder
<1>3. CASE PlaceEquityOrder(s)
  <2> DEFINE a == [state |-> "working", cum |-> 0]
  <2>1. a \in Answers
    BY AnswerShape DEF States
  <2>2. broker[s].state = "none" /\ broker[s].cum = 0
    BY <1>3 DEF PlaceEquityOrder, Inductive, OrderInv, NoOrder
  <2>3. /\ executor[s] = "ready" /\ executor' = [executor EXCEPT ![s] = "sent"]
        /\ broker' = [broker EXCEPT ![s] = a] /\ UNCHANGED <<row, recordVars, poll, faults, overlaps>>
    BY <1>3 DEF PlaceEquityOrder
  <2>4. a.state = "working" /\ a.cum = 0
    OBVIOUS
  <2>5. broker[s].cum <= a.cum /\ a.cum <= Quantity[s]
    BY <1>1, <2>2, <2>4
  <2>6. a.state # "none" /\ a.state # "filled" /\ broker[s].state \in {"none", "working"}
    BY <2>2, <2>4
  <2> HIDE DEF a
  <2> QED
    BY <2>1, <2>3, <2>5, <2>6, BrokerMoves
<1>4. CASE Trade(s)
  <2>1. PICK cum \in broker[s].cum + 1 .. Quantity[s] :
          broker' = [broker EXCEPT ![s] =
            [state |-> IF cum = Quantity[s] THEN "filled" ELSE "working", cum |-> cum]]
    BY <1>4 DEF Trade
  <2> DEFINE st == IF cum = Quantity[s] THEN "filled" ELSE "working"
             a == [state |-> st, cum |-> cum]
  <2>2. cum \in Nat /\ cum > 0 /\ broker[s].cum <= cum /\ cum <= Quantity[s]
    BY <1>1, <2>1
  <2>3. st \in States /\ st # "none"
    BY DEF States
  <2>4. a \in Answers
    BY <2>2, <2>3, AnswerShape
  <2>5. broker[s].state = "working" /\ executor' = executor
        /\ UNCHANGED <<row, recordVars, poll, faults, overlaps>>
    BY <1>4 DEF Trade
  <2> QED
    BY <1>2, <2>1, <2>2, <2>3, <2>4, <2>5, BrokerMoves
<1>5. CASE EndOrder(s)
  <2> DEFINE a == [state |-> "ended", cum |-> broker[s].cum]
  <2>1. a \in Answers
    BY <1>1, AnswerShape DEF States
  <2>2. broker' = [broker EXCEPT ![s] = a]
    BY <1>5 DEF EndOrder
  <2>3. broker[s].state = "working" /\ executor' = executor
        /\ UNCHANGED <<row, recordVars, poll, faults, overlaps>>
    BY <1>5 DEF EndOrder
  <2>4. a.state = "ended" /\ a.cum = broker[s].cum
    OBVIOUS
  <2>5. broker[s].cum <= a.cum
    BY <1>1, <2>4
  <2> HIDE DEF a
  <2> QED
    BY <1>1, <1>2, <2>1, <2>2, <2>3, <2>4, <2>5, BrokerMoves
<1> QED
  BY <1>3, <1>4, <1>5

\* The executor records what it placed, or is lost.
LEMMA ExecutorStep ==
  ASSUME Inductive, NEW s \in Signals, RecordPlacedOrder(s) \/ LoseExecutor(s)
  PROVE  Inductive'
<1>1. /\ executor' = [executor EXCEPT ![s] = "done"] /\ executor[s] \in {"ready", "sent"}
      /\ UNCHANGED <<broker, recordVars, poll, overlaps>>
  BY DEF RecordPlacedOrder, LoseExecutor
<1>2. faults' \in 0 .. MaxFaults
  BY ConstantsAssumption DEF Inductive, TypeOK, RecordPlacedOrder, LoseExecutor, Fault
<1>3. row[s] = NoRow /\ recorded[s] = 0 /\ OrdersTypeOK
  BY <1>1 DEF Inductive, OrderInv, TypeOK
<1>4. /\ executor' \in [Signals -> {"ready", "sent", "done"}] /\ executor'[s] = "done"
      /\ \A t \in Signals \ {s} : executor'[t] = executor[t]
  BY <1>1, <1>3 DEF OrdersTypeOK
<1> DEFINE placed == [state |-> "working", cum |-> 0, open |-> TRUE]
<1>5. row' = row \/ (row' = [row EXCEPT ![s] = placed] /\ broker[s].state # "none")
  BY DEF RecordPlacedOrder, LoseExecutor, Inductive, OrderInv
<1>6. placed \in [state : States, cum : Nat, open : BOOLEAN]
  BY RowShape DEF States
<1>7. /\ row' \in [Signals -> [state : States, cum : Nat, open : BOOLEAN]]
      /\ row'[s] = NoRow \/ (row'[s] = placed /\ broker[s].state # "none")
      /\ \A t \in Signals \ {s} : row'[t] = row[t]
  <2> HIDE DEF placed
  <2> QED
    BY <1>3, <1>5, <1>6 DEF OrdersTypeOK
<1>8. TypeOK'
  <2>1. row'[s].cum = 0
    BY <1>7 DEF NoRow
  <2>2. broker[s].cum \in Nat
    BY <1>3, AnswerShape DEF OrdersTypeOK
  <2>3. OrdersTypeOK'
    BY <1>1, <1>3, <1>4, <1>7, <2>1, <2>2 DEF OrdersTypeOK
  <2> QED
    BY <1>1, <1>2, <2>3 DEF Inductive, TypeOK, RecordTypeOK, recordVars, overlaps
<1>9. OrdersInv'
  <2> SUFFICES ASSUME NEW t \in Signals PROVE OrderInv(t)'
    BY DEF OrdersInv
  <2>1. CASE t = s
    <3>1. recorded'[t] = 0 /\ executor'[t] = "done" /\ broker'[t] = broker[t]
      BY <1>1, <1>3, <1>4, <2>1 DEF recordVars
    <3>2. /\ row'[t] # NoRow => row'[t].state # "none" /\ broker[t].state # "none"
          /\ ~(row'[t].state \in {"filled", "ended"})
      BY <1>7, <2>1 DEF NoRow
    <3> HIDE DEF placed
    <3> QED
      BY <3>1, <3>2 DEF Inductive, OrderInv, Terminal
  <2>2. CASE t # s
    BY <1>1, <1>4, <1>7, <2>2 DEF Inductive, OrderInv, recordVars, Terminal
  <2> QED
    BY <2>1, <2>2
<1>10. RecordInv'
  BY <1>1 DEF Inductive, RecordInv, FillRecordedOnce, LedgerMatchesFills, recordVars, overlaps,
              Terminal
<1>11. ASSUME NEW p \in Polls PROVE FiringInv(p)'
  <2>1. \A t \in Signals : row[t] # NoRow => row'[t] = row[t]
    BY <1>3, <1>7
  <2>2. poll[p].todo \subseteq Signals
    BY DEF Inductive, TypeOK, Firings
  <2>3. AgendaInv(p)'
    BY <1>1, <2>1, <2>2 DEF Inductive, AgendaInv, Job, overlaps
  <2>4. AnswerInv(p)'
    BY <1>1, <2>1, BusyFacts DEF Inductive, AnswerInv, Job, Seen, overlaps
  <2>5. SettleInv(p)'
    BY <1>1 DEF Inductive, SettleInv, Job, Seen, recordVars, overlaps
  <2> QED
    BY <2>3, <2>4, <2>5 DEF FiringInv
<1>12. OverlapInv'
  BY <1>1 DEF Inductive, TypeOK, OverlapInv, ApartInv, Agenda, Job, overlaps
<1> QED
  BY <1>8, <1>9, <1>10, <1>11, <1>12, Parts

\* The sweep publishes a signal whose execution is recorded.
LEMMA SweepPublishStep ==
  ASSUME Inductive, NEW s \in Signals, SweepPublish(s)
  PROVE  Inductive'
<1>1. /\ recorded[s] > 0 /\ published' = [published EXCEPT ![s] = TRUE]
      /\ UNCHANGED <<executor, broker, row, recorded, size, open, closers, poll, faults, overlaps>>
  BY DEF SweepPublish, Sweepable
<1>2. TypeOK'
  BY <1>1 DEF Inductive, TypeOK, OrdersTypeOK, RecordTypeOK, overlaps
<1>3. OrdersInv'
  BY <1>1 DEF Inductive, OrdersInv, OrderInv
<1>4. RecordInv'
  BY <1>1 DEF Inductive, TypeOK, RecordTypeOK, RecordInv, FillRecordedOnce, LedgerMatchesFills,
              overlaps
<1>5. \A p \in Polls : FiringInv(p)'
  BY <1>1 DEF Inductive, FiringInv, AgendaInv, AnswerInv, SettleInv, Job, Seen, overlaps
<1>6. OverlapInv'
  BY <1>1 DEF Inductive, TypeOK, OverlapInv, ApartInv, Agenda, Job, overlaps
<1> QED
  BY <1>2, <1>3, <1>4, <1>5, <1>6, Parts
-----------------------------------------------------------------------------
(* Every step.                                                               *)

\* A firing that records, settles or publishes.
LEMMA SettlingStep ==
  ASSUME Inductive, NEW p \in Polls,
         \/ ListExecutions(p) \/ RecordExecution(p) \/ SettleBuy(p) \/ SettleSell(p)
         \/ CheckLots(p) \/ CommitClose(p) \/ PublishSignal(p) \/ PublishFails(p)
  PROVE  Inductive'
<1>1. CASE ListExecutions(p) \/ PublishFails(p)
  BY <1>1, DecidingStep
<1>2. CASE RecordExecution(p)
  BY <1>2, RecordExecutionStep
<1>3. CASE SettleBuy(p)
  BY <1>3, SettleBuyStep
<1>4. CASE SettleSell(p)
  <2>1. CASE Goto(p, "publish")
    BY <1>4, <2>1, DecidingStep
  <2>2. CASE ~Goto(p, "publish")
    BY <1>4, <2>2, ChooseStep
  <2> QED
    BY <2>1, <2>2
<1>5. CASE CheckLots(p)
  <2>1. Goto(p, "commitClose") \/ Rest(p)
    BY <1>5 DEF CheckLots
  <2> QED
    BY <1>5, <2>1, DecidingStep, LeavingStep
<1>6. CASE CommitClose(p)
  BY <1>6, CommitCloseStep
<1>7. CASE PublishSignal(p)
  BY <1>7, PublishStep
<1> QED
  BY <1>1, <1>2, <1>3, <1>4, <1>5, <1>6, <1>7

\* Inductive survives every step, however the firings of the poll overlap.
LEMMA StepInductive == Inductive /\ [Next]_vars => Inductive'
<1> SUFFICES ASSUME Inductive, [Next]_vars PROVE Inductive'
  OBVIOUS
<1>1. CASE \E s \in Signals : OrderStep(s)
  <2>1. PICK s \in Signals : OrderStep(s)
    BY <1>1
  <2>2. \/ PlaceEquityOrder(s) \/ Trade(s) \/ EndOrder(s)
        \/ RecordPlacedOrder(s) \/ LoseExecutor(s) \/ SweepPublish(s)
    BY <2>1 DEF OrderStep
  <2> QED
    BY <2>2, BrokerStep, ExecutorStep, SweepPublishStep
<1>2. CASE \E p \in Polls : FirePoll(p) \/ PollStep(p) \/ PollFault(p)
  <2>1. PICK p \in Polls : FirePoll(p) \/ PollStep(p) \/ PollFault(p)
    BY <1>2
  <2>2. \/ EndPoll(p) \/ FillUnpriced(p) \/ AbortPoll(p)
        \/ FirePoll(p) \/ GetEquityOrderFails(p)
        \/ GetEquityOrder(p) \/ UpdateOrder(p) \/ StampTerminal(p)
        \/ ListExecutions(p) \/ RecordExecution(p) \/ SettleBuy(p) \/ SettleSell(p)
        \/ CheckLots(p) \/ CommitClose(p) \/ PublishSignal(p) \/ PublishFails(p)
    BY <2>1 DEF PollStep, PollFault
  <2> QED
    BY <2>2, LeavingStep, FirePollStep, GetEquityOrderStep, UpdateOrderStep, StampStep,
       SettlingStep
<1>3. CASE UNCHANGED vars
  BY <1>3 DEF vars, recordVars, overlaps, Inductive, TypeOK, OrdersTypeOK, RecordTypeOK, OrderInv,
       ApartInv, Agenda, AgendaInv, AnswerInv, SettleInv, Job, Seen, FillRecordedOnce,
       LedgerMatchesFills
<1> QED
  BY <1>1, <1>2, <1>3 DEF Next

\* The inductive invariant holds in every behaviour, whatever fails, however often
\* an order is polled and however many firings of the poll are in flight.
THEOREM InductiveHolds == Spec => []Inductive
<1>1. Init => Inductive
  BY InitInductive
<1>2. Inductive /\ [Next]_vars => Inductive'
  BY StepInductive
<1> QED
  BY <1>1, <1>2, PTL DEF Spec

\* pollLiveOrders records the broker's final quantity of an order and no partial
\* fill, whatever failed before the stamp; and once, unless two firings were at
\* work on the order at once.
THEOREM FillsAreRecordedOnce == Spec => []FillRecordedOnce
<1>1. Inductive => FillRecordedOnce
  BY DEF Inductive
<1> QED
  BY <1>1, InductiveHolds, PTL

\* Every lot is as large as its buy's fill, whatever overlapped, and is closed only
\* by recorded sells of its symbol.
THEOREM LedgerIsBacked == Spec => []LedgerMatchesFills
<1>1. Inductive => LedgerMatchesFills
  BY DEF Inductive
<1> QED
  BY <1>1, InductiveHolds, PTL

\* What is published, by the poll or by the sweep, was filled for good.
THEOREM PublicationsAreFilled == Spec => []PublishedIsFilled
<1>1. Inductive => PublishedIsFilled
  BY DEF Inductive, FillRecordedOnce, PublishedIsFilled, Terminal
<1> QED
  BY <1>1, InductiveHolds, PTL
-----------------------------------------------------------------------------
(* What a step may never do to a row.                                        *)

RowAdvances ==
  \A s \in Signals :
    /\ s \notin heldTwice =>
         /\ row'[s].cum >= row[s].cum
         /\ Terminal(row[s]) => row'[s].state = row[s].state
    /\ s \notin listedTwice /\ row[s].state # "none" /\ ~row[s].open => row'[s] = row[s]

\* A write by the one firing that has the order carries no less than the row, which
\* was open, and no other word than its last.
LEMMA WriteAdvances ==
  ASSUME Inductive, NEW p \in Polls, poll[p].pc \in BusyPcs, NEW b \in BOOLEAN, WriteRow(p, b)
  PROVE  RowAdvances
<1> DEFINE j == Job(p)
<1>1. /\ j \in Signals /\ Seen(p).cum \in Nat
      /\ j \notin listedTwice => row[j].open
      /\ j \notin heldTwice => /\ row[j].cum <= Seen(p).cum
                               /\ Terminal(row[j]) => Seen(p) = broker[j]
  BY BusyFacts
<1>2. \A s \in Signals : row[s].cum \in Nat /\ row[s].cum >= row[s].cum
  BY RowShape DEF Inductive, TypeOK, OrdersTypeOK
<1>3. /\ row'[j].cum = Seen(p).cum /\ row'[j].state = Seen(p).state
      /\ \A s \in Signals \ {j} : row'[s] = row[s]
  BY <1>1 DEF WriteRow, Inductive, TypeOK, OrdersTypeOK
<1>4. Terminal(row[j]) => row[j].state = broker[j].state
  BY <1>1 DEF Inductive, OrderInv
<1>5. j \notin heldTwice => row'[j].cum >= row[j].cum
  BY <1>1, <1>2, <1>3
<1> QED
  BY <1>1, <1>2, <1>3, <1>4, <1>5 DEF RowAdvances

\* The first row of an order replaces none; no other step but the writes of a
\* firing touches a row.
LEMMA StepAdvances == Inductive /\ [Next]_vars => RowAdvances
<1> SUFFICES ASSUME Inductive, [Next]_vars PROVE RowAdvances
  OBVIOUS
<1>1. \A s \in Signals : row[s].cum \in Nat /\ row[s].cum >= row[s].cum
  BY RowShape DEF Inductive, TypeOK, OrdersTypeOK
<1>2. CASE row' = row
  BY <1>1, <1>2 DEF RowAdvances
<1>3. ASSUME NEW s \in Signals, RecordPlacedOrder(s) PROVE RowAdvances
  <2>1. /\ row[s] = NoRow
        /\ row' = [row EXCEPT ![s] = [state |-> "working", cum |-> 0, open |-> TRUE]]
    BY <1>3 DEF RecordPlacedOrder, Inductive, OrderInv
  <2>2. row'[s].cum = 0 /\ \A t \in Signals \ {s} : row'[t] = row[t]
    BY <2>1 DEF Inductive, TypeOK, OrdersTypeOK
  <2> QED
    BY <1>1, <2>1, <2>2 DEF RowAdvances, NoRow, Terminal
<1>4. ASSUME NEW p \in Polls, UpdateOrder(p) \/ StampTerminal(p) PROVE RowAdvances
  <2>1. poll[p].pc \in BusyPcs /\ (WriteRow(p, TRUE) \/ WriteRow(p, FALSE))
    BY <1>4 DEF UpdateOrder, StampTerminal, TerminalAt, At, BusyPcs
  <2> QED
    BY <2>1, WriteAdvances
<1>5. \/ row' = row
      \/ \E s \in Signals : RecordPlacedOrder(s)
      \/ \E p \in Polls : UpdateOrder(p) \/ StampTerminal(p)
  BY DEF Next, vars, OrderStep, PlaceEquityOrder, LoseExecutor, Trade, EndOrder, SweepPublish,
     FirePoll, PollStep, PollFault, EndPoll, GetEquityOrder, ListExecutions, RecordExecution,
     SettleBuy, SettleSell, CheckLots, CommitClose, PublishSignal, GetEquityOrderFails,
     FillUnpriced, PublishFails, AbortPoll
<1> QED
  BY <1>2, <1>3, <1>4, <1>5

\* A closed row is never written again unless two firings had the order to read,
\* and no row goes back to an earlier answer unless two were at work on it at once
\* (updateOrderFromBroker).
THEOREM RowsAdvance == Spec => RowNeverGoesBack
<1>1. Inductive /\ [Next]_vars => RowAdvances
  BY StepAdvances
<1>2. RowNeverGoesBack <=> [][RowAdvances]_vars
  BY DEF RowNeverGoesBack, RowAdvances
<1> QED
  BY <1>1, <1>2, InductiveHolds, PTL DEF Spec
-----------------------------------------------------------------------------
(* What an exit closes: the sums of Covered, by the lemmas of Sums.          *)

ClosedBy(s) == {l \in Signals : s \in closers[l]}

Closing == {"settle", "closeLots", "commitClose"}

\* Total is the library's sum of the sizes, now and in the next state.
LEMMA TotalIsSum ==
  /\ \A C : Total(C) = SumFunctionOnSet(size, C)
  /\ ExitCoversFill <=>
       \A s \in Signals \ heldTwice : SumFunctionOnSet(size, ClosedBy(s)) <= recorded[s]
  /\ ExitCoversFill' <=>
       \A s \in Signals \ heldTwice' : SumFunctionOnSet(size', ClosedBy(s)') <= recorded'[s]
  /\ \A p \in Polls : CoverInv(p) <=>
       (poll[p].pc \in Closing /\ Job(p) \notin heldTwice =>
          /\ \A l \in Signals : Job(p) \notin closers[l]
          /\ poll[p].pc # "settle" => SumFunctionOnSet(size, poll[p].chosen) <= Seen(p).cum)
  /\ \A p \in Polls : CoverInv(p)' <=>
       (poll'[p].pc \in Closing /\ Job(p)' \notin heldTwice' =>
          /\ \A l \in Signals : Job(p)' \notin closers'[l]
          /\ poll'[p].pc # "settle" =>
               SumFunctionOnSet(size', poll'[p].chosen) <= Seen(p)'.cum)
BY DEF ExitCoversFill, ClosedBy, CoverInv, Total, MapThenSumSet, SumFunctionOnSet,
     FoldFunctionOnSet, MapThenFoldSet, Closing

\* What a sell closed was opened, and has a size.
LEMMA ClosedWereOpened ==
  ASSUME Inductive, Covered, NEW s \in Signals
  PROVE  /\ ClosedBy(s) \subseteq Opened /\ IsFiniteSet(ClosedBy(s))
         /\ \A l \in Opened : size[l] \in Nat
         /\ SumFunctionOnSet(size, ClosedBy(s)) \in Nat
<1>1. ClosedBy(s) \subseteq Opened
  BY DEF Inductive, LedgerMatchesFills, ClosedBy, Opened
<1>2. IsFiniteSet(ClosedBy(s))
  BY <1>1, FS_Subset DEF Covered
<1>3. \A l \in Opened : size[l] \in Nat
  BY DEF Opened, Inductive, TypeOK, RecordTypeOK
<1>4. SumFunctionOnSet(size, ClosedBy(s)) \in Nat
  BY <1>1, <1>2, <1>3, SumType
<1> QED  BY <1>1, <1>2, <1>3, <1>4

\* What another firing is about to close stays within its fill: a step of p changes
\* no lot that has a size, and names no sell but p's own as the closer of one.
LEMMA OthersCover ==
  ASSUME Inductive, Covered, NEW p \in Polls, OnlyMoves(p), heldTwice \subseteq heldTwice',
         \A l \in Signals : size[l] > 0 => size'[l] = size[l],
         \A l \in Signals : closers'[l] \subseteq closers[l] \cup {Job(p)},
         NEW q \in Polls, q # p
  PROVE  CoverInv(q)'
<1> SUFFICES ASSUME poll[q].pc \in Closing, Job(q) \notin heldTwice PROVE CoverInv(q)'
  BY TotalIsSum DEF OnlyMoves, Job
<1>1. poll'[q] = poll[q] /\ Job(q)' = Job(q) /\ Seen(q)' = Seen(q)
  BY DEF OnlyMoves, Job, Seen
<1>2. /\ \A l \in Signals : Job(q) \notin closers[l]
      /\ poll[q].pc # "settle" => SumFunctionOnSet(size, poll[q].chosen) <= Seen(q).cum
  BY TotalIsSum DEF Covered
<1>3. Job(q) # Job(p)
  <2>1. Job(q) \in Signals
    BY DEF Inductive, AgendaInv, Closing, BusyPcs, FillPcs
  <2> QED
    BY <2>1 DEF Inductive, ApartInv
<1>4. \A l \in Signals : Job(q) \notin closers'[l]
  BY <1>2, <1>3
<1>5. CASE poll[q].pc = "settle"
  BY <1>1, <1>4, <1>5, TotalIsSum
<1>6. CASE poll[q].pc # "settle"
  <2> DEFINE C == poll[q].chosen
  <2>1. C \subseteq Signals /\ \A l \in C : size[l] > 0
    BY <1>6 DEF Inductive, SettleInv, TypeOK, Firings, Closing
  <2>2. IsFiniteSet(C)
    <3>1. C \subseteq Opened
      BY <2>1 DEF Opened
    <3> QED
      BY <3>1, FS_Subset DEF Covered
  <2>3. \A l \in C : size[l] \in Nat /\ size'[l] = size[l]
    BY <2>1 DEF Inductive, TypeOK, RecordTypeOK
  <2>4. SumFunctionOnSet(size', C) = SumFunctionOnSet(size, C)
    BY <2>2, <2>3, SumEqual
  <2>5. SumFunctionOnSet(size', C) <= Seen(q).cum
    BY <1>2, <1>6, <2>4
  <2> QED
    BY <1>1, <1>4, <2>5, TotalIsSum
<1> QED
  BY <1>5, <1>6

\* A step of one firing that opens and closes nothing, and takes no execution back.
LEMMA SameLots ==
  ASSUME Inductive, Covered, UNCHANGED <<size, closers>>, heldTwice \subseteq heldTwice',
         \A s \in Signals : recorded'[s] \in Nat /\ recorded'[s] >= recorded[s],
         NEW p \in Polls, OnlyMoves(p), CoverInv(p)'
  PROVE  Covered'
<1>1. Opened' = Opened
  BY DEF Opened
<1>2. ASSUME NEW s \in Signals \ heldTwice'
      PROVE  SumFunctionOnSet(size', ClosedBy(s)') <= recorded'[s]
  <2>1. ClosedBy(s)' = ClosedBy(s) /\ size' = size /\ s \in Signals \ heldTwice
    BY DEF ClosedBy
  <2>2. SumFunctionOnSet(size, ClosedBy(s)) <= recorded[s]
    BY <2>1, TotalIsSum DEF Covered
  <2>3. SumFunctionOnSet(size, ClosedBy(s)) \in Nat /\ recorded[s] \in Nat
    BY ClosedWereOpened DEF Inductive, TypeOK, RecordTypeOK
  <2>4. SumFunctionOnSet(size', ClosedBy(s)') = SumFunctionOnSet(size, ClosedBy(s))
    BY <2>1
  <2> QED  BY <2>2, <2>3, <2>4
<1>3. ExitCoversFill'
  BY <1>2, TotalIsSum
<1>4. \A q \in Polls : q # p => CoverInv(q)'
  BY OthersCover
<1> QED  BY <1>1, <1>3, <1>4 DEF Covered

\* A firing that is not about to close lots has nothing to show.
LEMMA NotClosing ==
  ASSUME Inductive, Covered, UNCHANGED <<recorded, size, closers>>, heldTwice \subseteq heldTwice',
         NEW p \in Polls, OnlyMoves(p), poll'[p].pc \notin Closing
  PROVE  Covered'
<1>1. CoverInv(p)'
  BY TotalIsSum
<1>2. \A s \in Signals : recorded'[s] \in Nat /\ recorded'[s] >= recorded[s]
  BY DEF Inductive, TypeOK, RecordTypeOK
<1> QED  BY <1>1, <1>2, SameLots

\* The poll keeps what it chose while others work.
LEMMA SamePoll ==
  ASSUME Inductive, Covered, UNCHANGED <<recorded, size, closers, poll, heldTwice>>
  PROVE  Covered'
<1>1. ASSUME NEW p \in Polls PROVE CoverInv(p)'
  <2>1. CoverInv(p)
    BY DEF Covered
  <2>2. Job(p)' = Job(p) /\ Seen(p)' = Seen(p) /\ poll' = poll /\ size' = size
        /\ closers' = closers /\ heldTwice' = heldTwice
    BY DEF Job, Seen
  <2> QED  BY <2>1, <2>2, TotalIsSum
<1>2. ASSUME NEW s \in Signals \ heldTwice'
      PROVE  SumFunctionOnSet(size', ClosedBy(s)') <= recorded'[s]
  BY TotalIsSum DEF Covered, ClosedBy
<1>3. ExitCoversFill'
  BY <1>2, TotalIsSum
<1> QED  BY <1>1, <1>3 DEF Covered, Opened

\* The execution of a sell is recorded before any lot names it.
LEMMA RecordCovered ==
  ASSUME Inductive, Covered, NEW p \in Polls, RecordExecution(p)
  PROVE  Covered'
<1> DEFINE s == Job(p)  n == Seen(p).cum
<1>1. /\ poll[p].pc = "record" /\ recorded' = [recorded EXCEPT ![s] = @ + n]
      /\ Goto(p, "settle") /\ UNCHANGED <<size, closers, overlaps>> /\ heldTwice' = heldTwice
  BY DEF RecordExecution, At, overlaps
<1>2. /\ s \in Signals /\ n \in Nat
      /\ s \notin heldTwice => recorded[s] = 0
  BY <1>1, FillFacts DEF Inductive, SettleInv, FillPcs
<1>3. poll'[p].pc = "settle" /\ Job(p)' = s /\ OnlyMoves(p)
  BY <1>1 DEF Goto, Inductive, TypeOK, Firings, Job, OnlyMoves
<1>4. s \notin heldTwice => \A l \in Signals : s \notin closers[l]
  BY <1>2 DEF Inductive, LedgerMatchesFills
<1>5. CoverInv(p)'
  BY <1>1, <1>3, <1>4, TotalIsSum
<1>6. \A t \in Signals : recorded'[t] \in Nat /\ recorded'[t] >= recorded[t]
  BY <1>1, <1>2 DEF Inductive, TypeOK, RecordTypeOK
<1> QED  BY <1>1, <1>3, <1>5, <1>6, SameLots

\* A new lot is one more, and no sell has closed it; a buy settled twice has the
\* same lot.
LEMMA SettleBuyCovered ==
  ASSUME Inductive, Covered, NEW p \in Polls, SettleBuy(p)
  PROVE  Covered'
<1> DEFINE b == Job(p)
<1>1. /\ poll[p].pc = "settle" /\ Goto(p, "publish")
      /\ size' = [size EXCEPT ![b] = Seen(p).cum] /\ UNCHANGED <<recorded, closers>>
      /\ heldTwice' = heldTwice
  BY DEF SettleBuy, At, LotQuantity, overlaps
<1>2. b \in Signals /\ Seen(p).cum = broker[b].cum
  BY <1>1, FillFacts DEF FillPcs
<1>3. /\ size'[b] = Seen(p).cum /\ \A l \in Signals \ {b} : size'[l] = size[l]
      /\ \A l \in Signals : size[l] > 0 => size'[l] = size[l]
  <2>1. size'[b] = Seen(p).cum /\ \A l \in Signals \ {b} : size'[l] = size[l]
    BY <1>1, <1>2 DEF Inductive, TypeOK, RecordTypeOK
  <2>2. size[b] > 0 => size[b] = broker[b].cum
    BY <1>2 DEF Inductive, LedgerMatchesFills
  <2> QED
    BY <1>2, <2>1, <2>2
<1>4. IsFiniteSet(Opened')
  <2>1. Opened' \subseteq Opened \cup {b}
    BY <1>3 DEF Opened
  <2>2. IsFiniteSet(Opened \cup {b})
    BY FS_AddElement DEF Covered
  <2> QED  BY <2>1, <2>2, FS_Subset
<1>5. ASSUME NEW s \in Signals \ heldTwice'
      PROVE  SumFunctionOnSet(size', ClosedBy(s)') <= recorded'[s]
  <2>1. ClosedBy(s)' = ClosedBy(s) /\ recorded' = recorded /\ s \in Signals \ heldTwice
    BY <1>1 DEF ClosedBy
  <2>2. /\ ClosedBy(s) \subseteq Opened /\ IsFiniteSet(ClosedBy(s))
        /\ \A l \in Opened : size[l] \in Nat
    BY ClosedWereOpened
  <2>3. \A l \in ClosedBy(s) : size[l] \in Nat /\ size'[l] = size[l]
    BY <1>3, <2>2 DEF Opened
  <2>4. SumFunctionOnSet(size', ClosedBy(s)) = SumFunctionOnSet(size, ClosedBy(s))
    BY <2>2, <2>3, SumEqual
  <2>5. SumFunctionOnSet(size, ClosedBy(s)) <= recorded[s]
    BY <2>1, TotalIsSum DEF Covered
  <2> QED  BY <2>1, <2>4, <2>5
<1>6. ExitCoversFill'
  BY <1>5, TotalIsSum
<1>7. poll'[p].pc = "publish" /\ OnlyMoves(p)
  BY <1>1 DEF Goto, Inductive, TypeOK, Firings, OnlyMoves
<1>8. CoverInv(p)'
  BY <1>7, TotalIsSum DEF Closing
<1>9. \A q \in Polls : q # p => CoverInv(q)'
  BY <1>1, <1>3, <1>7, OthersCover
<1> QED  BY <1>4, <1>6, <1>8, <1>9 DEF Covered

\* The lots a sell selects fit its fill.
LEMMA SettleSellCovered ==
  ASSUME Inductive, Covered, NEW p \in Polls, SettleSell(p)
  PROVE  Covered'
<1>1. /\ poll[p].pc = "settle" /\ UNCHANGED <<recorded, size, closers>>
      /\ heldTwice' = heldTwice
  BY DEF SettleSell, At, recordVars, overlaps
<1>2. PICK lots \in Selections(p) :
        \/ Goto(p, "publish")
        \/ poll' = [poll EXCEPT ![p].pc = "closeLots", ![p].chosen = lots]
  BY DEF SettleSell
<1>3. CASE Goto(p, "publish")
  <2>1. poll'[p].pc = "publish" /\ OnlyMoves(p)
    BY <1>3 DEF Goto, Inductive, TypeOK, Firings, OnlyMoves
  <2> QED  BY <1>1, <2>1, NotClosing DEF Closing
<1>4. CASE poll' = [poll EXCEPT ![p].pc = "closeLots", ![p].chosen = lots]
  <2>1. /\ poll'[p].pc = "closeLots" /\ poll'[p].chosen = lots
        /\ Job(p)' = Job(p) /\ Seen(p)' = Seen(p) /\ OnlyMoves(p)
    BY <1>4 DEF Inductive, TypeOK, Firings, OnlyMoves, Job, Seen
  <2>2. SumFunctionOnSet(size, lots) <= Seen(p).cum
    BY <1>2, TotalIsSum DEF Selections, Wanted
  <2>3. Job(p) \notin heldTwice => \A l \in Signals : Job(p) \notin closers[l]
    BY <1>1 DEF Covered, CoverInv
  <2>4. CoverInv(p)'
    BY <1>1, <2>1, <2>2, <2>3, TotalIsSum
  <2>5. \A s \in Signals : recorded'[s] \in Nat /\ recorded'[s] >= recorded[s]
    BY <1>1 DEF Inductive, TypeOK, RecordTypeOK
  <2> QED  BY <1>1, <2>1, <2>4, <2>5, SameLots
<1> QED  BY <1>2, <1>3, <1>4

\* The check of the lots keeps the choice.
LEMMA CheckCovered ==
  ASSUME Inductive, Covered, NEW p \in Polls, CheckLots(p)
  PROVE  Covered'
<1>1. /\ poll[p].pc = "closeLots" /\ UNCHANGED <<recorded, size, closers>>
      /\ heldTwice' = heldTwice
  BY DEF CheckLots, At, recordVars, overlaps
<1>2. CASE Rest(p)
  <2>1. poll'[p].pc = "idle" /\ OnlyMoves(p)
    BY <1>2 DEF Rest, Resting, Inductive, TypeOK, OnlyMoves
  <2> QED  BY <1>1, <2>1, NotClosing DEF Closing
<1>3. CASE Goto(p, "commitClose")
  <2>1. /\ poll'[p].pc = "commitClose" /\ poll'[p].chosen = poll[p].chosen
        /\ Job(p)' = Job(p) /\ Seen(p)' = Seen(p) /\ OnlyMoves(p)
    BY <1>3 DEF Goto, Inductive, TypeOK, Firings, OnlyMoves, Job, Seen
  <2>2. Job(p) \notin heldTwice =>
          /\ SumFunctionOnSet(size, poll[p].chosen) <= Seen(p).cum
          /\ \A l \in Signals : Job(p) \notin closers[l]
    BY <1>1, TotalIsSum DEF Covered, Closing
  <2>3. CoverInv(p)'
    BY <1>1, <2>1, <2>2, TotalIsSum
  <2>4. \A s \in Signals : recorded'[s] \in Nat /\ recorded'[s] >= recorded[s]
    BY <1>1 DEF Inductive, TypeOK, RecordTypeOK
  <2> QED  BY <1>1, <2>1, <2>3, <2>4, SameLots
<1> QED  BY <1>2, <1>3 DEF CheckLots

\* What a sell closes is what it chose, all at once.
LEMMA CommitCovered ==
  ASSUME Inductive, Covered, NEW p \in Polls, CommitClose(p)
  PROVE  Covered'
<1> DEFINE j == Job(p)  C == poll[p].chosen
<1>1. /\ poll[p].pc = "commitClose" /\ Goto(p, "publish") /\ UNCHANGED <<recorded, size>>
      /\ heldTwice' = heldTwice
      /\ closers' = [l \in Signals |->
           IF l \in C THEN closers[l] \cup {j} ELSE closers[l]]
  BY DEF CommitClose, At, overlaps
<1>2. /\ j \in Signals /\ C \subseteq Signals
      /\ j \notin heldTwice => recorded[j] = Seen(p).cum
  BY <1>1, FillFacts DEF Inductive, SettleInv, FillPcs, PaidPcs, TypeOK, Firings
<1>3. j \notin heldTwice => /\ SumFunctionOnSet(size, C) <= Seen(p).cum
                            /\ \A l \in Signals : j \notin closers[l]
  BY <1>1, TotalIsSum DEF Covered, Closing
<1>4. ASSUME NEW s \in Signals \ heldTwice'
      PROVE  SumFunctionOnSet(size', ClosedBy(s)') <= recorded'[s]
  <2>1. size' = size /\ recorded' = recorded /\ s \notin heldTwice
    BY <1>1
  <2>2. CASE s = j
    <3>1. ClosedBy(s)' = C
      BY <1>1, <1>2, <1>3, <2>1, <2>2 DEF ClosedBy
    <3>2. SumFunctionOnSet(size, C) <= recorded[j]
      BY <1>2, <1>3, <2>1, <2>2
    <3> QED  BY <2>1, <2>2, <3>1, <3>2
  <2>3. CASE s # j
    <3>1. ClosedBy(s)' = ClosedBy(s)
      BY <1>1, <2>3 DEF ClosedBy
    <3>2. SumFunctionOnSet(size, ClosedBy(s)) <= recorded[s]
      BY <2>1, TotalIsSum DEF Covered
    <3> QED  BY <2>1, <3>1, <3>2
  <2> QED  BY <2>2, <2>3
<1>5. ExitCoversFill'
  BY <1>4, TotalIsSum
<1>6. Opened' = Opened
  BY <1>1 DEF Opened
<1>7. poll'[p].pc = "publish" /\ OnlyMoves(p)
  BY <1>1 DEF Goto, Inductive, TypeOK, Firings, OnlyMoves
<1>8. CoverInv(p)'
  BY <1>7, TotalIsSum DEF Closing
<1>9. \A l \in Signals : closers'[l] \subseteq closers[l] \cup {j}
  BY <1>1
<1>10. \A l \in Signals : size[l] > 0 => size'[l] = size[l]
  BY <1>1
<1>11. \A q \in Polls : q # p => CoverInv(q)'
  <2>1. heldTwice \subseteq heldTwice'
    BY <1>1
  <2> QED
    BY <1>7, <1>9, <1>10, <2>1, OthersCover
<1> QED  BY <1>5, <1>6, <1>8, <1>11 DEF Covered

\* The other steps of a firing leave it far from closing lots.
LEMMA OtherCovered ==
  ASSUME Inductive, Covered, NEW p \in Polls,
         \/ EndPoll(p) \/ FillUnpriced(p) \/ AbortPoll(p) \/ FirePoll(p)
         \/ GetEquityOrderFails(p) \/ GetEquityOrder(p) \/ UpdateOrder(p)
         \/ StampTerminal(p) \/ ListExecutions(p) \/ PublishFails(p) \/ PublishSignal(p)
  PROVE  Covered'
<1>1. /\ poll'[p].pc \in {"idle", "polling", "update", "check", "record", "stamp"}
      /\ OnlyMoves(p)
  <2>1. poll \in [Polls -> Firings]
    BY DEF Inductive, TypeOK
  <2>2. CASE Rest(p) \/ NextOrder(p)
    BY <2>1, <2>2 DEF Rest, Resting, NextOrder, Polling, OnlyMoves
  <2>3. CASE \E l \in {"check", "record", "stamp"} : Goto(p, l)
    BY <2>1, <2>3 DEF Goto, Firings, OnlyMoves
  <2>4. CASE FirePoll(p) \/ GetEquityOrderFails(p)
    BY <2>1, <2>4 DEF FirePoll, GetEquityOrderFails, Polling, OnlyMoves
  <2>5. CASE GetEquityOrder(p)
    BY <2>1, <2>5 DEF GetEquityOrder, OnlyMoves
  <2>6. CASE UpdateOrder(p)
    BY <2>2, <2>3, <2>6 DEF UpdateOrder
  <2>7. CASE ListExecutions(p)
    BY <2>3, <2>7 DEF ListExecutions
  <2> QED
    BY <2>2, <2>3, <2>4, <2>5, <2>6, <2>7 DEF EndPoll, FillUnpriced, AbortPoll,
       StampTerminal, PublishFails, PublishSignal
<1>2. UNCHANGED <<recorded, size, closers>> /\ heldTwice \subseteq heldTwice'
  BY DEF EndPoll, FillUnpriced, AbortPoll, FirePoll, GetEquityOrderFails, GetEquityOrder,
       UpdateOrder, StampTerminal, ListExecutions, PublishFails, PublishSignal, recordVars,
       overlaps
<1> QED
  BY <1>1, <1>2, NotClosing DEF Closing

\* Covered survives every step.
LEMMA StepCovered == Inductive /\ Covered /\ [Next]_vars => Covered'
<1> SUFFICES ASSUME Inductive, Covered, [Next]_vars PROVE Covered'
  OBVIOUS
<1>1. CASE UNCHANGED <<recorded, size, closers, poll, heldTwice>>
  BY <1>1, SamePoll
<1>2. CASE \E s \in Signals : OrderStep(s)
  <2>1. UNCHANGED <<recorded, size, closers, poll, heldTwice>>
    BY <1>2 DEF OrderStep, PlaceEquityOrder, RecordPlacedOrder, LoseExecutor, Trade, EndOrder,
         SweepPublish, recordVars, overlaps
  <2> QED  BY <1>1, <2>1
<1>3. CASE \E p \in Polls : FirePoll(p) \/ PollStep(p) \/ PollFault(p)
  <2>1. PICK p \in Polls : FirePoll(p) \/ PollStep(p) \/ PollFault(p)
    BY <1>3
  <2> QED
    BY <2>1, OtherCovered, RecordCovered, SettleBuyCovered, SettleSellCovered, CheckCovered,
       CommitCovered DEF PollStep, PollFault
<1>4. CASE UNCHANGED vars
  <2>1. UNCHANGED <<recorded, size, closers, poll, heldTwice>>
    BY <1>4 DEF vars, recordVars, overlaps
  <2> QED  BY <1>1, <2>1
<1> QED  BY <1>2, <1>3, <1>4 DEF Next

\* Nothing is opened at the start.
LEMMA InitCovered == Init => Covered
<1> SUFFICES ASSUME Init PROVE Covered
  OBVIOUS
<1>1. Opened = {}
  BY DEF Init, Opened
<1>2. IsFiniteSet(Opened)
  BY <1>1, FS_EmptySet
<1>3. \A p \in Polls : CoverInv(p)
  BY DEF Init, Resting, CoverInv
<1>4. ASSUME NEW s \in Signals PROVE SumFunctionOnSet(size, ClosedBy(s)) <= recorded[s]
  <2>1. ClosedBy(s) = {} /\ recorded[s] = 0
    BY DEF Init, ClosedBy
  <2>2. SumFunctionOnSet(size, {}) = 0
    BY SumOfNone
  <2> QED  BY <2>1, <2>2
<1>5. ExitCoversFill
  BY <1>4, TotalIsSum
<1> QED  BY <1>2, <1>3, <1>5 DEF Covered

\* A sell that one firing settled closes no more shares than the broker sold for it,
\* however little of the order was filled, whatever failed between the fill and the
\* close, and whatever other firings opened or closed meanwhile.
THEOREM ExitsCoverFills == Spec => []ExitCoversFill
<1>1. Spec => []Inductive
  BY InductiveHolds
<1>2. Init => Covered
  BY InitCovered
<1>3. Inductive /\ Covered /\ [Next]_vars => Covered'
  BY StepCovered
<1>4. Covered => ExitCoversFill
  BY DEF Covered
<1> QED
  BY <1>1, <1>2, <1>3, <1>4, PTL DEF Spec
=============================================================================
