------------------------------ MODULE LotLedger ------------------------------
(***************************************************************************)
(* The lot ledger (track_record) with its clock: append-only rows, the     *)
(* newest of which is a lot's state.  Fills open lots, the daily mark job   *)
(* appends a mark to each open one, exits close them oldest first, and the *)
(* pipeline proposes an exit for a position that was held too long.  All   *)
(* of them stamp their rows with an instant taken before their awaits.     *)
(***************************************************************************)
EXTENDS Naturals, FiniteSets, FiniteSetsExt

CONSTANTS
  Buys, Sells,      \* filled entries; exits that may be proposed
  Symbol,           \* [Buys \cup Sells -> symbols]
  Quantity,         \* [Buys -> shares ordered]
  Markers,          \* firings of the mark job that may be in flight at once
  TicksPerDay,
  Traded,           \* the days with a bar that traded
  MaxHoldingDays,
  MaxClock          \* bound on the clock

ASSUME ConstantsAssumption ==
  /\ Quantity \in [Buys -> Nat \ {0}]
  /\ TicksPerDay \in Nat \ {0}
  /\ Traded \subseteq Nat /\ IsFiniteSet(Traded)
  /\ MaxHoldingDays \in Nat
  /\ MaxClock \in Nat \ {0}

VARIABLES
  clock,
  rows,     \* [Buys -> the rows of its lot]
  latest,   \* [Buys -> the one with the newest recorded_at, by id among equals]
  fill,     \* [Buys -> the handler that settles it: place, filledAt, shares]
  exit,     \* [Sells -> the run that proposes it, then the handler that settles it]
  wanted,   \* [Sells -> the shares it is to sell]
  marker,   \* [Markers -> where each stands and its local variables]
  dueTwice  \* history: the lots two firings found unmarked, of one day, at once

vars == <<clock, rows, latest, fill, exit, wanted, marker, dueTwice>>

\* A quantity of 0 is NULL: the signal's own.
NoRow   == [kind |-> "none", at |-> 0, quantity |-> 0]
Unread  == [b \in Buys |-> 0]
NoFill  == [pc |-> "none", at |-> 0, quantity |-> 0]
NoExit  == [pc |-> "none", at |-> 0, lots |-> {}, read |-> Unread]
Resting == [pc |-> "idle", at |-> 0, todo |-> {}, due |-> {}, read |-> Unread]

Init ==
  /\ clock = 1
  /\ rows = [b \in Buys |-> {}]
  /\ latest = [b \in Buys |-> NoRow]
  /\ fill = [b \in Buys |-> NoFill]
  /\ exit = [s \in Sells |-> NoExit]
  /\ wanted = [s \in Sells |-> 0]
  /\ marker = [m \in Markers |-> Resting]
  /\ dueTwice = {}

Day(t) == t \div TicksPerDay

Tick ==
  /\ clock < MaxClock
  /\ clock' = clock + 1
  /\ UNCHANGED <<rows, latest, fill, exit, wanted, marker, dueTwice>>
-----------------------------------------------------------------------------
(* Reading and appending rows.                                               *)

OpenLots == {b \in Buys : latest[b].kind \in {"entry", "mark"}}

Lots(symbol) == {b \in OpenLots : Symbol[b] = symbol}

\* The lot's own size when a short fill set one, the signal's otherwise.
Size(b, row) == IF row.quantity = 0 THEN Quantity[b] ELSE row.quantity

Total(lots) == MapThenSumSet(LAMBDA b : Size(b, latest[b]), lots)

Oldest(lots) == {b \in lots : \A o \in lots : latest[b].at <= latest[o].at}

\* Bug: the row written last is the newest, whatever its instant.
Append_LastWins(lots, kind, at, quantity) ==
  LET Row(b) == [kind |-> kind, at |-> at, quantity |-> quantity[b]]
  IN  /\ rows' = [b \in Buys |-> IF b \in lots THEN rows[b] \cup {Row(b)} ELSE rows[b]]
      /\ latest' = [b \in Buys |-> IF b \in lots THEN Row(b) ELSE latest[b]]

\* One row for each of the lots.  Ids are random: of two rows of one instant
\* either may come first.
Append(lots, kind, at, quantity) ==
  LET Row(b) == [kind |-> kind, at |-> at, quantity |-> quantity[b]]
  IN  /\ rows' = [b \in Buys |-> IF b \in lots THEN rows[b] \cup {Row(b)} ELSE rows[b]]
      /\ \E ties \in SUBSET lots :
           latest' = [b \in Buys |->
             IF b \in lots /\ (at > latest[b].at \/ (at = latest[b].at /\ b \in ties))
             THEN Row(b) ELSE latest[b]]
-----------------------------------------------------------------------------
(* Entries.  filledAt is taken before the execution and the lot are written. *)

FillBuy(b) ==
  /\ fill[b].pc = "none"
  /\ \E n \in 1 .. Quantity[b] :
       fill' = [fill EXCEPT ![b] = [pc |-> "filled", at |-> clock, quantity |-> n]]
  /\ UNCHANGED <<clock, rows, latest, exit, wanted, marker, dueTwice>>

\* settleLots: the row has a quantity of its own when the fill is short.
OpenLot(b) ==
  /\ fill[b].pc = "filled"
  /\ fill' = [fill EXCEPT ![b].pc = "settled"]
  /\ Append({b}, "entry", fill[b].at,
       [Unread EXCEPT ![b] = IF fill[b].quantity = Quantity[b] THEN 0 ELSE fill[b].quantity])
  /\ UNCHANGED <<clock, exit, wanted, marker, dueTwice>>
-----------------------------------------------------------------------------
(* The mark job.                                                             *)

\* now, read before the settings and the lots.
FireMark(m) ==
  /\ marker[m].pc = "idle"
  /\ marker' = [marker EXCEPT ![m].pc = "fired", ![m].at = clock]
  /\ UNCHANGED <<clock, rows, latest, fill, exit, wanted, dueTwice>>

ListLots(m) ==
  /\ marker[m].pc = "fired"
  /\ marker' = [marker EXCEPT ![m].pc = "marking", ![m].todo = OpenLots,
                  ![m].read = [b \in Buys |-> IF b \in OpenLots THEN latest[b].quantity ELSE 0]]
  /\ UNCHANGED <<clock, rows, latest, fill, exit, wanted, dueTwice>>

\* Bug: the guard asks about the day of the check, not of the mark.
HasMarkForDay_Instant(b, at) == \E r \in rows[b] : r.kind = "mark" /\ r.at = at

HasMarkForDay(b, at) == \E r \in rows[b] : r.kind = "mark" /\ Day(r.at) = Day(at)

\* Another firing is about to mark the lot, for the same day.
DueElsewhere(m, b) ==
  \E n \in Markers \ {m} : b \in marker[n].due /\ Day(marker[n].at) = Day(marker[m].at)

\* A lot without a quote is left out, as is one marked already.
CheckMark(m) ==
  /\ marker[m].pc = "marking" /\ marker[m].due = {}
  /\ \E b \in marker[m].todo :
       \E due \in IF HasMarkForDay(b, marker[m].at) THEN {{}} ELSE {{}, {b}} :
         /\ marker' = [marker EXCEPT ![m].todo = @ \ {b}, ![m].due = due]
         /\ dueTwice' = dueTwice \cup {l \in due : DueElsewhere(m, l)}
  /\ UNCHANGED <<clock, rows, latest, fill, exit, wanted>>

\* Bug: a mark is written with the signal's quantity.
Carried_Ordered(m) == Unread

Carried(m) == marker[m].read

AppendMark(m) ==
  /\ marker[m].due # {}
  /\ Append(marker[m].due, "mark", marker[m].at, Carried(m))
  /\ marker' = [marker EXCEPT ![m].due = {}]
  /\ UNCHANGED <<clock, fill, exit, wanted, dueTwice>>

\* The firing ends, or dies anywhere; it may be run again the same day.
EndMark(m) ==
  /\ marker[m].pc # "idle"
  /\ marker' = [marker EXCEPT ![m] = Resting]
  /\ UNCHANGED <<clock, rows, latest, fill, exit, wanted, dueTwice>>
-----------------------------------------------------------------------------
(* The exit of a position: proposed by a pipeline run, settled by a handler. *)

\* The bars, then paperPositions.
ReadPositions(s) ==
  /\ exit[s].pc = "none"
  /\ exit' = [exit EXCEPT ![s] = [NoExit EXCEPT !.pc = "read", !.at = clock]]
  /\ wanted' = [wanted EXCEPT ![s] = Total(Lots(Symbol[s]))]
  /\ UNCHANGED <<clock, rows, latest, fill, marker, dueTwice>>

\* A day's bar carries its first instant.
BarsHeld(at, openedAt) ==
  Cardinality({d \in Traded : openedAt < d * TicksPerDay /\ d * TicksPerDay <= at})

\* Bug: every day counts as a bar, the opening day included.
TimeStop_Days(at, openedAt) ==
  MaxHoldingDays > 0 /\ Day(at) - Day(openedAt) + 1 >= MaxHoldingDays

TimeStop(at, openedAt) == MaxHoldingDays > 0 /\ BarsHeld(at, openedAt) >= MaxHoldingDays

\* listOpenLots: the age of a lot is that of its newest row.
Stopped(s) == \E b \in Oldest(Lots(Symbol[s])) : TimeStop(exit[s].at, latest[b].at)

\* A crossing proposes an exit whatever the age.
EvaluateExit(s, crossing) ==
  LET proposed == wanted[s] > 0 /\ (crossing \/ Stopped(s))
  IN  /\ exit[s].pc = "read"
      /\ exit' = [exit EXCEPT ![s] = IF proposed THEN [NoExit EXCEPT !.pc = "proposed"] ELSE NoExit]
      /\ wanted' = [wanted EXCEPT ![s] = IF proposed THEN @ ELSE 0]
      /\ UNCHANGED <<clock, rows, latest, fill, marker, dueTwice>>

\* The exit is approved, and recorded as filled in whole or (live) in part.
FillExit(s) ==
  /\ exit[s].pc = "proposed"
  /\ exit' = [exit EXCEPT ![s].pc = "filled", ![s].at = clock]
  /\ \E n \in 1 .. wanted[s] : wanted' = [wanted EXCEPT ![s] = n]
  /\ UNCHANGED <<clock, rows, latest, fill, marker, dueTwice>>

\* Whole lots, oldest row first (equal ones in the order of their random ids), up
\* to the quantity.
Selections(s) ==
  LET lots == Lots(Symbol[s])
  IN  {C \in SUBSET lots :
        /\ \A b \in C, o \in lots \ C : latest[b].at <= latest[o].at
        /\ Total(C) <= wanted[s]
        /\ C = lots \/ \E b \in Oldest(lots \ C) : Total(C \cup {b}) > wanted[s]}

Leave(s) ==
  /\ exit' = [exit EXCEPT ![s] = [NoExit EXCEPT !.pc = "done"]]
  /\ wanted' = [wanted EXCEPT ![s] = 0]

SelectLots(s) ==
  /\ exit[s].pc = "filled"
  /\ \E C \in Selections(s) :
       \/ C = {} /\ Leave(s)
       \/ /\ C # {}
          /\ exit' = [exit EXCEPT ![s].pc = "selected", ![s].lots = C]
          /\ wanted' = [wanted EXCEPT ![s] = 0]
  /\ UNCHANGED <<clock, rows, latest, fill, marker, dueTwice>>

\* closeLots: its reads, which refuse a lot that is not open, then its commit.
CheckLots(s) ==
  /\ exit[s].pc = "selected"
  /\ \/ /\ exit[s].lots \subseteq OpenLots
        /\ exit' = [exit EXCEPT ![s].pc = "checked",
             ![s].read = [b \in Buys |-> IF b \in exit[s].lots THEN latest[b].quantity ELSE 0]]
        /\ UNCHANGED wanted
     \/ ~ exit[s].lots \subseteq OpenLots /\ Leave(s)
  /\ UNCHANGED <<clock, rows, latest, fill, marker, dueTwice>>

CloseLots(s) ==
  /\ exit[s].pc = "checked"
  /\ Append(exit[s].lots, "closed", exit[s].at, exit[s].read)
  /\ Leave(s)
  /\ UNCHANGED <<clock, fill, marker, dueTwice>>
-----------------------------------------------------------------------------
BuyStep(b) == FillBuy(b) \/ OpenLot(b)

MarkStep(m) ==
  FireMark(m) \/ ListLots(m) \/ CheckMark(m) \/ AppendMark(m) \/ EndMark(m)

ExitStep(s) ==
  \/ ReadPositions(s) \/ EvaluateExit(s, TRUE) \/ EvaluateExit(s, FALSE)
  \/ FillExit(s) \/ SelectLots(s) \/ CheckLots(s) \/ CloseLots(s)

Next ==
  \/ Tick
  \/ \E b \in Buys : BuyStep(b)
  \/ \E m \in Markers : MarkStep(m)
  \/ \E s \in Sells : ExitStep(s)

Spec == Init /\ [][Next]_vars
-----------------------------------------------------------------------------
(* Properties.                                                               *)

Times == 0 .. MaxClock
Kinds == {"entry", "mark", "closed"}
Rows  == [kind : Kinds, at : Times, quantity : Nat]

Fills == [pc : {"none", "filled", "settled"}, at : Times, quantity : Nat]

Exits == [pc : {"none", "read", "proposed", "filled", "selected", "checked", "done"},
          at : Times, lots : SUBSET Buys, read : [Buys -> Nat]]

Firings == [pc : {"idle", "fired", "marking"}, at : Times, todo : SUBSET Buys,
            due : SUBSET Buys, read : [Buys -> Nat]]

Shape ==
  /\ clock \in 1 .. MaxClock
  /\ rows \in [Buys -> SUBSET Rows] /\ latest \in [Buys -> Rows \cup {NoRow}]
  /\ fill \in [Buys -> Fills]
  /\ exit \in [Sells -> Exits]
  /\ marker \in [Markers -> Firings]
  /\ dueTwice \subseteq Buys

\* A lot's newest row is one of its rows, with none after it (DISTINCT ON).
NewestRow ==
  \A b \in Buys :
    /\ IF rows[b] = {} THEN latest[b] = NoRow ELSE latest[b] \in rows[b]
    /\ \A r \in rows[b] : r.at <= latest[b].at

\* Every variable keeps its shape, and the newest row of a lot really is the newest
\* of its rows (the DISTINCT ON of listOpenLots), in whatever order they arrive.
TypeOK == Shape /\ NewestRow /\ wanted \in [Sells -> Nat]

\* "A restart, a manual run, or an overlapping firing must not append a second mark
\* for the same day" (trackRecord.ts): none of them does, nor a run across midnight,
\* unless two firings passed the check of a lot before either inserted.
MarkedOncePerDay ==
  \A b \in Buys \ dueTwice : \A q, r \in rows[b] :
    q.kind = "mark" /\ r.kind = "mark" /\ Day(q.at) = Day(r.at) => q = r

\* A lot keeps the size it was filled at on every row, marks and closes included,
\* however short the fill and however stale the reader.
RowsCarryTheFill ==
  \A b \in Buys : \A r \in rows[b] : Size(b, r) = fill[b].quantity

\* The time stop is never early: some lot of the position was bought at least
\* MaxHoldingDays traded bars ago, whatever marks moved its age meanwhile.
TimeStopIsNotEarly ==
  [][\A s \in Sells :
       EvaluateExit(s, FALSE) /\ exit'[s].pc = "proposed" =>
         \E b \in Lots(Symbol[s]) : BarsHeld(clock, fill[b].at) >= MaxHoldingDays]_vars
-----------------------------------------------------------------------------
(* The inductive invariant.                                                  *)

\* A row with this quantity says what was filled.
Carries(b, quantity) == (IF quantity = 0 THEN Quantity[b] ELSE quantity) = fill[b].quantity

\* What a firing or a close read of a lot before its await still holds after it.
Holds(lots, read) == \A b \in lots : rows[b] # {} /\ Carries(b, read[b])

LotInv(b) ==
  /\ rows[b] # {} <=> fill[b].pc = "settled"
  /\ fill[b].pc # "none" => fill[b].at \in 1 .. clock /\ fill[b].quantity > 0
  /\ fill[b].pc = "settled" => fill[b].at <= latest[b].at

MarkInv(m) ==
  /\ marker[m].pc # "marking" => marker[m].todo = {} /\ marker[m].due = {}
  /\ Holds(marker[m].todo \cup marker[m].due, marker[m].read)

ExitInv(s) ==
  /\ exit[s].at <= clock
  /\ exit[s].pc = "checked" => Holds(exit[s].lots, exit[s].read)

\* Whatever is read before an await and written after it still fits the lot: a row
\* never disagrees with the fill, and the newest is never older than the fill.
Inductive ==
  /\ Shape
  /\ NewestRow
  /\ RowsCarryTheFill
  /\ \A b \in Buys : LotInv(b)
  /\ \A m \in Markers : MarkInv(m)
  /\ \A s \in Sells : ExitInv(s)
-----------------------------------------------------------------------------
(* What the comments say and the code does not do.                          *)

\* "This one guarantees every position eventually resolves" (exits.ts): a run
\* that finds a position older than MaxHoldingDays proposes its exit.
OldPositionIsStopped ==
  [][\A s \in Sells :
       /\ exit[s].pc = "read" /\ exit'[s].pc = "none"
       /\ wanted[s] > 0
       => \A b \in Lots(Symbol[s]) : ~TimeStop(exit[s].at, fill[b].at)]_vars

\* "Must not resurrect the state it replaced" (trackRecord.ts): a closed lot is
\* never open again.
ClosedLotStaysClosed ==
  [][\A b \in Buys : latest[b].kind = "closed" => latest'[b].kind = "closed"]_vars
=============================================================================
