-------------------------- MODULE LotLedger_proofs --------------------------
(***************************************************************************)
(* Proofs about LotLedger, for any lots, quantities, bars and instants,    *)
(* and about TrackRecord, for any rows and results.                        *)
(* Inductive holds at the start and survives each action: most of them     *)
(* write no row and only move one firing or one exit, the others append.   *)
(***************************************************************************)
EXTENDS LotLedger, TrackRecord, Sums

\* Rows are records of their three fields; so is the row of a lot without one.
LEMMA RowShape ==
  /\ \A r \in Rows \cup {NoRow} : r.at \in Times /\ r.quantity \in Nat
  /\ \A k \in Kinds, t \in Times, n \in Nat : [kind |-> k, at |-> t, quantity |-> n] \in Rows
  /\ NoRow.at = 0
<1>1. MaxClock \in Nat
  BY ConstantsAssumption
<1> QED
  BY <1>1 DEF Rows, NoRow, Times

\* The rest states have the shape of their variables.
LEMMA RestShape == NoFill \in Fills /\ NoExit \in Exits /\ Resting \in Firings
<1>1. 0 \in Times /\ Unread \in [Buys -> Nat]
  BY ConstantsAssumption DEF Times, Unread
<1> QED
  BY <1>1 DEF NoFill, Fills, NoExit, Exits, Resting, Firings

\* The empty ledger satisfies the invariant.
LEMMA InitInductive == Init => Inductive
<1> SUFFICES ASSUME Init PROVE Inductive
  OBVIOUS
<1>1. Shape
  BY ConstantsAssumption, RestShape DEF Init, Shape
<1>2. NewestRow /\ RowsCarryTheFill
  BY DEF Init, NewestRow, RowsCarryTheFill
<1>3. \A b \in Buys : LotInv(b)
  BY DEF Init, LotInv, NoFill
<1>4. \A m \in Markers : MarkInv(m)
  BY DEF Init, MarkInv, Holds, Resting
<1>5. \A s \in Sells : ExitInv(s)
  BY DEF Init, ExitInv, NoExit
<1> QED
  BY <1>1, <1>2, <1>3, <1>4, <1>5 DEF Inductive
-----------------------------------------------------------------------------
(* What a step leaves alone.                                                 *)

\* A lot that has rows keeps having some, and the size it was filled at.
Kept == \A b \in Buys :
          rows[b] # {} => rows'[b] # {} /\ fill'[b].quantity = fill[b].quantity

\* What was read of some lots still fits them.
LEMMA HoldsKept ==
  ASSUME Kept, NEW lots \in SUBSET Buys, NEW read, Holds(lots, read)
  PROVE  \A b \in lots : rows'[b] # {} /\ Carries(b, read[b])'
BY DEF Kept, Holds, Carries

\* A firing that does not move keeps its invariant.
LEMMA FiringKept ==
  ASSUME Inductive, Kept, NEW m \in Markers, marker'[m] = marker[m]
  PROVE  MarkInv(m)'
<1>1. marker[m].todo \cup marker[m].due \in SUBSET Buys
  BY DEF Inductive, Shape, Firings
<1>2. Holds(marker[m].todo \cup marker[m].due, marker[m].read)
  BY DEF Inductive, MarkInv
<1>3. \A b \in marker[m].todo \cup marker[m].due : rows'[b] # {} /\ Carries(b, marker[m].read[b])'
  BY <1>1, <1>2, HoldsKept
<1> QED
  BY <1>3 DEF Inductive, MarkInv, Holds, Carries

\* Neither does an exit that does not move lose its own.
LEMMA ExitKept ==
  ASSUME Inductive, Kept, NEW s \in Sells, exit'[s] = exit[s],
         clock' \in Nat, clock <= clock'
  PROVE  ExitInv(s)'
<1>1. exit[s].lots \in SUBSET Buys /\ exit[s].at \in Nat /\ clock \in Nat
  BY ConstantsAssumption DEF Inductive, Shape, Exits, Times
<1>2. exit'[s].at <= clock'
  BY <1>1 DEF Inductive, ExitInv
<1>3. ASSUME exit[s].pc = "checked"
      PROVE  \A b \in exit[s].lots : rows'[b] # {} /\ Carries(b, exit[s].read[b])'
  <2>1. Holds(exit[s].lots, exit[s].read)
    BY <1>3 DEF Inductive, ExitInv
  <2> QED
    BY <1>1, <2>1, HoldsKept
<1> QED
  BY <1>2, <1>3 DEF ExitInv, Holds, Carries

\* A step that writes no row keeps the ledger.
LEMMA QuietLedger ==
  ASSUME Inductive, UNCHANGED <<rows, latest, fill>>,
         clock' \in 1 .. MaxClock, clock <= clock'
  PROVE  /\ NewestRow' /\ RowsCarryTheFill' /\ Kept
         /\ \A b \in Buys : LotInv(b)'
<1>1. NewestRow' /\ RowsCarryTheFill' /\ Kept
  BY DEF Inductive, NewestRow, RowsCarryTheFill, Size, Kept
<1>2. ASSUME NEW b \in Buys PROVE LotInv(b)'
  <2>1. fill[b].at \in Nat /\ clock \in Nat /\ clock' \in Nat
    BY ConstantsAssumption DEF Inductive, Shape, Fills, Times
  <2> QED
    BY <2>1 DEF Inductive, LotInv
<1> QED
  BY <1>1, <1>2

\* A quiet step that moves one firing to where it belongs keeps the invariant.
LEMMA QuietFiring ==
  ASSUME Inductive, UNCHANGED <<clock, rows, latest, fill, exit>>, dueTwice' \subseteq Buys,
         NEW m \in Markers, NEW f \in Firings,
         marker' = [marker EXCEPT ![m] = f], MarkInv(m)'
  PROVE  Inductive'
<1>1. /\ NewestRow' /\ RowsCarryTheFill' /\ Kept
      /\ \A b \in Buys : LotInv(b)'
  BY ConstantsAssumption, QuietLedger DEF Inductive, Shape
<1>2. Shape'
  BY DEF Inductive, Shape
<1>3. ASSUME NEW n \in Markers PROVE MarkInv(n)'
  <2>1. n # m => marker'[n] = marker[n]
    BY DEF Inductive, Shape
  <2> QED
    BY <1>1, <2>1, FiringKept
<1>4. ASSUME NEW s \in Sells PROVE ExitInv(s)'
  BY <1>1, ExitKept DEF Inductive, Shape
<1> QED
  BY <1>1, <1>2, <1>3, <1>4 DEF Inductive

\* So does one that moves one exit to where it belongs.
LEMMA QuietExit ==
  ASSUME Inductive, UNCHANGED <<clock, rows, latest, fill, marker, dueTwice>>,
         NEW s \in Sells, NEW e \in Exits,
         exit' = [exit EXCEPT ![s] = e], ExitInv(s)'
  PROVE  Inductive'
<1>1. /\ NewestRow' /\ RowsCarryTheFill' /\ Kept
      /\ \A b \in Buys : LotInv(b)'
  BY ConstantsAssumption, QuietLedger DEF Inductive, Shape
<1>2. Shape'
  BY DEF Inductive, Shape
<1>3. ASSUME NEW m \in Markers PROVE MarkInv(m)'
  BY <1>1, FiringKept
<1>4. ASSUME NEW r \in Sells PROVE ExitInv(r)'
  <2>1. r # s => exit'[r] = exit[r]
    BY DEF Inductive, Shape
  <2> QED
    BY <1>1, <2>1, ExitKept DEF Inductive, Shape
<1> QED
  BY <1>1, <1>2, <1>3, <1>4 DEF Inductive
-----------------------------------------------------------------------------
(* The steps that write no row.                                              *)

\* Time only passes.
LEMMA TickStep == Inductive /\ Tick => Inductive'
<1> SUFFICES ASSUME Inductive, Tick PROVE Inductive'
  OBVIOUS
<1>1. clock' \in 1 .. MaxClock /\ clock <= clock' /\ clock' \in Nat
  BY ConstantsAssumption DEF Inductive, Shape, Tick
<1>2. /\ NewestRow' /\ RowsCarryTheFill' /\ Kept
      /\ \A b \in Buys : LotInv(b)'
  BY <1>1, QuietLedger DEF Tick
<1>3. Shape'
  BY <1>1 DEF Inductive, Shape, Tick
<1>4. ASSUME NEW m \in Markers PROVE MarkInv(m)'
  BY <1>2, FiringKept DEF Tick
<1>5. ASSUME NEW s \in Sells PROVE ExitInv(s)'
  BY <1>1, <1>2, ExitKept DEF Tick
<1> QED
  BY <1>2, <1>3, <1>4, <1>5 DEF Inductive

\* The quantity of an open lot's newest row says what was filled.
LEMMA LatestCarries ==
  ASSUME Inductive, NEW b \in Buys, rows[b] # {}
  PROVE  Carries(b, latest[b].quantity)
<1>1. latest[b] \in rows[b]
  BY DEF Inductive, NewestRow
<1> QED
  BY <1>1 DEF Inductive, RowsCarryTheFill, Size, Carries

\* An open lot has rows, and its newest has a quantity.
LEMMA OpenHasRows ==
  ASSUME Inductive, NEW b \in OpenLots
  PROVE  b \in Buys /\ rows[b] # {} /\ latest[b].quantity \in Nat
<1>1. b \in Buys /\ latest[b].kind # "none"
  BY DEF OpenLots
<1>2. rows[b] # {}
  BY <1>1 DEF Inductive, NewestRow, NoRow
<1>3. latest[b] \in Rows \cup {NoRow}
  BY <1>1 DEF Inductive, Shape
<1> QED
  BY <1>1, <1>2, <1>3, RowShape

\* A firing begins with nothing to mark.
LEMMA FireMarkStep ==
  ASSUME Inductive, NEW m \in Markers, FireMark(m)
  PROVE  Inductive'
<1> DEFINE f == [marker[m] EXCEPT !.pc = "fired", !.at = clock]
<1>1. marker[m] \in Firings /\ clock \in Times
  BY ConstantsAssumption DEF Inductive, Shape, Times
<1>2. f \in Firings
  BY <1>1 DEF Firings
<1>3. marker' = [marker EXCEPT ![m] = f]
  BY DEF FireMark, Inductive, Shape
<1>4. marker'[m] = f
  BY <1>3 DEF Inductive, Shape
<1>5. marker[m].todo = {} /\ marker[m].due = {}
  BY DEF FireMark, Inductive, MarkInv
<1>6. f.todo = {} /\ f.due = {} /\ f.pc = "fired"
  BY <1>1, <1>5 DEF Firings
<1>7. MarkInv(m)'
  BY <1>4, <1>6 DEF MarkInv, Holds
<1> QED
  BY <1>2, <1>3, <1>7, QuietFiring DEF FireMark, Inductive, Shape

\* The list it reads holds of every lot on it.
LEMMA ListLotsStep ==
  ASSUME Inductive, NEW m \in Markers, ListLots(m)
  PROVE  Inductive'
<1> DEFINE read == [b \in Buys |-> IF b \in OpenLots THEN latest[b].quantity ELSE 0]
           f == [marker[m] EXCEPT !.pc = "marking", !.todo = OpenLots, !.read = read]
<1>1. marker[m] \in Firings
  BY DEF Inductive, Shape
<1>2. read \in [Buys -> Nat]
  BY OpenHasRows
<1>3. OpenLots \in SUBSET Buys
  BY DEF OpenLots
<1>4. f \in Firings
  BY <1>1, <1>2, <1>3 DEF Firings
<1>5. marker' = [marker EXCEPT ![m] = f]
  BY DEF ListLots, Inductive, Shape
<1>6. marker'[m] = f
  BY <1>5 DEF Inductive, Shape
<1>7. f.todo = OpenLots /\ f.due = {} /\ f.pc = "marking" /\ f.read = read
  BY <1>1 DEF Firings, ListLots, Inductive, MarkInv
<1>8. \A b \in OpenLots : rows[b] # {} /\ Carries(b, read[b])
  BY <1>3, OpenHasRows, LatestCarries
<1> HIDE DEF read, f
<1>9. \A b \in OpenLots :
        rows'[b] # {} /\ (IF read[b] = 0 THEN Quantity[b] ELSE read[b]) = fill'[b].quantity
  BY <1>8 DEF ListLots, Carries
<1>10. MarkInv(m)'
  BY <1>6, <1>7, <1>9 DEF MarkInv, Holds, Carries
<1> QED
  BY <1>4, <1>5, <1>10, QuietFiring DEF ListLots, Inductive, Shape

\* A lot is taken off the list, to be marked or not.
LEMMA CheckMarkStep ==
  ASSUME Inductive, NEW m \in Markers, CheckMark(m)
  PROVE  Inductive'
<1>1. PICK b \in marker[m].todo :
        \E due \in {{}, {b}} :
          /\ marker' = [marker EXCEPT ![m].todo = @ \ {b}, ![m].due = due]
          /\ dueTwice' = dueTwice \cup {l \in due : DueElsewhere(m, l)}
  BY DEF CheckMark
<1>2. PICK due \in {{}, {b}} :
        /\ marker' = [marker EXCEPT ![m].todo = @ \ {b}, ![m].due = due]
        /\ dueTwice' = dueTwice \cup {l \in due : DueElsewhere(m, l)}
  BY <1>1
<1> DEFINE f == [marker[m] EXCEPT !.todo = @ \ {b}, !.due = due]
<1>3. marker[m] \in Firings /\ b \in Buys
  BY DEF Inductive, Shape, Firings
<1>4. f \in Firings
  BY <1>3 DEF Firings
<1>5. marker' = [marker EXCEPT ![m] = f]
  BY <1>2 DEF Inductive, Shape
<1>6. marker'[m] = f
  BY <1>5 DEF Inductive, Shape
<1>7. f.pc = "marking" /\ f.todo \cup f.due \subseteq marker[m].todo /\ f.read = marker[m].read
  BY <1>3 DEF Firings, CheckMark
<1>8. Holds(marker[m].todo \cup marker[m].due, marker[m].read)
  BY DEF Inductive, MarkInv
<1> HIDE DEF f
<1>9. MarkInv(m)'
  BY <1>6, <1>7, <1>8 DEF CheckMark, MarkInv, Holds, Carries
<1>10. dueTwice' \subseteq Buys
  BY <1>2, <1>3 DEF Inductive, Shape
<1> QED
  BY <1>4, <1>5, <1>9, <1>10, QuietFiring DEF CheckMark

\* A firing that ends has nothing left to mark.
LEMMA EndMarkStep ==
  ASSUME Inductive, NEW m \in Markers, EndMark(m)
  PROVE  Inductive'
<1>1. marker'[m] = Resting
  BY DEF EndMark, Inductive, Shape
<1>2. MarkInv(m)'
  BY <1>1 DEF MarkInv, Holds, Resting
<1> QED
  BY <1>2, RestShape, QuietFiring DEF EndMark, Inductive, Shape

\* An exit that is being read, proposed, filled or selected relies on no lot yet.
LEMMA EarlyExit ==
  ASSUME Inductive, NEW s \in Sells, NEW e \in Exits,
         exit' = [exit EXCEPT ![s] = e], e.pc # "checked", e.at <= clock, UNCHANGED clock
  PROVE  ExitInv(s)'
<1>1. exit'[s] = e
  BY DEF Inductive, Shape
<1> QED
  BY <1>1 DEF ExitInv

\* A sell that leaves holds nothing.
LEMMA LeaveMoves ==
  ASSUME NEW s \in Sells, Leave(s)
  PROVE  \E e \in Exits : /\ exit' = [exit EXCEPT ![s] = e]
                          /\ e.pc = "done" /\ e.at = 0
<1> DEFINE e == [NoExit EXCEPT !.pc = "done"]
<1>1. e \in Exits /\ e.pc = "done" /\ e.at = 0
  BY RestShape DEF Exits, NoExit
<1> QED
  BY <1>1 DEF Leave

\* Up to its selection an exit only moves.
LEMMA EarlyExitStep ==
  ASSUME Inductive, NEW s \in Sells,
         \/ ReadPositions(s) \/ EvaluateExit(s, TRUE) \/ EvaluateExit(s, FALSE)
         \/ FillExit(s) \/ SelectLots(s)
  PROVE  Inductive'
<1>1. /\ exit[s] \in Exits /\ clock \in Times /\ clock \in Nat /\ exit[s].at <= clock
      /\ NoExit \in Exits /\ NoExit.at = 0 /\ NoExit.pc = "none"
  BY ConstantsAssumption, RestShape DEF Inductive, Shape, Times, ExitInv, NoExit
<1>2. SUFFICES \E e \in Exits :
        exit' = [exit EXCEPT ![s] = e] /\ e.pc # "checked" /\ e.at <= clock
  BY EarlyExit, QuietExit
     DEF ReadPositions, EvaluateExit, FillExit, SelectLots
<1>3. CASE ReadPositions(s)
  <2> DEFINE e == [NoExit EXCEPT !.pc = "read", !.at = clock]
  <2>1. e \in Exits /\ e.pc # "checked" /\ e.at = clock
    BY <1>1 DEF Exits
  <2>2. exit' = [exit EXCEPT ![s] = e]
    BY <1>3 DEF ReadPositions
  <2> HIDE DEF e
  <2>3. e.at <= clock
    BY <1>1, <2>1
  <2> QED
    BY <2>1, <2>2, <2>3
<1>4. CASE EvaluateExit(s, TRUE) \/ EvaluateExit(s, FALSE)
  <2> DEFINE e == [NoExit EXCEPT !.pc = "proposed"]
  <2>1. e \in Exits /\ e.pc = "proposed" /\ e.at = 0
    BY <1>1 DEF Exits
  <2>2. exit' = [exit EXCEPT ![s] = e] \/ exit' = [exit EXCEPT ![s] = NoExit]
    BY <1>4 DEF EvaluateExit, Inductive, Shape
  <2> HIDE DEF e
  <2> QED
    BY <1>1, <2>1, <2>2
<1>5. CASE FillExit(s)
  <2> DEFINE e == [exit[s] EXCEPT !.pc = "filled", !.at = clock]
  <2>1. e \in Exits /\ e.pc # "checked" /\ e.at = clock
    BY <1>1 DEF Exits
  <2>2. exit' = [exit EXCEPT ![s] = e]
    BY <1>5 DEF FillExit, Inductive, Shape
  <2> HIDE DEF e
  <2>3. e.at <= clock
    BY <1>1, <2>1
  <2> QED
    BY <2>1, <2>2, <2>3
<1>6. CASE SelectLots(s)
  <2>1. PICK C \in SUBSET Buys :
          \/ Leave(s)
          \/ exit' = [exit EXCEPT ![s].pc = "selected", ![s].lots = C]
    BY <1>6 DEF SelectLots, Selections, Lots, OpenLots
  <2>2. CASE Leave(s)
    BY <1>1, <2>2, LeaveMoves
  <2>3. CASE exit' = [exit EXCEPT ![s].pc = "selected", ![s].lots = C]
    <3> DEFINE e == [exit[s] EXCEPT !.pc = "selected", !.lots = C]
    <3>1. e \in Exits /\ e.pc = "selected" /\ e.at = exit[s].at
      BY <1>1 DEF Exits
    <3>2. exit' = [exit EXCEPT ![s] = e]
      BY <2>3 DEF Inductive, Shape
    <3> HIDE DEF e
    <3> QED
      BY <1>1, <3>1, <3>2
  <2> QED
    BY <2>1, <2>2, <2>3
<1> QED
  BY <1>3, <1>4, <1>5, <1>6

\* What closeLots reads of the open lots holds of each of them.
LEMMA CheckLotsStep ==
  ASSUME Inductive, NEW s \in Sells, CheckLots(s)
  PROVE  Inductive'
<1>1. CASE Leave(s)
  <2>1. PICK e \in Exits : /\ exit' = [exit EXCEPT ![s] = e]
                           /\ e.pc = "done" /\ e.at = 0
    BY <1>1, LeaveMoves
  <2>2. clock \in Nat
    BY DEF Inductive, Shape
  <2>3. e.pc # "checked" /\ e.at <= clock /\ UNCHANGED clock
    BY <2>1, <2>2 DEF CheckLots
  <2>4. ExitInv(s)'
    BY <2>1, <2>3, EarlyExit
  <2> QED
    BY <2>1, <2>4, QuietExit DEF CheckLots
<1>2. CASE ~ Leave(s)
  <2> DEFINE read == [b \in Buys |-> IF b \in exit[s].lots THEN latest[b].quantity ELSE 0]
             e == [exit[s] EXCEPT !.pc = "checked", !.read = read]
  <2>1. /\ exit[s].lots \subseteq OpenLots
        /\ exit' = [exit EXCEPT ![s].pc = "checked", ![s].read = read]
    BY <1>2 DEF CheckLots
  <2>2. exit[s] \in Exits
    BY DEF Inductive, Shape
  <2>3. read \in [Buys -> Nat]
    BY <2>1, OpenHasRows
  <2>4. e \in Exits
    BY <2>2, <2>3 DEF Exits
  <2>5. exit' = [exit EXCEPT ![s] = e]
    BY <2>1 DEF Inductive, Shape
  <2>6. exit'[s] = e
    BY <2>5 DEF Inductive, Shape
  <2>7. e.pc = "checked" /\ e.lots = exit[s].lots /\ e.at = exit[s].at /\ e.read = read
    BY <2>2 DEF Exits
  <2>8. \A b \in exit[s].lots : rows[b] # {} /\ Carries(b, read[b])
    BY <2>1, OpenHasRows, LatestCarries
  <2> HIDE DEF read, e
  <2>9. \A b \in exit[s].lots :
          rows'[b] # {} /\ (IF read[b] = 0 THEN Quantity[b] ELSE read[b]) = fill'[b].quantity
    BY <2>8 DEF CheckLots, Carries
  <2>10. ExitInv(s)'
    BY <2>6, <2>7, <2>9 DEF Inductive, CheckLots, ExitInv, Holds, Carries
  <2> QED
    BY <2>4, <2>5, <2>10, QuietExit DEF CheckLots
<1> QED
  BY <1>1, <1>2
-----------------------------------------------------------------------------
(* The steps that write.                                                     *)

\* A fill settles how much a lot without rows will hold.
LEMMA FillBuyStep ==
  ASSUME Inductive, NEW b \in Buys, FillBuy(b)
  PROVE  Inductive'
<1>1. PICK n \in 1 .. Quantity[b] :
        fill' = [fill EXCEPT ![b] = [pc |-> "filled", at |-> clock, quantity |-> n]]
  BY DEF FillBuy
<1>2. clock \in 1 .. MaxClock /\ MaxClock \in Nat /\ n \in Nat /\ n > 0
  BY ConstantsAssumption DEF Inductive, Shape
<1>3. [pc |-> "filled", at |-> clock, quantity |-> n] \in Fills
  BY <1>2 DEF Fills, Times
<1>4. fill'[b].pc = "filled" /\ fill'[b].at = clock /\ fill'[b].quantity = n
  BY <1>1 DEF Inductive, Shape
<1>5. \A o \in Buys \ {b} : fill'[o] = fill[o]
  BY <1>1 DEF Inductive, Shape
<1>6. rows[b] = {}
  BY DEF FillBuy, Inductive, LotInv
<1>7. Kept
  BY <1>5, <1>6 DEF FillBuy, Kept
<1>8. Shape'
  BY <1>1, <1>3 DEF Inductive, Shape, FillBuy
<1>9. NewestRow'
  BY DEF Inductive, NewestRow, FillBuy
<1>10. RowsCarryTheFill'
  BY <1>5, <1>6 DEF Inductive, RowsCarryTheFill, Size, FillBuy
<1>11. ASSUME NEW o \in Buys PROVE LotInv(o)'
  BY <1>2, <1>4, <1>5, <1>6 DEF Inductive, LotInv, FillBuy
<1>12. \A m \in Markers : MarkInv(m)'
  BY <1>7, FiringKept DEF FillBuy
<1>13. \A s \in Sells : ExitInv(s)'
  BY <1>2, <1>7, ExitKept DEF FillBuy
<1> QED
  BY <1>8, <1>9, <1>10, <1>11, <1>12, <1>13 DEF Inductive

\* An appended row is one more row, and the newest if no row is after it.
LEMMA AppendRows ==
  ASSUME Inductive, NEW lots \in SUBSET Buys, NEW kind \in Kinds, NEW at \in Times,
         NEW quantity \in [Buys -> Nat], Append(lots, kind, at, quantity),
         \A b \in lots : at > 0 \/ rows[b] # {}
  PROVE  /\ rows' \in [Buys -> SUBSET Rows] /\ latest' \in [Buys -> Rows \cup {NoRow}]
         /\ NewestRow'
         /\ \A b \in Buys \ lots : rows'[b] = rows[b] /\ latest'[b] = latest[b]
         /\ \A b \in lots :
              /\ rows'[b] = rows[b] \cup {[kind |-> kind, at |-> at, quantity |-> quantity[b]]}
              /\ at <= latest'[b].at /\ latest[b].at <= latest'[b].at
<1> DEFINE Row(b) == [kind |-> kind, at |-> at, quantity |-> quantity[b]]
<1>1. \A b \in Buys : Row(b) \in Rows /\ Row(b).at = at
  BY RowShape
<1>2. /\ rows \in [Buys -> SUBSET Rows] /\ latest \in [Buys -> Rows \cup {NoRow}]
      /\ NewestRow
  BY DEF Inductive, Shape
<1>3. \A b \in Buys : latest[b].at \in Nat /\ \A r \in rows[b] : r.at \in Nat
  BY <1>2, RowShape, ConstantsAssumption DEF Times
<1>4. at \in Nat
  BY ConstantsAssumption DEF Times
<1>5. rows' = [b \in Buys |-> IF b \in lots THEN rows[b] \cup {Row(b)} ELSE rows[b]]
  BY DEF Append
<1>6. PICK ties \in SUBSET lots :
        latest' = [b \in Buys |->
          IF b \in lots /\ (at > latest[b].at \/ (at = latest[b].at /\ b \in ties))
          THEN Row(b) ELSE latest[b]]
  BY DEF Append
<1> HIDE DEF Row
<1>7. rows' \in [Buys -> SUBSET Rows] /\ latest' \in [Buys -> Rows \cup {NoRow}]
  BY <1>1, <1>2, <1>5, <1>6
<1>8. \A b \in Buys \ lots : rows'[b] = rows[b] /\ latest'[b] = latest[b]
  BY <1>5, <1>6
<1>9. ASSUME NEW b \in lots
      PROVE  /\ rows'[b] = rows[b] \cup {Row(b)}
             /\ at <= latest'[b].at /\ latest[b].at <= latest'[b].at
             /\ latest'[b] \in rows'[b]
             /\ \A r \in rows'[b] : r.at <= latest'[b].at
  <2>1. rows'[b] = rows[b] \cup {Row(b)}
    BY <1>5
  <2>2. /\ latest'[b] = Row(b) \/ latest'[b] = latest[b]
        /\ latest'[b] = Row(b) => latest[b].at <= at
        /\ latest'[b] # Row(b) => at <= latest[b].at
    BY <1>1, <1>3, <1>4, <1>6
  <2>3. at <= latest'[b].at /\ latest[b].at <= latest'[b].at
    BY <1>1, <1>3, <1>4, <2>2
  <2>4. latest'[b] \in rows'[b]
    <3>1. CASE rows[b] = {}
      <4>1. latest[b].at = 0 /\ at > 0
        BY <1>2, <3>1, RowShape DEF NewestRow
      <4> QED
        BY <1>6, <2>1, <4>1
    <3>2. CASE rows[b] # {}
      <4>1. latest[b] \in rows[b]
        BY <1>2, <3>2 DEF NewestRow
      <4> QED
        BY <2>1, <2>2, <4>1
    <3> QED
      BY <3>1, <3>2
  <2>5. ASSUME NEW r \in rows'[b] PROVE r.at <= latest'[b].at
    <3>1. CASE r = Row(b)
      BY <1>1, <2>3, <3>1
    <3>2. CASE r \in rows[b]
      <4>1. r.at <= latest[b].at
        BY <1>2, <3>2 DEF NewestRow
      <4>2. latest'[b].at \in Nat
        BY <1>1, <1>3, <1>4, <2>2
      <4> QED
        BY <1>3, <2>3, <3>2, <4>1, <4>2
    <3> QED
      BY <2>1, <3>1, <3>2
  <2> QED
    BY <2>1, <2>3, <2>4, <2>5
<1>10. NewestRow'
  BY <1>2, <1>8, <1>9 DEF NewestRow
<1> QED
  BY <1>7, <1>8, <1>9, <1>10 DEF Row

\* A row that fits the lot of a settled fill keeps the ledger.
LEMMA AppendLedger ==
  ASSUME Inductive, NEW lots \in SUBSET Buys, NEW kind \in Kinds, NEW at \in Times,
         NEW quantity \in [Buys -> Nat], Append(lots, kind, at, quantity),
         Holds(lots, quantity), UNCHANGED <<clock, fill>>
  PROVE  /\ rows' \in [Buys -> SUBSET Rows] /\ latest' \in [Buys -> Rows \cup {NoRow}]
         /\ NewestRow' /\ RowsCarryTheFill' /\ Kept
         /\ \A b \in Buys : LotInv(b)'
<1>1. \A b \in lots : at > 0 \/ rows[b] # {}
  BY DEF Holds
<1>2. /\ rows' \in [Buys -> SUBSET Rows] /\ latest' \in [Buys -> Rows \cup {NoRow}]
      /\ NewestRow'
      /\ \A b \in Buys \ lots : rows'[b] = rows[b] /\ latest'[b] = latest[b]
      /\ \A b \in lots :
           /\ rows'[b] = rows[b] \cup {[kind |-> kind, at |-> at, quantity |-> quantity[b]]}
           /\ at <= latest'[b].at /\ latest[b].at <= latest'[b].at
  BY <1>1, AppendRows
<1>3. Kept
  BY <1>2 DEF Kept
<1>4. ASSUME NEW b \in Buys, NEW r \in rows'[b] PROVE Size(b, r) = fill'[b].quantity
  <2>1. CASE r \in rows[b]
    BY <2>1 DEF Inductive, RowsCarryTheFill
  <2>2. CASE r \notin rows[b]
    BY <1>2, <2>2 DEF Holds, Carries, Size
  <2> QED
    BY <2>1, <2>2
<1>5. ASSUME NEW b \in Buys PROVE LotInv(b)'
  <2>1. rows'[b] # {} <=> rows[b] # {}
    BY <1>2 DEF Holds
  <2>2. /\ latest[b].at <= latest'[b].at
        /\ latest[b].at \in Nat /\ latest'[b].at \in Nat /\ fill[b].at \in Nat
    BY <1>2, RowShape, ConstantsAssumption DEF Inductive, Shape, Times, Fills
  <2> QED
    BY <2>1, <2>2 DEF Inductive, LotInv
<1> QED
  BY <1>2, <1>3, <1>4, <1>5 DEF RowsCarryTheFill, Size

\* The first row of a lot has the instant and the size of its fill.
LEMMA OpenLotStep ==
  ASSUME Inductive, NEW b \in Buys, OpenLot(b)
  PROVE  Inductive'
<1> DEFINE n == IF fill[b].quantity = Quantity[b] THEN 0 ELSE fill[b].quantity
           quantity == [Unread EXCEPT ![b] = n]
           row == [kind |-> "entry", at |-> fill[b].at, quantity |-> n]
<1>1. /\ fill[b].pc = "filled" /\ fill[b] \in Fills
      /\ fill[b].at \in 1 .. clock /\ fill[b].quantity > 0 /\ clock \in Nat
      /\ rows[b] = {}
  BY DEF OpenLot, Inductive, Shape, LotInv
<1>2. fill[b].at \in Times /\ fill[b].at \in Nat /\ fill[b].at > 0 /\ fill[b].quantity \in Nat
  BY <1>1 DEF Fills
<1>3. quantity \in [Buys -> Nat] /\ quantity[b] = n
  BY <1>2 DEF Unread
<1>4. Append({b}, "entry", fill[b].at, quantity)
  BY DEF OpenLot
<1>5. (IF n = 0 THEN Quantity[b] ELSE n) = fill[b].quantity
  BY <1>1
<1> HIDE DEF n, quantity
<1>6. "entry" \in Kinds /\ {b} \in SUBSET Buys
  BY DEF Kinds
<1>7. \A o \in {b} : fill[b].at > 0 \/ rows[o] # {}
  BY <1>2
<1>8. /\ rows' \in [Buys -> SUBSET Rows] /\ latest' \in [Buys -> Rows \cup {NoRow}]
      /\ NewestRow'
      /\ \A o \in Buys \ {b} : rows'[o] = rows[o] /\ latest'[o] = latest[o]
      /\ rows'[b] = rows[b] \cup {[kind |-> "entry", at |-> fill[b].at, quantity |-> quantity[b]]}
      /\ fill[b].at <= latest'[b].at
  BY <1>2, <1>3, <1>4, <1>6, <1>7, AppendRows
<1>9. fill' = [fill EXCEPT ![b] = [fill[b] EXCEPT !.pc = "settled"]]
  BY DEF OpenLot, Inductive, Shape
<1>10. [fill[b] EXCEPT !.pc = "settled"] \in Fills
  BY <1>1 DEF Fills
<1>11. /\ fill'[b].pc = "settled" /\ fill'[b].at = fill[b].at
       /\ fill'[b].quantity = fill[b].quantity
       /\ \A o \in Buys \ {b} : fill'[o] = fill[o]
  BY <1>1, <1>9 DEF Inductive, Shape, Fills
<1>12. Kept
  BY <1>1, <1>8, <1>11 DEF Kept
<1>13. Shape'
  BY <1>8, <1>9, <1>10 DEF Inductive, Shape, OpenLot
<1>14. ASSUME NEW o \in Buys, NEW r \in rows'[o] PROVE Size(o, r) = fill'[o].quantity
  <2>1. CASE o = b
    BY <1>1, <1>3, <1>5, <1>8, <1>11, <2>1 DEF Size
  <2>2. CASE o # b
    BY <1>8, <1>11, <2>2 DEF Inductive, RowsCarryTheFill
  <2> QED
    BY <2>1, <2>2
<1>15. ASSUME NEW o \in Buys PROVE LotInv(o)'
  <2>1. CASE o = b
    BY <1>1, <1>2, <1>8, <1>11, <2>1 DEF LotInv, OpenLot
  <2>2. CASE o # b
    BY <1>8, <1>11, <2>2 DEF Inductive, LotInv, OpenLot
  <2> QED
    BY <2>1, <2>2
<1>16. \A m \in Markers : MarkInv(m)'
  BY <1>12, FiringKept DEF OpenLot
<1>17. \A s \in Sells : ExitInv(s)'
  BY <1>1, <1>12, ExitKept DEF OpenLot
<1> QED
  BY <1>8, <1>13, <1>14, <1>15, <1>16, <1>17 DEF Inductive, RowsCarryTheFill, Size

\* A mark fits the lot it was read from.
LEMMA AppendMarkStep ==
  ASSUME Inductive, NEW m \in Markers, AppendMark(m)
  PROVE  Inductive'
<1> DEFINE f == [marker[m] EXCEPT !.due = {}]
<1>1. /\ marker[m] \in Firings /\ marker[m].due \in SUBSET Buys
      /\ marker[m].at \in Times /\ marker[m].read \in [Buys -> Nat]
      /\ clock \in Nat
  BY DEF Inductive, Shape, Firings
<1>2. Holds(marker[m].todo \cup marker[m].due, marker[m].read)
  BY DEF Inductive, MarkInv
<1>3. Holds(marker[m].due, marker[m].read)
  BY <1>2 DEF Holds
<1>4. Append(marker[m].due, "mark", marker[m].at, marker[m].read)
  BY DEF AppendMark, Carried
<1>5. "mark" \in Kinds
  BY DEF Kinds
<1>6. /\ rows' \in [Buys -> SUBSET Rows] /\ latest' \in [Buys -> Rows \cup {NoRow}]
      /\ NewestRow' /\ RowsCarryTheFill' /\ Kept
      /\ \A b \in Buys : LotInv(b)'
  BY <1>1, <1>3, <1>4, <1>5, AppendLedger DEF AppendMark
<1>7. f \in Firings
  BY <1>1 DEF Firings
<1>8. marker' = [marker EXCEPT ![m] = f]
  BY DEF AppendMark, Inductive, Shape
<1>9. marker'[m] = f /\ \A n \in Markers \ {m} : marker'[n] = marker[n]
  BY <1>8 DEF Inductive, Shape
<1>10. f.due = {} /\ f.todo = marker[m].todo /\ f.pc = marker[m].pc /\ f.read = marker[m].read
  BY <1>1 DEF Firings
<1> HIDE DEF f
<1>11. Shape'
  BY <1>6, <1>7, <1>8 DEF Inductive, Shape, AppendMark
<1>12. MarkInv(m)'
  <2>1. marker[m].todo \cup marker[m].due \in SUBSET Buys
    BY <1>1 DEF Firings
  <2>2. \A b \in marker[m].todo : rows'[b] # {}
          /\ (IF marker[m].read[b] = 0 THEN Quantity[b] ELSE marker[m].read[b]) = fill'[b].quantity
    BY <1>2, <1>6, <2>1 DEF Holds, Kept, Carries
  <2>3. marker[m].pc # "marking" => marker[m].todo = {}
    BY DEF Inductive, MarkInv
  <2> QED
    BY <1>9, <1>10, <2>2, <2>3 DEF MarkInv, Holds, Carries
<1>13. \A n \in Markers : MarkInv(n)'
  BY <1>6, <1>9, <1>12, FiringKept
<1>14. \A s \in Sells : ExitInv(s)'
  BY <1>1, <1>6, ExitKept DEF AppendMark
<1> QED
  BY <1>6, <1>11, <1>13, <1>14 DEF Inductive

\* So does a close.
LEMMA CloseLotsStep ==
  ASSUME Inductive, NEW s \in Sells, CloseLots(s)
  PROVE  Inductive'
<1>1. /\ exit[s].lots \in SUBSET Buys /\ exit[s].at \in Times /\ exit[s].read \in [Buys -> Nat]
      /\ clock \in Nat
  BY DEF Inductive, Shape, Exits
<1>2. Holds(exit[s].lots, exit[s].read)
  BY DEF CloseLots, Inductive, ExitInv
<1>3. "closed" \in Kinds
  BY DEF Kinds
<1>4. /\ rows' \in [Buys -> SUBSET Rows] /\ latest' \in [Buys -> Rows \cup {NoRow}]
      /\ NewestRow' /\ RowsCarryTheFill' /\ Kept
      /\ \A b \in Buys : LotInv(b)'
  BY <1>1, <1>2, <1>3, AppendLedger DEF CloseLots
<1>5. PICK e \in Exits : /\ exit' = [exit EXCEPT ![s] = e]
                         /\ e.pc = "done" /\ e.at = 0
  BY LeaveMoves DEF CloseLots
<1>6. Shape'
  BY <1>4, <1>5 DEF Inductive, Shape, CloseLots
<1>7. ExitInv(s)'
  <2>1. e.pc # "checked" /\ e.at <= clock /\ UNCHANGED clock
    BY <1>1, <1>5 DEF CloseLots
  <2> QED
    BY <1>5, <2>1, EarlyExit
<1>8. \A r \in Sells \ {s} : exit'[r] = exit[r]
  BY <1>5 DEF Inductive, Shape
<1>9. \A r \in Sells : ExitInv(r)'
  BY <1>1, <1>4, <1>7, <1>8, ExitKept DEF CloseLots
<1>10. \A m \in Markers : MarkInv(m)'
  BY <1>4, FiringKept DEF CloseLots
<1> QED
  BY <1>4, <1>6, <1>9, <1>10 DEF Inductive

\* A step that changes nothing.
LEMMA StutterStep == Inductive /\ UNCHANGED vars => Inductive'
<1> SUFFICES ASSUME Inductive, UNCHANGED vars PROVE Inductive'
  OBVIOUS
<1>1. clock' \in 1 .. MaxClock /\ clock <= clock' /\ clock' \in Nat
  BY ConstantsAssumption DEF Inductive, Shape, vars
<1>2. /\ NewestRow' /\ RowsCarryTheFill' /\ Kept
      /\ \A b \in Buys : LotInv(b)'
  BY <1>1, QuietLedger DEF vars
<1>3. Shape'
  BY DEF Inductive, Shape, vars
<1>4. \A m \in Markers : MarkInv(m)'
  BY <1>2, FiringKept DEF vars
<1>5. \A s \in Sells : ExitInv(s)'
  BY <1>1, <1>2, ExitKept DEF vars
<1> QED
  BY <1>2, <1>3, <1>4, <1>5 DEF Inductive

\* Every step keeps the invariant.
LEMMA NextInductive == Inductive /\ [Next]_vars => Inductive'
BY TickStep, FillBuyStep, OpenLotStep, FireMarkStep, ListLotsStep, CheckMarkStep,
   AppendMarkStep, EndMarkStep, EarlyExitStep, CheckLotsStep, CloseLotsStep, StutterStep
   DEF Next, BuyStep, MarkStep, ExitStep

\* What is read before an await and written after it still fits its lot, whatever
\* fills, marks and closes come in between and however many firings overlap.
THEOREM InductiveHolds == Spec => []Inductive
BY InitInductive, NextInductive, PTL DEF Spec

\* A lot keeps the size it was filled at on every row of its history.
THEOREM SizesAreCarried == Spec => []RowsCarryTheFill
<1>1. Inductive => RowsCarryTheFill
  BY DEF Inductive
<1> QED
  BY <1>1, InductiveHolds, PTL
-----------------------------------------------------------------------------
(* One mark per day.                                                         *)

\* A lot that is due has no mark of the firing's day, and no other firing is about
\* to mark it for that day, unless both found it unmarked at once.
DueIsUnmarked(m) ==
  \A b \in marker[m].due \ dueTwice : ~ HasMarkForDay(b, marker[m].at)

DueApart(m, n) ==
  Day(marker[m].at) = Day(marker[n].at) => marker[m].due \cap marker[n].due \subseteq dueTwice

DayInv ==
  /\ MarkedOncePerDay
  /\ \A m \in Markers : DueIsUnmarked(m)
  /\ \A m, n \in Markers : m # n => DueApart(m, n)

\* A step that writes no mark and moves no firing.
LEMMA UnmarkedStep ==
  ASSUME DayInv, UNCHANGED <<marker, dueTwice>>, Shape,
         \A b \in Buys : \A r \in rows'[b] : r.kind = "mark" => r \in rows[b]
  PROVE  DayInv'
<1>1. MarkedOncePerDay'
  BY DEF DayInv, MarkedOncePerDay
<1>2. \A m \in Markers : DueIsUnmarked(m)'
  <2>1. \A m \in Markers : marker[m].due \in SUBSET Buys
    BY DEF Shape, Firings
  <2> QED
    BY <2>1 DEF DayInv, DueIsUnmarked, HasMarkForDay
<1>3. \A m, n \in Markers : m # n => DueApart(m, n)'
  BY DEF DayInv, DueApart
<1> QED
  BY <1>1, <1>2, <1>3 DEF DayInv

\* A step that writes no row and leaves one firing with lots that are unmarked, and
\* due nowhere else unless that is on record.
LEMMA FiringMoves ==
  ASSUME DayInv, UNCHANGED rows, NEW m \in Markers, dueTwice \subseteq dueTwice',
         \A n \in Markers \ {m} : marker'[n] = marker[n],
         \A b \in marker'[m].due \ dueTwice' : ~ HasMarkForDay(b, marker'[m].at),
         \A n \in Markers \ {m} : \A b \in marker'[m].due \cap marker[n].due :
           Day(marker[n].at) = Day(marker'[m].at) => b \in dueTwice'
  PROVE  DayInv'
<1>1. MarkedOncePerDay'
  BY DEF DayInv, MarkedOncePerDay
<1>2. ASSUME NEW n \in Markers PROVE DueIsUnmarked(n)'
  <2>1. CASE n = m
    BY <2>1 DEF DueIsUnmarked, HasMarkForDay
  <2>2. CASE n # m
    BY <2>2 DEF DayInv, DueIsUnmarked, HasMarkForDay
  <2> QED
    BY <2>1, <2>2
<1>3. ASSUME NEW n \in Markers, NEW k \in Markers, n # k PROVE DueApart(n, k)'
  <2>1. CASE n = m
    BY <1>3, <2>1 DEF DueApart
  <2>2. CASE k = m
    BY <1>3, <2>2 DEF DueApart
  <2>3. CASE n # m /\ k # m
    BY <1>3, <2>3 DEF DayInv, DueApart
  <2> QED
    BY <2>1, <2>2, <2>3
<1> QED
  BY <1>1, <1>2, <1>3 DEF DayInv

\* Rows of other kinds are not marks.
LEMMA OtherKinds ==
  ASSUME NEW lots, NEW kind, kind # "mark", NEW at, NEW quantity,
         Append(lots, kind, at, quantity)
  PROVE  \A b \in Buys : \A r \in rows'[b] : r.kind = "mark" => r \in rows[b]
BY DEF Append

\* The mark that is appended is the first of its day, and what another firing of
\* that day has due is another lot.
LEMMA AppendMarkKeepsDays ==
  ASSUME Inductive, DayInv, NEW m \in Markers, AppendMark(m)
  PROVE  DayInv'
<1> DEFINE Row(b) == [kind |-> "mark", at |-> marker[m].at, quantity |-> marker[m].read[b]]
<1>1. \A b \in Buys : rows'[b] = IF b \in marker[m].due THEN rows[b] \cup {Row(b)} ELSE rows[b]
  BY DEF AppendMark, Append, Carried
<1>2. \A b \in Buys : Row(b).at = marker[m].at
  OBVIOUS
<1> HIDE DEF Row
<1>3. \A b \in marker[m].due \ dueTwice : \A r \in rows[b] :
        r.kind = "mark" => Day(r.at) # Day(marker[m].at)
  BY DEF DayInv, DueIsUnmarked, HasMarkForDay
<1>a. dueTwice' = dueTwice /\ \A n \in Markers : marker[n].due \in SUBSET Buys
  BY DEF AppendMark, Inductive, Shape, Firings
<1>4. MarkedOncePerDay'
  <2> SUFFICES ASSUME NEW b \in Buys \ dueTwice, NEW q \in rows'[b], NEW r \in rows'[b],
                      q.kind = "mark", r.kind = "mark", Day(q.at) = Day(r.at)
               PROVE  q = r
    BY <1>a DEF MarkedOncePerDay, Day
  <2>1. CASE q \in rows[b] /\ r \in rows[b]
    BY <2>1 DEF DayInv, MarkedOncePerDay
  <2>2. CASE q \notin rows[b] \/ r \notin rows[b]
    <3>1. /\ b \in marker[m].due \ dueTwice
          /\ q \in rows[b] \cup {Row(b)} /\ r \in rows[b] \cup {Row(b)}
      BY <1>1, <2>2
    <3>2. CASE q = Row(b) /\ r = Row(b)
      BY <3>2
    <3>3. CASE q = Row(b) /\ r \in rows[b]
      <4>1. q.at = marker[m].at
        BY <1>2, <3>3
      <4>2. Day(r.at) = Day(marker[m].at)
        BY <4>1
      <4> QED
        BY <1>3, <3>1, <3>3, <4>2
    <3>4. CASE q \in rows[b] /\ r = Row(b)
      <4>1. r.at = marker[m].at
        BY <1>2, <3>4
      <4>2. Day(q.at) = Day(marker[m].at)
        BY <4>1
      <4> QED
        BY <1>3, <3>1, <3>4, <4>2
    <3> QED
      BY <2>2, <3>1, <3>2, <3>3, <3>4
  <2> QED
    BY <2>1, <2>2
<1>5. marker'[m].due = {} /\ \A n \in Markers \ {m} : marker'[n] = marker[n]
  BY DEF AppendMark, Inductive, Shape, Firings
<1>6. ASSUME NEW n \in Markers PROVE DueIsUnmarked(n)'
  <2>1. CASE n = m
    BY <1>5, <2>1 DEF DueIsUnmarked
  <2>2. CASE n # m
    <3> SUFFICES ASSUME NEW b \in marker[n].due \ dueTwice, NEW r \in rows'[b],
                        r.kind = "mark", Day(r.at) = Day(marker[n].at)
                 PROVE  FALSE
      BY <1>5, <1>a, <2>2 DEF DueIsUnmarked, HasMarkForDay, Day
    <3>1. b \in Buys
      BY <1>a
    <3>2. r \notin rows[b]
      BY DEF DayInv, DueIsUnmarked, HasMarkForDay
    <3>3. b \in marker[m].due /\ r = Row(b)
      BY <1>1, <3>1, <3>2
    <3>4. r.at = marker[m].at
      BY <1>2, <3>1, <3>3
    <3>5. Day(marker[m].at) = Day(marker[n].at)
      BY <3>4
    <3> QED
      BY <2>2, <3>3, <3>5 DEF DayInv, DueApart
  <2> QED
    BY <2>1, <2>2
<1>7. ASSUME NEW n \in Markers, NEW k \in Markers, n # k PROVE DueApart(n, k)'
  <2>1. CASE n = m \/ k = m
    BY <1>5, <2>1 DEF DueApart
  <2>2. CASE n # m /\ k # m
    BY <1>5, <1>7, <1>a, <2>2 DEF DayInv, DueApart
  <2> QED
    BY <2>1, <2>2
<1> QED
  BY <1>4, <1>6, <1>7 DEF DayInv

\* The firing's own steps.
LEMMA MarkKeepsDays ==
  ASSUME Inductive, DayInv, NEW m \in Markers, MarkStep(m)
  PROVE  DayInv'
<1>1. marker[m] \in Firings /\ marker \in [Markers -> Firings]
  BY DEF Inductive, Shape
<1>2. ASSUME marker'[m].due = {}, dueTwice' = dueTwice, UNCHANGED rows,
             \A n \in Markers \ {m} : marker'[n] = marker[n]
      PROVE  DayInv'
  BY <1>2, FiringMoves
<1>3. CASE FireMark(m) \/ ListLots(m)
  <2>1. marker[m].due = {}
    BY <1>3 DEF FireMark, ListLots, Inductive, MarkInv
  <2>2. marker'[m].due = {}
    BY <1>1, <1>3, <2>1 DEF FireMark, ListLots, Firings
  <2>3. /\ \A n \in Markers \ {m} : marker'[n] = marker[n]
        /\ dueTwice' = dueTwice /\ UNCHANGED rows
    BY <1>1, <1>3 DEF FireMark, ListLots
  <2> QED
    BY <1>2, <2>2, <2>3
<1>4. CASE CheckMark(m)
  <2>a. PICK b \in marker[m].todo :
          \E due \in IF HasMarkForDay(b, marker[m].at) THEN {{}} ELSE {{}, {b}} :
            /\ marker' = [marker EXCEPT ![m].todo = @ \ {b}, ![m].due = due]
            /\ dueTwice' = dueTwice \cup {l \in due : DueElsewhere(m, l)}
    BY <1>4 DEF CheckMark
  <2>1. PICK due \in IF HasMarkForDay(b, marker[m].at) THEN {{}} ELSE {{}, {b}} :
          /\ marker' = [marker EXCEPT ![m].todo = @ \ {b}, ![m].due = due]
          /\ dueTwice' = dueTwice \cup {l \in due : DueElsewhere(m, l)}
    BY <2>a
  <2>2. marker'[m].due = due /\ marker'[m].at = marker[m].at
    BY <1>1, <2>1 DEF Firings
  <2>3. \A o \in due : ~ HasMarkForDay(o, marker[m].at)
    BY <2>1
  <2>4. \A n \in Markers \ {m} : marker'[n] = marker[n]
    BY <1>1, <2>1
  <2>5. \A n \in Markers \ {m} : \A l \in due \cap marker[n].due :
          Day(marker[n].at) = Day(marker[m].at) => l \in dueTwice'
    BY <2>1 DEF DueElsewhere
  <2>6. dueTwice \subseteq dueTwice' /\ UNCHANGED rows
    BY <1>4, <2>1 DEF CheckMark
  <2>7. \A o \in marker'[m].due \ dueTwice' : ~ HasMarkForDay(o, marker'[m].at)
    BY <2>2, <2>3
  <2>8. \A n \in Markers \ {m} : \A l \in marker'[m].due \cap marker[n].due :
          Day(marker[n].at) = Day(marker'[m].at) => l \in dueTwice'
    BY <2>2, <2>5
  <2> QED
    BY <2>4, <2>6, <2>7, <2>8, FiringMoves
<1>5. CASE AppendMark(m)
  BY <1>5, AppendMarkKeepsDays
<1>6. CASE EndMark(m)
  <2>1. /\ marker'[m].due = {} /\ \A n \in Markers \ {m} : marker'[n] = marker[n]
        /\ dueTwice' = dueTwice /\ UNCHANGED rows
    BY <1>1, <1>6 DEF EndMark, Resting
  <2> QED
    BY <1>2, <2>1
<1> QED
  BY <1>3, <1>4, <1>5, <1>6 DEF MarkStep

\* Every step keeps one mark per day.
LEMMA NextKeepsDays ==
  ASSUME Inductive, DayInv, [Next]_vars
  PROVE  DayInv'
<1>1. Shape
  BY DEF Inductive
<1>2. CASE UNCHANGED <<rows, marker, dueTwice>>
  BY <1>1, <1>2, UnmarkedStep
<1>3. ASSUME NEW b \in Buys, OpenLot(b) PROVE DayInv'
  BY <1>1, <1>3, OtherKinds, UnmarkedStep DEF OpenLot
<1>4. ASSUME NEW s \in Sells, CloseLots(s) PROVE DayInv'
  BY <1>1, <1>4, OtherKinds, UnmarkedStep DEF CloseLots
<1>5. ASSUME NEW m \in Markers, MarkStep(m) PROVE DayInv'
  BY <1>5, MarkKeepsDays
<1>6. Tick => UNCHANGED <<rows, marker, dueTwice>>
  BY DEF Tick
<1>7. \A b \in Buys : FillBuy(b) => UNCHANGED <<rows, marker, dueTwice>>
  BY DEF FillBuy
<1>8. \A s \in Sells : ExitStep(s) /\ ~ CloseLots(s) => UNCHANGED <<rows, marker, dueTwice>>
  BY DEF ExitStep, ReadPositions, EvaluateExit, FillExit, SelectLots, CheckLots
<1> QED
  BY <1>2, <1>3, <1>4, <1>5, <1>6, <1>7, <1>8 DEF Next, BuyStep, vars

\* A lot has one mark per UTC day, through restarts, second runs, runs across
\* midnight and overlapping firings, unless two firings both found it unmarked
\* before either inserted: the check and the insert are two statements
\* (hasMarkForDay, appendTrackRecord).
THEOREM MarksAreDaily == Spec => []MarkedOncePerDay
<1>1. Init => DayInv
  BY DEF Init, DayInv, MarkedOncePerDay, DueIsUnmarked, DueApart, Resting
<1>2. Inductive /\ DayInv /\ [Next]_vars => DayInv'
  BY NextKeepsDays
<1>3. DayInv => MarkedOncePerDay
  BY DEF DayInv
<1> QED
  BY <1>1, <1>2, <1>3, InductiveHolds, PTL DEF Spec
-----------------------------------------------------------------------------
(* The time stop.                                                            *)

\* Fewer bars lie between two instants than between two that contain them.
LEMMA BarsHeldMonotone ==
  ASSUME NEW at \in Nat, NEW later \in Nat, at <= later,
         NEW openedAt \in Nat, NEW earlier \in Nat, earlier <= openedAt
  PROVE  /\ BarsHeld(at, openedAt) <= BarsHeld(later, earlier)
         /\ BarsHeld(at, openedAt) \in Nat /\ BarsHeld(later, earlier) \in Nat
<1> DEFINE B == {d \in Traded : openedAt < d * TicksPerDay /\ d * TicksPerDay <= at}
           C == {d \in Traded : earlier < d * TicksPerDay /\ d * TicksPerDay <= later}
<1>1. \A d \in Traded : d * TicksPerDay \in Int
  BY ConstantsAssumption
<1>2. B \subseteq C
  BY <1>1
<1>3. IsFiniteSet(B) /\ IsFiniteSet(C)
  BY ConstantsAssumption, FS_Subset
<1>4. Cardinality(B) <= Cardinality(C) /\ Cardinality(B) \in Nat /\ Cardinality(C) \in Nat
  BY <1>2, <1>3, FS_Subset, FS_CardinalityType
<1> QED
  BY <1>4 DEF BarsHeld

\* An exit that only the age proposes closes a position that is old enough.
LEMMA StopIsNotEarly ==
  ASSUME Inductive, NEW s \in Sells, EvaluateExit(s, FALSE), exit'[s].pc = "proposed"
  PROVE  \E b \in Lots(Symbol[s]) : BarsHeld(clock, fill[b].at) >= MaxHoldingDays
<1>1. Stopped(s)
  <2>1. ~ Stopped(s) => exit'[s] = NoExit
    BY DEF EvaluateExit, Inductive, Shape
  <2> QED
    BY <2>1 DEF NoExit
<1>2. PICK b \in Oldest(Lots(Symbol[s])) : TimeStop(exit[s].at, latest[b].at)
  BY <1>1 DEF Stopped
<1>3. b \in Lots(Symbol[s]) /\ b \in OpenLots
  BY DEF Oldest, Lots
<1>4. b \in Buys /\ rows[b] # {}
  BY <1>3, OpenHasRows
<1>5. fill[b].at <= latest[b].at /\ exit[s].at <= clock
  BY <1>4 DEF Inductive, LotInv, ExitInv
<1>6. fill[b].at \in Nat /\ latest[b].at \in Nat /\ exit[s].at \in Nat /\ clock \in Nat
  BY <1>4, RowShape, ConstantsAssumption DEF Inductive, Shape, Fills, Exits, Times
<1>7. /\ BarsHeld(exit[s].at, latest[b].at) <= BarsHeld(clock, fill[b].at)
      /\ BarsHeld(exit[s].at, latest[b].at) \in Nat /\ BarsHeld(clock, fill[b].at) \in Nat
  BY <1>5, <1>6, BarsHeldMonotone
<1>8. BarsHeld(exit[s].at, latest[b].at) >= MaxHoldingDays
  BY <1>2 DEF TimeStop
<1>9. BarsHeld(clock, fill[b].at) >= MaxHoldingDays
  BY <1>7, <1>8, ConstantsAssumption
<1> QED
  BY <1>3, <1>9

\* The time stop is never early, although it reads the age of the newest row: a
\* mark only makes a lot look younger, and the bars were read before the lots.
THEOREM TimeStopHolds == Spec => TimeStopIsNotEarly
<1>1. Inductive =>
        [\A s \in Sells :
           EvaluateExit(s, FALSE) /\ exit'[s].pc = "proposed" =>
             \E b \in Lots(Symbol[s]) : BarsHeld(clock, fill[b].at) >= MaxHoldingDays]_vars
  BY StopIsNotEarly
<1> QED
  BY <1>1, InductiveHolds, PTL DEF TimeStopIsNotEarly
-----------------------------------------------------------------------------
(* The shares a position adds up to.                                         *)

Settled == {b \in Buys : rows[b] # {}}

\* Only so many lots were ever opened: a position can be added up, whether or
\* not there is a last entry.
Counted == IsFiniteSet(Settled) /\ wanted \in [Sells -> Nat]

LEMMA TotalType ==
  ASSUME Inductive, Counted, NEW symbol
  PROVE  Total(Lots(symbol)) \in Nat
<1> DEFINE L == Lots(symbol)
           f == [b \in L |-> Size(b, latest[b])]
<1>1. L \in SUBSET Settled
  BY OpenHasRows DEF Lots, OpenLots, Settled
<1>2. IsFiniteSet(L)
  <2> HIDE DEF L
  <2> QED BY <1>1, FS_Subset DEF Counted
<1>3. Total(L) = SumFunctionOnSet(f, L)
  BY DEF Total, MapThenSumSet, SumFunctionOnSet, FoldFunctionOnSet, MapThenFoldSet
<1>4. \A b \in L : f[b] \in Nat
  <2> SUFFICES ASSUME NEW b \in L PROVE Size(b, latest[b]) \in Nat
    OBVIOUS
  <2>1. b \in Buys
    BY <1>1 DEF Settled
  <2>2. latest[b].quantity \in Nat /\ Quantity[b] \in Nat
    BY <2>1, RowShape, ConstantsAssumption DEF Inductive, Shape
  <2> QED BY <2>2 DEF Size
<1> HIDE DEF f, L
<1>5. SumFunctionOnSet(f, L) \in Nat
  BY <1>2, <1>4, SumType
<1> QED BY <1>3, <1>5 DEF L

\* An append opens at most the lots it names.
LEMMA AppendCounted ==
  ASSUME Inductive, Counted, NEW lots, IsFiniteSet(lots), NEW kind, NEW at, NEW quantity,
         Append(lots, kind, at, quantity)
  PROVE  IsFiniteSet(Settled')
<1>1. rows' = [b \in Buys |->
         IF b \in lots THEN rows[b] \cup {[kind |-> kind, at |-> at, quantity |-> quantity[b]]}
         ELSE rows[b]]
  BY DEF Append
<1>2. Settled' \in SUBSET (Settled \cup lots)
  BY <1>1 DEF Settled
<1>3. IsFiniteSet(Settled \cup lots)
  BY FS_Union DEF Counted
<1> HIDE DEF Settled
<1> QED BY <1>2, <1>3, FS_Subset

\* What a step may want to sell.
LEMMA WantedMoves ==
  ASSUME Counted, NEW s \in Sells, NEW n \in Nat, wanted' = [wanted EXCEPT ![s] = n]
  PROVE  wanted' \in [Sells -> Nat]
BY DEF Counted

LEMMA ExitCounted ==
  ASSUME Inductive, Counted, NEW s \in Sells, ExitStep(s)
  PROVE  Counted'
<1>1. wanted \in [Sells -> Nat] /\ IsFiniteSet(Settled) /\ wanted[s] \in Nat /\ 0 \in Nat
  BY DEF Counted
<1>2. CASE CloseLots(s)
  <2>1. /\ exit[s].pc = "checked" /\ Append(exit[s].lots, "closed", exit[s].at, exit[s].read)
        /\ wanted' = [wanted EXCEPT ![s] = 0]
    BY <1>2 DEF CloseLots, Leave
  <2>2. exit[s].lots \in SUBSET Settled
    BY <2>1 DEF Inductive, ExitInv, Holds, Shape, Exits, Settled
  <2>3. IsFiniteSet(exit[s].lots)
    BY <1>1, <2>2, FS_Subset
  <2>4. IsFiniteSet(Settled')
    BY <2>1, <2>3, AppendCounted
  <2> QED BY <1>1, <2>1, <2>4, WantedMoves DEF Counted
<1>3. CASE ~ CloseLots(s)
  <2>1. rows' = rows
    BY <1>3 DEF ExitStep, ReadPositions, EvaluateExit, FillExit, SelectLots, CheckLots
  <2>2. IsFiniteSet(Settled')
    BY <1>1, <2>1 DEF Settled
  <2>3. Total(Lots(Symbol[s])) \in Nat
    BY TotalType
  <2>4. \/ wanted' = wanted
        \/ \E n \in Nat : wanted' = [wanted EXCEPT ![s] = n]
    <3>1. CASE ReadPositions(s)
      BY <2>3, <3>1 DEF ReadPositions
    <3>2. CASE EvaluateExit(s, TRUE) \/ EvaluateExit(s, FALSE)
      BY <1>1, <3>2 DEF EvaluateExit
    <3>3. CASE FillExit(s)
      <4>1. PICK n \in 1 .. wanted[s] : wanted' = [wanted EXCEPT ![s] = n]
        BY <3>3 DEF FillExit
      <4>2. n \in Nat
        BY <1>1
      <4> QED BY <4>1, <4>2
    <3>4. CASE SelectLots(s)
      BY <1>1, <3>4 DEF SelectLots, Leave
    <3>5. CASE CheckLots(s)
      BY <1>1, <3>5 DEF CheckLots, Leave
    <3> QED BY <1>3, <3>1, <3>2, <3>3, <3>4, <3>5 DEF ExitStep
  <2> QED BY <1>1, <2>2, <2>4, WantedMoves DEF Counted
<1> QED BY <1>2, <1>3

LEMMA NextCounted == Inductive /\ Counted /\ [Next]_vars => Counted'
<1> SUFFICES ASSUME Inductive, Counted, [Next]_vars PROVE Counted'
  OBVIOUS
<1>1. ASSUME wanted' = wanted, IsFiniteSet(Settled') PROVE Counted'
  BY <1>1 DEF Counted
<1>2. ASSUME rows' = rows PROVE IsFiniteSet(Settled')
  BY <1>2 DEF Counted, Settled
<1>3. CASE Tick
  BY <1>1, <1>2, <1>3 DEF Tick
<1>4. ASSUME NEW b \in Buys, BuyStep(b) PROVE Counted'
  <2>1. CASE FillBuy(b)
    BY <1>1, <1>2, <2>1 DEF FillBuy
  <2>2. CASE OpenLot(b)
    <3>1. wanted' = wanted /\ \E at, quantity : Append({b}, "entry", at, quantity)
      BY <2>2 DEF OpenLot
    <3>2. IsFiniteSet({b})
      BY FS_Singleton
    <3> QED BY <1>1, <3>1, <3>2, AppendCounted
  <2> QED BY <1>4, <2>1, <2>2 DEF BuyStep
<1>5. ASSUME NEW m \in Markers, MarkStep(m) PROVE Counted'
  <2>1. CASE AppendMark(m)
    <3>1. wanted' = wanted /\ Append(marker[m].due, "mark", marker[m].at, Carried(m))
      BY <2>1 DEF AppendMark
    <3>2. marker[m].due \in SUBSET Settled
      BY DEF Inductive, MarkInv, Holds, Shape, Firings, Settled
    <3>3. IsFiniteSet(marker[m].due)
      BY <3>2, FS_Subset DEF Counted
    <3> QED BY <1>1, <3>1, <3>3, AppendCounted
  <2>2. CASE ~ AppendMark(m)
    BY <1>1, <1>2, <1>5, <2>2 DEF MarkStep, FireMark, ListLots, CheckMark, EndMark
  <2> QED BY <2>1, <2>2
<1>6. CASE UNCHANGED vars
  BY <1>1, <1>2, <1>6 DEF vars
<1> QED BY <1>3, <1>4, <1>5, <1>6, ExitCounted DEF Next

\* The rows, the lots, the handlers and what an exit is to sell keep their
\* shapes, and a lot's newest row is the newest of its rows: the state that
\* listOpenLots reads is the state of the ledger.
THEOREM TypeHolds == Spec => []TypeOK
<1>1. Init => Counted
  <2> SUFFICES ASSUME Init PROVE Counted
    OBVIOUS
  <2>1. Settled = {}
    BY DEF Init, Settled
  <2> QED BY <2>1, FS_EmptySet DEF Init, Counted
<1>2. Inductive /\ Counted => TypeOK
  BY DEF Inductive, Counted, TypeOK
<1> QED BY <1>1, <1>2, InductiveHolds, NextCounted, PTL DEF Spec
-----------------------------------------------------------------------------
(* The reports read from the table (TrackRecord), for any rows written in any *)
(* order of their instants.                                                   *)

\* The order the reports rest on: no two rows have the same place in it.
Ordered(rs) == /\ rs \subseteq RecordRow
               /\ \A r, o \in rs : r.at = o.at => r = o

\* What a request still knows of the lots nobody wrote to since it began: what
\* it listed, the marks it read and the openings it dated.
StillKnows ==
  /\ \A l \in Entries \ touched : l \in report.lots <=> l \in StillOpen(report.rows)
  /\ report.lots \subseteq Recorded(written)
  /\ report.unmarked \subseteq report.undated /\ report.undated \subseteq report.lots
  /\ DOMAIN report.mark = report.lots /\ DOMAIN report.opened = report.lots
  /\ \A l \in report.lots \ report.unmarked :
       \/ /\ report.mark[l] = NoMark
          /\ l \in touched \/ l \notin Recorded(MarkRows(report.rows))
       \/ /\ report.mark[l] \in RowsOf(written, l)
          /\ \/ l \in touched
             \/ /\ l \in Recorded(MarkRows(report.rows))
                /\ report.mark[l] = LatestRow(MarkRows(report.rows), l)
  /\ \A l \in report.lots \ report.undated :
       report.mark[l] # NoMark => report.opened[l] <= report.mark[l].at

TrackRecordInductive ==
  /\ Ordered(written)
  /\ DOMAIN report = DOMAIN NoReport
  /\ report.pc \in {"idle", "listing", "reading"}
  /\ report.rows \subseteq written
  /\ report.pc # "idle" => \A r \in written \ report.rows : r.lot \in touched
  /\ report.pc = "reading" => StillKnows

\* A day's instants are between its neighbours'.
LEMMA DayShape ==
  ASSUME NEW a \in 0 .. MaxAt, NEW b \in 0 .. MaxAt
  PROVE  /\ DayOf(a) \in Nat
         /\ a <= b => DayOf(a) <= DayOf(b)
<1>. DEFINE k == PerDay
<1>1. k \in Nat \ {0} /\ a \in Nat /\ b \in Nat
  BY TrackRecordAssumption
<1>. HIDE DEF k
<1>2. a \div k \in Nat /\ (a <= b => a \div k <= b \div k)
  BY <1>1
<1>. QED  BY <1>2 DEF DayOf, k

\* A lot with rows has a latest one, and only one.
LEMMA LatestShape ==
  ASSUME NEW rs, Ordered(rs), NEW l \in Recorded(rs)
  PROVE  /\ LatestRow(rs, l) \in RowsOf(rs, l)
         /\ \A o \in RowsOf(rs, l) : o.at <= LatestRow(rs, l).at
<1> DEFINE E == {MaxAt - r.at : r \in RowsOf(rs, l)}
<1>1. \A r \in RowsOf(rs, l) : r.at \in 0 .. MaxAt
  BY DEF Ordered, RecordRow, RowsOf
<1>2. MaxAt \in Nat
  BY TrackRecordAssumption
<1>3. E \in SUBSET Nat
  BY <1>1, <1>2
<1>4. PICK n : n \in E
  BY DEF Recorded, RowsOf
<1>5. PICK e \in E : \A f \in E : e <= f
  <2> HIDE DEF E
  <2>. QED  BY <1>3, <1>4, LeastOf
<1>6. PICK r \in RowsOf(rs, l) : e = MaxAt - r.at
  BY <1>5
<1>7. \A o \in RowsOf(rs, l) : o.at <= r.at
  <2> TAKE o \in RowsOf(rs, l)
  <2>1. MaxAt - o.at \in E
    OBVIOUS
  <2>2. e <= MaxAt - o.at
    BY <2>1, <1>5
  <2>. QED  BY <2>2, <1>1, <1>2, <1>6
<1>. QED  BY <1>6, <1>7 DEF LatestRow

\* It is the row that has no later one.
LEMMA LatestIs ==
  ASSUME NEW rs, Ordered(rs), NEW l, NEW m \in RowsOf(rs, l),
         \A o \in RowsOf(rs, l) : o.at <= m.at
  PROVE  LatestRow(rs, l) = m
<1>1. l \in Recorded(rs)
  BY DEF Recorded, RowsOf
<1>2. /\ LatestRow(rs, l) \in RowsOf(rs, l)
      /\ LatestRow(rs, l).at <= m.at /\ m.at <= LatestRow(rs, l).at
  BY <1>1, LatestShape
<1>3. LatestRow(rs, l).at \in 0 .. MaxAt /\ m.at \in 0 .. MaxAt
  BY <1>2 DEF Ordered, RecordRow, RowsOf
<1>4. MaxAt \in Nat
  BY TrackRecordAssumption
<1>5. LatestRow(rs, l).at = m.at
  BY <1>2, <1>3, <1>4
<1>. QED  BY <1>2, <1>5 DEF Ordered, RowsOf

\* What two tables agree on for a lot, they report alike.
LEMMA SameRows ==
  ASSUME NEW rs, NEW os, NEW l, RowsOf(rs, l) = RowsOf(os, l)
  PROVE  /\ LatestRow(rs, l) = LatestRow(os, l)
         /\ l \in Recorded(rs) <=> l \in Recorded(os)
         /\ l \in StillOpen(rs) <=> l \in StillOpen(os)
         /\ RowsOf(MarkRows(rs), l) = RowsOf(MarkRows(os), l)
<1>1. LatestRow(rs, l) = LatestRow(os, l)
  BY DEF LatestRow
<1>2. l \in Recorded(rs) <=> l \in Recorded(os)
  BY DEF Recorded, RowsOf
<1>3. RowsOf(MarkRows(rs), l) = RowsOf(MarkRows(os), l)
  <2>1. \A qs : RowsOf(MarkRows(qs), l) = {r \in RowsOf(qs, l) : r.kind = "mark"}
    BY DEF RowsOf, MarkRows
  <2>. QED  BY <2>1
<1>. QED  BY <1>1, <1>2, <1>3 DEF StillOpen, ClosedLots

\* The two ways of asking which lots are open agree.
LEMMA OpenIsOpen == \A rs : OpenPositions(rs) = StillOpen(rs)
  BY DEF OpenPositions, StillOpen, ClosedLots

\* A lot nobody wrote to has the rows it had when the request began.
LEMMA Untouched ==
  ASSUME TrackRecordInductive, report.pc # "idle", NEW l \in Entries \ touched
  PROVE  RowsOf(written, l) = RowsOf(report.rows, l)
  BY DEF TrackRecordInductive, RowsOf
-----------------------------------------------------------------------------
(* Past days.                                                                *)

\* A row of a later day leaves the day as it was.
LEMMA PointStands ==
  ASSUME NEW rs, NEW os, NEW d \in Nat, rs \subseteq os, Ordered(os),
         \A r \in os \ rs : d < DayOf(r.at)
  PROVE  Point(os, d) = Point(rs, d)
<1>1. \A r \in os : DayOf(r.at) \in Nat
  BY DayShape DEF Ordered, RecordRow
<1>2. Through(os, d) = Through(rs, d)
  BY <1>1 DEF Through
<1>3. MarksOn(os, d) = MarksOn(rs, d)
  BY <1>1 DEF MarksOn, MarkRows
<1>. QED  BY <1>2, <1>3 DEF Point

\* Writing keeps the order and takes nothing back.
LEMMA WriteStep ==
  ASSUME Ordered(written), NEW l \in Entries, NEW kind \in {"entry", "mark", "close"},
         NEW at \in 0 .. MaxAt, NEW pnl \in Int, Write(l, kind, at, pnl)
  PROVE  /\ Ordered(written')
         /\ written \subseteq written'
         /\ \A r \in written' \ written : r.lot = l
         /\ touched' = IF report.pc = "idle" THEN {} ELSE touched \cup {l}
         /\ report' = report
<1>. DEFINE e == [at |-> at, lot |-> l, kind |-> kind, pnl |-> pnl]
<1>1. e \in RecordRow /\ e.at = at /\ e.lot = l
  BY DEF RecordRow
<1>2. /\ \A r \in written : r.at # at
      /\ written' = written \cup {e}
      /\ touched' = IF report.pc = "idle" THEN {} ELSE touched \cup {l}
      /\ report' = report
  BY DEF Write
<1>. HIDE DEF e
<1>3. Ordered(written')
  BY <1>1, <1>2 DEF Ordered
<1>. QED  BY <1>1, <1>2, <1>3

\* The two writers are such writes.
LEMMA WritersWrite ==
  ASSUME NEW l \in Entries, NEW at \in 0 .. MaxAt
  PROVE  /\ OpenEntry(l, at) => Write(l, "entry", at, 0)
         /\ \A kind \in {"mark", "close"}, pnl \in Results :
              Follow(l, kind, at, pnl) => pnl \in Int /\ Write(l, kind, at, pnl)
  BY TrackRecordAssumption DEF OpenEntry, Follow

\* Every step either writes one row or leaves the table alone.
LEMMA StepShape ==
  ASSUME [TrackRecordNext]_trackRecord
  PROVE  \/ \E l \in Entries, kind \in {"entry", "mark", "close"}, at \in 0 .. MaxAt, pnl \in Int :
              Write(l, kind, at, pnl)
         \/ /\ written' = written
            /\ \/ ReadRows \/ ListPositions \/ SendReport
               \/ \E l \in Entries : ReadMark(l)
               \/ \E l \in Entries : ReadOpening(l)
               \/ UNCHANGED trackRecord
<1>1. ASSUME NEW l \in Entries, NEW at \in 0 .. MaxAt, OpenEntry(l, at)
      PROVE  \E kind \in {"entry", "mark", "close"}, pnl \in Int : Write(l, kind, at, pnl)
  <2>1. Write(l, "entry", at, 0) /\ 0 \in Int
    BY <1>1, WritersWrite
  <2>. QED  BY <2>1
<1>2. ASSUME NEW l \in Entries, NEW kind \in {"mark", "close"}, NEW at \in 0 .. MaxAt,
             NEW pnl \in Results, Follow(l, kind, at, pnl)
      PROVE  \E k \in {"entry", "mark", "close"}, p \in Int : Write(l, k, at, p)
  <2>1. Write(l, kind, at, pnl) /\ pnl \in Int
    BY <1>2, WritersWrite
  <2>. QED  BY <2>1
<1>3. /\ ReadRows => written' = written
      /\ ListPositions => written' = written
      /\ SendReport => written' = written
      /\ \A l : ReadMark(l) => written' = written
      /\ \A l : ReadOpening(l) => written' = written
      /\ UNCHANGED trackRecord => written' = written
  BY DEF ReadRows, ListPositions, SendReport, ReadMark, ReadOpening, trackRecord
<1>4. \/ \E l \in Entries, at \in 0 .. MaxAt : OpenEntry(l, at)
      \/ \E l \in Entries, kind \in {"mark", "close"}, at \in 0 .. MaxAt, pnl \in Results :
           Follow(l, kind, at, pnl)
      \/ ReadRows \/ ListPositions \/ SendReport
      \/ \E l \in Entries : ReadMark(l)
      \/ \E l \in Entries : ReadOpening(l)
      \/ UNCHANGED trackRecord
  BY DEF TrackRecordNext
<1>5. CASE \E l \in Entries, at \in 0 .. MaxAt : OpenEntry(l, at)
  BY <1>1, <1>5
<1>6. CASE \E l \in Entries, kind \in {"mark", "close"}, at \in 0 .. MaxAt, pnl \in Results :
             Follow(l, kind, at, pnl)
  BY <1>2, <1>6
<1>. QED  BY <1>3, <1>4, <1>5, <1>6

\* So the table only grows, in order.
LEMMA TableGrows ==
  ASSUME Ordered(written), [TrackRecordNext]_trackRecord
  PROVE  Ordered(written') /\ written \subseteq written'
<1>1. CASE \E l \in Entries, kind \in {"entry", "mark", "close"}, at \in 0 .. MaxAt, pnl \in Int :
             Write(l, kind, at, pnl)
  BY <1>1, WriteStep
<1>2. CASE written' = written
  BY <1>2
<1>. QED  BY <1>1, <1>2, StepShape

LEMMA StartsOrdered == TrackRecordInit => Ordered(written)
  BY DEF TrackRecordInit, Ordered

\* The points of the days before the rows a step writes are what they were.
LEMMA CurveStep ==
  ASSUME Ordered(written), [TrackRecordNext]_trackRecord, NEW d \in DaysOf(written),
         \A r \in written' \ written : d < DayOf(r.at)
  PROVE  Curve(written')[d] = Curve(written)[d]
<1>1. Ordered(written') /\ written \subseteq written'
  BY TableGrows
<1>2. d \in Nat /\ d \in DaysOf(written')
  BY <1>1, DayShape DEF DaysOf, Ordered, RecordRow
<1>3. Point(written', d) = Point(written, d)
  BY <1>1, <1>2, PointStands
<1>. QED  BY <1>2, <1>3 DEF Curve

(* What was published about a day that is over stays as it was, for any lots, *)
(* results and days, and rows that arrive in any order (buildCurve).          *)
THEOREM PastStands == TrackRecordSpec => CurveStands
<1>1. TrackRecordInit => Ordered(written)
  BY StartsOrdered
<1>2. Ordered(written) /\ [TrackRecordNext]_trackRecord => Ordered(written)'
  BY TableGrows
<1>3. Ordered(written) /\ [TrackRecordNext]_trackRecord
        => [\A d \in DaysOf(written) :
              (\A r \in written' \ written : d < DayOf(r.at))
                => Curve(written')[d] = Curve(written)[d]]_trackRecord
  BY CurveStep
<1>. QED  BY <1>1, <1>2, <1>3, PTL DEF TrackRecordSpec, CurveStands
-----------------------------------------------------------------------------
(* What a request knows.                                                      *)

LEMMA RequestStarts == TrackRecordInit => TrackRecordInductive
  BY DEF TrackRecordInit, TrackRecordInductive, Ordered, NoReport

\* A row is written meanwhile: it can only be news about a lot it touches.
LEMMA RowArrives ==
  ASSUME TrackRecordInductive, NEW l \in Entries, NEW kind \in {"entry", "mark", "close"},
         NEW at \in 0 .. MaxAt, NEW pnl \in Int, Write(l, kind, at, pnl)
  PROVE  TrackRecordInductive'
<1>1. /\ Ordered(written') /\ written \subseteq written'
      /\ \A r \in written' \ written : r.lot = l
      /\ touched' = IF report.pc = "idle" THEN {} ELSE touched \cup {l}
      /\ report' = report
  BY WriteStep DEF TrackRecordInductive
<1>2. ASSUME report.pc = "reading" PROVE StillKnows'
  <2>1. StillKnows /\ touched' = touched \cup {l} /\ report' = report /\ written \subseteq written'
    BY <1>1, <1>2 DEF TrackRecordInductive
  <2>2. \A o : RowsOf(written, o) \subseteq RowsOf(written', o)
    BY <2>1 DEF RowsOf
  <2>3. Recorded(written) \subseteq Recorded(written')
    BY <2>1 DEF Recorded
  <2>. QED  BY <2>1, <2>2, <2>3 DEF StillKnows
<1>. QED  BY <1>1, <1>2 DEF TrackRecordInductive

\* The statistics' read: nothing has been written since.
LEMMA ReadRowsStep ==
  ASSUME TrackRecordInductive, ReadRows
  PROVE  TrackRecordInductive'
  BY DEF TrackRecordInductive, ReadRows, NoReport

\* The list: an untouched lot is open in both reads or in neither.
LEMMA ListPositionsStep ==
  ASSUME TrackRecordInductive, ListPositions
  PROVE  TrackRecordInductive'
<1>. DEFINE lots == OpenPositions(written)
<1>1. /\ report.pc = "listing" /\ UNCHANGED <<written, touched>>
      /\ report' = [report EXCEPT !.pc = "reading", !.lots = lots,
                                  !.unmarked = lots, !.undated = lots,
                                  !.mark = [l \in lots |-> NoMark],
                                  !.opened = [l \in lots |-> 0]]
  BY DEF ListPositions
<1>2. \A l \in Entries \ touched : l \in lots <=> l \in StillOpen(report.rows)
  BY <1>1, Untouched, SameRows, OpenIsOpen
<1>3. lots \subseteq Recorded(written)
  BY DEF OpenPositions
<1>. HIDE DEF lots
<1>. QED  BY <1>1, <1>2, <1>3 DEF TrackRecordInductive, StillKnows

\* One mark read: of a lot nobody wrote to it is the statistics' newest.
LEMMA ReadMarkStep ==
  ASSUME TrackRecordInductive, NEW l \in Entries, ReadMark(l)
  PROVE  TrackRecordInductive'
<1>. DEFINE m == IF l \in Recorded(MarkRows(written))
                 THEN LatestRow(MarkRows(written), l) ELSE NoMark
<1>1. /\ report.pc = "reading" /\ l \in report.unmarked
      /\ UNCHANGED <<written, touched>>
      /\ report' = [report EXCEPT !.unmarked = @ \ {l}, !.mark[l] = m]
  BY DEF ReadMark
<1>2. /\ StillKnows /\ Ordered(written) /\ l \in report.lots
      /\ l \in report.undated
  BY <1>1 DEF TrackRecordInductive, StillKnows
<1>3. Ordered(MarkRows(written)) /\ MarkRows(written) \subseteq written
  BY <1>2 DEF Ordered, MarkRows
<1>4. \/ m = NoMark /\ l \notin Recorded(MarkRows(written))
      \/ /\ l \in Recorded(MarkRows(written))
         /\ m = LatestRow(MarkRows(written), l)
         /\ m \in RowsOf(written, l)
  <2>1. ASSUME l \in Recorded(MarkRows(written))
        PROVE  LatestRow(MarkRows(written), l) \in RowsOf(written, l)
    <3>1. LatestRow(MarkRows(written), l) \in RowsOf(MarkRows(written), l)
      BY <1>3, <2>1, LatestShape
    <3>. QED  BY <1>3, <3>1 DEF RowsOf
  <2>. QED  BY <2>1
<1>5. l \notin touched =>
        /\ l \in Recorded(MarkRows(written)) <=> l \in Recorded(MarkRows(report.rows))
        /\ LatestRow(MarkRows(written), l) = LatestRow(MarkRows(report.rows), l)
  <2>. SUFFICES ASSUME l \notin touched
                PROVE  /\ l \in Recorded(MarkRows(written)) <=> l \in Recorded(MarkRows(report.rows))
                       /\ LatestRow(MarkRows(written), l) = LatestRow(MarkRows(report.rows), l)
    OBVIOUS
  <2>1. RowsOf(MarkRows(written), l) = RowsOf(MarkRows(report.rows), l)
    BY <1>1, Untouched, SameRows
  <2>. QED  BY <2>1, SameRows
<1>. HIDE DEF m
<1>6. /\ report'.pc = report.pc /\ report'.rows = report.rows /\ report'.lots = report.lots
      /\ report'.unmarked = report.unmarked \ {l} /\ report'.undated = report.undated
      /\ report'.opened = report.opened
      /\ report'.mark = [report.mark EXCEPT ![l] = m]
      /\ DOMAIN report' = DOMAIN report
  BY <1>1
<1>7. /\ DOMAIN report'.mark = report.lots /\ report'.mark[l] = m
      /\ \A o \in report.lots : o # l => report'.mark[o] = report.mark[o]
  BY <1>2, <1>6 DEF StillKnows
<1>8. \A o \in report'.lots \ report'.unmarked :
        \/ /\ report'.mark[o] = NoMark
           /\ o \in touched' \/ o \notin Recorded(MarkRows(report'.rows))
        \/ /\ report'.mark[o] \in RowsOf(written', o)
           /\ \/ o \in touched'
              \/ /\ o \in Recorded(MarkRows(report'.rows))
                 /\ report'.mark[o] = LatestRow(MarkRows(report'.rows), o)
  <2>. TAKE o \in report'.lots \ report'.unmarked
  <2>1. CASE o = l
    BY <2>1, <1>1, <1>4, <1>5, <1>6, <1>7
  <2>2. CASE o # l
    BY <2>2, <1>1, <1>2, <1>6, <1>7 DEF StillKnows
  <2>. QED  BY <2>1, <2>2
<1>9. StillKnows'
  BY <1>1, <1>2, <1>6, <1>7, <1>8 DEF StillKnows
<1>. QED  BY <1>1, <1>6, <1>9 DEF TrackRecordInductive

\* The opening read after it: the table has only grown, so none of its rows
\* is dated before.
LEMMA ReadOpeningStep ==
  ASSUME TrackRecordInductive, NEW l \in Entries, ReadOpening(l)
  PROVE  TrackRecordInductive'
<1>. DEFINE E == {r.at : r \in RowsOf(written, l)}
<1>. DEFINE first == CHOOSE at \in E : \A r \in RowsOf(written, l) : at <= r.at
<1>1. /\ report.pc = "reading" /\ l \in report.undated \ report.unmarked
      /\ UNCHANGED <<written, touched>>
      /\ report' = [report EXCEPT !.undated = @ \ {l}, !.opened[l] = first]
  BY DEF ReadOpening
<1>2. /\ StillKnows /\ Ordered(written) /\ l \in report.lots
      /\ l \in Recorded(written)
  BY <1>1 DEF TrackRecordInductive, StillKnows
<1>3. \A r \in RowsOf(written, l) : first <= r.at
  <2>1. E \in SUBSET Nat
    BY <1>2 DEF Ordered, RecordRow, RowsOf
  <2>2. PICK n : n \in E
    BY <1>2 DEF Recorded, RowsOf
  <2>3. PICK e \in E : \A f \in E : e <= f
    <3>. HIDE DEF E
    <3>. QED  BY <2>1, <2>2, LeastOf
  <2>4. \A r \in RowsOf(written, l) : e <= r.at
    BY <2>3
  <2>. QED  BY <2>3, <2>4
<1>. HIDE DEF first
<1>4. report.mark[l] # NoMark => first <= report.mark[l].at
  BY <1>1, <1>2, <1>3 DEF StillKnows
<1>5. /\ report'.pc = report.pc /\ report'.rows = report.rows /\ report'.lots = report.lots
      /\ report'.unmarked = report.unmarked /\ report'.undated = report.undated \ {l}
      /\ report'.mark = report.mark
      /\ report'.opened = [report.opened EXCEPT ![l] = first]
      /\ DOMAIN report' = DOMAIN report
  BY <1>1
<1>6. /\ DOMAIN report'.opened = report.lots /\ report'.opened[l] = first
      /\ \A o \in report.lots : o # l => report'.opened[o] = report.opened[o]
  BY <1>2, <1>5 DEF StillKnows
<1>7. \A o \in report'.lots \ report'.undated :
        report'.mark[o] # NoMark => report'.opened[o] <= report'.mark[o].at
  <2>. TAKE o \in report'.lots \ report'.undated
  <2>1. CASE o = l
    BY <2>1, <1>4, <1>5, <1>6
  <2>2. CASE o # l
    BY <2>2, <1>2, <1>5, <1>6 DEF StillKnows
  <2>. QED  BY <2>1, <2>2
<1>8. StillKnows'
  BY <1>1, <1>2, <1>5, <1>6, <1>7 DEF StillKnows
<1>. QED  BY <1>1, <1>5, <1>8 DEF TrackRecordInductive

LEMMA SendReportStep ==
  ASSUME TrackRecordInductive, SendReport
  PROVE  TrackRecordInductive'
  BY DEF TrackRecordInductive, SendReport, NoReport

LEMMA RequestSteps ==
  ASSUME TrackRecordInductive, [TrackRecordNext]_trackRecord
  PROVE  TrackRecordInductive'
<1>1. CASE UNCHANGED trackRecord
  BY <1>1 DEF trackRecord, TrackRecordInductive, StillKnows
<1>2. CASE \E l \in Entries, kind \in {"entry", "mark", "close"}, at \in 0 .. MaxAt, pnl \in Int :
             Write(l, kind, at, pnl)
  BY <1>2, RowArrives
<1>. QED  BY <1>1, <1>2, StepShape, ReadRowsStep, ListPositionsStep, SendReportStep,
              ReadMarkStep, ReadOpeningStep
-----------------------------------------------------------------------------
(* What it sends.                                                             *)

\* The last day of rows is as late as any of them.
LEMMA LastDayShape ==
  ASSUME NEW rs, Ordered(rs), rs # {}
  PROVE  /\ LastDay(rs) \in DaysOf(rs) /\ LastDay(rs) \in Nat
         /\ \A r \in rs : DayOf(r.at) \in Nat /\ DayOf(r.at) <= LastDay(rs)
<1>. DEFINE top == DayOf(MaxAt)
<1>. DEFINE E == {top - d : d \in DaysOf(rs)}
<1>1. MaxAt \in Nat /\ MaxAt \in 0 .. MaxAt
  BY TrackRecordAssumption
<1>2. \A r \in rs : r.at \in 0 .. MaxAt /\ r.at <= MaxAt
  BY <1>1 DEF Ordered, RecordRow
<1>3. \A d \in DaysOf(rs) : d \in Nat /\ d <= top
  BY <1>1, <1>2, DayShape DEF DaysOf
<1>4. top \in Nat
  BY <1>1, DayShape
<1>. HIDE DEF top
<1>5. E \in SUBSET Nat
  BY <1>3, <1>4
<1>6. PICK n : n \in E
  BY DEF DaysOf
<1>7. PICK e \in E : \A f \in E : e <= f
  <2>. HIDE DEF E
  <2>. QED  BY <1>5, <1>6, LeastOf
<1>8. PICK d \in DaysOf(rs) : e = top - d
  BY <1>7
<1>9. \A f \in DaysOf(rs) : f <= d
  <2>. TAKE f \in DaysOf(rs)
  <2>1. top - f \in E
    OBVIOUS
  <2>2. e <= top - f
    BY <2>1, <1>7
  <2>. QED  BY <2>2, <1>3, <1>4, <1>8
<1>10. LastDay(rs) \in DaysOf(rs) /\ \A f \in DaysOf(rs) : f <= LastDay(rs)
  BY <1>8, <1>9 DEF LastDay
<1>. QED  BY <1>3, <1>10 DEF DaysOf

\* The curve ends with what the totals say: a lot counts once, with its result
\* or with its newest mark.
LEMMA CurveEnds ==
  ASSUME NEW rs, Ordered(rs), rs # {}, ~Point(rs, LastDay(rs)).withheld
  PROVE  /\ StillOpen(rs) \subseteq Recorded(MarkRows(rs))
         /\ Point(rs, LastDay(rs)).value
              = Realized(rs) + SumOf([l \in StillOpen(rs) |-> LatestRow(MarkRows(rs), l).pnl],
                                     StillOpen(rs))
<1>. DEFINE d == LastDay(rs)
<1>. DEFINE marks == MarksOn(rs, d)
<1>. DEFINE open == StillOpen(rs)
<1>1. /\ d \in Nat
      /\ \A r \in rs : DayOf(r.at) \in Nat /\ DayOf(r.at) <= d
  BY LastDayShape
<1>2. Through(rs, d) = rs
  BY <1>1 DEF Through
<1>. HIDE DEF d
<1>3. /\ open \subseteq Recorded(marks)
      /\ Point(rs, d).value = Realized(rs) + SumOf(Worth(marks), open)
  <2>1. CASE open \subseteq Recorded(marks)
    <3>1. Point(rs, d) = [withheld |-> FALSE, value |-> Realized(rs) + SumOf(Worth(marks), open)]
      BY <2>1, <1>2 DEF Point
    <3>. QED  BY <2>1, <3>1
  <2>2. CASE ~(open \subseteq Recorded(marks))
    <3>1. Point(rs, d) = [withheld |-> TRUE, value |-> 0]
      BY <2>2, <1>2 DEF Point
    <3>2. Point(rs, d).withheld
      BY <3>1
    <3>. QED  BY <3>2 DEF d
  <2>. QED  BY <2>1, <2>2
<1>4. Ordered(MarkRows(rs)) /\ Ordered(marks) /\ marks \subseteq MarkRows(rs)
  BY DEF Ordered, MarkRows, MarksOn
<1>5. open \subseteq Recorded(MarkRows(rs))
  BY <1>3, <1>4 DEF Recorded
<1>6. ASSUME NEW l \in open PROVE LatestRow(marks, l) = LatestRow(MarkRows(rs), l)
  <2>. DEFINE m == LatestRow(MarkRows(rs), l)
  <2>1. /\ m \in RowsOf(MarkRows(rs), l)
        /\ \A o \in RowsOf(MarkRows(rs), l) : o.at <= m.at
    BY <1>4, <1>5, <1>6, LatestShape
  <2>2. PICK t \in marks : t.lot = l
    BY <1>3, <1>6 DEF Recorded
  <2>. HIDE DEF m
  <2>3. /\ m \in rs /\ t \in rs /\ t.at <= m.at /\ DayOf(t.at) = d
        /\ m.at \in 0 .. MaxAt /\ t.at \in 0 .. MaxAt
    BY <2>1, <2>2 DEF RowsOf, MarkRows, MarksOn, Ordered, RecordRow
  <2>4. d <= DayOf(m.at) /\ DayOf(m.at) <= d /\ DayOf(m.at) \in Nat
    BY <2>3, <1>1, DayShape
  <2>5. DayOf(m.at) = d
    BY <2>4, <1>1
  <2>6. m \in RowsOf(marks, l)
    BY <2>1, <2>5 DEF RowsOf, MarksOn
  <2>7. \A o \in RowsOf(marks, l) : o.at <= m.at
    BY <2>1, <1>4 DEF RowsOf
  <2>8. LatestRow(marks, l) = m
    BY <2>6, <2>7, <1>4, LatestIs
  <2>. QED  BY <2>8 DEF m
<1>7. \A l \in open : Worth(marks)[l] = LatestRow(MarkRows(rs), l).pnl
  BY <1>3, <1>6 DEF Worth
<1>8. SumOf(Worth(marks), open)
        = SumOf([l \in open |-> LatestRow(MarkRows(rs), l).pnl], open)
  <2>. DEFINE f == [l \in open |-> Worth(marks)[l]]
  <2>. DEFINE g == [l \in open |-> [k \in open |-> LatestRow(MarkRows(rs), k).pnl][l]]
  <2>1. f = g
    BY <1>7
  <2>. HIDE DEF f, g
  <2>2. SumFunctionOnSet(f, open) = SumFunctionOnSet(g, open)
    BY <2>1
  <2>. QED  BY <2>2 DEF SumOf, f, g
<1>. QED  BY <1>3, <1>5, <1>8 DEF d

\* When nobody wrote, the positions are the open lots and their marks the newest.
LEMMA Adds ==
  ASSUME TrackRecordInductive, Complete, touched = {}, report.rows # {},
         ~Stats(report.rows).curve[LastDay(report.rows)].withheld
  PROVE  Stats(report.rows).curve[LastDay(report.rows)].value
           = Stats(report.rows).totalRealizedPnl
               + SumOf([l \in report.lots |-> report.mark[l].pnl], report.lots)
<1>. DEFINE rs == report.rows
<1>1. /\ StillKnows /\ Ordered(rs) /\ rs # {}
      /\ report.unmarked = {} /\ touched = {}
  BY DEF TrackRecordInductive, Complete, StillKnows, Ordered
<1>2. Stats(rs).curve[LastDay(rs)] = Point(rs, LastDay(rs)) /\ Stats(rs).totalRealizedPnl = Realized(rs)
  BY <1>1, LastDayShape DEF Stats, Curve
<1>3. /\ StillOpen(rs) \subseteq Recorded(MarkRows(rs))
      /\ Point(rs, LastDay(rs)).value
           = Realized(rs) + SumOf([l \in StillOpen(rs) |-> LatestRow(MarkRows(rs), l).pnl],
                                  StillOpen(rs))
  BY <1>1, <1>2, CurveEnds
<1>4. report.lots = StillOpen(rs)
  <2>1. report.lots \subseteq Entries
    BY <1>1 DEF StillKnows, TrackRecordInductive, Ordered, Recorded, RecordRow
  <2>2. StillOpen(rs) \subseteq Entries
    BY <1>1 DEF StillOpen, Ordered, Recorded, RecordRow
  <2>. QED  BY <1>1, <2>1, <2>2 DEF StillKnows
<1>5. \A l \in report.lots : report.mark[l] = LatestRow(MarkRows(rs), l)
  BY <1>1, <1>3, <1>4 DEF StillKnows
<1>6. [l \in report.lots |-> report.mark[l].pnl]
        = [l \in StillOpen(rs) |-> LatestRow(MarkRows(rs), l).pnl]
  BY <1>4, <1>5
<1>. QED  BY <1>2, <1>3, <1>4, <1>6

LEMMA RequestIsRight ==
  ASSUME TrackRecordInductive
  PROVE  ReportAddsUp
<1>1. SUFFICES ASSUME Complete
               PROVE  /\ \A l \in Entries \ touched : l \in report.lots <=> l \in StillOpen(report.rows)
                      /\ \A l \in report.lots :
                           report.mark[l] # NoMark => report.opened[l] <= report.mark[l].at
                      /\ touched = {} /\ report.rows # {}
                           /\ ~Stats(report.rows).curve[LastDay(report.rows)].withheld
                           => Stats(report.rows).curve[LastDay(report.rows)].value
                                = Stats(report.rows).totalRealizedPnl
                                    + SumOf([l \in report.lots |-> report.mark[l].pnl], report.lots)
  BY DEF ReportAddsUp
<1>2. StillKnows /\ report.undated = {}
  BY <1>1 DEF TrackRecordInductive, Complete
<1>. QED  BY <1>1, <1>2, Adds DEF StillKnows

(* What a subscriber is sent adds up, for any lots, results and days and      *)
(* however writers interleave with its reads (readSubscriberTrackRecord).     *)
THEOREM ReportsAddUp == TrackRecordSpec => []ReportAddsUp
<1>1. TrackRecordInit => TrackRecordInductive
  BY RequestStarts
<1>2. TrackRecordInductive /\ [TrackRecordNext]_trackRecord => TrackRecordInductive'
  BY RequestSteps
<1>3. TrackRecordInductive => ReportAddsUp
  BY RequestIsRight
<1>. QED  BY <1>1, <1>2, <1>3, PTL DEF TrackRecordSpec
=============================================================================
