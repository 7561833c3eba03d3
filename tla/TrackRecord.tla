----------------------------- MODULE TrackRecord -----------------------------
(* The published track record: figures computed from the append-only rows at  *)
(* each request (orchestrator/trackRecordStats.ts), and the subscriber's view *)
(* of them, which adds the open positions from reads of their own             *)
(* (signal-server/routes/feed.ts, db/trackRecord.ts).                         *)
(*                                                                            *)
(* `at` is a row's place in the order (recorded_at, id). Rows need not be     *)
(* written in that order: their writers take the instant before their awaits  *)
(* (LotLedger), so a late mark may even follow a close.                       *)
EXTENDS Integers, FiniteSets, FiniteSetsExt

CONSTANTS Entries,      \* entry signals, each with a lot
          Results,      \* what a mark or a close may be worth
          PerDay,       \* instants a day
          MaxAt,        \* bound: instants are 0..MaxAt
          MaxRows       \* bound: rows ever written

ASSUME TrackRecordAssumption ==
  /\ Results \subseteq Int
  /\ PerDay \in Nat \ {0} /\ MaxAt \in Nat /\ MaxRows \in Nat

VARIABLES written,      \* the table
          report,       \* a subscriber's request and what it has read so far
          touched       \* history: lots with a row written since it read the table

trackRecord == <<written, report, touched>>

RecordRow == [at : 0..MaxAt, lot : Entries, kind : {"entry", "mark", "close"}, pnl : Int]
NoMark    == [kind |-> "none", pnl |-> 0]

NoReport == [pc |-> "idle", rows |-> {}, lots |-> {}, unmarked |-> {}, undated |-> {},
             mark |-> [l \in {} |-> NoMark], opened |-> [l \in {} |-> 0]]

TrackRecordInit == /\ written = {}
                   /\ report = NoReport
                   /\ touched = {}

------------------------------------------------------------------------------
(* computeTrackRecord.                                                        *)
DayOf(at) == at \div PerDay

Recorded(rs)  == {r.lot : r \in rs}
RowsOf(rs, l) == {r \in rs : r.lot = l}
MarkRows(rs)  == {r \in rs : r.kind = "mark"}
DaysOf(rs)    == {DayOf(r.at) : r \in rs}

(* A later row supersedes the ones before it.                                 *)
LatestRow(rs, l) ==
  CHOOSE r \in RowsOf(rs, l) : \A o \in RowsOf(rs, l) : o.at <= r.at

ClosedLots(rs) == {l \in Recorded(rs) : LatestRow(rs, l).kind = "close"}
StillOpen(rs)  == Recorded(rs) \ ClosedLots(rs)

SumOf(value, lots) == SumFunctionOnSet([l \in lots |-> value[l]], lots)
Worth(rs)     == [l \in Recorded(rs) |-> LatestRow(rs, l).pnl]
Realized(rs)  == SumOf(Worth(rs), ClosedLots(rs))

(* Bug: a lot's state is read from the whole table, not as of the day.        *)
Through_Everything(rs, d) == rs
Through(rs, d) == {r \in rs : DayOf(r.at) <= d}

MarksOn(rs, d) == {r \in MarkRows(rs) : DayOf(r.at) = d}

(* buildCurve: no partial sums, and no stale mark of a lot closed that day.   *)
Point(rs, d) ==
  LET open  == StillOpen(Through(rs, d))
      marks == MarksOn(rs, d)
  IN  IF open \subseteq Recorded(marks)
      THEN [withheld |-> FALSE,
            value |-> Realized(Through(rs, d)) + SumOf(Worth(marks), open)]
      ELSE [withheld |-> TRUE, value |-> 0]

Curve(rs) == [d \in DaysOf(rs) |-> Point(rs, d)]

Stats(rs) == [closedTrades     |-> Cardinality(ClosedLots(rs)),
              openPositions    |-> Cardinality(StillOpen(rs)),
              wins             |-> Cardinality({l \in ClosedLots(rs) : Worth(rs)[l] > 0}),
              totalRealizedPnl |-> Realized(rs),
              curve            |-> Curve(rs)]

------------------------------------------------------------------------------
(* The writers, as far as a reader can tell: a lot's first row is its entry.  *)
Write(l, kind, at, pnl) ==
  /\ Cardinality(written) < MaxRows
  /\ \A r \in written : r.at # at
  /\ written' = written \cup {[at |-> at, lot |-> l, kind |-> kind, pnl |-> pnl]}
  /\ touched' = IF report.pc = "idle" THEN {} ELSE touched \cup {l}
  /\ UNCHANGED report

OpenEntry(l, at) == l \notin Recorded(written) /\ Write(l, "entry", at, 0)

Follow(l, kind, at, pnl) == /\ l \in Recorded(written)
                            /\ kind \in {"mark", "close"}
                            /\ Write(l, kind, at, pnl)

------------------------------------------------------------------------------
(* readSubscriberTrackRecord. The statistics come from one read of the table, *)
ReadRows ==
  /\ report.pc = "idle"
  /\ report' = [NoReport EXCEPT !.pc = "listing", !.rows = written]
  /\ UNCHANGED <<written, touched>>

(* the open positions from a second (listOpenLots: the newest row of each     *)
(* signal first, its status after),                                           *)
(* Bug: WHERE status = 'open' before DISTINCT ON.                             *)
OpenPositions_Resurrected(rs) == Recorded({r \in rs : r.kind # "close"})
OpenPositions(rs) == {l \in Recorded(rs) : LatestRow(rs, l).kind # "close"}

ListPositions ==
  /\ report.pc = "listing"
  /\ LET lots == OpenPositions(written)
     IN  report' = [report EXCEPT !.pc = "reading", !.lots = lots,
                                  !.unmarked = lots, !.undated = lots,
                                  !.mark = [l \in lots |-> NoMark],
                                  !.opened = [l \in lots |-> 0]]
  /\ UNCHANGED <<written, touched>>

(* and for each of them at once: the newest mark (latestMarkForLot), if any,  *)
ReadMark(l) ==
  /\ report.pc = "reading" /\ l \in report.unmarked
  /\ report' = [report EXCEPT
       !.unmarked = @ \ {l},
       !.mark[l] = IF l \in Recorded(MarkRows(written))
                   THEN LatestRow(MarkRows(written), l) ELSE NoMark]
  /\ UNCHANGED <<written, touched>>

(* then the earliest row (lotOpenedAt).                                       *)
ReadOpening(l) ==
  /\ report.pc = "reading" /\ l \in report.undated \ report.unmarked
  /\ report' = [report EXCEPT
       !.undated = @ \ {l},
       !.opened[l] = CHOOSE at \in {r.at : r \in RowsOf(written, l)} :
                       \A r \in RowsOf(written, l) : at <= r.at]
  /\ UNCHANGED <<written, touched>>

Complete == report.pc = "reading" /\ report.undated = {}

SendReport == /\ Complete
              /\ report' = NoReport
              /\ touched' = {}
              /\ UNCHANGED written

TrackRecordNext ==
  \/ \E l \in Entries, at \in 0..MaxAt : OpenEntry(l, at)
  \/ \E l \in Entries, kind \in {"mark", "close"}, at \in 0..MaxAt, pnl \in Results :
       Follow(l, kind, at, pnl)
  \/ ReadRows \/ ListPositions \/ SendReport
  \/ \E l \in Entries : ReadMark(l) \/ ReadOpening(l)

TrackRecordSpec == TrackRecordInit /\ [][TrackRecordNext]_trackRecord

------------------------------------------------------------------------------
(* What was published about a day that is over stays as it was: a row written *)
(* for a later day changes no earlier point of the curve (buildCurve).        *)
CurveStands ==
  [][\A d \in DaysOf(written) :
       (\A r \in written' \ written : d < DayOf(r.at))
         => Curve(written')[d] = Curve(written)[d]]_trackRecord

(* The curve's last point, if there is one to show.                           *)
LastDay(rs) == CHOOSE d \in DaysOf(rs) : \A e \in DaysOf(rs) : e <= d

(* What a subscriber is sent adds up, although it comes from several reads    *)
(* with writers at work between them (readSubscriberTrackRecord). Of a lot    *)
(* nobody wrote to meanwhile, the position list says what the statistics      *)
(* counted; no mark is dated before the opening of its lot, whoever wrote;    *)
(* and if nobody wrote at all, the last point of the curve is the realized    *)
(* total plus the marks shown.                                                *)
ReportAddsUp ==
  LET stats == Stats(report.rows)
      last  == stats.curve[LastDay(report.rows)]
  IN  Complete =>
        /\ \A l \in Entries \ touched : l \in report.lots <=> l \in StillOpen(report.rows)
        /\ \A l \in report.lots :
             report.mark[l] # NoMark => report.opened[l] <= report.mark[l].at
        /\ touched = {} /\ report.rows # {} /\ ~last.withheld
             => last.value = stats.totalRealizedPnl
                               + SumOf([l \in report.lots |-> report.mark[l].pnl], report.lots)
==============================================================================
