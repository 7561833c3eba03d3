-------------------------------- MODULE Feed ---------------------------------
(* The subscriber feed: who stamps a signal published, and a reader walking   *)
(* the feed page by page meanwhile (db/signals.ts, orchestrator/publish.ts,   *)
(* routes/signals.ts, signal-server/routes/feed.ts).                          *)
(*                                                                            *)
(* published_at is the caller's clock when it asked, not the order in which   *)
(* the updates land. The sweep stamps its whole backlog with one instant.     *)
EXTENDS Naturals, FiniteSets

CONSTANTS N,            \* signals are 1..N, ordered as their ids
          PageSize,     \* limit
          MaxTime       \* bound: the clock's last instant

ASSUME FeedAssumption ==
  N \in Nat /\ PageSize \in Nat \ {0} /\ MaxTime \in Nat \ {0}

VARIABLES clock,
          filled,       \* approved signals with an execution row
          stamp,        \* what the decision route is about to publish with
          published,    \* published_at, 0: published = false
          sweep,        \* the publication sweep: its instant and its backlog
          walk          \* the reader: next page's before, what it was shown

feed == <<clock, filled, stamp, published, sweep, walk>>

Signals == 1..N
Newest  == MaxTime + 1      \* no `before`: later than any instant
Unasked == MaxTime + 1      \* the route has its fill and has not asked yet
Walking == {"idle", "reading", "done"}

Published == {s \in Signals : published[s] # 0}
Idle      == [now |-> 0, backlog |-> {}]
NoWalk    == [pc |-> "idle", before |-> 0, due |-> {}, seen |-> {}, repeated |-> FALSE]

FeedInit == /\ clock = 1
            /\ filled = {}
            /\ stamp = [s \in Signals |-> 0]
            /\ published = [s \in Signals |-> 0]
            /\ sweep = Idle
            /\ walk = NoWalk

Tick == /\ clock < MaxTime
        /\ clock' = clock + 1
        /\ UNCHANGED <<filled, stamp, published, sweep, walk>>

------------------------------------------------------------------------------
(* The approving fill's execution row ...                                     *)
Fill(s) == /\ s \notin filled
           /\ filled' = filled \cup {s}
           /\ stamp' = [stamp EXCEPT ![s] = Unasked]
           /\ UNCHANGED <<clock, published, sweep, walk>>

(* ... then publishSignal, whose `now` is the moment it is called ...         *)
Ask(s) == /\ stamp[s] = Unasked
          /\ stamp' = [stamp EXCEPT ![s] = clock]
          /\ UNCHANGED <<clock, filled, published, sweep, walk>>

(* updateMany where published = false: whoever comes second changes nothing.  *)
Flip(s, at) == published' = IF published[s] = 0 THEN [published EXCEPT ![s] = at]
                            ELSE published

(* ... and whose update lands later, or fails, or its process dies first.     *)
RoutePublishes(s) ==
  /\ stamp[s] # 0
  /\ \/ stamp[s] # Unasked /\ Flip(s, stamp[s])
     \/ UNCHANGED published
  /\ stamp' = [stamp EXCEPT ![s] = 0]
  /\ UNCHANGED <<clock, filled, sweep, walk>>

(* listFilledUnpublishedSignals, then one `now` for all of them.              *)
StartSweep ==
  /\ sweep.backlog = {}
  /\ filled \ Published # {}
  /\ sweep' = [now |-> clock, backlog |-> filled \ Published]
  /\ UNCHANGED <<clock, filled, stamp, published, walk>>

(* One signal after another; the failure of one leaves it to a later sweep.   *)
SweepPublishes(s) ==
  /\ s \in sweep.backlog
  /\ Flip(s, sweep.now) \/ UNCHANGED published
  /\ sweep' = IF sweep.backlog = {s} THEN Idle
              ELSE [sweep EXCEPT !.backlog = @ \ {s}]
  /\ UNCHANGED <<clock, filled, stamp, walk>>

------------------------------------------------------------------------------
(* listPublishedSignals: published_at before the cursor, newest first, ties   *)
(* by id, `limit` of them.                                                    *)
Newer(t, s) == \/ published[t] > published[s]
               \/ published[t] = published[s] /\ t > s

(* Bug: `before` taken inclusively.                                           *)
Before_Inclusive(before) == {s \in Published : published[s] <= before}
Before(before) == {s \in Published : published[s] < before}

Page(before) ==
  {s \in Before(before) : Cardinality({t \in Before(before) : Newer(t, s)}) < PageSize}

(* readFeed's next_before: the last row's instant, null (0) on a short page.  *)
NextBefore(page) ==
  IF Cardinality(page) < PageSize THEN 0
  ELSE published[CHOOSE s \in page : \A t \in page \ {s} : Newer(t, s)]

(* GET /feed without a cursor, and again with the one it handed out.          *)
StartWalk == /\ walk.pc # "reading"
             /\ walk' = [NoWalk EXCEPT !.pc = "reading", !.before = Newest, !.due = Published]
             /\ UNCHANGED <<clock, filled, stamp, published, sweep>>

ReadPage ==
  /\ walk.pc = "reading"
  /\ LET page == Page(walk.before)
         next == NextBefore(page)
     IN walk' = [walk EXCEPT !.pc = IF next = 0 THEN "done" ELSE "reading",
                             !.before = next,
                             !.seen = @ \cup page,
                             !.repeated = @ \/ page \cap walk.seen # {}]
  /\ UNCHANGED <<clock, filled, stamp, published, sweep>>

FeedNext == \/ Tick \/ StartSweep \/ StartWalk \/ ReadPage
            \/ \E s \in Signals : Fill(s) \/ Ask(s) \/ RoutePublishes(s) \/ SweepPublishes(s)

FeedSpec == FeedInit /\ [][FeedNext]_feed

------------------------------------------------------------------------------
FeedTypeOK ==
  /\ clock \in 1..MaxTime
  /\ filled \subseteq Signals
  /\ stamp \in [Signals -> 0..Unasked]
  /\ published \in [Signals -> 0..MaxTime]
  /\ sweep \in [now : 0..MaxTime, backlog : SUBSET Signals]
  /\ sweep.backlog # {} => sweep.now # 0
  /\ walk \in [pc : Walking, before : 0..Newest, due : SUBSET Signals,
               seen : SUBSET Signals, repeated : BOOLEAN]

TiesAbsent == \A s, t \in Published : published[s] = published[t] => s = t

(* Walking the feed to its end shows no signal twice, whatever is published   *)
(* behind or ahead of the cursor meanwhile, and leaves out none that was      *)
(* published when the walk began, provided no two signals carry the same      *)
(* instant (signals.ts:164-168: "so a page stays stable").                    *)
WalkIsExact ==
  /\ ~walk.repeated
  /\ walk.pc = "done" /\ TiesAbsent => walk.due \subseteq walk.seen

(* The walk that forgets the proviso: a cursor on published_at alone is a     *)
(* stable page for every feed the program can publish.                        *)
EveryWalkIsComplete == walk.pc = "done" => walk.due \subseteq walk.seen

(* The invariant the proofs carry: everything at or after the cursor has been *)
(* shown, if it was due and ties with nothing, and nothing before it has.     *)
CursorInv ==
  /\ walk.due \subseteq Published
  /\ walk.pc = "reading" =>
       /\ walk.before # 0
       /\ \A s \in walk.seen : published[s] >= walk.before
  /\ walk.pc # "idle" /\ TiesAbsent =>
       \A s \in walk.due : published[s] >= walk.before => s \in walk.seen

FeedInductive == FeedTypeOK /\ CursorInv /\ WalkIsExact
==============================================================================
