---------------------------- MODULE SignalRecord ----------------------------
(***************************************************************************)
(* What Ollie promises about its record, with no processes in it.  Every   *)
(* proposed signal is decided at most once; only an approved signal is     *)
(* ever filled; only a filled signal is ever shown to subscribers, and     *)
(* once shown it stays shown; a position (a lot, named by its entry        *)
(* signal) opens only behind a filled buy and closes only behind a filled  *)
(* sell.  Nothing is ever taken back.                                      *)
(***************************************************************************)
CONSTANTS Signals,   \* every signal that may ever be proposed
          Side       \* [Signals -> {"buy", "sell"}]

VARIABLES decision,  \* [Signals -> Decisions]
          filled,    \* the signals with a fill
          visible,   \* the signals subscribers can read
          opened,    \* the entry signals whose lot was opened
          closed     \* the entry signals whose lot was closed

vars == <<decision, filled, visible, opened, closed>>

Decisions == {"none", "pending", "approved", "rejected", "expired"}

Init ==
  /\ decision = [s \in Signals |-> "none"]
  /\ filled = {} /\ visible = {} /\ opened = {} /\ closed = {}

Propose(s) ==
  /\ decision[s] = "none"
  /\ decision' = [decision EXCEPT ![s] = "pending"]
  /\ UNCHANGED <<filled, visible, opened, closed>>

Decide(s, to) ==
  /\ decision[s] = "pending"
  /\ decision' = [decision EXCEPT ![s] = to]
  /\ UNCHANGED <<filled, visible, opened, closed>>

Fill(s) ==
  /\ decision[s] = "approved"
  /\ filled' = filled \cup {s}
  /\ UNCHANGED <<decision, visible, opened, closed>>

Show(s) ==
  /\ s \in filled
  /\ visible' = visible \cup {s}
  /\ UNCHANGED <<decision, filled, opened, closed>>

OpenLot(s) ==
  /\ s \in filled /\ Side[s] = "buy"
  /\ opened' = opened \cup {s}
  /\ UNCHANGED <<decision, filled, visible, closed>>

CloseLots(s, lots) ==
  /\ s \in filled /\ Side[s] = "sell"
  /\ lots \subseteq opened
  /\ closed' = closed \cup lots
  /\ UNCHANGED <<decision, filled, visible, opened>>

Next ==
  \E s \in Signals :
    \/ Propose(s)
    \/ \E to \in {"approved", "rejected", "expired"} : Decide(s, to)
    \/ Fill(s)
    \/ Show(s)
    \/ OpenLot(s)
    \/ \E lots \in SUBSET Signals : CloseLots(s, lots)

Spec == Init /\ [][Next]_vars
=============================================================================
