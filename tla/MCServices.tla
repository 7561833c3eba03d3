------------------------------ MODULE MCServices ------------------------------
(* Small instances of Subscribers, Feed, Connection and Push, which share no  *)
(* state. They are explored in one run and one at a time: an initial state    *)
(* chooses the component that runs, so the run has the sum of their states    *)
(* and not the product.                                                       *)
EXTENDS Subscribers, Feed, Connection, Push, TLC

VARIABLE component      \* the one that runs

services == <<component, accounts, feed, connection, push>>

Init == /\ component \in {"subscribers", "feed", "connection", "push"}
        /\ SubscribersInit /\ FeedInit /\ ConnectionInit /\ PushInit
        /\ component # "push" => \A t \in Tokens : home[t] = "production"
        /\ component # "subscribers" => served = {CHOOSE v \in Versions : TRUE}

Next == /\ UNCHANGED component
        /\ \/ /\ component = "subscribers" /\ SubscribersNext
              /\ UNCHANGED <<feed, connection, push>>
           \/ /\ component = "feed" /\ FeedNext
              /\ UNCHANGED <<accounts, connection, push>>
           \/ /\ component = "connection" /\ ConnectionNext
              /\ UNCHANGED <<accounts, feed, push>>
           \/ /\ component = "push" /\ PushNext
              /\ UNCHANGED <<accounts, feed, connection>>

Spec == Init /\ [][Next]_services

Symmetry == Permutations(Subjects)
==============================================================================
