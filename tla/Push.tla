-------------------------------- MODULE Push ---------------------------------
(* Push notifications: the owner's devices register their APNs tokens, a new  *)
(* signal is sent to every registered token at once, and a token APNs reports *)
(* as gone is pruned (push/notify.ts, push/apns.ts, db/devices.ts,            *)
(* routes/devices.ts).                                                        *)
(*                                                                            *)
(* A token works against one of the two APNs environments, while the app is   *)
(* installed. Content, collapsing, the provider token and the HTTP/2 session  *)
(* decide whether a push arrives, never whether a row is kept: they are among *)
(* the failures any send may meet.                                            *)
CONSTANTS Tokens,       \* APNs device tokens
          Dispatches    \* notifyNewSignal calls with sends in flight

VARIABLES devices,      \* the environment a token is registered for, or "none"
          home,         \* the environment it works against
          installed,    \* tokens of apps that are installed
          sends,        \* per dispatch and token: where its send stands
          owed          \* history: see Register

push == <<devices, home, installed, sends, owed>>

Environments == {"sandbox", "production"}

(* A send is on its way to an environment, or answered "gone" and about to    *)
(* delete the row; "none" before and after.                                   *)
SendStates == Environments \cup {"gone", "none"}
Listless == [t \in Tokens |-> "none"]

PushInit == /\ devices = Listless
            /\ home \in [Tokens -> Environments]
            /\ installed = Tokens
            /\ sends = [d \in Dispatches |-> Listless]
            /\ owed = {}

InFlight(t) == \E d \in Dispatches : sends[d][t] # "none"

(* A send about the token that APNs has called gone, or that went where the   *)
(* token does not work.                                                       *)
Condemned(t) == \E d \in Dispatches : sends[d][t] \notin {home[t], "none"}

------------------------------------------------------------------------------
(* POST /devices upserts; the app calls it on every launch and names its      *)
(* environment, or leaves it to the default, which may be the wrong one. What *)
(* is owed a place in the table is a token registered where it works, by an   *)
(* app still there, when no older send was about to prune it.                 *)
Register(t, env) ==
  /\ t \in installed
  /\ devices' = [devices EXCEPT ![t] = env]
  /\ owed' = IF env = home[t] /\ ~Condemned(t) THEN owed \cup {t} ELSE owed \ {t}
  /\ UNCHANGED <<home, installed, sends>>

Uninstall(t) == /\ t \in installed
                /\ installed' = installed \ {t}
                /\ owed' = owed \ {t}
                /\ UNCHANGED <<devices, home, sends>>

Reinstall(t) == /\ t \notin installed
                /\ installed' = installed \cup {t}
                /\ UNCHANGED <<devices, home, sends, owed>>

------------------------------------------------------------------------------
(* notifyNewSignal: one send for each row there is, all at once.              *)
NotifyNewSignal(d) ==
  /\ sends[d] = Listless
  /\ devices # Listless
  /\ sends' = [sends EXCEPT ![d] = devices]
  /\ UNCHANGED <<devices, home, installed, owed>>

(* What APNs may say of a token. Anything may fail in passing.                *)
Answers(t, env) ==
  {"429", "503", "403", "timeout", "refused"}
    \cup (IF env # home[t] THEN {"400 BadDeviceToken"}
          ELSE IF t \notin installed THEN {"410"} ELSE {"200"})

(* interpret, and what send settles with when there is no answer. Bug: a      *)
(* push that failed is a token that is gone.                                  *)
Unregistered_AnyFailure(answer) == answer # "200"
Unregistered(answer) == answer \in {"410", "400 BadDeviceToken"}

Settle(d, t) ==
  /\ sends[d][t] \in Environments
  /\ \E answer \in Answers(t, sends[d][t]) :
       sends' = [sends EXCEPT ![d][t] = IF Unregistered(answer) THEN "gone" ELSE "none"]
  /\ UNCHANGED <<devices, home, installed, owed>>

(* deleteDevice, whatever the row says by now.                                *)
DeleteDevice(d, t) ==
  /\ sends[d][t] = "gone"
  /\ devices' = [devices EXCEPT ![t] = "none"]
  /\ sends' = [sends EXCEPT ![d][t] = "none"]
  /\ UNCHANGED <<home, installed, owed>>

(* It fails, and so does the dispatch, which is logged and forgotten: the row *)
(* stays, and the sends to other devices go on unwatched.                     *)
DeleteFails(d, t) ==
  /\ sends[d][t] = "gone"
  /\ sends' = [sends EXCEPT ![d][t] = "none"]
  /\ UNCHANGED <<devices, home, installed, owed>>

(* The process ends, and its sends with it.                                   *)
Stop == /\ \E t \in Tokens : InFlight(t)
        /\ sends' = [d \in Dispatches |-> Listless]
        /\ UNCHANGED <<devices, home, installed, owed>>

PushNext == \/ \E t \in Tokens : \/ \E env \in Environments : Register(t, env)
                                 \/ Uninstall(t) \/ Reinstall(t)
            \/ \E d \in Dispatches : NotifyNewSignal(d)
            \/ \E d \in Dispatches, t \in Tokens : Settle(d, t) \/ DeleteDevice(d, t) \/ DeleteFails(d, t)
            \/ Stop

PushSpec == PushInit /\ [][PushNext]_push

------------------------------------------------------------------------------
PushTypeOK ==
  /\ devices \in [Tokens -> Environments \cup {"none"}]
  /\ home \in [Tokens -> Environments]
  /\ installed \subseteq Tokens
  /\ sends \in [Dispatches -> [Tokens -> SendStates]]
  /\ owed \subseteq Tokens

(* The owner's phone is never forgotten while it works: through concurrent    *)
(* dispatches, failures of every kind, wrong and renewed registrations, a     *)
(* token is pruned for what is true of it (apns.ts:201-208, notify.ts:80). The*)
(* one exception is a token that registers anew while a send that finds its   *)
(* older registration dead is on its way (notify.ts:81 deletes whatever row   *)
(* is there by then).                                                         *)
OnlyDeadAreForgotten ==
  \A t \in owed : devices[t] = home[t]

(* The invariant the proofs carry: what is under way about such a token can   *)
(* only be good or passing news.                                              *)
PushInductive ==
  /\ PushTypeOK
  /\ OnlyDeadAreForgotten
  /\ \A t \in owed : /\ t \in installed
                     /\ \A d \in Dispatches : sends[d][t] \in {home[t], "none"}
==============================================================================
