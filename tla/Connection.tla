----------------------------- MODULE Connection ------------------------------
(* The one broker connection of the orchestrator and its OAuth credential     *)
(* (robinhood/mcpClient.ts, robinhood/oauth.ts, db/oauthState.ts).            *)
(*                                                                            *)
(* Concurrent calls share one session and one attempt to open it; a call that *)
(* fails for a passing reason drops the session and tries again. The broker   *)
(* rotates the refresh token on use, so the stored one is replaced whenever   *)
(* the SDK refreshes, which any request of any call may have to do. A refresh *)
(* that fails makes the SDK prepare an authorization in a browser, which here *)
(* only throws, but not before its verifier was written to the same row.      *)
EXTENDS Naturals, FiniteSets

CONSTANTS Calls,        \* calls running at once
          Refs,         \* idempotency keys of placements
          MaxAttempts,  \* MAX_ATTEMPTS
          MaxSessions,  \* bound: sessions ever opened
          MaxIssued     \* bound: refresh tokens ever issued

VARIABLES up,           \* the process has booted
          client,       \* the session in use, 0: none
          connecting,   \* the attempt callers share, 0: none
          opening,      \* attempts in flight
          sessions,     \* sessions ever opened
          account,      \* the trading account has been resolved
          call,         \* what each call is doing
          orders,       \* the broker's orders: placement and key
          stored,       \* the refresh token of the oauth_state row, 0: no row
          issued,       \* the refresh token the broker honours
          lost,         \* a rotated token never reached the row
          overwritten   \* saveCodeVerifier put an older token back in the row

connection == <<up, client, connecting, opening, sessions, account, call, orders,
                stored, issued, lost, overwritten>>

CallSteps == {"idle", "connect", "opening", "waiting", "sent", "asleep",
              "load", "refresh", "store", "save", "verifier", "writeBack"}
NoCall == [pc |-> "idle", op |-> "read", stage |-> "tool", attempt |-> 0, on |-> 0,
           token |-> 0, retried |-> FALSE, back |-> "sent"]
Seed == 1               \* RH_OAUTH_REFRESH_TOKEN, as pasted at deploy time

ConnectionInit == /\ up = FALSE
                  /\ client = 0 /\ connecting = 0 /\ opening = {} /\ sessions = 0
                  /\ account = FALSE
                  /\ call = [c \in Calls |-> NoCall]
                  /\ orders = {}
                  /\ stored = 0 /\ issued = Seed
                  /\ lost = FALSE /\ overwritten = FALSE

Storing    == {"store", "save"}     \* it holds a token the broker has just issued
session    == <<client, connecting, opening, sessions>>
credential == <<stored, issued, lost, overwritten>>

Become(c, changes) == call' = [call EXCEPT ![c] = changes]
Goto(c, step)      == call' = [call EXCEPT ![c].pc = step]
Return(c)          == call' = [call EXCEPT ![c] = NoCall]

------------------------------------------------------------------------------
(* bootstrapOAuthState: the environment seeds the row, once. Bug: whenever    *)
(* the process boots.                                                         *)
Seeded_Always == Seed
Seeded == IF stored = 0 THEN Seed ELSE stored

Boot == /\ ~up
        /\ up' = TRUE
        /\ stored' = Seeded
        /\ UNCHANGED <<session, account, call, orders, issued, lost, overwritten>>

(* The process ends; what its calls held in memory is gone.                   *)
Shutdown == /\ up
            /\ up' = FALSE
            /\ client' = 0 /\ connecting' = 0 /\ opening' = {}
            /\ account' = FALSE
            /\ call' = [c \in Calls |-> NoCall]
            /\ lost' = (lost \/ \E c \in Calls : call[c].pc \in Storing)
            /\ UNCHANGED <<sessions, orders, stored, issued, overwritten>>

------------------------------------------------------------------------------
(* A read or a placement begins; getAccountNumber asks for the account first  *)
(* when nobody has. A read of quotes or bars does not need it.                *)
Begin(c, op, scoped) ==
  /\ up
  /\ call[c].pc = "idle"
  /\ op \in Refs => scoped /\ \A d \in Calls : call[d].op # op
  /\ op \in Refs => ~\E o \in orders : o.ref = op
  /\ Become(c, [NoCall EXCEPT !.pc = "connect", !.op = op, !.attempt = 1,
                              !.stage = IF scoped /\ ~account THEN "accounts" ELSE "tool"])
  /\ UNCHANGED <<up, session, account, orders, credential>>

(* Whether a caller that finds no session joins the attempt under way.        *)
(* Bug: it opens its own.                                                     *)
Shares_Never == FALSE
Shares == connecting # 0

(* connect: the session there is, the attempt there is, or an attempt.        *)
Connect(c) ==
  /\ call[c].pc = "connect"
  /\ \/ /\ client # 0
        /\ Become(c, [call[c] EXCEPT !.pc = "sent", !.on = client])
        /\ UNCHANGED session
     \/ /\ client = 0 /\ Shares
        /\ Become(c, [call[c] EXCEPT !.pc = "waiting", !.on = connecting])
        /\ UNCHANGED session
     \/ /\ client = 0 /\ ~Shares
        /\ sessions < MaxSessions
        /\ sessions' = sessions + 1
        /\ connecting' = sessions + 1
        /\ opening' = opening \cup {sessions + 1}
        /\ Become(c, [call[c] EXCEPT !.pc = "opening", !.on = sessions + 1])
        /\ UNCHANGED client
  /\ UNCHANGED <<up, account, orders, credential>>

Sharers(k) == {c \in Calls : call[c].pc \in {"opening", "waiting"} /\ call[c].on = k}

(* openConnection and resolveToolNames come back to everyone who awaits them. *)
Opened(c) ==
  /\ call[c].pc = "opening"
  /\ client' = call[c].on
  /\ connecting' = 0
  /\ opening' = opening \ {call[c].on}
  /\ call' = [d \in Calls |-> IF d \in Sharers(call[c].on)
                              THEN [call[d] EXCEPT !.pc = "sent"] ELSE call[d]]
  /\ UNCHANGED <<up, sessions, account, orders, credential>>

(* A call that failed for a passing reason drops whatever session there is    *)
(* and sleeps; one that has no attempt left throws.                           *)
Retries(c) == call[c].attempt < MaxAttempts
Failed(c)  == IF Retries(c)
              THEN [call[c] EXCEPT !.pc = "asleep", !.attempt = @ + 1, !.on = 0]
              ELSE NoCall

(* The handshake is never worth a retry (isRetryable sees "failed to connect  *)
(* to"), a failed tool list may be.                                           *)
OpenFails(c, passing) ==
  /\ call[c].pc = "opening"
  /\ LET sharers == Sharers(call[c].on)
     IN /\ call' = [d \in Calls |-> IF d \notin sharers THEN call[d]
                                    ELSE IF passing THEN Failed(d) ELSE NoCall]
        /\ client' = IF passing /\ \E d \in sharers : Retries(d) THEN 0 ELSE client
  /\ connecting' = 0
  /\ opening' = opening \ {call[c].on}
  /\ UNCHANGED <<up, sessions, account, orders, credential>>

Wake(c) == /\ call[c].pc = "asleep"
           /\ Goto(c, "connect")
           /\ UNCHANGED <<up, session, account, orders, credential>>

------------------------------------------------------------------------------
(* The key a placement is sent under. Bug: a fresh one for each attempt.      *)
Key_Fresh(c) == <<call[c].op, call[c].attempt>>
Key(c) == <<call[c].op, 0>>

(* The broker executes the request, whether or not its answer arrives: a key  *)
(* it has seen is the order it has.                                           *)
Reaches(c) ==
  /\ call[c].pc = "sent" /\ call[c].stage = "tool" /\ call[c].op \in Refs
  /\ orders' = orders \cup {[ref |-> call[c].op, key |-> Key(c)]}
  /\ UNCHANGED <<up, session, account, call, credential>>

(* The accounts arrive: the one to trade is chosen and kept, and the tool it  *)
(* was asked for gets a call, with attempts of its own. No account this agent *)
(* may trade, or more than one, is an error: CallFails.                       *)
AccountResolved(c) ==
  /\ call[c].pc = "sent" /\ call[c].stage = "accounts"
  /\ account' = TRUE
  /\ Become(c, [call[c] EXCEPT !.pc = "connect", !.stage = "tool", !.attempt = 1, !.on = 0])
  /\ UNCHANGED <<up, session, orders, credential>>

(* A batch of symbols, or a page of positions, with another to come.          *)
NextBatch(c) ==
  /\ call[c].pc = "sent" /\ call[c].stage = "tool" /\ call[c].op = "read"
  /\ Become(c, [call[c] EXCEPT !.pc = "connect", !.attempt = 1, !.on = 0])
  /\ UNCHANGED <<up, session, account, orders, credential>>

(* The last answer, a placement's only once the broker has executed it.       *)
Answered(c) ==
  /\ call[c].pc = "sent" /\ call[c].stage = "tool"
  /\ call[c].op \in Refs => \E o \in orders : o.ref = call[c].op
  /\ Return(c)
  /\ UNCHANGED <<up, session, account, orders, credential>>

(* It fails: an unexpected shape, no account this agent may trade and the like*)
(* end the call; rate limits, timeouts and resets are retried.                *)
CallFails(c, passing) ==
  /\ call[c].pc = "sent"
  /\ Become(c, IF passing THEN Failed(c) ELSE NoCall)
  /\ client' = IF passing /\ Retries(c) THEN 0 ELSE client
  /\ UNCHANGED <<up, connecting, opening, sessions, account, orders, credential>>

------------------------------------------------------------------------------
(* The access token has expired: the SDK asks the provider for its tokens,    *)
(* spends the refresh token and hands back what the broker issued.            *)
Unauthorized(c) ==
  /\ call[c].pc \in {"sent", "opening"}
  /\ issued < MaxIssued
  /\ Become(c, [call[c] EXCEPT !.pc = "load", !.back = call[c].pc, !.retried = FALSE])
  /\ UNCHANGED <<up, session, account, orders, credential>>

LoadTokens(c) ==
  /\ call[c].pc = "load"
  /\ Become(c, [call[c] EXCEPT !.pc = "refresh", !.token = stored])
  /\ UNCHANGED <<up, session, account, orders, credential>>

(* Whom a request's failure concerns: for a handshake, all who await it.      *)
Concerned(c) == {c} \cup {d \in Calls : /\ call[c].back = "opening"
                                        /\ call[d].pc = "waiting" /\ call[d].on = call[c].on}

(* The request in hand fails, and with it the handshake it may be part of.    *)
RequestFails(c, passing) ==
  /\ call' = [d \in Calls |-> IF d \notin Concerned(c) THEN call[d]
                              ELSE IF passing THEN Failed(d) ELSE NoCall]
  /\ client' = IF passing /\ \E d \in Concerned(c) : Retries(d) THEN 0 ELSE client
  /\ connecting' = IF call[c].back = "opening" THEN 0 ELSE connecting
  /\ opening' = IF call[c].back = "opening" THEN opening \ {call[c].on} ELSE opening
  /\ sessions' = sessions

(* No renewal without a browser: not retried. The next caller opens anew.     *)
GiveUp(c) == RequestFails(c, FALSE)

(* A spent token is an invalid grant; the SDK looks once more at what the     *)
(* store holds by then, and a second refusal it passes on.                    *)
Refresh(c) ==
  /\ call[c].pc = "refresh"
  /\ \/ /\ call[c].token = issued /\ issued < MaxIssued
        /\ issued' = issued + 1
        /\ Become(c, [call[c] EXCEPT !.pc = "store", !.token = issued + 1])
        /\ UNCHANGED session
     \/ /\ call[c].token # issued /\ ~call[c].retried
        /\ Become(c, [call[c] EXCEPT !.pc = "load", !.retried = TRUE])
        /\ UNCHANGED <<session, issued>>
     \/ /\ call[c].token # issued /\ call[c].retried
        /\ GiveUp(c)
        /\ UNCHANGED issued
  /\ UNCHANGED <<up, account, orders, stored, lost, overwritten>>

(* Another refusal is passed on as well. When the token endpoint cannot be    *)
(* reached, is down, or rotates and its answer is lost on the way, the SDK    *)
(* goes on to a new authorization.                                            *)
RefreshFails(c) ==
  /\ call[c].pc = "refresh"
  /\ \/ GiveUp(c) /\ UNCHANGED <<issued, lost>>
     \/ /\ Become(c, [call[c] EXCEPT !.pc = "verifier", !.token = 0, !.retried = FALSE])
        /\ UNCHANGED session
        /\ \/ UNCHANGED <<issued, lost>>
           \/ call[c].token = issued /\ issued < MaxIssued /\ issued' = issued + 1 /\ lost' = TRUE
  /\ UNCHANGED <<up, account, orders, stored, overwritten>>

(* saveTokens loads the row, waits, and saves it with the new tokens; the     *)
(* request goes again.                                                        *)
LoadRow(c) ==
  /\ call[c].pc = "store"
  /\ Goto(c, "save")
  /\ UNCHANGED <<up, session, account, orders, credential>>

SaveTokens(c) ==
  /\ call[c].pc = "save"
  /\ stored' = call[c].token
  /\ Become(c, [call[c] EXCEPT !.pc = call[c].back, !.token = 0, !.retried = FALSE, !.back = "sent"])
  /\ UNCHANGED <<up, session, account, orders, issued, lost, overwritten>>

(* The read or the write of it fails; the new token was only here. For the    *)
(* SDK it is a refresh that failed.                                           *)
SaveFails(c) ==
  /\ call[c].pc \in Storing
  /\ lost' = TRUE
  /\ Become(c, [call[c] EXCEPT !.pc = "verifier", !.token = 0, !.retried = FALSE])
  /\ UNCHANGED <<up, session, account, orders, stored, issued, overwritten>>

(* saveCodeVerifier loads the row, tokens and all, waits, and saves it as it  *)
(* was with the verifier added; then redirectToAuthorization throws.          *)
LoadVerifier(c) ==
  /\ call[c].pc = "verifier"
  /\ Become(c, [call[c] EXCEPT !.pc = "writeBack", !.token = stored])
  /\ UNCHANGED <<up, session, account, orders, credential>>

SaveVerifier(c) ==
  /\ call[c].pc = "writeBack"
  /\ stored' = call[c].token
  /\ overwritten' = (overwritten \/ stored # call[c].token)
  /\ GiveUp(c)
  /\ UNCHANGED <<up, account, orders, issued, lost>>

(* The row cannot be read, or not be written: the database's error is the     *)
(* request's, and may be worth a retry.                                       *)
RowFails(c, passing) ==
  /\ call[c].pc \in {"load", "verifier", "writeBack"}
  /\ RequestFails(c, passing)
  /\ UNCHANGED <<up, account, orders, credential>>

CallStep(c) ==
  \/ \E op \in Refs \cup {"read"}, scoped \in BOOLEAN : Begin(c, op, scoped)
  \/ Connect(c) \/ Opened(c) \/ Wake(c) \/ Reaches(c)
  \/ AccountResolved(c) \/ NextBatch(c) \/ Answered(c)
  \/ \E passing \in BOOLEAN : OpenFails(c, passing) \/ CallFails(c, passing) \/ RowFails(c, passing)
  \/ Unauthorized(c) \/ LoadTokens(c) \/ Refresh(c) \/ RefreshFails(c)
  \/ LoadRow(c) \/ SaveTokens(c) \/ SaveFails(c) \/ LoadVerifier(c) \/ SaveVerifier(c)

ConnectionNext == Boot \/ Shutdown \/ \E c \in Calls : CallStep(c)

ConnectionSpec == ConnectionInit /\ [][ConnectionNext]_connection

------------------------------------------------------------------------------
Call == [pc : CallSteps, op : Refs \cup {"read"}, stage : {"accounts", "tool"},
         attempt : Nat, on : Nat, token : Nat, retried : BOOLEAN,
         back : {"sent", "opening"}]

ConnectionTypeOK ==
  /\ up \in BOOLEAN /\ account \in BOOLEAN /\ lost \in BOOLEAN /\ overwritten \in BOOLEAN
  /\ client \in Nat /\ connecting \in Nat /\ sessions \in Nat
  /\ opening \subseteq Nat
  /\ call \in [Calls -> Call]
  /\ stored \in Nat /\ issued \in Nat
  /\ orders \subseteq [ref : Refs, key : Refs \X Nat]

(* The call that an attempt to connect belongs to: the one that opened it.    *)
Refreshing == {"load", "refresh", "store", "save", "verifier", "writeBack"}
Owner(c) == \/ call[c].pc = "opening"
            \/ call[c].pc \in Refreshing /\ call[c].back = "opening"

(* The attempt that callers share is the one in flight, it is one call's to   *)
(* end, and nobody waits for any other: no caller is left behind.             *)
AttemptInv ==
  /\ opening = IF connecting = 0 THEN {} ELSE {connecting}
  /\ \A c \in Calls : Owner(c) \/ call[c].pc = "waiting" =>
                        connecting # 0 /\ call[c].on = connecting
  /\ \A c, d \in Calls : Owner(c) /\ Owner(d) => c = d

(* While no rotation was lost or overwritten: the token in force is the       *)
(* stored one, or one call is about to store it, and then nobody else can     *)
(* have it to spend.                                                          *)
CredentialInv ==
  /\ \A c \in Calls : call[c].pc # "idle" => up
  /\ \A c \in Calls : call[c].pc \in Storing => call[c].token # 0
  /\ \A c \in Calls : call[c].pc = "writeBack" => call[c].token # 0
  /\ up => stored # 0
  /\ issued >= Seed
  /\ ~lost /\ ~overwritten =>
       /\ stored # issued =>
            \/ stored = 0 /\ issued = Seed
            \/ \E c \in Calls : call[c].pc \in Storing
       /\ \A c \in Calls : call[c].pc \in Storing =>
            /\ call[c].token = issued
            /\ stored < issued
            /\ \A d \in Calls : /\ call[d].pc \in Storing => c = d
                                /\ call[d].pc = "refresh" => call[d].token < issued
       /\ \A c \in Calls : call[c].pc = "refresh" => call[c].token <= issued
       /\ stored <= issued

(* However many callers find no session, and whatever fails meanwhile, the    *)
(* process never has two attempts to open one in flight (mcpClient.ts:112).   *)
OneConnectionAttempt ==
  \A k, l \in opening : k = l

(* The token the broker honours is in the row, or on its way there: through   *)
(* concurrent refreshes, failed calls and restarts that carry the old seed.   *)
(* An answer, a process or a write that fails between the rotation and the    *)
(* save loses it, and so does a verifier written back beside that save: both  *)
(* are named (oauthState.ts:10-12, 54-62; oauth.ts:193-199).                  *)
CredentialSurvives ==
  \/ lost \/ overwritten
  \/ stored = 0 /\ issued = Seed
  \/ stored = issued
  \/ \E c \in Calls : call[c].pc \in Storing /\ call[c].token = issued

(* A placement resent after a transport error is one order at the broker      *)
(* (mcpClient.ts:424-429).                                                    *)
OneOrderPerRequest ==
  \A o, p \in orders : o.ref = p.ref => o = p

(* The invariant the proofs carry.                                            *)
ConnectionInductive ==
  /\ ConnectionTypeOK /\ AttemptInv /\ CredentialInv
  /\ \A o \in orders : o.key = <<o.ref, 0>>
==============================================================================
