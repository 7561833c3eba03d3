----------------------------- MODULE Subscribers -----------------------------
(* The signal service's accounts: Sign in with Apple, the disclaimer consent  *)
(* and the subscriber tokens (signal-server/auth.ts, routes/onboarding.ts,    *)
(* db/users.ts, db/subscriberTokens.ts, db/disclaimerAcceptances.ts).         *)
(*                                                                            *)
(* A request runs its handler one database call at a time, so requests of one *)
(* subscriber interleave. A deployed process serves the one disclaimer text   *)
(* it was built with; during a deploy two processes serve side by side, and   *)
(* the old one is stopped with whatever it was doing. What changes no table   *)
(* but last_used_at, which nothing here reads, is left out: the MCP endpoint's*)
(* calls and the two GET routes.                                              *)
EXTENDS Naturals, Sequences, FiniteSets

CONSTANTS Subjects,     \* Apple subjects
          Versions,     \* disclaimer texts, by sha256
          Requests,     \* concurrent HTTP requests
          MaxTokens     \* bound: tokens ever minted

VARIABLES users,        \* subjects with a User row (apple_user_id is unique)
          accepted,     \* <<subject, version>> of the acceptance rows
          tokens,       \* SubscriberToken rows, in the order minted
          served,       \* the versions the live processes were built with
          req           \* what each request is doing

accounts == <<users, accepted, tokens, served, req>>

Kinds == {"app", "mcp"}
RequestSteps == {"idle", "find", "create", "mintApp", "route", "mintMcp", "revoke"}

(* user, token, version: who asks, the token presented (0: an Apple identity) *)
(* and the text of the process that serves; target: the token to revoke.      *)
Request == [pc : RequestSteps, user : Subjects \cup {0}, token : Nat, target : Nat,
            invite : BOOLEAN, version : Versions \cup {0}]

(* version and by: those of the request that minted it; no column holds them. *)
Token == [user : Subjects, kind : Kinds, revoked : BOOLEAN, version : Versions, by : Nat]

NoRequest == [pc |-> "idle", user |-> 0, token |-> 0, target |-> 0,
              invite |-> FALSE, version |-> 0]

SubscribersInit == /\ users = {}
                   /\ accepted = {}
                   /\ tokens = <<>>
                   /\ \E v \in Versions : served = {v}
                   /\ req = [r \in Requests |-> NoRequest]

Proceed(r, step) == req' = [req EXCEPT ![r].pc = step]
Reply(r)      == req' = [req EXCEPT ![r] = NoRequest]
Minted        == DOMAIN tokens

------------------------------------------------------------------------------
(* POST /session: Apple's keys verified the identity token (a token they do   *)
(* not verify is a 401 before anything is read).                              *)
SignIn(r, s, v, invite) ==
  /\ req[r].pc = "idle"
  /\ req' = [req EXCEPT ![r] = [NoRequest EXCEPT !.pc = "find", !.user = s,
                                                 !.version = v, !.invite = invite]]
  /\ UNCHANGED <<users, accepted, tokens, served>>

(* findUserByAppleId; a first sign-in without a good invite code is a 403.    *)
FindUser(r) ==
  /\ req[r].pc = "find"
  /\ IF req[r].user \in users THEN Proceed(r, "mintApp")
     ELSE IF req[r].invite THEN req' = [req EXCEPT ![r].pc = "create", ![r].invite = FALSE]
     ELSE Reply(r)
  /\ UNCHANGED <<users, accepted, tokens, served>>

(* createSubscriber: the unique subject makes the later of two first sign-ins *)
(* throw, which the client sees as a 500.                                     *)
CreateSubscriber(r) ==
  /\ req[r].pc = "create"
  /\ \/ req[r].user \in users /\ Reply(r) /\ UNCHANGED users
     \/ /\ req[r].user \notin users
        /\ users' = users \cup {req[r].user}
        /\ Proceed(r, "mintApp")
  /\ UNCHANGED <<accepted, tokens, served>>

NewToken(r, kind) ==
  [user |-> req[r].user, kind |-> kind, revoked |-> FALSE,
   version |-> req[r].version, by |-> req[r].token]

(* mintToken, at the end of a sign-in and of POST /mcp-tokens.                *)
MintToken(r) ==
  /\ req[r].pc \in {"mintApp", "mintMcp"}
  /\ Len(tokens) < MaxTokens
  /\ tokens' = Append(tokens, NewToken(r, IF req[r].pc = "mintApp" THEN "app" ELSE "mcp"))
  /\ Reply(r)
  /\ UNCHANGED <<users, accepted, served>>

------------------------------------------------------------------------------
(* verifyToken's read: what an unknown, revoked or wrong-kind token gets is   *)
(* one and the same 401. Bug: the kind is not part of the check.              *)
Verifies_AnyKind(t, kind) == ~tokens[t].revoked
Verifies(t, kind) == ~tokens[t].revoked /\ tokens[t].kind = kind

(* requireSubscriberToken('app'): any token minted so far may be presented.   *)
(* The handler runs later, whatever has become of the row.                    *)
Present(r, t, v) ==
  /\ req[r].pc = "idle"
  /\ Verifies(t, "app")
  /\ req' = [req EXCEPT ![r] = [NoRequest EXCEPT !.pc = "route", !.user = tokens[t].user,
                                                 !.token = t, !.version = v]]
  /\ UNCHANGED <<users, accepted, tokens, served>>

(* POST /disclaimer/accept with the text the client displayed: any other than *)
(* this process's own is a 409.                                               *)
AcceptDisclaimer(r, shown) ==
  /\ req[r].pc = "route"
  /\ accepted' = IF shown = req[r].version
                 THEN accepted \cup {<<req[r].user, shown>>} ELSE accepted
  /\ Reply(r)
  /\ UNCHANGED <<users, tokens, served>>

(* hasAccepted asks for exactly this text. Bug: any acceptance will do.       *)
HasAccepted_Any(r) == \E v \in Versions : <<req[r].user, v>> \in accepted
HasAccepted(r) == <<req[r].user, req[r].version>> \in accepted

(* POST /mcp-tokens up to its mint: 409 without the consent row.              *)
CheckConsent(r) ==
  /\ req[r].pc = "route"
  /\ IF HasAccepted(r) THEN Proceed(r, "mintMcp") ELSE Reply(r)
  /\ UNCHANGED <<users, accepted, tokens, served>>

(* DELETE /mcp-tokens/:id: listTokens first, a 404 for what it does not list. *)
FindOwned(r, t) ==
  /\ req[r].pc = "route"
  /\ IF tokens[t].user = req[r].user /\ tokens[t].kind = "mcp"
     THEN req' = [req EXCEPT ![r].pc = "revoke", ![r].target = t]
     ELSE Reply(r)
  /\ UNCHANGED <<users, accepted, tokens, served>>

(* revokeToken: idempotent.                                                   *)
RevokeToken(r) ==
  /\ req[r].pc = "revoke"
  /\ tokens' = [tokens EXCEPT ![req[r].target].revoked = TRUE]
  /\ Reply(r)
  /\ UNCHANGED <<users, accepted, served>>

------------------------------------------------------------------------------
(* A deploy whose text differs, old and new process serving; then the old one *)
(* is stopped, or crashes, and its requests with it.                          *)
Deploy(v) == /\ v \notin served
             /\ served' = served \cup {v}
             /\ UNCHANGED <<users, accepted, tokens, req>>

Retire(v) == /\ v \in served
             /\ Cardinality(served) > 1
             /\ served' = served \ {v}
             /\ req' = [r \in Requests |-> IF req[r].version = v THEN NoRequest ELSE req[r]]
             /\ UNCHANGED <<users, accepted, tokens>>

RequestStep(r) ==
  \/ \E s \in Subjects, v \in served, invite \in BOOLEAN : SignIn(r, s, v, invite)
  \/ FindUser(r) \/ CreateSubscriber(r) \/ MintToken(r)
  \/ \E t \in Minted, v \in served : Present(r, t, v)
  \/ CheckConsent(r) \/ RevokeToken(r)
  \/ \E shown \in Versions : AcceptDisclaimer(r, shown)
  \/ \E t \in Minted : FindOwned(r, t)

SubscribersNext == \/ \E r \in Requests : RequestStep(r)
                   \/ \E v \in Versions : Deploy(v) \/ Retire(v)

SubscribersSpec == SubscribersInit /\ [][SubscribersNext]_accounts

------------------------------------------------------------------------------
(* Every table and every request holds what its schema allows.                *)
SubscribersTypeOK ==
  /\ users \subseteq Subjects
  /\ accepted \subseteq Subjects \X Versions
  /\ tokens \in Seq(Token)
  /\ served \subseteq Versions
  /\ req \in [Requests -> Request]

(* What a handler learnt from a row before its next call still holds at that  *)
(* call: the identity it acts for, the app token it was shown, the consent it *)
(* found. Rows change under it, but none of them changes that.                *)
StillHolds(r) ==
  /\ req[r].pc # "idle" => req[r].user \in Subjects /\ req[r].version \in Versions
  /\ req[r].pc \in {"find", "create", "mintApp"} => req[r].token = 0
  /\ req[r].pc \in {"route", "mintMcp", "revoke"} =>
       /\ req[r].token \in Minted
       /\ tokens[req[r].token].kind = "app"
       /\ tokens[req[r].token].user = req[r].user
  /\ req[r].pc = "mintMcp" => <<req[r].user, req[r].version>> \in accepted
  /\ req[r].pc = "revoke" => req[r].target \in Minted

McpTokens == {t \in Minted : tokens[t].kind = "mcp"}

(* An agent's credential never exists without a consent row for the very text *)
(* the process that minted it was serving, deploys and concurrent requests    *)
(* notwithstanding (onboarding.ts:212-222, hasAccepted).                      *)
CredentialFollowsConsent ==
  \A t \in McpTokens : <<tokens[t].user, tokens[t].version>> \in accepted

(* A leaked agent configuration cannot mint another one: an MCP token always  *)
(* goes back to an app token of the same subscriber, and that one to an Apple *)
(* identity (subscriberTokens.ts:57).                                         *)
AgentsCannotMint ==
  \A t \in Minted :
    IF tokens[t].kind = "app" THEN tokens[t].by = 0
    ELSE /\ tokens[t].by \in 1..(t - 1)
         /\ tokens[tokens[t].by].kind = "app"
         /\ tokens[tokens[t].by].user = tokens[t].user

(* The invariant the proofs carry.                                            *)
SubscribersInductive ==
  /\ SubscribersTypeOK
  /\ \A r \in Requests : StillHolds(r)
  /\ CredentialFollowsConsent
  /\ AgentsCannotMint
==============================================================================
