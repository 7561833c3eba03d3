--------------------------- MODULE Services_proofs ----------------------------
(* Proofs about the signal service and what the owner's service shares with    *)
(* the outside: Subscribers, Feed, Connection and Push.  Each has an invariant *)
(* named after it and shares no variable with the others.                      *)
EXTENDS Subscribers, Feed, Connection, Push, TLAPS, FiniteSetTheorems, WellFoundedInduction
-----------------------------------------------------------------------------
(* Subscribers: for any subscribers, disclaimer texts, requests and deploys.  *)

(* A fresh row at the end of the table leaves the others where they are.      *)
LEMMA Appended ==
  ASSUME NEW S, NEW q \in Seq(S), NEW e \in S
  PROVE  /\ Append(q, e) \in Seq(S)
         /\ DOMAIN q = 1..Len(q)
         /\ DOMAIN Append(q, e) = 1..(Len(q) + 1)
         /\ Len(q) \in Nat
         /\ Append(q, e)[Len(q) + 1] = e
         /\ \A i \in 1..Len(q) : Append(q, e)[i] = q[i]
  OBVIOUS

(* So does a row written in place.                                            *)
LEMMA Replaced ==
  ASSUME NEW S, NEW q \in Seq(S), NEW k \in DOMAIN q, NEW e \in S
  PROVE  /\ [q EXCEPT ![k] = e] \in Seq(S)
         /\ DOMAIN [q EXCEPT ![k] = e] = DOMAIN q
         /\ [q EXCEPT ![k] = e][k] = e
         /\ \A i \in DOMAIN q \ {k} : [q EXCEPT ![k] = e][i] = q[i]
  OBVIOUS

(* The rows there are.                                                        *)
LEMMA RowShape ==
  ASSUME SubscribersInductive
  PROVE  /\ Minted = 1..Len(tokens) /\ Len(tokens) \in Nat
         /\ \A t \in Minted : t \in Nat /\ tokens[t] \in Token
  BY DEF SubscribersInductive, SubscribersTypeOK, Minted

(* A service without subscribers satisfies the invariant.                     *)
LEMMA SubscribersStarts == SubscribersInit => SubscribersInductive
  BY DEF SubscribersInit, SubscribersInductive, SubscribersTypeOK, StillHolds, CredentialFollowsConsent,
         AgentsCannotMint, McpTokens, Minted, NoRequest, Request, RequestSteps, Token, Kinds

(* One request moves on, over rows that only grew in consent and subscribers: *)
(* what is left to show is that it may stand where it now does.               *)
LEMMA SubscribersMovesOn ==
  ASSUME SubscribersInductive, NEW r \in Requests, NEW q \in Request,
         req' = [req EXCEPT ![r] = q], req'[r] = q => StillHolds(r)',
         UNCHANGED tokens, users' \subseteq Subjects, served' \subseteq Versions,
         accepted \subseteq accepted', accepted' \subseteq Subjects \X Versions
  PROVE  SubscribersInductive'
<1>1. SubscribersTypeOK'
  BY DEF SubscribersInductive, SubscribersTypeOK
<1>2. ASSUME NEW o \in Requests PROVE StillHolds(o)'
  <2>1. CASE o = r
    BY <2>1 DEF SubscribersInductive, SubscribersTypeOK
  <2>2. CASE o # r
    BY <2>2 DEF SubscribersInductive, SubscribersTypeOK, StillHolds, Minted
  <2> QED BY <2>1, <2>2
<1>3. CredentialFollowsConsent' /\ AgentsCannotMint'
  BY DEF SubscribersInductive, CredentialFollowsConsent, AgentsCannotMint, McpTokens, Minted
<1> QED BY <1>1, <1>2, <1>3 DEF SubscribersInductive

LEMMA NoRequestFits == NoRequest \in Request /\ NoRequest.pc = "idle"
  BY DEF NoRequest, Request, RequestSteps

(* A request that replies may always do so: it forgets what it knew.          *)
LEMMA ReplyOn ==
  ASSUME SubscribersInductive, NEW r \in Requests, Reply(r),
         UNCHANGED tokens, users' \subseteq Subjects, served' \subseteq Versions,
         accepted \subseteq accepted', accepted' \subseteq Subjects \X Versions
  PROVE  SubscribersInductive'
<1>1. req'[r] = NoRequest => StillHolds(r)'
  BY NoRequestFits DEF StillHolds
<1> QED BY <1>1, NoRequestFits, SubscribersMovesOn DEF Reply

(* What a handler at work has in hand.                                        *)
LEMMA SubscribersInHand ==
  ASSUME SubscribersInductive, NEW r \in Requests
  PROVE  /\ req[r] \in Request /\ StillHolds(r)
         /\ users \subseteq Subjects /\ served \subseteq Versions
         /\ accepted \subseteq Subjects \X Versions
  BY DEF SubscribersInductive, SubscribersTypeOK

------------------------------------------------------------------------------
(* The actions that write no token.                                           *)

LEMMA SignInStep ==
  ASSUME SubscribersInductive, NEW r \in Requests, NEW s \in Subjects, NEW v \in served,
         NEW invite \in BOOLEAN, SignIn(r, s, v, invite)
  PROVE  SubscribersInductive'
<1> DEFINE q == [NoRequest EXCEPT !.pc = "find", !.user = s, !.version = v, !.invite = invite]
<1>1. v \in Versions
  BY SubscribersInHand
<1>2. /\ q \in Request
      /\ q.pc = "find" /\ q.user = s /\ q.version = v /\ q.token = 0
  BY <1>1 DEF NoRequest, Request, RequestSteps
<1>3. req'[r] = q => StillHolds(r)'
  BY <1>1, <1>2 DEF StillHolds
<1> HIDE DEF q
<1>4. req' = [req EXCEPT ![r] = q]
  BY DEF SignIn, q
<1> QED BY <1>2, <1>3, <1>4, SubscribersInHand, SubscribersMovesOn DEF SignIn

LEMMA FindUserStep ==
  ASSUME SubscribersInductive, NEW r \in Requests, FindUser(r)
  PROVE  SubscribersInductive'
<1> DEFINE found == [req[r] EXCEPT !.pc = "mintApp"]
<1> DEFINE fresh == [req[r] EXCEPT !.pc = "create", !.invite = FALSE]
<1>1. req[r].pc = "find" /\ UNCHANGED <<users, accepted, tokens, served>>
  BY DEF FindUser
<1>2. found \in Request /\ fresh \in Request
  BY SubscribersInHand DEF Request, RequestSteps
<1>3. /\ req'[r] = found => StillHolds(r)'
      /\ req'[r] = fresh => StillHolds(r)'
  BY <1>1, SubscribersInHand DEF StillHolds, Request
<1>4. \/ req' = [req EXCEPT ![r] = found]
      \/ req' = [req EXCEPT ![r] = fresh]
      \/ Reply(r)
  BY DEF FindUser, Proceed, SubscribersInductive, SubscribersTypeOK
<1> HIDE DEF found, fresh
<1>5. CASE req' = [req EXCEPT ![r] = found]
  BY <1>1, <1>2, <1>3, <1>5, SubscribersInHand, SubscribersMovesOn
<1>6. CASE req' = [req EXCEPT ![r] = fresh]
  BY <1>1, <1>2, <1>3, <1>6, SubscribersInHand, SubscribersMovesOn
<1>7. CASE Reply(r)
  BY <1>1, <1>7, SubscribersInHand, ReplyOn
<1> QED BY <1>4, <1>5, <1>6, <1>7

LEMMA CreateSubscriberStep ==
  ASSUME SubscribersInductive, NEW r \in Requests, CreateSubscriber(r)
  PROVE  SubscribersInductive'
<1> DEFINE q == [req[r] EXCEPT !.pc = "mintApp"]
<1>1. req[r].pc = "create" /\ UNCHANGED <<accepted, tokens, served>>
  BY DEF CreateSubscriber
<1>2. q \in Request
  BY SubscribersInHand DEF Request, RequestSteps
<1>3. req'[r] = q => StillHolds(r)'
  BY <1>1, SubscribersInHand DEF StillHolds, Request
<1>4. users' \subseteq Subjects
  BY <1>1, SubscribersInHand DEF CreateSubscriber, StillHolds
<1>5. req' = [req EXCEPT ![r] = q] \/ Reply(r)
  BY DEF CreateSubscriber, Proceed, SubscribersInductive, SubscribersTypeOK
<1> HIDE DEF q
<1>6. CASE req' = [req EXCEPT ![r] = q]
  BY <1>1, <1>2, <1>3, <1>4, <1>6, SubscribersInHand, SubscribersMovesOn
<1>7. CASE Reply(r)
  BY <1>1, <1>4, <1>7, SubscribersInHand, ReplyOn
<1> QED BY <1>5, <1>6, <1>7

LEMMA PresentStep ==
  ASSUME SubscribersInductive, NEW r \in Requests, NEW t \in Minted, NEW v \in served, Present(r, t, v)
  PROVE  SubscribersInductive'
<1> DEFINE q == [NoRequest EXCEPT !.pc = "route", !.user = tokens[t].user,
                                  !.token = t, !.version = v]
<1>1. v \in Versions /\ t \in Nat /\ tokens[t].user \in Subjects /\ tokens[t].kind = "app"
  BY SubscribersInHand, RowShape DEF Present, Verifies, Token
<1>2. /\ q \in Request
      /\ q.pc = "route" /\ q.user = tokens[t].user /\ q.version = v /\ q.token = t
  BY <1>1 DEF NoRequest, Request, RequestSteps
<1>3. UNCHANGED <<users, accepted, tokens, served>> /\ req' = [req EXCEPT ![r] = q]
  BY DEF Present
<1> HIDE DEF q
<1>4. req'[r] = q => StillHolds(r)'
  BY <1>1, <1>2, <1>3 DEF StillHolds, Minted
<1> QED BY <1>2, <1>3, <1>4, SubscribersInHand, SubscribersMovesOn

LEMMA AcceptDisclaimerStep ==
  ASSUME SubscribersInductive, NEW r \in Requests, NEW shown \in Versions, AcceptDisclaimer(r, shown)
  PROVE  SubscribersInductive'
<1>1. Reply(r) /\ UNCHANGED <<users, tokens, served>>
  BY DEF AcceptDisclaimer
<1>2. req[r].user \in Subjects
  BY SubscribersInHand DEF AcceptDisclaimer, StillHolds
<1>3. accepted \subseteq accepted' /\ accepted' \subseteq Subjects \X Versions
  BY <1>2, SubscribersInHand DEF AcceptDisclaimer
<1> QED BY <1>1, <1>3, SubscribersInHand, ReplyOn

(* The step the consent rests on: no mint without the row ...                 *)
LEMMA CheckConsentStep ==
  ASSUME SubscribersInductive, NEW r \in Requests, CheckConsent(r)
  PROVE  SubscribersInductive'
<1> DEFINE q == [req[r] EXCEPT !.pc = "mintMcp"]
<1>1. req[r].pc = "route" /\ UNCHANGED <<users, accepted, tokens, served>>
  BY DEF CheckConsent
<1>2. q \in Request
  BY SubscribersInHand DEF Request, RequestSteps
<1>3. ASSUME HasAccepted(r), req'[r] = q PROVE StillHolds(r)'
  BY <1>1, <1>3, SubscribersInHand DEF StillHolds, Request, HasAccepted, Minted
<1>4. \/ HasAccepted(r) /\ req' = [req EXCEPT ![r] = q]
      \/ Reply(r)
  BY DEF CheckConsent, Proceed, SubscribersInductive, SubscribersTypeOK
<1> HIDE DEF q
<1>5. CASE HasAccepted(r) /\ req' = [req EXCEPT ![r] = q]
  BY <1>1, <1>2, <1>3, <1>5, SubscribersInHand, SubscribersMovesOn
<1>6. CASE Reply(r)
  BY <1>1, <1>6, SubscribersInHand, ReplyOn
<1> QED BY <1>4, <1>5, <1>6

LEMMA FindOwnedStep ==
  ASSUME SubscribersInductive, NEW r \in Requests, NEW t \in Minted, FindOwned(r, t)
  PROVE  SubscribersInductive'
<1> DEFINE q == [req[r] EXCEPT !.pc = "revoke", !.target = t]
<1>1. req[r].pc = "route" /\ UNCHANGED <<users, accepted, tokens, served>> /\ t \in Nat
  BY DEF FindOwned, Minted, SubscribersInductive, SubscribersTypeOK
<1>2. q \in Request /\ q.target = t
  BY <1>1, SubscribersInHand DEF Request, RequestSteps
<1>3. req'[r] = q => StillHolds(r)'
  BY <1>1, SubscribersInHand DEF StillHolds, Request, Minted
<1>4. req' = [req EXCEPT ![r] = q] \/ Reply(r)
  BY DEF FindOwned, SubscribersInductive, SubscribersTypeOK
<1> HIDE DEF q
<1>5. CASE req' = [req EXCEPT ![r] = q]
  BY <1>1, <1>2, <1>3, <1>5, SubscribersInHand, SubscribersMovesOn
<1>6. CASE Reply(r)
  BY <1>1, <1>6, SubscribersInHand, ReplyOn
<1> QED BY <1>4, <1>5, <1>6

------------------------------------------------------------------------------
(* The two writes to the token table.                                         *)

(* ... and the mint itself, for which nothing the check saw has changed.      *)
LEMMA MintTokenStep ==
  ASSUME SubscribersInductive, NEW r \in Requests, MintToken(r)
  PROVE  SubscribersInductive'
<1> DEFINE e == NewToken(r, IF req[r].pc = "mintApp" THEN "app" ELSE "mcp")
<1>1. /\ req[r].pc \in {"mintApp", "mintMcp"}
      /\ tokens' = Append(tokens, e)
      /\ req' = [req EXCEPT ![r] = NoRequest]
      /\ UNCHANGED <<users, accepted, served>>
  BY DEF MintToken, Reply
<1>2. /\ tokens \in Seq(Token)
      /\ req \in [Requests -> Request]
  BY DEF SubscribersInductive, SubscribersTypeOK
<1>3. /\ e \in Token
      /\ e.user = req[r].user /\ e.version = req[r].version /\ e.by = req[r].token
      /\ e.kind = IF req[r].pc = "mintApp" THEN "app" ELSE "mcp"
  BY <1>1, SubscribersInHand DEF NewToken, Token, Request, Kinds, StillHolds
<1> HIDE DEF e
<1>4. /\ tokens' \in Seq(Token) /\ Len(tokens) \in Nat
      /\ Minted = 1..Len(tokens) /\ Minted' = 1..(Len(tokens) + 1)
      /\ tokens'[Len(tokens) + 1] = e
      /\ \A i \in Minted : tokens'[i] = tokens[i]
  BY <1>1, <1>2, <1>3, Appended DEF Minted
<1>5. SubscribersTypeOK'
  BY <1>1, <1>4, NoRequestFits DEF SubscribersInductive, SubscribersTypeOK
<1>6. ASSUME NEW o \in Requests PROVE StillHolds(o)'
  <2>1. CASE o = r
    BY <2>1, <1>1, <1>2, NoRequestFits DEF StillHolds
  <2>2. CASE o # r
    <3>1. req'[o] = req[o] /\ StillHolds(o)
      BY <2>2, <1>1, <1>2, SubscribersInHand
    <3> QED BY <3>1, <1>1, <1>4 DEF StillHolds
  <2> QED BY <2>1, <2>2
<1>7. ASSUME NEW t \in McpTokens' PROVE <<tokens'[t].user, tokens'[t].version>> \in accepted'
  <2>1. CASE t \in Minted
    BY <2>1, <1>1, <1>4 DEF SubscribersInductive, CredentialFollowsConsent, McpTokens
  <2>2. CASE t = Len(tokens) + 1
    BY <2>2, <1>1, <1>3, <1>4, SubscribersInHand DEF McpTokens, StillHolds
  <2> QED BY <1>4, <2>1, <2>2 DEF McpTokens
<1>8. AgentsCannotMint'
  <2> SUFFICES ASSUME NEW t \in Minted'
               PROVE IF tokens'[t].kind = "app" THEN tokens'[t].by = 0
                     ELSE /\ tokens'[t].by \in 1..(t - 1)
                          /\ tokens'[tokens'[t].by].kind = "app"
                          /\ tokens'[tokens'[t].by].user = tokens'[t].user
    BY DEF AgentsCannotMint
  <2>1. CASE t \in Minted
    <3>1. tokens'[t] = tokens[t]
      BY <2>1, <1>4
    <3>2. CASE tokens[t].kind = "app"
      BY <2>1, <3>1, <3>2 DEF SubscribersInductive, AgentsCannotMint
    <3>3. CASE tokens[t].kind # "app"
      <4>1. /\ tokens[t].by \in 1..(t - 1)
            /\ tokens[tokens[t].by].kind = "app"
            /\ tokens[tokens[t].by].user = tokens[t].user
        BY <2>1, <3>3 DEF SubscribersInductive, AgentsCannotMint
      <4>2. tokens[t].by \in Minted
        BY <2>1, <4>1, <1>4
      <4> QED BY <3>1, <3>3, <4>1, <4>2, <1>4
    <3> QED BY <3>2, <3>3
  <2>2. CASE t = Len(tokens) + 1
    <3>1. CASE req[r].pc = "mintApp"
      BY <2>2, <3>1, <1>3, <1>4, SubscribersInHand DEF StillHolds
    <3>2. CASE req[r].pc = "mintMcp"
      <4>1. /\ req[r].token \in Minted
            /\ tokens[req[r].token].kind = "app"
            /\ tokens[req[r].token].user = req[r].user
        BY <3>2, SubscribersInHand DEF StillHolds
      <4> QED BY <2>2, <3>2, <4>1, <1>3, <1>4
    <3> QED BY <1>1, <3>1, <3>2
  <2> QED BY <1>4, <2>1, <2>2
<1> QED BY <1>5, <1>6, <1>7, <1>8 DEF SubscribersInductive, CredentialFollowsConsent

(* A revocation changes nothing of a row but that.                            *)
LEMMA RevokeTokenStep ==
  ASSUME SubscribersInductive, NEW r \in Requests, RevokeToken(r)
  PROVE  SubscribersInductive'
<1> DEFINE k == req[r].target
<1>1. /\ req[r].pc = "revoke"
      /\ tokens' = [tokens EXCEPT ![k].revoked = TRUE]
      /\ req' = [req EXCEPT ![r] = NoRequest]
      /\ UNCHANGED <<users, accepted, served>>
  BY DEF RevokeToken, Reply
<1>2. tokens \in Seq(Token) /\ req \in [Requests -> Request] /\ k \in Minted
  BY <1>1, SubscribersInHand DEF SubscribersInductive, SubscribersTypeOK, StillHolds
<1> HIDE DEF k
<1>3. /\ tokens' \in Seq(Token)
      /\ Minted' = Minted /\ Minted = 1..Len(tokens)
      /\ \A i \in Minted : /\ tokens'[i].user = tokens[i].user
                           /\ tokens'[i].kind = tokens[i].kind
                           /\ tokens'[i].version = tokens[i].version
                           /\ tokens'[i].by = tokens[i].by
  <2> DEFINE e == [tokens[k] EXCEPT !.revoked = TRUE]
  <2>1. tokens[k] \in Token
    BY <1>2, RowShape
  <2>2. /\ e \in Token
        /\ e.user = tokens[k].user /\ e.kind = tokens[k].kind
        /\ e.version = tokens[k].version /\ e.by = tokens[k].by
    BY <2>1 DEF Token
  <2>3. tokens' = [tokens EXCEPT ![k] = e]
    BY <1>1
  <2> HIDE DEF e
  <2> QED BY <1>2, <2>2, <2>3, Replaced, RowShape DEF Minted
<1>4. SubscribersTypeOK'
  BY <1>1, <1>3, NoRequestFits DEF SubscribersInductive, SubscribersTypeOK
<1>5. ASSUME NEW o \in Requests PROVE StillHolds(o)'
  <2>1. CASE o = r
    BY <2>1, <1>1, <1>2, NoRequestFits DEF StillHolds
  <2>2. CASE o # r
    <3>1. req'[o] = req[o] /\ StillHolds(o)
      BY <2>2, <1>1, <1>2, SubscribersInHand
    <3> QED BY <3>1, <1>1, <1>3 DEF StillHolds
  <2> QED BY <2>1, <2>2
<1>6. CredentialFollowsConsent'
  BY <1>1, <1>3 DEF SubscribersInductive, CredentialFollowsConsent, McpTokens
<1>7. AgentsCannotMint'
  <2> SUFFICES ASSUME NEW t \in Minted
               PROVE IF tokens'[t].kind = "app" THEN tokens'[t].by = 0
                     ELSE /\ tokens'[t].by \in 1..(t - 1)
                          /\ tokens'[tokens'[t].by].kind = "app"
                          /\ tokens'[tokens'[t].by].user = tokens'[t].user
    BY <1>3 DEF AgentsCannotMint
  <2>1. CASE tokens[t].kind = "app"
    BY <2>1, <1>3 DEF SubscribersInductive, AgentsCannotMint
  <2>2. CASE tokens[t].kind # "app"
    <3>1. /\ tokens[t].by \in 1..(t - 1)
          /\ tokens[tokens[t].by].kind = "app"
          /\ tokens[tokens[t].by].user = tokens[t].user
      BY <2>2 DEF SubscribersInductive, AgentsCannotMint
    <3>2. tokens[t].by \in Minted
      BY <3>1, <1>2, <1>3
    <3> QED BY <2>2, <3>1, <3>2, <1>3
  <2> QED BY <2>1, <2>2
<1> QED BY <1>4, <1>5, <1>6, <1>7 DEF SubscribersInductive

------------------------------------------------------------------------------
(* Processes come and go.                                                     *)

LEMMA DeployStep ==
  ASSUME SubscribersInductive, NEW v \in Versions, Deploy(v) \/ Retire(v)
  PROVE  SubscribersInductive'
<1>1. UNCHANGED <<users, accepted, tokens>> /\ served' \subseteq Versions
  BY DEF Deploy, Retire, SubscribersInductive, SubscribersTypeOK
<1>2. /\ req' \in [Requests -> Request]
      /\ \A o \in Requests : req'[o] = req[o] \/ req'[o] = NoRequest
  BY NoRequestFits DEF Deploy, Retire, SubscribersInductive, SubscribersTypeOK
<1>3. SubscribersTypeOK'
  BY <1>1, <1>2 DEF SubscribersInductive, SubscribersTypeOK
<1>4. ASSUME NEW o \in Requests PROVE StillHolds(o)'
  BY <1>1, <1>2, NoRequestFits, SubscribersInHand DEF StillHolds, Minted
<1>5. CredentialFollowsConsent' /\ AgentsCannotMint'
  BY <1>1 DEF SubscribersInductive, CredentialFollowsConsent, AgentsCannotMint, McpTokens, Minted
<1> QED BY <1>3, <1>4, <1>5 DEF SubscribersInductive

LEMMA SubscribersSteps ==
  ASSUME SubscribersInductive, [SubscribersNext]_accounts
  PROVE  SubscribersInductive'
<1>1. CASE \E r \in Requests : RequestStep(r)
  BY <1>1, SignInStep, FindUserStep, CreateSubscriberStep, MintTokenStep, PresentStep,
     AcceptDisclaimerStep, CheckConsentStep, FindOwnedStep, RevokeTokenStep DEF RequestStep
<1>2. CASE \E v \in Versions : Deploy(v) \/ Retire(v)
  BY <1>2, DeployStep
<1>3. CASE UNCHANGED accounts
  BY <1>3 DEF accounts, SubscribersInductive, SubscribersTypeOK, StillHolds, CredentialFollowsConsent,
              AgentsCannotMint, McpTokens, Minted
<1> QED BY <1>1, <1>2, <1>3 DEF SubscribersNext

(* Whatever a handler learnt before a call still holds at the call, and the   *)
(* two properties with it (routes/onboarding.ts, signal-server/auth.ts).      *)
THEOREM SubscribersHolds == SubscribersSpec => []SubscribersInductive
<1>1. SubscribersInit => SubscribersInductive
  BY SubscribersStarts
<1>2. SubscribersInductive /\ [SubscribersNext]_accounts => SubscribersInductive'
  BY SubscribersSteps
<1> QED BY <1>1, <1>2, PTL DEF SubscribersSpec

(* No agent credential without consent to the text that was served.           *)
THEOREM ConsentIsGiven == SubscribersSpec => []CredentialFollowsConsent
<1>1. SubscribersInductive => CredentialFollowsConsent
  BY DEF SubscribersInductive
<1> QED BY <1>1, SubscribersHolds, PTL

(* Agent credentials come from app tokens of the same subscriber.             *)
THEOREM AgentsMintNothing == SubscribersSpec => []AgentsCannotMint
<1>1. SubscribersInductive => AgentsCannotMint
  BY DEF SubscribersInductive
<1> QED BY <1>1, SubscribersHolds, PTL
-----------------------------------------------------------------------------
(* Feed: for any number of signals, any page size and any clock.              *)

(* A set of numbers has a least one.                                          *)
LEMMA LeastNumber ==
  ASSUME NEW T \in SUBSET Nat, T # {}
  PROVE  \E x \in T : \A y \in T : x <= y
<1> DEFINE Less == {p \in Nat \X Nat : p[1] < p[2]}
<1>1. IsWellFoundedOn(Less, Nat)
  BY NatLessThanWellFounded, Zenon DEF OpToRel
<1>2. PICK x \in T : \A y \in T : ~ (<<y, x>> \in Less)
  BY <1>1, WFMin
<1>3. ASSUME NEW y \in T PROVE x <= y
  <2>1. x \in Nat /\ y \in Nat /\ <<y, x>>[1] = y /\ <<y, x>>[2] = x
    OBVIOUS
  <2>2. <<y, x>> \in Nat \X Nat /\ ~ (<<y, x>> \in Less)
    BY <1>2, <2>1
  <2>3. ~ (<<y, x>>[1] < <<y, x>>[2])
    BY <2>2
  <2> QED BY <2>1, <2>3
<1> QED BY <1>3

(* The order of the feed is total ...                                         *)
LEMMA FeedIsOrdered ==
  ASSUME FeedTypeOK, NEW s \in Signals, NEW t \in Signals, s # t
  PROVE  /\ Newer(s, t) \/ Newer(t, s)
         /\ ~ (Newer(s, t) /\ Newer(t, s))
         /\ \A u \in Signals : Newer(u, s) /\ Newer(s, t) => Newer(u, t)
  BY FeedAssumption DEF FeedTypeOK, Newer, Signals

(* ... so a page has a last row ...                                           *)
LEMMA OldestRow ==
  ASSUME FeedTypeOK, NEW S \in SUBSET Signals, S # {}
  PROVE  \E s \in S : \A t \in S \ {s} : Newer(t, s)
<1>1. S \subseteq Nat /\ \A s \in S : published[s] \in Nat
  BY FeedAssumption DEF FeedTypeOK, Signals
<1> DEFINE Instants == {published[s] : s \in S}
<1>2. PICK m \in Instants : \A n \in Instants : m <= n
  <2>1. Instants \in SUBSET Nat /\ Instants # {}
    BY <1>1
  <2> QED BY <2>1, LeastNumber
<1> DEFINE Tied == {s \in S : published[s] = m}
<1>3. PICK s \in Tied : \A t \in Tied : s <= t
  <2>1. Tied \in SUBSET Nat /\ Tied # {}
    BY <1>1, <1>2
  <2> QED BY <2>1, LeastNumber
<1>4. ASSUME NEW t \in S \ {s} PROVE Newer(t, s)
  <2>1. published[s] <= published[t]
    BY <1>2, <1>3
  <2>2. published[t] = published[s] => t > s
    BY <1>1, <1>3
  <2> QED BY <2>1, <2>2, <1>1 DEF Newer
<1> QED BY <1>3, <1>4

(* ... and a set of signals a first one.                                      *)
LEMMA NewestRow ==
  ASSUME FeedTypeOK, NEW S \in SUBSET Signals, S # {}
  PROVE  \E s \in S : \A t \in S \ {s} : Newer(s, t)
<1>1. S \subseteq 1..N /\ \A s \in S : published[s] \in 0..MaxTime
  BY FeedAssumption DEF FeedTypeOK, Signals
<1>2. N \in Nat /\ MaxTime \in Nat
  BY FeedAssumption
<1> DEFINE Ages == {MaxTime - published[s] : s \in S}
<1>3. PICK m \in Ages : \A n \in Ages : m <= n
  <2>1. \A s \in S : MaxTime - published[s] \in Nat
    BY <1>1, <1>2
  <2>2. Ages \in SUBSET Nat /\ Ages # {}
    BY <2>1
  <2> QED BY <2>2, LeastNumber
<1> DEFINE Ranks == {N - s : s \in {r \in S : MaxTime - published[r] = m}}
<1>4. PICK k \in Ranks : \A n \in Ranks : k <= n
  <2>1. Ranks \in SUBSET Nat /\ Ranks # {}
    BY <1>1, <1>2, <1>3
  <2> QED BY <2>1, LeastNumber
<1>5. PICK s \in S : MaxTime - published[s] = m /\ N - s = k
  BY <1>4
<1>6. ASSUME NEW t \in S \ {s} PROVE Newer(s, t)
  <2>1. MaxTime - published[s] <= MaxTime - published[t]
    BY <1>3, <1>5
  <2>2. published[t] = published[s] => N - s <= N - t
    BY <1>4, <1>5
  <2> QED BY <2>1, <2>2, <1>1, <1>2 DEF Newer
<1> QED BY <1>6

LEMMA SignalsAreFinite ==
  ASSUME NEW S \in SUBSET Signals
  PROVE  IsFiniteSet(S) /\ Cardinality(S) \in Nat
<1>1. IsFiniteSet(Signals)
  BY FS_Interval, FeedAssumption DEF Signals
<1>2. IsFiniteSet(S)
  BY <1>1, FS_Subset
<1> QED BY <1>2, FS_CardinalityType

(* What is newer than a row of the page is on the page.                       *)
LEMMA PagesAreClosed ==
  ASSUME FeedTypeOK, NEW before,
         NEW s \in Page(before), NEW t \in Before(before), Newer(t, s)
  PROVE  t \in Page(before)
<1> DEFINE Over(r) == {u \in Before(before) : Newer(u, r)}
<1>1. Before(before) \subseteq Signals /\ s \in Signals /\ t \in Signals
  BY DEF Before, Published, Page
<1>2. Over(t) \subseteq Over(s)
  <2>1. s # t
    BY <1>1, FeedAssumption DEF Newer, FeedTypeOK, Signals
  <2> QED BY <1>1, <2>1, FeedIsOrdered
<1>3. Cardinality(Over(t)) <= Cardinality(Over(s))
  BY <1>1, <1>2, SignalsAreFinite, FS_Subset
<1>4. Cardinality(Over(t)) \in Nat /\ Cardinality(Over(s)) \in Nat
  BY <1>1, SignalsAreFinite
<1>5. Cardinality(Over(s)) < PageSize
  BY DEF Page
<1> QED BY <1>3, <1>4, <1>5, FeedAssumption DEF Page

(* A page that is short is all that is left.                                  *)
LEMMA ShortPageIsLast ==
  ASSUME FeedTypeOK, NEW before, Cardinality(Page(before)) < PageSize
  PROVE  Page(before) = Before(before)
<1> DEFINE Rest == Before(before) \ Page(before)
<1>1. Before(before) \subseteq Signals /\ Page(before) \subseteq Before(before)
  BY DEF Before, Published, Page
<1>2. SUFFICES ASSUME Rest # {} PROVE FALSE
  BY <1>1
<1>3. PICK s \in Rest : \A t \in Rest \ {s} : Newer(s, t)
  BY <1>1, <1>2, NewestRow
<1> DEFINE Over == {u \in Before(before) : Newer(u, s)}
<1>4. Over \subseteq Page(before)
  <2> SUFFICES ASSUME NEW u \in Over, u \in Rest PROVE FALSE
    OBVIOUS
  <2>1. u # s
    BY <1>1, FeedAssumption DEF Newer, FeedTypeOK, Signals
  <2> QED BY <1>1, <1>3, <2>1, FeedIsOrdered
<1>5. Cardinality(Over) <= Cardinality(Page(before))
  BY <1>1, <1>4, SignalsAreFinite, FS_Subset
<1>6. Cardinality(Over) \in Nat /\ Cardinality(Page(before)) \in Nat
  BY <1>1, SignalsAreFinite
<1> QED BY <1>3, <1>5, <1>6, FeedAssumption DEF Page

(* The cursor a page hands out: the instant of its last row.                  *)
LEMMA NextCursor ==
  ASSUME FeedTypeOK, NEW before, NextBefore(Page(before)) # 0
  PROVE  \E l \in Page(before) : /\ NextBefore(Page(before)) = published[l]
                                 /\ \A t \in Page(before) \ {l} : Newer(t, l)
<1>1. Page(before) \subseteq Signals
  BY DEF Page, Before, Published
<1>2. ~ (Cardinality(Page(before)) < PageSize)
  BY DEF NextBefore
<1>3. Page(before) # {}
  BY <1>2, FS_EmptySet, FeedAssumption
<1>4. \E s \in Page(before) : \A t \in Page(before) \ {s} : Newer(t, s)
  BY <1>1, <1>3, OldestRow
<1> QED BY <1>2, <1>4 DEF NextBefore

------------------------------------------------------------------------------
LEMMA FeedStarts == FeedInit => FeedInductive
  BY FeedAssumption DEF FeedInit, FeedInductive, FeedTypeOK, CursorInv, WalkIsExact, Idle,
         NoWalk, Walking, Newest, Unasked, Published, Signals

(* The feed only grows and no row is stamped again; the reader stands still.  *)
LEMMA FeedGrows ==
  ASSUME FeedInductive, FeedTypeOK', UNCHANGED walk,
         \A s \in Published : published'[s] = published[s]
  PROVE  FeedInductive'
<1>1. Published \subseteq Published'
  BY DEF Published, FeedInductive, FeedTypeOK
<1>2. TiesAbsent' => TiesAbsent
  BY <1>1 DEF TiesAbsent
<1>3. walk.pc = "reading" => walk.seen \subseteq Published
  BY FeedAssumption DEF FeedInductive, FeedTypeOK, CursorInv, Published, Newest
<1>4. CursorInv'
  <2>1. walk'.due \subseteq Published'
    BY <1>1 DEF FeedInductive, CursorInv
  <2>2. walk'.pc = "reading" =>
           /\ walk'.before # 0
           /\ \A s \in walk'.seen : published'[s] >= walk'.before
    BY <1>3 DEF FeedInductive, CursorInv
  <2>3. walk'.pc # "idle" /\ TiesAbsent' =>
           \A s \in walk'.due : published'[s] >= walk'.before => s \in walk'.seen
    BY <1>2 DEF FeedInductive, CursorInv
  <2> QED BY <2>1, <2>2, <2>3 DEF CursorInv
<1>5. WalkIsExact'
  BY <1>2 DEF FeedInductive, WalkIsExact
<1> QED BY <1>4, <1>5 DEF FeedInductive

LEMMA FlipGrows ==
  ASSUME FeedTypeOK, NEW s \in Signals, NEW at \in 1..MaxTime, Flip(s, at)
  PROVE  /\ published' \in [Signals -> 0..MaxTime]
         /\ \A t \in Published : published'[t] = published[t]
  BY DEF FeedTypeOK, Flip, Published

(* The clock, the fills, the two publishers.                                  *)
LEMMA PublishersStep ==
  ASSUME FeedInductive,
         \/ Tick \/ StartSweep
         \/ \E s \in Signals : Fill(s) \/ Ask(s) \/ RoutePublishes(s) \/ SweepPublishes(s)
  PROVE  FeedInductive'
<1> USE FeedAssumption DEF FeedInductive
<1>1. CASE Tick
  BY <1>1, FeedGrows DEF Tick, FeedTypeOK, Published
<1>2. CASE StartSweep
  BY <1>2, FeedGrows DEF StartSweep, FeedTypeOK, Published
<1>3. ASSUME NEW s \in Signals, Fill(s) \/ Ask(s) PROVE FeedInductive'
  BY <1>3, FeedGrows DEF Fill, Ask, FeedTypeOK, Published, Unasked
<1>4. ASSUME NEW s \in Signals, RoutePublishes(s) PROVE FeedInductive'
  <2>1. stamp' \in [Signals -> 0..Unasked] /\ UNCHANGED <<clock, filled, sweep, walk>>
    BY <1>4 DEF RoutePublishes, FeedTypeOK, Unasked
  <2>2. stamp[s] # 0 /\ stamp[s] # Unasked => stamp[s] \in 1..MaxTime
    BY DEF FeedTypeOK, Unasked
  <2>3. /\ published' \in [Signals -> 0..MaxTime]
        /\ \A t \in Published : published'[t] = published[t]
    BY <1>4, <2>2, FlipGrows DEF RoutePublishes, FeedTypeOK
  <2>4. FeedTypeOK'
    BY <2>1, <2>3 DEF FeedTypeOK
  <2> QED BY <2>1, <2>3, <2>4, FeedGrows
<1>5. ASSUME NEW s \in Signals, SweepPublishes(s) PROVE FeedInductive'
  <2>1. /\ UNCHANGED <<clock, filled, stamp, walk>>
        /\ sweep' \in [now : 0..MaxTime, backlog : SUBSET Signals]
        /\ sweep'.backlog # {} => sweep'.now # 0
    BY <1>5 DEF SweepPublishes, FeedTypeOK, Idle
  <2>2. sweep.now \in 1..MaxTime
    BY <1>5 DEF SweepPublishes, FeedTypeOK
  <2>3. /\ published' \in [Signals -> 0..MaxTime]
        /\ \A t \in Published : published'[t] = published[t]
    BY <1>5, <2>2, FlipGrows DEF SweepPublishes, FeedTypeOK
  <2>4. FeedTypeOK'
    BY <2>1, <2>3 DEF FeedTypeOK
  <2> QED BY <2>1, <2>3, <2>4, FeedGrows
<1> QED BY <1>1, <1>2, <1>3, <1>4, <1>5

LEMMA StartWalkStep ==
  ASSUME FeedInductive, StartWalk
  PROVE  FeedInductive'
<1>1. walk' = [pc |-> "reading", before |-> Newest, due |-> Published, seen |-> {},
               repeated |-> FALSE]
  BY DEF StartWalk, NoWalk
<1>2. UNCHANGED <<clock, filled, stamp, published, sweep>>
  BY DEF StartWalk
<1>3. FeedTypeOK'
  BY <1>1, <1>2, FeedAssumption DEF FeedInductive, FeedTypeOK, Walking, Newest, Published
<1>4. \A s \in Published : ~ (published[s] >= Newest)
  BY FeedAssumption DEF FeedInductive, FeedTypeOK, Newest, Published
<1>5. CursorInv'
  BY <1>1, <1>2, <1>4, FeedAssumption DEF CursorInv, Newest, Published
<1> QED BY <1>1, <1>3, <1>5 DEF FeedInductive, WalkIsExact

(* A page holds what the cursor has not passed, newest first.                 *)
LEMMA ReadPageStep ==
  ASSUME FeedInductive, ReadPage
  PROVE  FeedInductive'
<1> DEFINE page == Page(walk.before)
           next == NextBefore(page)
<1>1. /\ walk.pc = "reading"
      /\ walk' = [walk EXCEPT !.pc = IF next = 0 THEN "done" ELSE "reading",
                              !.before = next,
                              !.seen = @ \cup page,
                              !.repeated = @ \/ page \cap walk.seen # {}]
      /\ UNCHANGED <<clock, filled, stamp, published, sweep>>
  BY DEF ReadPage
<1>2. FeedTypeOK
  BY DEF FeedInductive
<1>3. page \subseteq Before(walk.before) /\ Before(walk.before) \subseteq Signals
  BY DEF Page, Before, Published
<1>4. next # 0 => next \in 1..MaxTime
  BY <1>2, <1>3, NextCursor DEF FeedTypeOK
<1>5. FeedTypeOK'
  <2>1. walk' \in [pc : Walking, before : 0..Newest, due : SUBSET Signals,
                   seen : SUBSET Signals, repeated : BOOLEAN]
    <3>1. next \in 0..Newest
      BY <1>4, FeedAssumption DEF Newest
    <3>2. walk.seen \cup page \subseteq Signals
      BY <1>2, <1>3 DEF FeedTypeOK
    <3> HIDE DEF page, next
    <3> QED BY <1>1, <1>2, <3>1, <3>2 DEF FeedTypeOK, Walking
  <2> QED BY <1>1, <1>2, <2>1 DEF FeedTypeOK
<1>6. page \cap walk.seen = {}
  BY <1>1, <1>2, <1>3 DEF FeedInductive, CursorInv, Before, FeedTypeOK
<1>7. /\ walk'.pc = IF next = 0 THEN "done" ELSE "reading"
      /\ walk'.before = next /\ walk'.due = walk.due
      /\ walk'.seen = walk.seen \cup page /\ walk'.repeated = FALSE
  BY <1>1, <1>2, <1>6 DEF FeedTypeOK, FeedInductive, WalkIsExact
<1>8. ASSUME next # 0 PROVE \A s \in walk'.seen : published'[s] >= walk'.before
  <2>1. PICK l \in page : next = published[l] /\ \A t \in page \ {l} : Newer(t, l)
    BY <1>2, <1>8, NextCursor
  <2>2. \A s \in page : published[s] >= next
    BY <1>2, <1>3, <2>1 DEF Newer, FeedTypeOK
  <2>3. \A s \in walk.seen : published[s] >= walk.before
    BY <1>1 DEF FeedInductive, CursorInv
  <2>4. walk.before >= next
    BY <1>2, <1>3, <2>1 DEF Before, FeedTypeOK
  <2>5. \A s \in walk.seen : published[s] >= next
    BY <1>2, <1>4, <1>8, <2>3, <2>4 DEF FeedTypeOK
  <2> QED BY <1>1, <1>7, <2>2, <2>5
<1>9. ASSUME TiesAbsent, NEW s \in walk.due, published[s] >= next
      PROVE  s \in walk.seen \cup page
  <2>1. s \in Published /\ s \in Signals
    BY DEF FeedInductive, CursorInv, Published
  <2>2. CASE published[s] >= walk.before
    BY <1>1, <1>9, <2>2 DEF FeedInductive, CursorInv
  <2>3. CASE ~ (published[s] >= walk.before)
    <3>1. s \in Before(walk.before)
      BY <1>2, <2>1, <2>3 DEF Before, FeedTypeOK
    <3>2. CASE next = 0
      <4>1. Cardinality(page) < PageSize
        <5> SUFFICES ASSUME ~ (Cardinality(page) < PageSize) PROVE FALSE
          OBVIOUS
        <5>1. page # {}
          BY FS_EmptySet, FeedAssumption
        <5>2. \E r \in page : \A t \in page \ {r} : Newer(t, r)
          BY <1>2, <1>3, <5>1, OldestRow
        <5>3. \E r \in page : next = published[r]
          BY <5>2 DEF NextBefore
        <5> QED BY <1>3, <3>2, <5>3 DEF Before, Published
      <4> QED BY <1>2, <3>1, <4>1, ShortPageIsLast
    <3>3. CASE next # 0
      <4>1. PICK l \in page : next = published[l] /\ \A t \in page \ {l} : Newer(t, l)
        BY <1>2, <3>3, NextCursor
      <4>2. l \in Published
        BY <1>3 DEF Before
      <4>3. s = l \/ Newer(s, l)
        BY <1>2, <1>9, <2>1, <4>1, <4>2 DEF TiesAbsent, Newer, FeedTypeOK, Published
      <4> QED BY <1>2, <3>1, <4>1, <4>3, PagesAreClosed
    <3> QED BY <3>2, <3>3
  <2> QED BY <2>2, <2>3
<1>10. TiesAbsent' <=> TiesAbsent
  BY <1>1 DEF TiesAbsent, Published
<1>11. CursorInv'
  BY <1>1, <1>7, <1>8, <1>9, <1>10 DEF FeedInductive, CursorInv, Published
<1>12. WalkIsExact'
  <2>1. \A s \in walk.due : next = 0 => published[s] >= next
    BY <1>2 DEF FeedTypeOK
  <2> QED BY <1>7, <1>9, <1>10, <2>1 DEF WalkIsExact
<1> QED BY <1>5, <1>11, <1>12 DEF FeedInductive

LEMMA FeedSteps ==
  ASSUME FeedInductive, [FeedNext]_feed
  PROVE  FeedInductive'
<1>1. CASE UNCHANGED feed
  BY <1>1 DEF feed, FeedInductive, FeedTypeOK, CursorInv, WalkIsExact, TiesAbsent, Published
<1> QED BY <1>1, PublishersStep, StartWalkStep, ReadPageStep DEF FeedNext

(* The cursor separates what was shown from what is to come, for feeds and    *)
(* pages of every size (db/signals.ts, routes/feed.ts).                       *)
THEOREM FeedHolds == FeedSpec => []FeedInductive
<1>1. FeedInit => FeedInductive
  BY FeedStarts
<1>2. FeedInductive /\ [FeedNext]_feed => FeedInductive'
  BY FeedSteps
<1> QED BY <1>1, <1>2, PTL DEF FeedSpec

(* A walk repeats nothing, and skips nothing where instants are distinct.     *)
THEOREM WalksAreExact == FeedSpec => []WalkIsExact
<1>1. FeedInductive => WalkIsExact
  BY DEF FeedInductive
<1>2. FeedSpec => []FeedInductive
  BY FeedHolds
<1> QED BY <1>1, <1>2, PTL
-----------------------------------------------------------------------------
(* Connection: for any calls, placements and bounds.                          *)

(* The rest state of a call.                                                  *)
LEMMA NoCallFits ==
  /\ NoCall \in Call
  /\ NoCall.pc = "idle" /\ NoCall.back = "sent"
  BY DEF NoCall, Call, CallSteps

(* Before the process boots nothing is connected and the seed is in force.    *)
LEMMA ConnectionStarts == ConnectionInit => ConnectionInductive
<1> SUFFICES ASSUME ConnectionInit PROVE ConnectionInductive
  OBVIOUS
<1>1. \A c \in Calls : call[c] = NoCall
  BY DEF ConnectionInit
<1>2. ConnectionTypeOK
  BY NoCallFits DEF ConnectionInit, ConnectionTypeOK, Seed
<1>3. AttemptInv
  BY <1>1, NoCallFits DEF ConnectionInit, AttemptInv, Owner, Refreshing
<1>4. CredentialInv
  BY <1>1, NoCallFits DEF ConnectionInit, CredentialInv, Storing, Seed
<1> QED BY <1>2, <1>3, <1>4 DEF ConnectionInit, ConnectionInductive

(* What a call in hand is.                                                    *)
LEMMA ConnectionInHand ==
  ASSUME ConnectionInductive, NEW c \in Calls
  PROVE  call[c] \in Call /\ call \in [Calls -> Call]
  BY DEF ConnectionInductive, ConnectionTypeOK

(* One call moves on; the session, the credential and the orders stay.        *)
LEMMA ConnectionMovesOn ==
  ASSUME ConnectionInductive, NEW c \in Calls, NEW q \in Call, up,
         call' = [call EXCEPT ![c] = q],
         q.pc \in {"idle", "connect", "sent", "asleep"},
         UNCHANGED <<up, connecting, opening, sessions, orders, stored, issued, lost, overwritten>>,
         call[c].pc \notin Storing, ~Owner(c),
         client' \in Nat, account' \in BOOLEAN
  PROVE  ConnectionInductive'
<1>1. /\ call'[c] = q
      /\ \A d \in Calls \ {c} : call'[d] = call[d]
  BY ConnectionInHand
<1>2. ConnectionTypeOK'
  BY DEF ConnectionInductive, ConnectionTypeOK
<1>3. AttemptInv'
  BY <1>1 DEF ConnectionInductive, AttemptInv, Owner, Refreshing
<1>4. CredentialInv'
  BY <1>1 DEF ConnectionInductive, CredentialInv, Storing
<1> QED BY <1>2, <1>3, <1>4 DEF ConnectionInductive

------------------------------------------------------------------------------
(* Calls, their answers and their failures.                                   *)

LEMMA BeginStep ==
  ASSUME ConnectionInductive, NEW c \in Calls, NEW op \in Refs \cup {"read"}, NEW scoped \in BOOLEAN,
         Begin(c, op, scoped)
  PROVE  ConnectionInductive'
<1> DEFINE q == [NoCall EXCEPT !.pc = "connect", !.op = op, !.attempt = 1,
                               !.stage = IF scoped /\ ~account THEN "accounts" ELSE "tool"]
<1>1. q \in Call /\ q.pc = "connect"
  BY DEF NoCall, Call, CallSteps
<1>2. /\ up /\ call[c].pc = "idle" /\ call' = [call EXCEPT ![c] = q]
      /\ UNCHANGED <<up, session, account, orders, credential>>
  BY DEF Begin, Become
<1> HIDE DEF q
<1> QED BY <1>1, <1>2, ConnectionMovesOn DEF session, credential, Storing, Owner, Refreshing, ConnectionInductive, ConnectionTypeOK

(* A call that failed for a passing reason, and has an attempt left or none.  *)
LEMMA FailedFits ==
  ASSUME ConnectionInductive, NEW c \in Calls
  PROVE  Failed(c) \in Call /\ Failed(c).pc \in {"asleep", "idle"}
<1> DEFINE q == [call[c] EXCEPT !.pc = "asleep", !.attempt = call[c].attempt + 1, !.on = 0]
<1>1. call[c] \in Call /\ call[c].attempt + 1 \in Nat
  BY ConnectionInHand DEF Call
<1>2. q \in Call /\ q.pc = "asleep"
  BY <1>1 DEF Call, CallSteps
<1>3. Failed(c) = q \/ Failed(c) = NoCall
  BY DEF Failed
<1> HIDE DEF q
<1> QED BY <1>2, <1>3, NoCallFits

LEMMA AnswerStep ==
  ASSUME ConnectionInductive, NEW c \in Calls,
         Wake(c) \/ AccountResolved(c) \/ NextBatch(c) \/ Answered(c)
  PROVE  ConnectionInductive'
<1>1. /\ call[c].pc \in {"asleep", "sent"}
      /\ UNCHANGED <<up, session, orders, credential>> /\ account' \in BOOLEAN
  BY DEF Wake, AccountResolved, NextBatch, Answered, ConnectionInductive, ConnectionTypeOK
<1>2. PICK q \in Call : q.pc \in {"connect", "idle"} /\ call' = [call EXCEPT ![c] = q]
  <2>1. CASE Wake(c)
    <3> DEFINE q == [call[c] EXCEPT !.pc = "connect"]
    <3>1. q \in Call /\ q.pc = "connect"
      BY ConnectionInHand DEF Call, CallSteps
    <3>2. call' = [call EXCEPT ![c] = q]
      BY <2>1, ConnectionInHand DEF Wake, Goto
    <3> HIDE DEF q
    <3> QED BY <3>1, <3>2
  <2>2. CASE AccountResolved(c)
    <3> DEFINE q == [call[c] EXCEPT !.pc = "connect", !.stage = "tool", !.attempt = 1, !.on = 0]
    <3>1. q \in Call /\ q.pc = "connect"
      BY ConnectionInHand DEF Call, CallSteps
    <3>2. call' = [call EXCEPT ![c] = q]
      BY <2>2 DEF AccountResolved, Become
    <3> HIDE DEF q
    <3> QED BY <3>1, <3>2
  <2>3. CASE NextBatch(c)
    <3> DEFINE q == [call[c] EXCEPT !.pc = "connect", !.attempt = 1, !.on = 0]
    <3>1. q \in Call /\ q.pc = "connect"
      BY ConnectionInHand DEF Call, CallSteps
    <3>2. call' = [call EXCEPT ![c] = q]
      BY <2>3 DEF NextBatch, Become
    <3> HIDE DEF q
    <3> QED BY <3>1, <3>2
  <2>4. CASE Answered(c)
    BY <2>4, NoCallFits DEF Answered, Return
  <2> QED BY <2>1, <2>2, <2>3, <2>4
<1> QED BY <1>1, <1>2, ConnectionMovesOn DEF session, credential, Storing, Owner, Refreshing, ConnectionInductive,
                                  ConnectionTypeOK, CredentialInv

LEMMA CallFailsStep ==
  ASSUME ConnectionInductive, NEW c \in Calls, NEW passing \in BOOLEAN, CallFails(c, passing)
  PROVE  ConnectionInductive'
<1> DEFINE q == IF passing THEN Failed(c) ELSE NoCall
<1>1. /\ call[c].pc = "sent" /\ call' = [call EXCEPT ![c] = q]
      /\ client' \in Nat /\ account' \in BOOLEAN
      /\ UNCHANGED <<up, connecting, opening, sessions, orders, credential>>
  BY DEF CallFails, Become, ConnectionInductive, ConnectionTypeOK
<1>2. q \in Call /\ q.pc \in {"asleep", "idle"}
  BY FailedFits, NoCallFits
<1> HIDE DEF q
<1> QED BY <1>1, <1>2, ConnectionMovesOn DEF credential, Storing, Owner, Refreshing, ConnectionInductive, CredentialInv

(* The broker executes a placement: under its one key.                        *)
LEMMA ReachesStep ==
  ASSUME ConnectionInductive, NEW c \in Calls, Reaches(c)
  PROVE  ConnectionInductive'
<1>1. UNCHANGED <<up, session, account, call, credential>>
  BY DEF Reaches
<1>2. /\ orders' \subseteq [ref : Refs, key : Refs \X Nat]
      /\ \A o \in orders' : o.key = <<o.ref, 0>>
  BY DEF Reaches, Key, ConnectionInductive, ConnectionTypeOK
<1> QED BY <1>1, <1>2 DEF session, credential, ConnectionInductive, ConnectionTypeOK, AttemptInv,
                          CredentialInv, Owner

------------------------------------------------------------------------------
(* The attempt to connect.                                                    *)

LEMMA ConnectStep ==
  ASSUME ConnectionInductive, NEW c \in Calls, Connect(c)
  PROVE  ConnectionInductive'
<1>1. /\ call[c].pc = "connect" /\ UNCHANGED <<up, account, orders, credential>>
      /\ call[c] \in Call /\ call \in [Calls -> Call]
      /\ client \in Nat /\ connecting \in Nat /\ sessions \in Nat /\ opening \subseteq Nat
      /\ up
  BY ConnectionInHand DEF Connect, ConnectionInductive, ConnectionTypeOK, CredentialInv
<1>2. CASE client # 0 /\ Become(c, [call[c] EXCEPT !.pc = "sent", !.on = client]) /\ UNCHANGED session
  <2> DEFINE q == [call[c] EXCEPT !.pc = "sent", !.on = client]
  <2>1. q \in Call /\ q.pc = "sent" /\ call' = [call EXCEPT ![c] = q]
    BY <1>1, <1>2 DEF Become, Call, CallSteps
  <2> HIDE DEF q
  <2> QED BY <1>1, <1>2, <2>1, ConnectionMovesOn DEF session, credential, Storing, Owner, Refreshing, ConnectionInductive,
                                          ConnectionTypeOK
<1>3. CASE Shares /\ Become(c, [call[c] EXCEPT !.pc = "waiting", !.on = connecting]) /\ UNCHANGED session
  <2> DEFINE q == [call[c] EXCEPT !.pc = "waiting", !.on = connecting]
  <2>1. q \in Call /\ q.pc = "waiting" /\ q.on = connecting /\ call' = [call EXCEPT ![c] = q]
    BY <1>1, <1>3 DEF Become, Call, CallSteps
  <2> HIDE DEF q
  <2>2. call'[c] = q /\ \A d \in Calls \ {c} : call'[d] = call[d]
    BY <1>1, <2>1
  <2>3. ConnectionTypeOK'
    BY <1>1, <1>3, <2>1 DEF session, credential, ConnectionInductive, ConnectionTypeOK
  <2>4. AttemptInv'
    BY <1>1, <1>3, <2>1, <2>2 DEF session, Shares, ConnectionInductive, AttemptInv, Owner, Refreshing
  <2>5. CredentialInv'
    BY <1>1, <2>1, <2>2 DEF credential, ConnectionInductive, CredentialInv, Storing
  <2> QED BY <1>1, <2>3, <2>4, <2>5 DEF ConnectionInductive
<1>4. CASE /\ ~Shares
           /\ sessions' = sessions + 1
           /\ connecting' = sessions + 1
           /\ opening' = opening \cup {sessions + 1}
           /\ Become(c, [call[c] EXCEPT !.pc = "opening", !.on = sessions + 1])
           /\ UNCHANGED client
  <2> DEFINE q == [call[c] EXCEPT !.pc = "opening", !.on = sessions + 1]
  <2>1. /\ q \in Call /\ q.pc = "opening" /\ q.on = sessions + 1
        /\ call' = [call EXCEPT ![c] = q]
    <3>1. sessions + 1 \in Nat
      BY <1>1
    <3>2. q \in Call /\ q.pc = "opening" /\ q.on = sessions + 1
      BY <1>1, <3>1 DEF Call, CallSteps
    <3> QED BY <1>4, <3>2 DEF Become
  <2> HIDE DEF q
  <2>2. call'[c] = q /\ \A d \in Calls \ {c} : call'[d] = call[d]
    BY <1>1, <2>1
  <2>3. ConnectionTypeOK'
    BY <1>1, <1>4, <2>1 DEF credential, ConnectionInductive, ConnectionTypeOK
  <2>4. AttemptInv'
    BY <1>1, <1>4, <2>1, <2>2 DEF Shares, ConnectionInductive, AttemptInv, Owner, Refreshing
  <2>5. CredentialInv'
    BY <1>1, <2>1, <2>2 DEF credential, ConnectionInductive, CredentialInv, Storing
  <2> QED BY <1>1, <2>3, <2>4, <2>5 DEF ConnectionInductive
<1> QED BY <1>2, <1>3, <1>4 DEF Connect

(* Nobody shares an attempt but its owner and those who wait for it; when it  *)
(* ends, all of them move on and none is at the store.                        *)
LEMMA AttemptEnds ==
  ASSUME ConnectionInductive, NEW c \in Calls, Owner(c),
         connecting' = 0, opening' = opening \ {call[c].on},
         call' \in [Calls -> Call],
         \A d \in Calls : \/ d # c /\ call[d].pc # "waiting" /\ call'[d] = call[d]
                          \/ (d = c \/ call[d].pc = "waiting") /\ call'[d].pc \in {"idle", "sent", "asleep"},
         UNCHANGED <<up, sessions, account, orders, issued, lost>>,
         client' \in Nat, stored' \in Nat \ {0}, overwritten' \in BOOLEAN,
         UNCHANGED <<stored, overwritten>> \/ overwritten',
         overwritten => overwritten',
         call[c].pc \notin Storing
  PROVE  ConnectionInductive'
<1>1. up /\ ConnectionTypeOK /\ AttemptInv /\ CredentialInv
  BY DEF ConnectionInductive, CredentialInv, Owner, Refreshing
<1>2. ConnectionTypeOK'
  BY <1>1 DEF ConnectionTypeOK
<1>3. AttemptInv'
  BY <1>1 DEF AttemptInv, Owner, Refreshing
<1>4. CredentialInv'
  <2>1. CASE overwritten'
    BY <1>1, <2>1 DEF CredentialInv, ConnectionTypeOK, Seed, Storing
  <2>2. CASE UNCHANGED <<stored, overwritten>>
    BY <1>1, <2>2 DEF CredentialInv, ConnectionTypeOK, Seed, Storing
  <2> QED BY <2>1, <2>2
<1> QED BY <1>2, <1>3, <1>4 DEF ConnectionInductive

LEMMA OpenedStep ==
  ASSUME ConnectionInductive, NEW c \in Calls, Opened(c)
  PROVE  ConnectionInductive'
<1>1. Owner(c) /\ call \in [Calls -> Call] /\ ConnectionTypeOK /\ AttemptInv
  BY DEF Opened, Owner, ConnectionInductive, ConnectionTypeOK
<1>2. \A d \in Calls : /\ call'[d] = IF d \in Sharers(call[c].on)
                                     THEN [call[d] EXCEPT !.pc = "sent"] ELSE call[d]
                       /\ d \in Sharers(call[c].on) <=> d = c \/ call[d].pc = "waiting"
  BY <1>1 DEF Opened, Sharers, AttemptInv, Owner
<1>3. \A d \in Calls : [call[d] EXCEPT !.pc = "sent"] \in Call /\ [call[d] EXCEPT !.pc = "sent"].pc = "sent"
  BY ConnectionInHand DEF Call, CallSteps
<1>4. call' \in [Calls -> Call]
  BY <1>1, <1>3 DEF Opened
<1>5. client' \in Nat /\ stored' \in Nat \ {0} /\ overwritten' \in BOOLEAN
  BY <1>1, ConnectionInHand DEF Opened, credential, ConnectionInductive, ConnectionTypeOK, CredentialInv, Call
<1>6. \A d \in Calls : \/ d # c /\ call[d].pc # "waiting" /\ call'[d] = call[d]
                       \/ (d = c \/ call[d].pc = "waiting") /\ call'[d].pc = "sent"
  BY <1>2, <1>3
<1> QED BY <1>1, <1>4, <1>5, <1>6, AttemptEnds DEF Opened, credential, Storing

LEMMA OpenFailsStep ==
  ASSUME ConnectionInductive, NEW c \in Calls, NEW passing \in BOOLEAN, OpenFails(c, passing)
  PROVE  ConnectionInductive'
<1>1. Owner(c) /\ call \in [Calls -> Call] /\ ConnectionTypeOK /\ AttemptInv
  BY DEF OpenFails, Owner, ConnectionInductive, ConnectionTypeOK
<1>2. \A d \in Calls : /\ call'[d] = IF d \notin Sharers(call[c].on) THEN call[d]
                                     ELSE IF passing THEN Failed(d) ELSE NoCall
                       /\ d \in Sharers(call[c].on) <=> d = c \/ call[d].pc = "waiting"
  BY <1>1 DEF OpenFails, Sharers, AttemptInv, Owner
<1>3. \A d \in Calls : Failed(d) \in Call /\ Failed(d).pc \in {"asleep", "idle"}
  BY FailedFits
<1>4. call' \in [Calls -> Call]
  BY <1>1, <1>3, NoCallFits DEF OpenFails
<1>5. client' \in Nat /\ stored' \in Nat \ {0} /\ overwritten' \in BOOLEAN
  BY <1>1 DEF OpenFails, credential, ConnectionInductive, ConnectionTypeOK, CredentialInv
<1>6. \A d \in Calls : \/ d # c /\ call[d].pc # "waiting" /\ call'[d] = call[d]
                       \/ (d = c \/ call[d].pc = "waiting") /\ call'[d].pc \in {"idle", "asleep"}
  BY <1>2, <1>3, NoCallFits
<1> QED BY <1>1, <1>4, <1>5, <1>6, AttemptEnds DEF OpenFails, credential, Storing

------------------------------------------------------------------------------
(* The credential.                                                            *)

LEMMA UnauthorizedStep ==
  ASSUME ConnectionInductive, NEW c \in Calls, Unauthorized(c)
  PROVE  ConnectionInductive'
<1> DEFINE q == [call[c] EXCEPT !.pc = "load", !.back = call[c].pc, !.retried = FALSE]
<1>1. /\ call[c].pc \in {"sent", "opening"} /\ call' = [call EXCEPT ![c] = q]
      /\ UNCHANGED <<up, session, account, orders, credential>>
  BY DEF Unauthorized, Become
<1>2. q \in Call /\ q.pc = "load" /\ q.back = call[c].pc /\ q.on = call[c].on
  BY <1>1, ConnectionInHand DEF Call, CallSteps
<1> HIDE DEF q
<1>3. call'[c] = q /\ \A d \in Calls \ {c} : call'[d] = call[d]
  BY <1>1, ConnectionInHand
<1>4. ConnectionTypeOK'
  BY <1>1, <1>2 DEF session, credential, ConnectionInductive, ConnectionTypeOK
<1>5. AttemptInv'
  BY <1>1, <1>2, <1>3 DEF session, ConnectionInductive, AttemptInv, Owner, Refreshing
<1>6. CredentialInv'
  BY <1>1, <1>2, <1>3 DEF credential, ConnectionInductive, CredentialInv, Storing
<1> QED BY <1>1, <1>4, <1>5, <1>6 DEF ConnectionInductive

LEMMA LoadTokensStep ==
  ASSUME ConnectionInductive, NEW c \in Calls, LoadTokens(c)
  PROVE  ConnectionInductive'
<1> DEFINE q == [call[c] EXCEPT !.pc = "refresh", !.token = stored]
<1>1. /\ call[c].pc = "load" /\ call' = [call EXCEPT ![c] = q]
      /\ UNCHANGED <<up, session, account, orders, credential>>
  BY DEF LoadTokens, Become
<1>2. stored \in Nat /\ issued \in Nat
  BY DEF ConnectionInductive, ConnectionTypeOK
<1>3. /\ q \in Call /\ q.pc = "refresh" /\ q.token = stored
      /\ q.back = call[c].back /\ q.on = call[c].on
  BY <1>1, <1>2, ConnectionInHand DEF Call, CallSteps
<1> HIDE DEF q
<1>4. call'[c] = q /\ \A d \in Calls \ {c} : call'[d] = call[d]
  BY <1>1, ConnectionInHand
<1>5. ConnectionTypeOK'
  BY <1>1, <1>3 DEF session, credential, ConnectionInductive, ConnectionTypeOK
<1>6. AttemptInv'
  BY <1>1, <1>3, <1>4 DEF session, ConnectionInductive, AttemptInv, Owner, Refreshing
<1>7. CredentialInv'
  BY <1>1, <1>2, <1>3, <1>4 DEF credential, ConnectionInductive, CredentialInv, Storing
<1> QED BY <1>1, <1>5, <1>6, <1>7 DEF ConnectionInductive

(* A request that fails at the store or at the token endpoint is over, and    *)
(* with it the handshake it may have been part of.                            *)
LEMMA RequestEnds ==
  ASSUME ConnectionInductive, NEW c \in Calls, NEW passing \in BOOLEAN,
         RequestFails(c, passing), call[c].pc \in Refreshing, call[c].pc \notin Storing,
         UNCHANGED <<up, account, orders, issued, lost>>,
         stored' \in Nat \ {0}, overwritten' \in BOOLEAN,
         UNCHANGED <<stored, overwritten>> \/ overwritten',
         overwritten => overwritten'
  PROVE  ConnectionInductive'
<1>1. ConnectionTypeOK /\ AttemptInv /\ CredentialInv
  BY DEF ConnectionInductive
<1>2. \A d \in Calls : Failed(d) \in Call /\ Failed(d).pc \in {"asleep", "idle"}
  BY FailedFits
<1> DEFINE after(d) == IF passing THEN Failed(d) ELSE NoCall
<1>3. \A d \in Calls : after(d) \in Call /\ after(d).pc \in {"asleep", "idle"}
  BY <1>2, NoCallFits
<1>4. /\ call' = [d \in Calls |-> IF d \notin Concerned(c) THEN call[d] ELSE after(d)]
      /\ client' \in Nat /\ sessions' = sessions
  BY <1>1 DEF RequestFails, ConnectionTypeOK
<1> HIDE DEF after
<1>5. /\ call' \in [Calls -> Call]
      /\ \A d \in Calls : call'[d] = IF d \notin Concerned(c) THEN call[d] ELSE after(d)
  BY <1>1, <1>3, <1>4 DEF ConnectionTypeOK
<1>6. CASE call[c].back = "opening"
  <2>1. Owner(c)
    BY <1>6 DEF Owner
  <2>2. \A d \in Calls : d \in Concerned(c) <=> d = c \/ call[d].pc = "waiting"
    BY <1>1, <1>6, <2>1 DEF Concerned, AttemptInv
  <2>3. \A d \in Calls : \/ d # c /\ call[d].pc # "waiting" /\ call'[d] = call[d]
                         \/ (d = c \/ call[d].pc = "waiting") /\ call'[d].pc \in {"idle", "sent", "asleep"}
    BY <1>3, <1>5, <2>2
  <2>4. connecting' = 0 /\ opening' = opening \ {call[c].on}
    BY <1>6 DEF RequestFails
  <2> QED BY <1>4, <1>5, <2>1, <2>3, <2>4, AttemptEnds
<1>7. CASE call[c].back # "opening"
  <2>1. /\ call'[c].pc \in {"asleep", "idle"}
        /\ \A d \in Calls \ {c} : call'[d] = call[d]
        /\ UNCHANGED <<connecting, opening>>
    BY <1>3, <1>5, <1>7 DEF RequestFails, Concerned
  <2>2. ConnectionTypeOK'
    BY <1>1, <1>4, <1>5, <2>1 DEF ConnectionTypeOK
  <2>3. AttemptInv'
    BY <1>1, <2>1 DEF AttemptInv, Owner, Refreshing
  <2>4. CredentialInv'
    <3>1. up
      BY <1>1 DEF CredentialInv, Refreshing
    <3>2. CASE overwritten'
      BY <1>1, <2>1, <3>1, <3>2 DEF CredentialInv, ConnectionTypeOK, Seed, Storing
    <3>3. CASE UNCHANGED <<stored, overwritten>>
      BY <1>1, <2>1, <3>1, <3>3 DEF CredentialInv, ConnectionTypeOK, Seed, Storing
    <3> QED BY <3>2, <3>3
  <2> QED BY <2>2, <2>3, <2>4 DEF ConnectionInductive
<1> QED BY <1>6, <1>7

(* A request under renewal goes on to the verifier, or between the two steps  *)
(* of saveTokens.                                                             *)
LEMMA RenewalGoesOn ==
  ASSUME ConnectionInductive, NEW c \in Calls, NEW q \in Call,
         call[c].pc \in Refreshing, call' = [call EXCEPT ![c] = q],
         q.back = call[c].back, q.on = call[c].on,
         UNCHANGED <<up, session, account, orders, stored, overwritten>>,
         issued' \in Nat, issued <= issued', lost' \in BOOLEAN,
         UNCHANGED <<issued, lost>> \/ lost', lost => lost',
         \/ q.pc = "verifier" /\ (call[c].pc \in Storing => lost')
         \/ q.pc = "writeBack" /\ q.token # 0 /\ call[c].pc \notin Storing
         \/ q.pc = "save" /\ q.token = call[c].token /\ call[c].pc \in Storing
  PROVE  ConnectionInductive'
<1>1. /\ ConnectionTypeOK /\ AttemptInv /\ CredentialInv
      /\ q.pc \in Refreshing
      /\ up
  BY DEF ConnectionInductive, Refreshing, CredentialInv
<1>2. call'[c] = q /\ \A d \in Calls \ {c} : call'[d] = call[d]
  BY ConnectionInHand
<1>3. ConnectionTypeOK'
  BY <1>1 DEF session, ConnectionTypeOK
<1>4. AttemptInv'
  BY <1>1, <1>2 DEF session, AttemptInv, Owner, Refreshing
<1>5. CredentialInv'
  <2>1. CASE lost'
    BY <1>1, <1>2, <2>1 DEF CredentialInv, ConnectionTypeOK, Seed, Storing
  <2>2. CASE ~lost' /\ call[c].pc \notin Storing
    BY <1>1, <1>2, <2>2 DEF CredentialInv, Storing
  <2>3. CASE ~lost' /\ call[c].pc \in Storing
    <3>1. /\ q.pc \in Storing /\ q.token = call[c].token /\ UNCHANGED <<stored, issued, lost, overwritten>>
          /\ q.pc # "writeBack" /\ q.pc # "refresh"
      BY <2>3 DEF Storing
    <3>2. \A d \in Calls : /\ call'[d].pc \in Storing <=> call[d].pc \in Storing
                           /\ call'[d].pc \in Storing => call'[d].token = call[d].token
                           /\ call'[d].pc \in {"refresh", "writeBack"} =>
                                call'[d].pc = call[d].pc /\ call'[d].token = call[d].token
                           /\ call'[d].pc # "idle" => call[d].pc # "idle"
      BY <1>2, <2>3, <3>1 DEF Storing
    <3> QED BY <1>1, <3>1, <3>2 DEF CredentialInv
  <2> QED BY <2>1, <2>2, <2>3
<1> QED BY <1>1, <1>3, <1>4, <1>5 DEF ConnectionInductive

(* The rotation: nobody else can have the spent token, because it was stored  *)
(* and not yet replaced.                                                      *)
LEMMA RefreshStep ==
  ASSUME ConnectionInductive, NEW c \in Calls, Refresh(c)
  PROVE  ConnectionInductive'
<1>1. /\ call[c].pc = "refresh" /\ UNCHANGED <<up, account, orders, stored, lost, overwritten>>
      /\ stored \in Nat \ {0} /\ overwritten \in BOOLEAN /\ issued \in Nat /\ lost \in BOOLEAN /\ up
  BY DEF Refresh, ConnectionInductive, ConnectionTypeOK, CredentialInv
<1>2. CASE /\ call[c].token = issued
           /\ issued' = issued + 1
           /\ Become(c, [call[c] EXCEPT !.pc = "store", !.token = issued + 1])
           /\ UNCHANGED session
  <2> DEFINE q == [call[c] EXCEPT !.pc = "store", !.token = issued + 1]
  <2>1. issued + 1 \in Nat
    BY <1>1
  <2>2. /\ q \in Call /\ q.pc = "store" /\ q.token = issued + 1
        /\ q.back = call[c].back /\ q.on = call[c].on
    BY <2>1, ConnectionInHand DEF Call, CallSteps
  <2>3. call' = [call EXCEPT ![c] = q]
    BY <1>2 DEF Become
  <2> HIDE DEF q
  <2>4. call'[c] = q /\ \A d \in Calls \ {c} : call'[d] = call[d]
    BY <2>3, ConnectionInHand
  <2>5. ConnectionTypeOK'
    BY <1>1, <1>2, <2>1, <2>2, <2>3 DEF session, ConnectionInductive, ConnectionTypeOK
  <2>6. AttemptInv'
    BY <1>1, <1>2, <2>2, <2>4 DEF session, ConnectionInductive, AttemptInv, Owner, Refreshing
  <2>7. CredentialInv'
    <3>1. \A d \in Calls : call[d].token \in Nat
      BY ConnectionInHand DEF Call
    <3>2. ~lost /\ ~overwritten =>
                   /\ \A d \in Calls : call[d].pc \notin Storing
                   /\ stored <= issued
                   /\ \A d \in Calls : call[d].pc = "refresh" => call[d].token <= issued
      BY <1>1, <1>2 DEF ConnectionInductive, CredentialInv
    <3> QED BY <1>1, <1>2, <2>2, <2>4, <3>1, <3>2 DEF ConnectionInductive, CredentialInv, Storing, Seed
  <2> QED BY <1>1, <2>5, <2>6, <2>7 DEF ConnectionInductive
<1>3. CASE /\ Become(c, [call[c] EXCEPT !.pc = "load", !.retried = TRUE])
           /\ UNCHANGED <<session, issued>>
  <2> DEFINE q == [call[c] EXCEPT !.pc = "load", !.retried = TRUE]
  <2>1. q \in Call /\ q.pc = "load" /\ q.back = call[c].back /\ q.on = call[c].on
    BY ConnectionInHand DEF Call, CallSteps
  <2>2. call' = [call EXCEPT ![c] = q]
    BY <1>3 DEF Become
  <2> HIDE DEF q
  <2>3. call'[c] = q /\ \A d \in Calls \ {c} : call'[d] = call[d]
    BY <2>2, ConnectionInHand
  <2>4. ConnectionTypeOK'
    BY <1>1, <1>3, <2>1, <2>2 DEF session, ConnectionInductive, ConnectionTypeOK
  <2>5. AttemptInv'
    BY <1>1, <1>3, <2>1, <2>3 DEF session, ConnectionInductive, AttemptInv, Owner, Refreshing
  <2>6. CredentialInv'
    BY <1>1, <1>3, <2>1, <2>3 DEF ConnectionInductive, CredentialInv, Storing
  <2> QED BY <1>1, <2>4, <2>5, <2>6 DEF ConnectionInductive
<1>4. CASE GiveUp(c) /\ UNCHANGED issued
  BY <1>1, <1>4, RequestEnds DEF GiveUp, Refreshing, Storing
<1> QED BY <1>2, <1>3, <1>4 DEF Refresh

LEMMA RefreshFailsStep ==
  ASSUME ConnectionInductive, NEW c \in Calls, RefreshFails(c) \/ SaveFails(c)
  PROVE  ConnectionInductive'
<1>1. /\ call[c].pc \in Refreshing /\ UNCHANGED <<up, account, orders, stored, overwritten>>
      /\ issued \in Nat /\ stored \in Nat \ {0} /\ lost \in BOOLEAN /\ overwritten \in BOOLEAN
  BY DEF RefreshFails, SaveFails, Refreshing, Storing, ConnectionInductive, ConnectionTypeOK, CredentialInv
<1>2. CASE GiveUp(c) /\ UNCHANGED <<issued, lost>> /\ call[c].pc = "refresh"
  BY <1>1, <1>2, RequestEnds DEF GiveUp, Storing
<1>3. CASE Become(c, [call[c] EXCEPT !.pc = "verifier", !.token = 0, !.retried = FALSE])
           /\ UNCHANGED session
  <2> DEFINE q == [call[c] EXCEPT !.pc = "verifier", !.token = 0, !.retried = FALSE]
  <2>1. q \in Call /\ q.pc = "verifier" /\ q.back = call[c].back /\ q.on = call[c].on
    BY ConnectionInHand DEF Call, CallSteps
  <2>2. call' = [call EXCEPT ![c] = q]
    BY <1>3 DEF Become
  <2> HIDE DEF q
  <2>3. /\ issued' = issued \/ issued' = issued + 1
        /\ lost' = TRUE \/ UNCHANGED <<issued, lost>>
        /\ call[c].pc \in Storing => lost'
    BY <1>1 DEF RefreshFails, SaveFails, credential, Storing
  <2>4. issued' \in Nat /\ issued <= issued'
    BY <1>1, <2>3
  <2>5. lost' \in BOOLEAN /\ (UNCHANGED <<issued, lost>> \/ lost') /\ (lost => lost')
    <3>1. CASE lost' = TRUE
      BY <3>1
    <3>2. CASE UNCHANGED <<issued, lost>>
      BY <3>2, <1>1
    <3> QED BY <2>3, <3>1, <3>2
  <2> QED BY <1>1, <1>3, <2>1, <2>2, <2>3, <2>4, <2>5, RenewalGoesOn
<1> QED BY <1>2, <1>3 DEF RefreshFails, SaveFails, session

(* The two reads of the row that a save follows.                              *)
LEMMA LoadRowStep ==
  ASSUME ConnectionInductive, NEW c \in Calls, LoadRow(c) \/ LoadVerifier(c)
  PROVE  ConnectionInductive'
<1>1. /\ call[c].pc \in Refreshing /\ UNCHANGED <<up, session, account, orders, credential>>
      /\ issued \in Nat /\ stored \in Nat /\ lost \in BOOLEAN /\ stored # 0
  BY DEF LoadRow, LoadVerifier, Refreshing, ConnectionInductive, ConnectionTypeOK, CredentialInv
<1>4. /\ UNCHANGED <<up, session, account, orders, stored, overwritten>>
      /\ UNCHANGED <<issued, lost>>
      /\ issued' \in Nat /\ issued <= issued' /\ lost' \in BOOLEAN /\ (lost => lost')
  BY <1>1 DEF credential
<1>2. CASE LoadRow(c)
  <2> DEFINE q == [call[c] EXCEPT !.pc = "save"]
  <2>1. /\ q \in Call /\ q.pc = "save" /\ q.back = call[c].back /\ q.on = call[c].on
        /\ q.token = call[c].token
    BY ConnectionInHand DEF Call, CallSteps
  <2>2. call' = [call EXCEPT ![c] = q] /\ call[c].pc \in Storing
    BY <1>2, ConnectionInHand DEF LoadRow, Goto, Storing
  <2> HIDE DEF q
  <2> QED BY <1>1, <1>4, <2>1, <2>2, RenewalGoesOn
<1>3. CASE LoadVerifier(c)
  <2> DEFINE q == [call[c] EXCEPT !.pc = "writeBack", !.token = stored]
  <2>1. /\ q \in Call /\ q.pc = "writeBack" /\ q.back = call[c].back /\ q.on = call[c].on
        /\ q.token = stored
    BY <1>1, ConnectionInHand DEF Call, CallSteps
  <2>2. call' = [call EXCEPT ![c] = q] /\ call[c].pc \notin Storing
    BY <1>3 DEF LoadVerifier, Become, Storing
  <2> HIDE DEF q
  <2> QED BY <1>1, <1>4, <2>1, <2>2, RenewalGoesOn
<1> QED BY <1>2, <1>3

(* What saveCodeVerifier puts back is what the row holds, or is named.        *)
LEMMA RowStep ==
  ASSUME ConnectionInductive, NEW c \in Calls,
         SaveVerifier(c) \/ \E passing \in BOOLEAN : RowFails(c, passing)
  PROVE  ConnectionInductive'
<1>1. /\ issued \in Nat /\ stored \in Nat /\ lost \in BOOLEAN /\ overwritten \in BOOLEAN
      /\ call[c].token \in Nat
      /\ call[c].pc = "writeBack" => call[c].token # 0
      /\ call[c].pc # "idle" => stored # 0
  BY ConnectionInHand DEF Call, ConnectionInductive, ConnectionTypeOK, CredentialInv
<1>2. CASE SaveVerifier(c)
  <2>1. /\ RequestFails(c, FALSE) /\ call[c].pc = "writeBack"
        /\ UNCHANGED <<up, account, orders, issued, lost>>
        /\ stored' = call[c].token /\ overwritten' = (overwritten \/ stored # call[c].token)
    BY <1>2 DEF SaveVerifier, GiveUp
  <2>2. call[c].pc \in Refreshing /\ call[c].pc \notin Storing
    BY <2>1 DEF Refreshing, Storing
  <2>3. stored' \in Nat \ {0} /\ overwritten' \in BOOLEAN /\ (overwritten => overwritten')
    <3>1. stored' \in Nat \ {0}
      BY <1>1, <2>1
    <3>2. overwritten' \in BOOLEAN
      BY <2>1
    <3>3. overwritten => overwritten'
      BY <2>1
    <3> QED BY <3>1, <3>2, <3>3
  <2>4. UNCHANGED <<stored, overwritten>> \/ overwritten'
    <3>1. CASE stored = call[c].token
      BY <3>1, <2>1, <1>1
    <3>2. CASE stored # call[c].token
      BY <3>2, <2>1
    <3> QED BY <3>1, <3>2
  <2> QED BY <2>1, <2>2, <2>3, <2>4, RequestEnds
<1>3. CASE \E passing \in BOOLEAN : RowFails(c, passing)
  <2>1. PICK passing \in BOOLEAN : RowFails(c, passing)
    BY <1>3
  <2>2. call[c].pc \in Refreshing /\ call[c].pc \notin Storing /\ call[c].pc # "idle"
    BY <2>1 DEF RowFails, Refreshing, Storing
  <2>3. stored' \in Nat \ {0} /\ overwritten' \in BOOLEAN /\ UNCHANGED <<stored, overwritten>>
    BY <1>1, <2>1, <2>2 DEF RowFails, credential
  <2> QED BY <2>1, <2>2, <2>3, RequestEnds DEF RowFails, credential
<1> QED BY <1>2, <1>3

(* The row catches up with the broker.                                        *)
LEMMA SaveTokensStep ==
  ASSUME ConnectionInductive, NEW c \in Calls, SaveTokens(c)
  PROVE  ConnectionInductive'
<1> DEFINE q == [call[c] EXCEPT !.pc = call[c].back, !.token = 0, !.retried = FALSE, !.back = "sent"]
<1>1. /\ call[c].pc = "save" /\ stored' = call[c].token /\ call' = [call EXCEPT ![c] = q]
      /\ UNCHANGED <<up, session, account, orders, issued, lost, overwritten>>
  BY DEF SaveTokens, Become
<1>2. /\ call[c].back \in {"sent", "opening"} /\ call[c].token \in Nat
      /\ stored \in Nat /\ issued \in Nat /\ lost \in BOOLEAN
      /\ \A d \in Calls : call[d].token \in Nat
  BY ConnectionInHand DEF Call, ConnectionInductive, ConnectionTypeOK
<1>3. q \in Call /\ q.pc = call[c].back /\ q.on = call[c].on
  BY <1>2, ConnectionInHand DEF Call, CallSteps
<1> HIDE DEF q
<1>4. call'[c] = q /\ \A d \in Calls \ {c} : call'[d] = call[d]
  BY <1>1, ConnectionInHand
<1>5. ConnectionTypeOK'
  BY <1>1, <1>2, <1>3 DEF session, ConnectionInductive, ConnectionTypeOK
<1>6. AttemptInv'
  BY <1>1, <1>2, <1>3, <1>4 DEF session, ConnectionInductive, AttemptInv, Owner, Refreshing
<1>7. CredentialInv'
  BY <1>1, <1>2, <1>3, <1>4 DEF ConnectionInductive, CredentialInv, Storing
<1> QED BY <1>1, <1>5, <1>6, <1>7 DEF ConnectionInductive

------------------------------------------------------------------------------
(* The process.                                                               *)

LEMMA BootStep ==
  ASSUME ConnectionInductive, Boot
  PROVE  ConnectionInductive'
<1>1. stored' = IF stored = 0 THEN Seed ELSE stored
  BY DEF Boot, Seeded
<1>2. ConnectionTypeOK'
  BY <1>1 DEF Boot, session, ConnectionInductive, ConnectionTypeOK, Seed
<1>3. AttemptInv'
  BY DEF Boot, session, ConnectionInductive, AttemptInv, Owner
<1>4. CredentialInv'
  <2>1. \A c \in Calls : call[c].pc = "idle"
    BY DEF Boot, ConnectionInductive, CredentialInv
  <2>2. stored \in Nat /\ issued \in Nat
    BY DEF ConnectionInductive, ConnectionTypeOK
  <2>3. /\ up' = TRUE /\ UNCHANGED <<call, issued, lost, overwritten>>
        /\ issued >= Seed
        /\ ~lost /\ ~overwritten => stored <= issued /\ (stored # issued => stored = 0 /\ issued = Seed)
    BY <2>1 DEF Boot, ConnectionInductive, CredentialInv, Storing
  <2> QED BY <1>1, <2>1, <2>2, <2>3 DEF CredentialInv, Storing, Seed
<1> QED BY <1>2, <1>3, <1>4 DEF Boot, ConnectionInductive

LEMMA ConnectionStopStep ==
  ASSUME ConnectionInductive, Shutdown
  PROVE  ConnectionInductive'
<1>1. \A c \in Calls : call'[c] = NoCall
  BY DEF Shutdown
<1>2. ConnectionTypeOK'
  BY NoCallFits DEF Shutdown, ConnectionInductive, ConnectionTypeOK
<1>3. AttemptInv'
  BY <1>1, NoCallFits DEF Shutdown, AttemptInv, Owner, Refreshing
<1>4. CredentialInv'
  <2>1. /\ up' = FALSE /\ UNCHANGED <<stored, issued, overwritten>>
        /\ lost' = (lost \/ \E c \in Calls : call[c].pc \in Storing)
    BY DEF Shutdown
  <2> QED BY <1>1, <2>1, NoCallFits DEF ConnectionInductive, CredentialInv, Storing
<1> QED BY <1>2, <1>3, <1>4 DEF Shutdown, ConnectionInductive

LEMMA ConnectionSteps ==
  ASSUME ConnectionInductive, [ConnectionNext]_connection
  PROVE  ConnectionInductive'
<1>1. CASE \E c \in Calls : CallStep(c)
  BY <1>1, BeginStep, ConnectStep, OpenedStep, AnswerStep, ReachesStep, OpenFailsStep,
     CallFailsStep, UnauthorizedStep, LoadTokensStep, RefreshStep, RefreshFailsStep,
     SaveTokensStep, LoadRowStep, RowStep DEF CallStep
<1>2. CASE Boot \/ Shutdown
  BY <1>2, BootStep, ConnectionStopStep
<1>3. CASE UNCHANGED connection
  BY <1>3 DEF connection, ConnectionInductive, ConnectionTypeOK, AttemptInv, CredentialInv, Owner
<1> QED BY <1>1, <1>2, <1>3 DEF ConnectionNext

(* The attempt in flight is one call's to end, and an unspent token is in     *)
(* one place only.                                                            *)
THEOREM ConnectionHolds == ConnectionSpec => []ConnectionInductive
<1>1. ConnectionInit => ConnectionInductive
  BY ConnectionStarts
<1>2. ConnectionInductive /\ [ConnectionNext]_connection => ConnectionInductive'
  BY ConnectionSteps
<1> QED BY <1>1, <1>2, PTL DEF ConnectionSpec

(* Never two attempts to connect at once (mcpClient.ts:110-121).              *)
THEOREM AttemptsAreShared == ConnectionSpec => []OneConnectionAttempt
<1>1. ConnectionInductive => OneConnectionAttempt
  BY DEF ConnectionInductive, AttemptInv, OneConnectionAttempt
<1> QED BY <1>1, ConnectionHolds, PTL

(* The refresh token in force is stored or about to be, unless its answer,    *)
(* its write or its process was lost, or saveCodeVerifier overwrote it        *)
(* (oauth.ts:176-199, oauthState.ts:54-83).                                   *)
THEOREM CredentialIsKept == ConnectionSpec => []CredentialSurvives
<1>1. ConnectionInductive => CredentialSurvives
  BY DEF ConnectionInductive, CredentialInv, CredentialSurvives
<1> QED BY <1>1, ConnectionHolds, PTL

(* However often it is resent, a placement is one order (mcpClient.ts:424).   *)
THEOREM PlacementsAreSingle == ConnectionSpec => []OneOrderPerRequest
<1>1. ConnectionInductive => OneOrderPerRequest
  BY DEF ConnectionInductive, ConnectionTypeOK, OneOrderPerRequest
<1> QED BY <1>1, ConnectionHolds, PTL
-----------------------------------------------------------------------------
(* Push: for any devices and any number of dispatches.                        *)

LEMMA ListlessFits ==
  Listless \in [Tokens -> SendStates] /\ \A t \in Tokens : Listless[t] = "none"
  BY DEF Listless, SendStates

LEMMA PushStarts == PushInit => PushInductive
  BY ListlessFits DEF PushInit, PushInductive, PushTypeOK, OnlyDeadAreForgotten, Listless, Environments

(* What the devices do: a registration is owed its place only when no send   *)
(* under way is about to prune its token.                                     *)
LEMMA DeviceStep ==
  ASSUME PushInductive, NEW t \in Tokens,
         (\E env \in Environments : Register(t, env)) \/ Uninstall(t) \/ Reinstall(t)
  PROVE  PushInductive'
<1>1. CASE \E env \in Environments : Register(t, env)
  <2>1. PICK env \in Environments : Register(t, env)
    BY <1>1
  <2>2. UNCHANGED <<home, installed, sends>> /\ devices' = [devices EXCEPT ![t] = env] /\ t \in installed
    BY <2>1 DEF Register
  <2>3. PushTypeOK'
    BY <2>1, <2>2 DEF Register, PushInductive, PushTypeOK
  <2>4. ASSUME NEW s \in owed' PROVE devices'[s] = home[s] /\ s \in installed
                                     /\ \A d \in Dispatches : sends[d][s] \in {home[s], "none"}
    <3>1. CASE s = t
      BY <3>1, <2>1, <2>2 DEF Register, Condemned, PushInductive, PushTypeOK
    <3>2. CASE s # t
      BY <3>2, <2>1, <2>2 DEF Register, PushInductive, PushTypeOK, OnlyDeadAreForgotten
    <3> QED BY <3>1, <3>2
  <2> QED BY <2>2, <2>3, <2>4 DEF PushInductive, OnlyDeadAreForgotten
<1>2. CASE Uninstall(t) \/ Reinstall(t)
  BY <1>2 DEF Uninstall, Reinstall, PushInductive, PushTypeOK, OnlyDeadAreForgotten
<1> QED BY <1>1, <1>2

LEMMA NotifyStep ==
  ASSUME PushInductive, NEW d \in Dispatches, NotifyNewSignal(d)
  PROVE  PushInductive'
<1>1. /\ sends' = [sends EXCEPT ![d] = devices] /\ UNCHANGED <<devices, home, installed, owed>>
      /\ devices \in [Tokens -> SendStates]
  BY DEF NotifyNewSignal, PushInductive, PushTypeOK, SendStates
<1>2. PushTypeOK'
  BY <1>1 DEF PushInductive, PushTypeOK
<1>3. \A t \in owed, e \in Dispatches : sends'[e][t] \in {home[t], "none"}
  BY <1>1 DEF PushInductive, PushTypeOK, OnlyDeadAreForgotten
<1> QED BY <1>1, <1>2, <1>3 DEF PushInductive, OnlyDeadAreForgotten

(* The answers: only a token that is not installed, or was sent to the other  *)
(* environment, is reported gone, and no token that is owed is either.        *)
LEMMA SettleStep ==
  ASSUME PushInductive, NEW d \in Dispatches, NEW t \in Tokens, Settle(d, t)
  PROVE  PushInductive'
<1>1. /\ UNCHANGED <<devices, home, installed, owed>>
      /\ sends \in [Dispatches -> [Tokens -> SendStates]] /\ sends[d][t] \in Environments
  BY DEF Settle, PushInductive, PushTypeOK
<1>2. PICK to \in {"gone", "none"} :
        /\ sends' = [sends EXCEPT ![d][t] = to]
        /\ to = "gone" => t \notin installed \/ sends[d][t] # home[t]
  BY DEF Settle, Answers, Unregistered
<1>3. PushTypeOK'
  BY <1>1, <1>2 DEF PushInductive, PushTypeOK, SendStates
<1>4. \A s \in owed, e \in Dispatches : sends'[e][s] \in {home[s], "none"}
  <2> SUFFICES ASSUME NEW s \in owed, NEW e \in Dispatches PROVE sends'[e][s] \in {home[s], "none"}
    OBVIOUS
  <2>1. s \in Tokens /\ s \in installed /\ sends[e][s] \in {home[s], "none"}
    BY DEF PushInductive, PushTypeOK
  <2>2. CASE e = d /\ s = t
    <3>1. to = "none" /\ sends'[e][s] = to
      BY <2>1, <2>2, <1>1, <1>2 DEF Environments
    <3> QED BY <3>1
  <2>3. CASE ~(e = d /\ s = t)
    BY <2>1, <2>3, <1>1, <1>2
  <2> QED BY <2>2, <2>3
<1> QED BY <1>1, <1>3, <1>4 DEF PushInductive, OnlyDeadAreForgotten

LEMMA DeleteStep ==
  ASSUME PushInductive, NEW d \in Dispatches, NEW t \in Tokens, DeleteDevice(d, t) \/ DeleteFails(d, t)
  PROVE  PushInductive'
<1>1. /\ sends[d][t] = "gone" /\ sends' = [sends EXCEPT ![d][t] = "none"]
      /\ UNCHANGED <<home, installed, owed>>
      /\ devices' = devices \/ devices' = [devices EXCEPT ![t] = "none"]
      /\ sends \in [Dispatches -> [Tokens -> SendStates]]
      /\ devices \in [Tokens -> Environments \cup {"none"}]
      /\ home \in [Tokens -> Environments] /\ owed \subseteq Tokens
  BY DEF DeleteDevice, DeleteFails, PushInductive, PushTypeOK
<1>2. t \notin owed
  BY <1>1 DEF PushInductive, Environments
<1>3. PushTypeOK'
  BY <1>1 DEF PushInductive, PushTypeOK, SendStates
<1>4. \A s \in owed, e \in Dispatches : sends'[e][s] = sends[e][s]
  BY <1>1, <1>2
<1>5. \A s \in owed : devices'[s] = devices[s]
  BY <1>1, <1>2
<1> QED BY <1>1, <1>3, <1>4, <1>5 DEF PushInductive, OnlyDeadAreForgotten

LEMMA PushStopStep ==
  ASSUME PushInductive, Stop
  PROVE  PushInductive'
<1>1. \A d \in Dispatches, t \in Tokens : sends'[d][t] = "none"
  BY ListlessFits DEF Stop
<1>2. sends' \in [Dispatches -> [Tokens -> SendStates]]
  BY ListlessFits DEF Stop
<1> QED BY <1>1, <1>2 DEF Stop, PushInductive, PushTypeOK, OnlyDeadAreForgotten

LEMMA PushSteps ==
  ASSUME PushInductive, [PushNext]_push
  PROVE  PushInductive'
<1>1. CASE UNCHANGED push
  BY <1>1 DEF push, PushInductive, PushTypeOK, OnlyDeadAreForgotten
<1> QED BY <1>1, DeviceStep, NotifyStep, SettleStep, DeleteStep, PushStopStep DEF PushNext

(* A device that works stays registered, however many dispatches, failures,   *)
(* wrong registrations and restarts (push/notify.ts, push/apns.ts).           *)
THEOREM WorkingDevicesAreKept == PushSpec => []OnlyDeadAreForgotten
<1>1. PushInit => PushInductive
  BY PushStarts
<1>2. PushInductive /\ [PushNext]_push => PushInductive'
  BY PushSteps
<1>3. PushInductive => OnlyDeadAreForgotten
  BY DEF PushInductive
<1> QED BY <1>1, <1>2, <1>3, PTL DEF PushSpec
=============================================================================
