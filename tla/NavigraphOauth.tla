---------------------------- MODULE NavigraphOauth ----------------------------
(***************************************************************************)
(* Connecting a Navigraph account (domain/simbrief/oauth-service.ts,       *)
(* navigraph/oauth-adapter.ts, repositories/navigraph-oauth.ts).           *)
(*                                                                         *)
(* A member starts a transaction, authorizes an account at Navigraph, and  *)
(* the browser brings back the transaction's state with a code: once, or   *)
(* again when the page is reloaded.  The callback consumes the             *)
(* transaction, asks Navigraph whose code it is, and links that account    *)
(* by updateMembership, which compares nothing.                            *)
(*                                                                         *)
(* Sealing, PKCE and the codes themselves are left out: a code stands for  *)
(* the account it was given to.  Navigraph is assumed to answer a code as  *)
(* often as it is shown one, which is less than it promises.               *)
(***************************************************************************)
EXTENDS Naturals, FiniteSets

CONSTANTS Members, Accounts, NoAccount,
          Flows,       \* transactions, each with a random state
          Callbacks    \* requests of browsers under way

ASSUME NavigraphAssumption == NoAccount \notin Accounts

VARIABLES
  member,    \* memberships: who may connect, and the account connected
  flows,     \* navigraph_oauth_transactions
  callbacks,
  links      \* how often a transaction has connected an account

oauthVars == <<member, flows, callbacks, links>>

Membership == [active : BOOLEAN,
               objects : BOOLEAN,   \* to the purpose simbrief_navigraph
               account : Accounts \cup {NoAccount}]
NoFlow == [state |-> "none"]
Transaction ==
  [state : {"open", "consumed", "deleted"},
   expired : BOOLEAN,
   of : Members,
   \* what the member did at Navigraph
   granted : Accounts \cup {"undecided", "denied"}]
NoCallback == [pc |-> "none"]
Callback == [pc : {"check", "exchange", "link"}, flow : Flows]

-----------------------------------------------------------------------------
(* Surroundings.                                                           *)

\* An administrator or the member changes what the service looks at.
ChangeMembership(m) ==
  /\ \/ member' = [member EXCEPT ![m].active = ~@]
     \/ member' = [member EXCEPT ![m].objects = ~@]
  /\ UNCHANGED <<flows, callbacks, links>>

\* The member authorizes the connection at Navigraph, or refuses.
Decide(f, answer) ==
  /\ flows[f].state \in {"open", "consumed"}
  /\ flows[f].granted = "undecided"
  /\ flows' = [flows EXCEPT ![f].granted = answer]
  /\ UNCHANGED <<member, callbacks, links>>

\* Ten minutes pass.
ExpireFlow(f) ==
  /\ flows[f].state \in {"open", "consumed"} /\ ~flows[f].expired
  /\ flows' = [flows EXCEPT ![f].expired = TRUE]
  /\ UNCHANGED <<member, callbacks, links>>

-----------------------------------------------------------------------------
(* The service.                                                            *)

\* startNavigraphOauth, which first deletes every transaction expired.
StartFlow(f, m) ==
  LET stale == {g \in Flows : flows[g] # NoFlow /\ flows[g].expired}
      cleaned == [g \in Flows |->
                    IF g \in stale THEN [flows[g] EXCEPT !.state = "deleted"]
                    ELSE flows[g]]
  IN /\ flows[f] = NoFlow
     /\ member[m].active /\ ~member[m].objects
     /\ flows' = [cleaned EXCEPT ![f] =
          [state |-> "open", expired |-> FALSE, of |-> m,
           granted |-> "undecided"]]
     /\ UNCHANGED <<member, callbacks, links>>

\* Fault: consumed_at is not compared.
Live_Consumed(f) ==
  flows[f].state \in {"open", "consumed"} /\ ~flows[f].expired

\* The condition of consumeNavigraphOauthTransaction.
Live(f) == flows[f].state = "open" /\ ~flows[f].expired

\* A callback consumes its transaction before anything else.  One that finds
\* it consumed, expired or deleted is refused, which changes nothing.
Consume(c, f) ==
  /\ callbacks[c] = NoCallback
  /\ flows[f] # NoFlow /\ flows[f].granted # "undecided"
  /\ Live(f)
  /\ flows' = [flows EXCEPT ![f].state = "consumed"]
  /\ callbacks' = [callbacks EXCEPT ![c] = [pc |-> "check", flow |-> f]]
  /\ UNCHANGED <<member, links>>

Pending(c, pc) == callbacks[c] # NoCallback /\ callbacks[c].pc = pc
FlowOf(c) == flows[callbacks[c].flow]

\* Fault: an error brought back by the browser is not looked at.
Authorized_Always(c) == TRUE

\* The browser has brought back a code, and not an error.
Authorized(c) == FlowOf(c).granted \in Accounts

\* Before the exchange: assertOptionalProcessingAllowed, and the answer.
CheckCallback(c) ==
  /\ Pending(c, "check")
  /\ ~member[FlowOf(c).of].objects
  /\ Authorized(c)
  /\ callbacks' = [callbacks EXCEPT ![c].pc = "exchange"]
  /\ UNCHANGED <<member, flows, links>>

\* exchangeAuthorizationCode, fetchUserInfo, requireMembership
Exchange(c) ==
  /\ Pending(c, "exchange")
  /\ member[FlowOf(c).of].active
  /\ callbacks' = [callbacks EXCEPT ![c].pc = "link"]
  /\ UNCHANGED <<member, flows, links>>

\* The unique index on tenant and navigraph_subject.
Taken(m, account) ==
  \E other \in Members \ {m} : member[other].account = account

LinkAccount(c) ==
  LET m == FlowOf(c).of
      account == FlowOf(c).granted
  IN /\ Pending(c, "link")
     /\ ~Taken(m, account)
     /\ member' = [member EXCEPT ![m].account = account]
     /\ links' = [links EXCEPT ![callbacks[c].flow] = @ + 1]
     /\ callbacks' = [callbacks EXCEPT ![c] = NoCallback]
     /\ UNCHANGED flows

\* A check fails, Navigraph does not answer, or the instance dies.
EndCallback(c) ==
  /\ callbacks[c] # NoCallback
  /\ callbacks' = [callbacks EXCEPT ![c] = NoCallback]
  /\ UNCHANGED <<member, flows, links>>

\* disconnectAccount
DisconnectAccount(m) ==
  /\ member' = [member EXCEPT ![m].account = NoAccount]
  /\ UNCHANGED <<flows, callbacks, links>>

-----------------------------------------------------------------------------
OauthInit ==
  /\ member = [m \in Members |->
       [active |-> TRUE, objects |-> FALSE, account |-> NoAccount]]
  /\ flows = [f \in Flows |-> NoFlow]
  /\ callbacks = [c \in Callbacks |-> NoCallback]
  /\ links = [f \in Flows |-> 0]

OauthNext ==
  \/ \E m \in Members :
       \/ ChangeMembership(m) \/ DisconnectAccount(m)
       \/ \E f \in Flows : StartFlow(f, m)
  \/ \E f \in Flows :
       \/ ExpireFlow(f)
       \/ \E answer \in Accounts \cup {"denied"} : Decide(f, answer)
  \/ \E c \in Callbacks :
       \/ \E f \in Flows : Consume(c, f)
       \/ CheckCallback(c) \/ Exchange(c) \/ LinkAccount(c) \/ EndCallback(c)

OauthTypeOK ==
  /\ member \in [Members -> Membership]
  /\ flows \in [Flows -> {NoFlow} \cup Transaction]
  /\ callbacks \in [Callbacks -> {NoCallback} \cup Callback]
  /\ links \in [Flows -> Nat]

\* A member's account is one that this member authorized in a transaction of
\* their own, no account is connected to two members of the tenant, and one
\* authorization connects at most once: a callback brought back again does
\* not undo a disconnection, or replace the account connected since.
NavigraphHonest ==
  /\ \A m \in Members : member[m].account # NoAccount =>
       /\ ~Taken(m, member[m].account)
       /\ \E f \in Flows :
            /\ links[f] > 0
            /\ flows[f].of = m /\ flows[f].granted = member[m].account
  /\ \A f \in Flows : links[f] <= 1
=============================================================================
