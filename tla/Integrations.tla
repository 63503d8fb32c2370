----------------------------- MODULE Integrations -----------------------------
(***************************************************************************)
(* The tenant's connections to services outside: messages in and out over  *)
(* Hoppie (Acars), the settings an administrator keeps with Clerk, Hoppie  *)
(* and the blob store (TenantConfig), members' Navigraph accounts          *)
(* (NavigraphOauth), and clients that read page after page (Paging).       *)
(*                                                                         *)
(* The parts write no row that another of them reads except for the logon   *)
(* of a tenant, which Acars takes as listed once a poll and its constant   *)
(* Broken stands for.  Their product would only multiply the states, so a  *)
(* behaviour is one of any of them.                                        *)
(***************************************************************************)
EXTENDS Acars, TenantConfig, NavigraphOauth, Paging

VARIABLE focus   \* the part that moves

vars == <<acarsVars, tenantVars, oauthVars, pagingVars, focus>>

Init ==
  /\ focus \in {"inbox", "outbox", "tenant", "oauth", "pages"}
  /\ AcarsInit /\ TenantInit /\ OauthInit /\ PagingInit
  /\ focus # "pages" => list = "export"

Inbox ==
  /\ focus = "inbox" /\ InboundNext
  /\ UNCHANGED <<tenantVars, oauthVars, pagingVars, focus>>

Outbox ==
  /\ focus = "outbox" /\ OutboundNext
  /\ UNCHANGED <<tenantVars, oauthVars, pagingVars, focus>>

Settings ==
  /\ focus = "tenant" /\ TenantNext
  /\ UNCHANGED <<acarsVars, oauthVars, pagingVars, focus>>

Oauth ==
  /\ focus = "oauth" /\ OauthNext
  /\ UNCHANGED <<acarsVars, tenantVars, pagingVars, focus>>

Pages ==
  /\ focus = "pages" /\ PagingNext
  /\ UNCHANGED <<acarsVars, tenantVars, oauthVars, focus>>

Next == Inbox \/ Outbox \/ Settings \/ Oauth \/ Pages

\* The cron job runs every minute, and an instance that has not died goes on.
Fairness ==
  /\ WF_inboundVars(focus = "inbox" /\ \E p \in Pollers : StartPoll(p))
  /\ \A p \in Pollers : WF_inboundVars(focus = "inbox" /\ Working(p))

Spec == Init /\ [][Next]_vars /\ Fairness

\* Type invariant of the three modules.
IntegrationsTypeOK == AcarsTypeOK /\ TenantTypeOK /\ OauthTypeOK
=============================================================================
