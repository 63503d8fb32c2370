------------------------------ MODULE Workspaces ------------------------------
(***************************************************************************)
(* The workspace of one flight in the web application: the pages on which  *)
(* dispatchers and the pilot change it (FlightPage), and the SimBrief plan *)
(* that SimbriefWorkspace shows on the same pages (Simbrief).  The flight  *)
(* is the only thing they share, and each has it in the detail it needs;   *)
(* a behaviour is one of either.                                           *)
(***************************************************************************)
EXTENDS Simbrief, FlightPage

VARIABLE shown   \* the part of the workspace that moves

workspaceVars == <<vars, pageVars, shown>>

WorkspaceInit ==
  /\ shown \in {"plan", "forms", "times"}
  /\ Init /\ PageInit
  /\ plan.terms = flight.details.assignment
  /\ shown = "plan" => flight.status = "accepted" /\ flight.release = 1

\* SimbriefWorkspace, for the dispatcher and for the pilot.
Planning ==
  /\ shown = "plan" /\ Next
  /\ UNCHANGED <<pageVars, shown>>

\* The forms and buttons that send the version of the cached detail.
Forms ==
  /\ shown = "forms" /\ PageNext
  /\ \A b \in Browsers : pages'[b].poll = Unset
  /\ UNCHANGED <<vars, shown>>

\* The form for recorded times, which sends the version that is polled.
Times ==
  /\ shown = "times" /\ PageNext
  /\ \A b \in Browsers :
       /\ pages'[b].forms.editor = Unset /\ pages'[b].forms.planning = Unset
       /\ pages'[b].forms.dialog = Unset
  /\ UNCHANGED <<vars, shown>>

WorkspaceNext == Planning \/ Forms \/ Times

WorkspaceSpec == WorkspaceInit /\ [][WorkspaceNext]_workspaceVars

\* Type invariant of the two modules.
WorkspacesTypeOK == TypeOK /\ PageTypeOK
=============================================================================
