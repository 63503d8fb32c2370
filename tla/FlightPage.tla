----------------------------- MODULE FlightPage -------------------------------
(***************************************************************************)
(* What people have open while a flight changes: the pages of a flight in  *)
(* the web application (apps/web/src/components/dispatcher-flight-detail,  *)
(* flight-planning-workspace, flight-telemetry-status, pilot-flight-detail *)
(* and action-dialog), which show a cached answer of the API, are filled   *)
(* in while others work, and send the version of what they show.           *)
(*                                                                         *)
(* A browser caches the detail of the flight, which it fetches again after *)
(* its own changes and when its window regains the focus, and the telemetry *)
(* of the flight, which it polls.  Calls are answered late or not at all.  *)
(* The API is one step per call here, which SnapshotFresh of               *)
(* FlightLifecycle allows: a handler changes the row it has read.          *)
(*                                                                         *)
(* One flight is modelled.  Its details are the fields of the edit forms,  *)
(* of which a change of the assignment is material; of the four recorded   *)
(* times there is one, and the order of the four is left out, and so are   *)
(* reasons, validation and the choice among pilots.  updated_at stands for *)
(* the version: no two changes fall into one millisecond.                  *)
(***************************************************************************)
EXTENDS Naturals, FiniteSets

CONSTANTS Browsers,
          Assignments, Notes,   \* the fields of the forms
          OutTimes,             \* values of the recorded time
          Unset,
          LastVersion, MaxCalls \* bounds: versions, calls under way

Details == [assignment : Assignments, notes : Notes]
FlightStatuses == {"draft", "offered", "accepted", "briefed", "active",
                   "completed", "declined", "cancelled"}
Editable == {"draft", "offered", "accepted", "briefed", "active"}
Revisions == 0..LastVersion

\* When flightActions and the pages show the button of a move.
From == [offer |-> {"draft"}, accept |-> {"offered"}, decline |-> {"offered"},
         start |-> {"briefed"}, finish |-> {"active"}, cancel |-> Editable,
         withdraw |-> {"offered", "accepted", "briefed"}]

To == [offer |-> "offered", accept |-> "accepted", decline |-> "declined",
       start |-> "active", finish |-> "completed", cancel |-> "cancelled",
       withdraw |-> "cancelled"]

\* The moves that ReasonAction and ConfirmAction ask about in a dialog.
Asked == {"decline", "withdraw", "cancel", "finish"}

\* What the queries of the pages answer.
Detail == [version : 1..LastVersion, status : FlightStatuses,
           details : Details, release : Revisions]
Polled == [version : 1..LastVersion, out : OutTimes \cup {Unset}]

\* What is missing is no answer, and there are times to record.
ASSUME PageAssumption ==
  /\ Unset \notin Details /\ Unset \notin Detail /\ Unset \notin Polled
  /\ OutTimes # {}
  /\ LastVersion \in Nat \ {0} /\ MaxCalls \in Nat

VARIABLES
  flight,   \* the row, with its latest release
  pages,    \* what a browser has cached and has filled in
  calls     \* calls sent and not yet answered or lost

pageVars == <<flight, pages, calls>>

\* FlightEditor, QuickEditCard, ReleaseEditor and the form for corrections:
\* what each was filled with, Unset when it is not open.  And the dialog that
\* is open: its move and what the page showed when it was opened.
Closed == [editor |-> Unset, planning |-> Unset, warned |-> FALSE,
           release |-> Unset, out |-> Unset, dialog |-> Unset]

Still == [pc |-> "none"]
Sent == [pc |-> "sent"]

NoPage == [detail |-> Unset, fetch |-> Still, poll |-> Unset,
           forms |-> Closed]

\* The flight as getFlightDetail reads it, before it reads the releases.
FlightPart == [pc |-> "read", version |-> flight.version,
               status |-> flight.status, details |-> flight.details]

SetPage(b, page) == pages' = [pages EXCEPT ![b] = page]

-----------------------------------------------------------------------------
(* The query for the detail: getFlightDetail reads the flight first and    *)
(* its releases afterwards.                                                *)

\* A window regains the focus; a fetch that is under way goes on.
Fetch(b) ==
  /\ pages[b].fetch = Still
  /\ SetPage(b, [pages[b] EXCEPT !.fetch = Sent])
  /\ UNCHANGED <<flight, calls>>

ReadFlightRow(b) ==
  /\ pages[b].fetch = Sent
  /\ SetPage(b, [pages[b] EXCEPT !.fetch = FlightPart])
  /\ UNCHANGED <<flight, calls>>

\* Fault: a new release alone renews the forms.
Key_ReleaseOnly(detail) == <<detail.release>>

\* The key of PlanningWorkspace: updatedAt and revision.
Key(detail) == <<detail.version, detail.release>>

\* ReleaseCard: the editor starts with the latest release.
ReleaseForm(detail) ==
  IF detail.status \in {"accepted", "briefed"} THEN detail.release ELSE Unset

\* What the planning forms start with.
Planned(detail, forms) ==
  [forms EXCEPT
     !.planning = detail.details, !.warned = FALSE,
     !.release = ReleaseForm(detail)]

\* A dialog stays open, with the reason that was typed, as long as the page
\* shows its button.
Mounted(detail, dialog) ==
  IF dialog # Unset /\ detail.status \in From[dialog.move]
  THEN dialog ELSE Unset

\* A planning workspace with another key is mounted anew, and the effect of
\* FlightEditor resets it whenever the flight is another object.
Renewed(old, new, forms) ==
  LET kept == IF forms.planning # Unset /\ Key(old) # Key(new)
              THEN Planned(new, forms) ELSE forms
      same == /\ old.version = new.version /\ old.status = new.status
              /\ old.details = new.details
      reset == IF forms.editor # Unset /\ ~same
               THEN [kept EXCEPT !.editor = new.details] ELSE kept
  IN [reset EXCEPT !.dialog = Mounted(new, @)]

\* The releases are read and the answer arrives.
Arrive(b) ==
  LET page == pages[b]
      read == page.fetch
      new == [version |-> read.version, status |-> read.status,
              details |-> read.details, release |-> flight.release]
  IN /\ read.pc = "read"
     /\ SetPage(b, [page EXCEPT
          !.detail = new, !.fetch = Still,
          !.forms = IF page.detail = Unset THEN @
                    ELSE Renewed(page.detail, new, @)])
     /\ UNCHANGED <<flight, calls>>

\* After the retries the page shows an error in place of its forms.
FetchFails(b) ==
  /\ pages[b].fetch # Still
  /\ SetPage(b, NoPage)
  /\ UNCHANGED <<flight, calls>>

\* The query for the telemetry, every ten seconds.
Poll(b) ==
  /\ SetPage(b, [pages[b] EXCEPT
       !.poll = [version |-> flight.version, out |-> flight.out]])
  /\ UNCHANGED <<flight, calls>>

-----------------------------------------------------------------------------
(* Forms.                                                                  *)

Form(b, forms) ==
  /\ pages[b].detail # Unset
  /\ SetPage(b, [pages[b] EXCEPT !.forms = forms])
  /\ UNCHANGED <<flight, calls>>

OpenEditor(b) ==
  /\ pages[b].forms.editor = Unset
  /\ pages[b].detail # Unset /\ pages[b].detail.status \in Editable
  /\ Form(b, [pages[b].forms EXCEPT !.editor = pages[b].detail.details])

\* FlightPlanningDialog shows what is cached and fetches it again.
OpenPlanning(b) ==
  LET page == pages[b] IN
  /\ page.detail # Unset /\ page.forms.planning = Unset
  /\ SetPage(b, [page EXCEPT
       !.forms = Planned(page.detail, @),
       !.fetch = IF @ = Still THEN Sent ELSE @])
  /\ UNCHANGED <<flight, calls>>

\* Discarded or closed; the dialog fetches the detail again when it closes.
CloseForms(b) ==
  LET page == pages[b] IN
  /\ page.forms # Closed
  /\ SetPage(b, [page EXCEPT
       !.forms = Closed,
       !.fetch = IF page.forms.planning # Unset THEN Sent ELSE @])
  /\ UNCHANGED <<flight, calls>>

\* The first change of the recorded time: from now on the input shows the
\* draft, and no longer what is polled.
Touch(b) ==
  LET page == pages[b] IN
  /\ page.poll # Unset /\ page.forms.out = Unset
  /\ Form(b, [page.forms EXCEPT !.out = [seen |-> page.poll.out]])

\* The dialog of the planning workspace lets nobody reach the buttons.
OpenDialog(b, move) ==
  LET page == pages[b] IN
  /\ page.forms.planning = Unset
  /\ page.detail # Unset /\ page.detail.status \in From[move]
  /\ Form(b, [page.forms EXCEPT
               !.dialog = [move |-> move, seen |-> page.detail.details]])

\* "Keep current state", or the key Escape.
CloseDialog(b) ==
  /\ pages[b].forms.dialog # Unset
  /\ Form(b, [pages[b].forms EXCEPT !.dialog = Unset])

-----------------------------------------------------------------------------
(* Calls.                                                                  *)

\* mutate: a mutation that is pending has its button disabled.  `based` is
\* what the person had before their eyes when they started.
Send(b, mutation, kind, version, based, wish) ==
  /\ \A c \in calls : c.browser # b \/ c.mutation # mutation
  /\ Cardinality(calls) < MaxCalls
  /\ calls' = calls \cup
       {[browser |-> b, mutation |-> mutation, kind |-> kind,
         version |-> version, based |-> based, wish |-> wish,
         answer |-> "none"]}
  /\ UNCHANGED <<flight, pages>>

SubmitEditor(b, wish) ==
  LET page == pages[b] IN
  /\ page.forms.editor # Unset
  /\ Send(b, "editor", "edit", page.detail.version, page.forms.editor, wish)

\* needsReconfirmation
Withdraws(detail, wish) ==
  /\ wish.assignment # detail.details.assignment
  /\ detail.status \in {"accepted", "briefed"}

\* The first submission of a change that withdraws an acceptance only warns.
Warn(b, wish) ==
  LET page == pages[b] IN
  /\ page.forms.planning # Unset
  /\ Withdraws(page.detail, wish) /\ ~page.forms.warned
  /\ Form(b, [page.forms EXCEPT !.warned = TRUE])

SubmitPlanning(b, wish) ==
  LET page == pages[b] IN
  /\ page.forms.planning # Unset /\ page.detail.status \in Editable
  /\ Withdraws(page.detail, wish) => page.forms.warned
  /\ Send(b, "save", "edit", page.detail.version, page.forms.planning, wish)

Publish(b) ==
  LET page == pages[b] IN
  /\ page.forms.release # Unset
  /\ Send(b, "publish", "publish", page.detail.version, page.forms.release,
          Unset)

\* submitCorrection sends the version that was polled last.
Correct(b, time) ==
  LET page == pages[b] IN
  /\ page.forms.out # Unset
  /\ Send(b, "correction", "correct", page.poll.version, page.forms.out.seen,
          time)

\* A button without a dialog.
Press(b, mutation, moves) ==
  LET detail == pages[b].detail IN
  /\ detail # Unset
  /\ \E move \in moves :
       /\ detail.status \in From[move]
       /\ Send(b, mutation, move, detail.version, detail.details, Unset)

\* The operational actions of the dispatcher's page.
Transition(b) == Press(b, "transition", {"offer", "start"})

\* The pilot's answer.
Decide(b) == Press(b, "decision", {"accept"})

\* The pilot's start and finish, and the dispatcher's fallback for them.
Progress(b) == Press(b, "progress", {"start", "finish"})

\* submit of a dialog: the page sends the version it shows by then.
Confirm(b) ==
  LET page == pages[b] IN
  /\ page.forms.dialog # Unset
  /\ Send(b, "dialog", page.forms.dialog.move, page.detail.version,
          page.forms.dialog.seen, Unset)

\* ReplacementOffer
Reoffer(b) ==
  LET detail == pages[b].detail IN
  /\ detail # Unset /\ detail.status = "declined"
  /\ Send(b, "reoffer", "reoffer", detail.version, detail.details, Unset)

-----------------------------------------------------------------------------
(* The API.                                                                *)

\* patchFlight: a material change withdraws the acceptance.
Edited(row, details) ==
  [row EXCEPT !.details = details,
     !.status = IF /\ details.assignment # row.details.assignment
                   /\ @ \in {"accepted", "briefed"}
                THEN "offered" ELSE @]

\* startFlight keeps a time that is already recorded.
Moved(row, move) ==
  [row EXCEPT !.status = To[move],
     !.out = IF move = "start" /\ @ = Unset
             THEN CHOOSE t \in OutTimes : TRUE ELSE @]

\* publishDispatchRelease
Published(row) == [row EXCEPT !.status = "briefed", !.release = @ + 1]

Changed(row, c) ==
  CASE c.kind = "edit" -> Edited(row, c.wish)
    [] c.kind = "publish" -> Published(row)
    [] c.kind = "correct" -> [row EXCEPT !.out = c.wish, !.manual = TRUE]
    [] OTHER -> Moved(row, c.kind)

\* patchFlight: a flight that has ended keeps its details, an active one its
\* assignment.
Refused(details) ==
  \/ flight.status \notin Editable
  \/ flight.status = "active"
     /\ details.assignment # flight.details.assignment

Answer(c, answer) ==
  calls' = (calls \ {c}) \cup {[c EXCEPT !.answer = answer]}

\* A version that is not the current one is a conflict (409), as is an edit
\* that is refused.  A second replacement of a declined flight is one too,
\* which the page takes for its own success.
Serve(c) ==
  /\ c.answer = "none"
  /\ IF c.version # flight.version \/ (c.kind = "edit" /\ Refused(c.wish))
     THEN Answer(c, "conflict") /\ UNCHANGED flight
     ELSE IF c.kind = "reoffer"
     THEN Answer(c, "done") /\ UNCHANGED flight
     ELSE /\ flight.version < LastVersion
          /\ flight' = [Changed(flight, c) EXCEPT !.version = @ + 1]
          /\ Answer(c, "done")
  /\ UNCHANGED pages

Change(row) ==
  /\ flight.version < LastVersion
  /\ flight' = [row EXCEPT !.version = @ + 1]
  /\ UNCHANGED <<pages, calls>>

\* The simulator's OUT, unless a dispatcher has set or cleared the time.
Simulator(time) ==
  /\ flight.status \in {"accepted", "briefed", "active"}
  /\ flight.out = Unset /\ ~flight.manual
  /\ Change([flight EXCEPT !.out = time])

\* Somebody else's edit, release or move; Hoppie's reports are moves too.
EditElsewhere(details) == ~Refused(details) /\ Change(Edited(flight, details))
PublishElsewhere ==
  /\ flight.status \in {"accepted", "briefed"}
  /\ Change(Published(flight))
MoveElsewhere(move) ==
  flight.status \in From[move] /\ Change(Moved(flight, move))

\* What becomes of the forms when a call is answered: saved, or for the
\* correction also refused, they start over.  A dialog closes when its move
\* has been made and stays open with the error when it has not.
Settled(c, forms) ==
  CASE c.mutation = "editor" /\ c.answer = "done" ->
         [forms EXCEPT !.editor = Unset]
    [] c.mutation = "save" /\ c.answer = "done" ->
         [forms EXCEPT !.warned = FALSE]
    [] c.mutation = "correction" -> [forms EXCEPT !.out = Unset]
    [] c.mutation = "reoffer" /\ c.answer = "done" -> Closed
    [] c.mutation = "dialog" /\ c.answer = "done" ->
         [forms EXCEPT !.dialog = Unset]
    [] OTHER -> forms

\* The mutations that load the flight again after a conflict; the planning
\* dialog, the progress buttons and the replacement only show the error.
Reloading == {"transition", "decision", "dialog", "editor", "correction"}

\* An answer cancels the fetch that is under way and starts another.
Deliver(c) ==
  /\ c.answer # "none"
  /\ calls' = calls \ {c}
  /\ SetPage(c.browser, [pages[c.browser] EXCEPT
       !.forms = Settled(c, @),
       !.fetch = IF c.answer = "done" \/ c.mutation \in Reloading
                 THEN Sent ELSE @])
  /\ UNCHANGED flight

\* The request or its answer is lost, or it is another error: the form stays
\* as it is, to be sent again.
Lose(c) ==
  /\ calls' = calls \ {c}
  /\ UNCHANGED <<flight, pages>>

-----------------------------------------------------------------------------
PageInit ==
  /\ flight \in [version : {1}, status : FlightStatuses, details : Details,
                 release : {0, 1}, out : {Unset}, manual : {FALSE}]
  /\ flight.status \in {"briefed", "active", "completed"}
       => flight.release = 1
  /\ pages = [b \in Browsers |-> NoPage]
  /\ calls = {}

ReadNext ==
  \E b \in Browsers :
    Fetch(b) \/ ReadFlightRow(b) \/ Arrive(b) \/ FetchFails(b) \/ Poll(b)

\* showModal: while a dialog is open the rest of the page is inert.
NoDialog(b) == pages[b].forms.dialog = Unset

FillNext ==
  \E b \in Browsers :
    /\ NoDialog(b)
    /\ \/ OpenEditor(b) \/ OpenPlanning(b) \/ CloseForms(b) \/ Touch(b)
       \/ \E wish \in Details : Warn(b, wish)
       \/ \E move \in Asked : OpenDialog(b, move)

SendNext ==
  \E b \in Browsers :
    /\ NoDialog(b)
    /\ \/ \E wish \in Details : SubmitEditor(b, wish) \/ SubmitPlanning(b, wish)
       \/ Publish(b) \/ Reoffer(b)
       \/ \E time \in OutTimes \cup {Unset} : Correct(b, time)
       \/ Transition(b) \/ Decide(b) \/ Progress(b)

DialogNext == \E b \in Browsers : CloseDialog(b) \/ Confirm(b)

ServeNext == \E c \in calls : Serve(c) \/ Deliver(c) \/ Lose(c)

ElsewhereNext ==
  \/ \E time \in OutTimes : Simulator(time)
  \/ \E details \in Details : EditElsewhere(details)
  \/ PublishElsewhere
  \/ \E move \in DOMAIN From : MoveElsewhere(move)

PageNext ==
  \/ ReadNext \/ FillNext \/ SendNext \/ DialogNext
  \/ ServeNext \/ ElsewhereNext

PageSpec == PageInit /\ [][PageNext]_pageVars

-----------------------------------------------------------------------------
\* Caches, forms and calls hold what they are declared to hold.
PageTypeOK ==
  /\ flight.version \in 1..LastVersion /\ flight.status \in FlightStatuses
  /\ flight.out \in OutTimes \cup {Unset}
  /\ \A b \in Browsers :
       /\ pages[b].detail \in Detail \cup {Unset}
       /\ pages[b].forms.editor \in Details \cup {Unset}
       /\ pages[b].forms.planning \in Details \cup {Unset}
       /\ pages[b].forms.release \in Revisions \cup {Unset}
       /\ pages[b].forms.dialog \in [move : Asked, seen : Details]
                                    \cup {Unset}
       /\ pages[b].forms # Closed => pages[b].detail # Unset
  /\ Cardinality(calls) <= MaxCalls

\* A call whose version the API would take.
Current(c) == c.answer = "none" /\ c.version = flight.version

Held(c) == IF c.kind = "publish" THEN flight.release ELSE flight.details

\* Nobody's work is overwritten by somebody who has not seen it: an edit or a
\* release that the API would take was made by a person whose form had
\* started from exactly what the flight holds, however many fetches, retries
\* and changes by others there were in between.
NothingOverwritten ==
  \A c \in calls :
    Current(c) /\ c.kind \in {"edit", "publish"} => c.based = Held(c)

\* "A stale correction returns a conflict and the web client reloads the
\* latest values before the dispatcher retries", and a page "reloads the latest
\* flight after a stale pilot response": a correction that the API would take
\* was started from the time that the flight still has, and what a dialog asks
\* for was asked when the page showed the flight as it is.
StaleIsRefused ==
  \A c \in calls : Current(c) =>
    /\ c.kind = "correct" => c.based = flight.out
    /\ c.mutation = "dialog" => c.based = flight.details
=============================================================================
