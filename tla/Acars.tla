-------------------------------- MODULE Acars ---------------------------------
(***************************************************************************)
(* ACARS over Hoppie (domain/acars/service.ts, repositories/acars.ts,      *)
(* acars/hoppie-provider.ts): the minutely poll that stores what pilots    *)
(* send and applies progress reports to flights, and the telexes of        *)
(* dispatchers.                                                            *)
(*                                                                         *)
(* Hoppie is external.  It stores and forwards, has no message identity,   *)
(* and is modelled as the code treats it: a poll may remove what it        *)
(* returns or leave it for the next, and may fail before or after that.    *)
(* A stored message is known by a hash of its text and addresses within a  *)
(* window of 15 minutes, under a unique index.                             *)
(*                                                                         *)
(* What a report does to a flight, if the flight is still as it was when   *)
(* the report was matched, is FlightLifecycle's Progress; here it is that  *)
(* the report is applied or not.  Bodies, events, audit rows and the       *)
(* summary that answers a report are left out: nothing reads them here.    *)
(***************************************************************************)
EXTENDS Naturals, FiniteSets

CONSTANTS Tenants,      \* those with a Hoppie logon
          Pollers, Flights, Telexes, None,
          Inbound,      \* messages pilots may send, and for each
          TenantOf(_),  \*   the station it goes to,
          TextOf(_),    \*   its sender, addressee and text,
          FlightOf(_),  \* the flight a text reports on, if any
          Broken,       \* tenants whose logon Hoppie refuses
          MaxWindow,    \* bound: changes of the dedupe window
          MaxFaults     \* bound: failing calls and statements

ASSUME AcarsAssumption ==
  /\ Broken \subseteq Tenants
  /\ \A m \in Inbound : TenantOf(m) \in Tenants
  /\ \A m \in Inbound : FlightOf(TextOf(m)) \in Flights \cup {None}
  \* it is no status and no answer of a telex
  /\ None \notin {"accepted", "rejected", "ok", "refused"}
  /\ {MaxWindow, MaxFaults} \subseteq Nat

VARIABLES
  unsent, queued,  \* messages before and at Hoppie
  window,
  inbox,       \* inbound acars_messages by dedupe key
  heard,       \* messages whose text was found stored, or stored
  lost,        \* messages removed at Hoppie and then dropped by a failure
  pollers,
  telexes,     \* outbound acars_messages with what became of them
  faults

inboundVars ==
  <<unsent, queued, window, inbox, heard, lost, pollers, faults>>
acarsVars == <<inboundVars, telexes>>

Absent == [stored |-> FALSE]
Stored == [stored : {TRUE}, flight : Flights \cup {None},
           applied : 0..2]
Texts == {TextOf(m) : m \in Inbound}
Windows == 0..MaxWindow

Asleep == [pc |-> "asleep"]
Polling ==
  [pc : {"tenants", "batch", "match", "apply"},
   left : SUBSET Tenants,     \* tenants listed and not yet polled
   window : Windows,          \* when Hoppie answered
   batch : SUBSET Inbound,    \* messages returned and not yet looked at
   removed : BOOLEAN,         \* Hoppie no longer has them
   text : Texts \cup {None}]  \* of the message being processed

-----------------------------------------------------------------------------
(* Surroundings: pilots and time.                                          *)

PilotSends(m) ==
  /\ m \in unsent
  /\ unsent' = unsent \ {m}
  /\ queued' = queued \cup {m}
  /\ UNCHANGED <<window, inbox, heard, lost, pollers, faults>>

WindowPasses ==
  /\ window < MaxWindow
  /\ window' = window + 1
  /\ UNCHANGED <<unsent, queued, inbox, heard, lost, pollers, faults>>

-----------------------------------------------------------------------------
(* pollAllTenants and pollTenantAcars.                                     *)

At(p, pc) == pollers[p].pc = pc
Entry(p) == <<pollers[p].text, pollers[p].window>>
Flight(p) == FlightOf(pollers[p].text)
InHand(p) == IF pollers[p].removed THEN pollers[p].batch ELSE {}
\* The tenant's batch is over, or its poll has failed.
NextTenant(p, left) ==
  pollers' = [pollers EXCEPT ![p] =
    [pc |-> "tenants", left |-> left, window |-> 0, batch |-> {},
     removed |-> FALSE, text |-> None]]
NextMessage(p) ==
  pollers' = [pollers EXCEPT ![p].pc = "batch", ![p].text = None]

\* The cron job: listHoppieTenants, which has no order.
StartPoll(p) ==
  /\ At(p, "asleep")
  /\ NextTenant(p, Tenants)
  /\ UNCHANGED <<unsent, queued, window, inbox, heard, lost, faults>>

FinishPoll(p) ==
  /\ At(p, "tenants") /\ pollers[p].left = {}
  /\ pollers' = [pollers EXCEPT ![p] = Asleep]
  /\ UNCHANGED <<unsent, queued, window, inbox, heard, lost, faults>>

\* Hoppie returns what it has for the tenant, and removes it or not.
Fetch(p, t) ==
  LET found == {m \in queued : TenantOf(m) = t} IN
  /\ At(p, "tenants") /\ t \in pollers[p].left \ Broken
  /\ \E removed \in BOOLEAN :
       /\ queued' = IF removed THEN queued \ found ELSE queued
       /\ IF found = {} THEN NextTenant(p, pollers[p].left \ {t})
          ELSE pollers' = [pollers EXCEPT
                 ![p] = [pc |-> "batch", left |-> @.left \ {t},
                         window |-> window, batch |-> found,
                         removed |-> removed, text |-> None]]
  /\ UNCHANGED <<unsent, window, inbox, heard, lost, faults>>

\* Fault: one tenant's exception ends the loop over the tenants.
LeftAfterFailure_None(p, t) == {}

\* The loop goes on with the other tenants.
LeftAfterFailure(p, t) == pollers[p].left \ {t}

\* An exception leaves pollTenantAcars, and what it held is dropped.
Throw(p, t, gone) ==
  /\ lost' = lost \cup (gone \ heard)
  /\ NextTenant(p, LeftAfterFailure(p, t))

\* Hoppie refuses the logon.
Refused(p, t) ==
  /\ At(p, "tenants") /\ t \in pollers[p].left \cap Broken
  /\ Throw(p, t, {})
  /\ UNCHANGED <<unsent, queued, window, inbox, heard, faults>>

\* Fault: the unique index is missing.
Duplicate_Never(k) == FALSE

\* The unique index on tenant, provider and dedupe key.
Duplicate(k) == inbox[k].stored

\* insertAcarsMessage; its unique violation is caught, and the next message
\* of the batch has its turn.
Store(p, m) ==
  LET k == <<TextOf(m), pollers[p].window>>
      message == [stored |-> TRUE, flight |-> None, applied |-> 0]
      isNew == ~Duplicate(k)
  IN /\ At(p, "batch") /\ m \in pollers[p].batch
     /\ inbox' = IF inbox[k].stored THEN inbox
                 ELSE [inbox EXCEPT ![k] = message]
     /\ heard' = heard \cup {m}
     /\ pollers' = [pollers EXCEPT
          ![p].batch = @ \ {m},
          ![p].pc = IF isNew THEN "match" ELSE @,
          ![p].text = IF isNew THEN TextOf(m) ELSE @]
     /\ UNCHANGED <<unsent, queued, window, lost, faults>>

FinishBatch(p) ==
  /\ At(p, "batch") /\ pollers[p].batch = {}
  /\ NextTenant(p, pollers[p].left)
  /\ UNCHANGED <<unsent, queued, window, inbox, heard, lost, faults>>

\* processOperationalInteraction does not go on with this message: free
\* text, no such active pilot or flight, an objection, a flight that has
\* changed since it was matched, an exception.
Ignore(p) ==
  /\ pollers[p].pc \in {"match", "apply"}
  /\ NextMessage(p)
  /\ UNCHANGED <<unsent, queued, window, inbox, heard, lost, faults>>

\* matchOperationalFlight, linkAcarsMessageToFlight
Match(p) ==
  /\ At(p, "match") /\ Flight(p) # None
  /\ inbox' = [inbox EXCEPT ![Entry(p)].flight = Flight(p)]
  /\ pollers' = [pollers EXCEPT ![p].pc = "apply"]
  /\ UNCHANGED <<unsent, queued, window, heard, lost, faults>>

\* applyHoppieProgress
Apply(p) ==
  /\ At(p, "apply")
  /\ inbox' = [inbox EXCEPT ![Entry(p)].applied = @ + 1]
  /\ NextMessage(p)
  /\ UNCHANGED <<unsent, queued, window, heard, lost, faults>>

Working(p) ==
  \/ FinishPoll(p) \/ FinishBatch(p)
  \/ \E t \in Tenants : Fetch(p, t) \/ Refused(p, t)
  \/ \E m \in Inbound : Store(p, m)
  \/ Ignore(p) \/ Match(p) \/ Apply(p)

\* A call or a statement fails: before Hoppie has removed anything, after
\* that, or between two messages of the batch.
PollFails(p) ==
  /\ faults < MaxFaults
  /\ faults' = faults + 1
  /\ \/ /\ At(p, "tenants")
        /\ \E t \in pollers[p].left :
             LET found == {m \in queued : TenantOf(m) = t} IN
             \E removed \in {{}, found} :
               /\ queued' = queued \ removed
               /\ Throw(p, t, removed)
     \/ /\ At(p, "batch") /\ pollers[p].batch # {}
        /\ Throw(p, None, InHand(p))
        /\ UNCHANGED queued
  /\ UNCHANGED <<unsent, window, inbox, heard>>

\* The function is killed.
PollerDies(p) ==
  /\ faults < MaxFaults /\ ~At(p, "asleep")
  /\ faults' = faults + 1
  /\ lost' = lost \cup (InHand(p) \ heard)
  /\ pollers' = [pollers EXCEPT ![p] = Asleep]
  /\ UNCHANGED <<unsent, queued, window, inbox, heard>>

-----------------------------------------------------------------------------
(* sendTelex: the row is inserted as pending, Hoppie is called once, and   *)
(* what it answers is recorded.                                            *)

Answers == {"ok", "refused", "timeout", "unavailable", "invalid_response"}
Telex == [status : {None, "pending", "accepted", "rejected", "ambiguous"},
          answer : Answers \cup {None, "dead"},
          relayed : BOOLEAN]
NoTelex == [status |-> None, answer |-> None, relayed |-> FALSE]

Compose(o) ==
  /\ telexes[o] = NoTelex
  /\ telexes' = [telexes EXCEPT ![o].status = "pending"]

\* Hoppie has the message if it says so, has not if it refuses, and may have
\* it if the answer is late, garbled or an error of the server.
Send(o, answer, relayed) ==
  /\ telexes[o].status = "pending" /\ telexes[o].answer = None
  /\ answer = "ok" => relayed
  /\ answer = "refused" => ~relayed
  /\ telexes' = [telexes EXCEPT ![o].answer = answer, ![o].relayed = relayed]

\* Fault: a timeout counts as a refusal.
Ambiguous_NotTimeout == {"unavailable", "invalid_response"}

\* isAmbiguousDeliveryError
Ambiguous == {"timeout", "unavailable", "invalid_response"}

\* updateAcarsDelivery
Record(o) ==
  /\ telexes[o].status = "pending" /\ telexes[o].answer \in Answers
  /\ telexes' = [telexes EXCEPT ![o].status =
       CASE telexes[o].answer = "ok" -> "accepted"
         [] telexes[o].answer \in Ambiguous -> "ambiguous"
         [] OTHER -> "rejected"]

\* The sender dies, or cannot record: the message stays pending.
SenderDies(o) ==
  /\ telexes[o].status = "pending" /\ telexes[o].answer # "dead"
  /\ telexes' = [telexes EXCEPT ![o].answer = "dead"]

-----------------------------------------------------------------------------
AcarsInit ==
  /\ unsent = Inbound /\ queued = {} /\ heard = {} /\ lost = {}
  /\ window = 0 /\ faults = 0
  /\ inbox = [k \in Texts \X Windows |-> Absent]
  /\ pollers = [p \in Pollers |-> Asleep]
  /\ telexes = [o \in Telexes |-> NoTelex]

InboundNext ==
  /\ \/ \E m \in Inbound : PilotSends(m)
     \/ WindowPasses
     \/ \E p \in Pollers :
          StartPoll(p) \/ Working(p) \/ PollFails(p) \/ PollerDies(p)
  /\ UNCHANGED telexes

OutboundNext ==
  /\ \E o \in Telexes :
       \/ Compose(o) \/ Record(o) \/ SenderDies(o)
       \/ \E answer \in Answers, relayed \in BOOLEAN :
            Send(o, answer, relayed)
  /\ UNCHANGED inboundVars

AcarsTypeOK ==
  /\ {unsent, queued, heard, lost} \subseteq SUBSET Inbound
  /\ window \in Windows /\ faults \in 0..MaxFaults
  /\ inbox \in [Texts \X Windows -> Stored \cup {Absent}]
  /\ pollers \in [Pollers -> {Asleep} \cup Polling]
  /\ telexes \in [Telexes -> Telex]

\* A report is applied once in its window, and to the flight its message is
\* linked to, however often Hoppie hands it out and to however many pollers.
AppliedOnce ==
  \A k \in Texts \X Windows :
    inbox[k].stored =>
      /\ inbox[k].applied <= 1
      /\ inbox[k].applied = 1 => inbox[k].flight # None

\* The status shown for a telex is never more than what is known: accepted
\* only if Hoppie took it, rejected only if Hoppie did not.
DeliveryHonest ==
  \A o \in Telexes :
    /\ telexes[o].status = "accepted" => telexes[o].relayed
    /\ telexes[o].status = "rejected" => ~telexes[o].relayed

\* A message that waits at Hoppie for a tenant with a working logon is
\* stored, or found stored already, unless a failure strikes while it is in
\* hand; another tenant's refused logon is no obstacle.
EveryMessageTaken ==
  \A m \in Inbound :
    m \in queued /\ TenantOf(m) \notin Broken
    ~> m \in heard \cup lost
=============================================================================
