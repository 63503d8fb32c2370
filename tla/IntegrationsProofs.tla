-------------------------- MODULE IntegrationsProofs --------------------------
(***************************************************************************)
(* What is proved of Integrations for every number of tenants, pollers,    *)
(* messages, telexes, administrators, members, callbacks and pages.        *)
(*                                                                         *)
(* The parts share no variable, so the inductive invariant is one of each. *)
(* InboxOK: a poller works on an entry of the inbox that it alone has      *)
(* stored and nobody has applied.  LogosOK: an upload that is about to be  *)
(* written has a logo nobody else has seen, and a logo that is about to be *)
(* deleted is no longer shown.  FlowsOK: one callback at most works on a   *)
(* transaction, which is consumed and decided.  ReaderOK: what a reader    *)
(* was given, and nothing else, lies before the cursor.                    *)
(***************************************************************************)
EXTENDS Integrations, FiniteSetTheorems, WellFoundedInduction, TLAPS

-----------------------------------------------------------------------------
(* Acars.                                                                  *)

Busy(p) == pollers[p].pc \in {"match", "apply"}

PollerOK(p) ==
  Busy(p) =>
    /\ pollers[p].text \in Texts
    /\ inbox[Entry(p)].stored /\ inbox[Entry(p)].applied = 0
    /\ At(p, "apply") => inbox[Entry(p)].flight # None

InboxOK ==
  /\ \A p \in Pollers : PollerOK(p)
  /\ \A p, q \in Pollers : Busy(p) /\ Busy(q) /\ p # q => Entry(p) # Entry(q)
  /\ AppliedOnce

TelexOK(x) ==
  /\ x.answer = "ok" => x.relayed
  /\ x.answer = "refused" => ~x.relayed
  /\ x.status = "accepted" => x.relayed
  /\ x.status = "rejected" => ~x.relayed

TelexesOK == \A o \in Telexes : TelexOK(telexes[o])

AcarsInv == AcarsTypeOK /\ InboxOK /\ TelexesOK

LEMMA AcarsInitially ==
  ASSUME AcarsInit
  PROVE  AcarsInv
<1>1. AcarsTypeOK
  <2>1. 0 \in Windows /\ 0 \in 0..MaxFaults
    BY AcarsAssumption DEF Windows
  <2>2. inbox \in [Texts \X Windows -> Stored \cup {Absent}]
    BY DEF AcarsInit
  <2>3. pollers \in [Pollers -> {Asleep} \cup Polling]
    BY DEF AcarsInit
  <2>4. NoTelex \in Telex
    BY DEF NoTelex, Telex
  <2>5. telexes \in [Telexes -> Telex]
    BY <2>4 DEF AcarsInit
  <2> QED BY <2>1, <2>2, <2>3, <2>5 DEF AcarsInit, AcarsTypeOK
<1>2. InboxOK
  <2>1. \A p \in Pollers : ~Busy(p)
    BY DEF AcarsInit, Busy, Asleep
  <2>2. ASSUME NEW k \in Texts \X Windows
        PROVE  ~inbox[k].stored
    BY DEF AcarsInit, Absent
  <2>3. AppliedOnce
    BY <2>2 DEF AppliedOnce
  <2>4. \A p \in Pollers : PollerOK(p)
    BY <2>1 DEF PollerOK
  <2> QED BY <2>1, <2>3, <2>4 DEF InboxOK
<1>3. TelexesOK
  BY AcarsAssumption DEF AcarsInit, TelexesOK, TelexOK, NoTelex
<1> QED BY <1>1, <1>2, <1>3 DEF AcarsInv

LEMMA EntryType ==
  ASSUME AcarsInv, NEW p \in Pollers, Busy(p)
  PROVE  /\ pollers[p] \in Polling
         /\ Entry(p) \in Texts \X Windows
         /\ inbox[Entry(p)] \in Stored
<1>1. pollers[p] \in Polling
  BY DEF AcarsInv, AcarsTypeOK, Asleep, Busy
<1>2. Entry(p) \in Texts \X Windows
  BY <1>1 DEF AcarsInv, InboxOK, PollerOK, Entry, Polling
<1>3. inbox[Entry(p)] \in Stored \cup {Absent} /\ inbox[Entry(p)].stored
  BY <1>2 DEF AcarsInv, AcarsTypeOK, InboxOK, PollerOK
<1> QED BY <1>1, <1>2, <1>3 DEF Absent

\* What surrounds inbox and pollers is well formed.
SurroundingsOK ==
  /\ {unsent', queued', heard', lost'} \subseteq SUBSET Inbound
  /\ window' \in Windows /\ faults' \in 0..MaxFaults

\* A poller turns to anything but a stored message.
LEMMA PollerTurns ==
  ASSUME AcarsInv, NEW p \in Pollers, NEW r \in {Asleep} \cup Polling,
         pollers' = [pollers EXCEPT ![p] = r],
         r.pc \notin {"match", "apply"},
         UNCHANGED <<inbox, telexes>>, SurroundingsOK
  PROVE  AcarsInv'
<1>1. /\ pollers' \in [Pollers -> {Asleep} \cup Polling]
      /\ pollers'[p] = r /\ \A q \in Pollers \ {p} : pollers'[q] = pollers[q]
  BY DEF AcarsInv, AcarsTypeOK
<1>2. AcarsTypeOK'
  BY <1>1 DEF AcarsInv, AcarsTypeOK, SurroundingsOK
<1>3. InboxOK'
  BY <1>1 DEF AcarsInv, InboxOK, PollerOK, Busy, Entry, At, AppliedOnce
<1>4. TelexesOK'
  BY DEF AcarsInv, TelexesOK
<1> QED BY <1>2, <1>3, <1>4 DEF AcarsInv

LEMMA PollersUnmoved ==
  ASSUME AcarsInv, UNCHANGED <<pollers, inbox, telexes>>, SurroundingsOK
  PROVE  AcarsInv'
<1>1. AcarsTypeOK'
  BY DEF AcarsInv, AcarsTypeOK, SurroundingsOK
<1>2. InboxOK'
  BY DEF AcarsInv, InboxOK, PollerOK, Busy, Entry, At, AppliedOnce
<1>3. TelexesOK'
  BY DEF AcarsInv, TelexesOK
<1> QED BY <1>1, <1>2, <1>3 DEF AcarsInv

LEMMA PilotKeeps ==
  ASSUME AcarsInv, UNCHANGED telexes,
         (\E m \in Inbound : PilotSends(m)) \/ WindowPasses
  PROVE  AcarsInv'
<1>1. SurroundingsOK /\ UNCHANGED <<pollers, inbox>>
  BY AcarsAssumption
     DEF PilotSends, WindowPasses, SurroundingsOK, AcarsInv, AcarsTypeOK,
         Windows
<1> QED BY <1>1, PollersUnmoved

LEMMA NextTenantKeeps ==
  ASSUME AcarsInv, NEW p \in Pollers, NEW left \in SUBSET Tenants,
         NextTenant(p, left), UNCHANGED <<inbox, telexes>>, SurroundingsOK
  PROVE  AcarsInv'
<1>1. PICK r : r = [pc |-> "tenants", left |-> left, window |-> 0, batch |-> {},
                    removed |-> FALSE, text |-> None]
  OBVIOUS
<1>2. r \in Polling /\ r.pc = "tenants"
  BY <1>1, AcarsAssumption DEF Polling, Windows
<1>3. pollers' = [pollers EXCEPT ![p] = r]
  BY <1>1 DEF NextTenant
<1> QED BY <1>2, <1>3, PollerTurns

LEMMA PollerType ==
  ASSUME AcarsInv, NEW p \in Pollers, ~At(p, "asleep")
  PROVE  pollers[p] \in Polling
BY DEF AcarsInv, AcarsTypeOK, At, Asleep

LEMMA StartKeeps ==
  ASSUME AcarsInv, UNCHANGED telexes, NEW p \in Pollers,
         StartPoll(p) \/ FinishBatch(p)
  PROVE  AcarsInv'
<1>1. UNCHANGED <<unsent, queued, window, inbox, heard, lost, faults>>
  BY DEF StartPoll, FinishBatch
<1>2. SurroundingsOK
  BY <1>1 DEF SurroundingsOK, AcarsInv, AcarsTypeOK
<1>3. CASE StartPoll(p)
  BY <1>1, <1>2, <1>3, NextTenantKeeps DEF StartPoll
<1>4. CASE FinishBatch(p)
  <2>1. pollers[p].left \in SUBSET Tenants
    BY <1>4, PollerType DEF FinishBatch, At, Polling
  <2> QED BY <1>1, <1>2, <1>4, <2>1, NextTenantKeeps DEF FinishBatch
<1> QED BY <1>3, <1>4

LEMMA FinishPollKeeps ==
  ASSUME AcarsInv, UNCHANGED telexes, NEW p \in Pollers, FinishPoll(p)
  PROVE  AcarsInv'
<1>1. /\ UNCHANGED <<unsent, queued, window, inbox, heard, lost, faults>>
      /\ pollers' = [pollers EXCEPT ![p] = Asleep]
  BY DEF FinishPoll
<1>2. SurroundingsOK
  BY <1>1 DEF SurroundingsOK, AcarsInv, AcarsTypeOK
<1>3. Asleep.pc = "asleep"
  BY DEF Asleep
<1> QED BY <1>1, <1>2, <1>3, PollerTurns

LEMMA FetchKeeps ==
  ASSUME AcarsInv, UNCHANGED telexes, NEW p \in Pollers, NEW t \in Tenants,
         Fetch(p, t)
  PROVE  AcarsInv'
<1>1. PICK found \in SUBSET Inbound : found = {m \in queued : TenantOf(m) = t}
  BY DEF AcarsInv, AcarsTypeOK
<1>2. /\ UNCHANGED <<unsent, window, inbox, heard, lost, faults>>
      /\ At(p, "tenants")
  BY DEF Fetch
<1>3. PICK removed \in BOOLEAN :
        /\ queued' = IF removed THEN queued \ found ELSE queued
        /\ IF found = {} THEN NextTenant(p, pollers[p].left \ {t})
           ELSE pollers' = [pollers EXCEPT
                  ![p] = [pc |-> "batch", left |-> @.left \ {t},
                          window |-> window, batch |-> found,
                          removed |-> removed, text |-> None]]
  BY <1>1 DEF Fetch
<1>4. SurroundingsOK
  BY <1>2, <1>3 DEF SurroundingsOK, AcarsInv, AcarsTypeOK
<1>5. PICK g \in Polling : g = pollers[p]
  BY <1>2, PollerType DEF At
<1>6. PICK left \in SUBSET Tenants : left = g.left \ {t}
  BY DEF Polling
<1>7. CASE found = {}
  BY <1>2, <1>3, <1>4, <1>5, <1>6, <1>7, NextTenantKeeps
<1>8. CASE found # {}
  <2>1. PICK r : r = [pc |-> "batch", left |-> left, window |-> window,
                      batch |-> found, removed |-> removed, text |-> None]
    OBVIOUS
  <2>2. r \in Polling /\ r.pc = "batch"
    BY <2>1 DEF Polling, AcarsInv, AcarsTypeOK
  <2>3. pollers' = [pollers EXCEPT ![p] = r]
    BY <1>3, <1>5, <1>6, <1>8, <2>1
  <2> QED BY <1>2, <1>4, <2>2, <2>3, PollerTurns
<1> QED BY <1>7, <1>8

LEMMA ThrowKeeps ==
  ASSUME AcarsInv, UNCHANGED <<unsent, window, inbox, heard, telexes>>,
         NEW p \in Pollers, NEW t, NEW gone \in SUBSET Inbound,
         Throw(p, t, gone), ~At(p, "asleep"),
         queued' \subseteq queued, faults' \in 0..MaxFaults
  PROVE  AcarsInv'
<1>1. NextTenant(p, pollers[p].left \ {t}) /\ lost' = lost \cup (gone \ heard)
  BY DEF Throw, LeftAfterFailure
<1>2. pollers[p].left \ {t} \in SUBSET Tenants
  BY PollerType DEF Polling
<1>3. SurroundingsOK
  BY <1>1 DEF SurroundingsOK, AcarsInv, AcarsTypeOK
<1> QED BY <1>1, <1>2, <1>3, NextTenantKeeps

LEMMA FailuresKeep ==
  ASSUME AcarsInv, UNCHANGED telexes, NEW p \in Pollers,
         (\E t \in Tenants : Refused(p, t)) \/ PollFails(p)
  PROVE  AcarsInv'
<1>1. faults \in 0..MaxFaults
  BY DEF AcarsInv, AcarsTypeOK
<1>2. ASSUME NEW t \in Tenants, Refused(p, t)
      PROVE  AcarsInv'
  <2>1. /\ UNCHANGED <<unsent, queued, window, inbox, heard, faults>>
        /\ Throw(p, t, {}) /\ ~At(p, "asleep")
    BY <1>2 DEF Refused, At
  <2> QED BY <1>1, <2>1, ThrowKeeps
<1>3. ASSUME PollFails(p)
      PROVE  AcarsInv'
  <2>1. /\ UNCHANGED <<unsent, window, inbox, heard>>
        /\ faults' \in 0..MaxFaults
    BY <1>1, <1>3, AcarsAssumption DEF PollFails
  <2>2. ASSUME At(p, "tenants"), NEW t \in pollers[p].left,
               NEW removed \in {{}, {m \in queued : TenantOf(m) = t}},
               queued' = queued \ removed, Throw(p, t, removed)
        PROVE  AcarsInv'
    <3>1. removed \in SUBSET Inbound /\ ~At(p, "asleep")
      BY <2>2 DEF AcarsInv, AcarsTypeOK, At
    <3> QED BY <2>1, <2>2, <3>1, ThrowKeeps
  <2>3. ASSUME At(p, "batch"), Throw(p, None, InHand(p)), UNCHANGED queued
        PROVE  AcarsInv'
    <3>1. ~At(p, "asleep")
      BY <2>3 DEF At
    <3>2. InHand(p) \in SUBSET Inbound
      BY <3>1, PollerType DEF InHand, Polling
    <3> QED BY <2>1, <2>3, <3>1, <3>2, ThrowKeeps
  <2> QED BY <1>3, <2>2, <2>3 DEF PollFails
<1> QED BY <1>2, <1>3

LEMMA PollerDiesKeeps ==
  ASSUME AcarsInv, UNCHANGED telexes, NEW p \in Pollers, PollerDies(p)
  PROVE  AcarsInv'
<1>1. /\ UNCHANGED <<unsent, queued, window, inbox, heard>>
      /\ ~At(p, "asleep") /\ faults < MaxFaults /\ faults' = faults + 1
      /\ lost' = lost \cup (InHand(p) \ heard)
      /\ pollers' = [pollers EXCEPT ![p] = Asleep]
  BY DEF PollerDies
<1>2. InHand(p) \in SUBSET Inbound
  BY <1>1, PollerType DEF InHand, Polling
<1>3. SurroundingsOK
  BY <1>1, <1>2, AcarsAssumption DEF SurroundingsOK, AcarsInv, AcarsTypeOK
<1>4. Asleep.pc = "asleep"
  BY DEF Asleep
<1> QED BY <1>1, <1>3, <1>4, PollerTurns

\* A poller stores an entry, or goes on with the one it has.
LEMMA PollerWorks ==
  ASSUME AcarsInv, NEW p \in Pollers, NEW k \in Texts \X Windows,
         NEW x \in Stored, NEW r \in Polling,
         pollers' = [pollers EXCEPT ![p] = r],
         inbox' = [inbox EXCEPT ![k] = x],
         \A q \in Pollers : Busy(q) /\ q # p => Entry(q) # k,
         x.stored, x.applied \in {0, 1}, x.applied = 1 => x.flight # None,
         \/ r.pc = "batch"
         \/ /\ r.pc = "match" \/ (r.pc = "apply" /\ x.flight # None)
            /\ r.text \in Texts /\ <<r.text, r.window>> = k /\ x.applied = 0,
         UNCHANGED telexes, SurroundingsOK
  PROVE  AcarsInv'
<1>1. /\ pollers' \in [Pollers -> {Asleep} \cup Polling]
      /\ pollers'[p] = r /\ \A q \in Pollers \ {p} : pollers'[q] = pollers[q]
  BY DEF AcarsInv, AcarsTypeOK
<1>2. /\ inbox' \in [Texts \X Windows -> Stored \cup {Absent}]
      /\ inbox'[k] = x
      /\ \A l \in (Texts \X Windows) \ {k} : inbox'[l] = inbox[l]
  BY DEF AcarsInv, AcarsTypeOK
<1>3. AcarsTypeOK'
  BY <1>1, <1>2 DEF AcarsInv, AcarsTypeOK, SurroundingsOK
<1>4. ASSUME NEW q \in Pollers \ {p}
      PROVE  /\ Busy(q)' = Busy(q) /\ Entry(q)' = Entry(q)
             /\ PollerOK(q)' /\ (Busy(q)' => Entry(q)' # k)
  <2>1. Busy(q)' = Busy(q) /\ Entry(q)' = Entry(q) /\ At(q, "apply")' = At(q, "apply")
    BY <1>1 DEF Busy, Entry, At
  <2>2. Busy(q) => Entry(q) \in (Texts \X Windows) \ {k}
    BY EntryType
  <2>3. PollerOK(q) /\ (Busy(q) => inbox'[Entry(q)] = inbox[Entry(q)])
    BY <1>2, <2>2 DEF AcarsInv, InboxOK
  <2>4. PollerOK(q)'
    BY <1>1, <2>1, <2>3 DEF PollerOK
  <2> QED BY <2>1, <2>2, <2>4
<1>5. Busy(p)' => Entry(p)' = k
  BY <1>1 DEF Busy, Entry
<1>6. PollerOK(p)'
  BY <1>1, <1>2, <1>5 DEF PollerOK, Busy, At
<1>7. AppliedOnce'
  BY <1>2 DEF AppliedOnce, AcarsInv, InboxOK
<1>8. ASSUME NEW q1 \in Pollers, NEW q2 \in Pollers, q1 # q2,
             Busy(q1)', Busy(q2)'
      PROVE  Entry(q1)' # Entry(q2)'
  <2>1. CASE q1 = p
    BY <1>4, <1>5, <1>8, <2>1
  <2>2. CASE q2 = p
    BY <1>4, <1>5, <1>8, <2>2
  <2>3. CASE q1 # p /\ q2 # p
    BY <1>4, <1>8, <2>3 DEF AcarsInv, InboxOK
  <2> QED BY <2>1, <2>2, <2>3
<1>9. InboxOK'
  BY <1>4, <1>6, <1>7, <1>8 DEF InboxOK
<1>10. TelexesOK'
  BY DEF AcarsInv, TelexesOK
<1> QED BY <1>3, <1>9, <1>10 DEF AcarsInv

LEMMA StoreKeeps ==
  ASSUME AcarsInv, UNCHANGED telexes, NEW p \in Pollers, NEW m \in Inbound,
         Store(p, m)
  PROVE  AcarsInv'
<1>1. /\ At(p, "batch") /\ heard' = heard \cup {m}
      /\ UNCHANGED <<unsent, queued, window, lost, faults>>
  BY DEF Store
<1>2. SurroundingsOK
  BY <1>1 DEF SurroundingsOK, AcarsInv, AcarsTypeOK
<1>3. PICK g \in Polling : g = pollers[p]
  BY <1>1, PollerType DEF At
<1>4. PICK text \in Texts : text = TextOf(m)
  BY DEF Texts
<1>5. PICK k \in Texts \X Windows : k = <<text, g.window>>
  BY DEF Polling
<1>6. CASE inbox[k].stored
  <2>1. /\ UNCHANGED inbox
        /\ pollers' = [pollers EXCEPT ![p].batch = @ \ {m}, ![p].pc = @,
                                      ![p].text = @]
    BY <1>3, <1>4, <1>5, <1>6 DEF Store, Duplicate
  <2>2. PICK r : r = [g EXCEPT !.batch = @ \ {m}]
    OBVIOUS
  <2>3. r \in Polling /\ r.pc = "batch"
    BY <1>1, <1>3, <2>2 DEF Polling, At
  <2>4. pollers' = [pollers EXCEPT ![p] = r]
    BY <1>3, <2>1, <2>2 DEF AcarsInv, AcarsTypeOK, Polling
  <2> QED BY <1>2, <2>1, <2>3, <2>4, PollerTurns
<1>7. CASE ~inbox[k].stored
  <2>1. PICK x : x = [stored |-> TRUE, flight |-> None, applied |-> 0]
    OBVIOUS
  <2>2. x \in Stored /\ x.stored /\ x.applied = 0 /\ x.applied # 1
    BY <2>1 DEF Stored
  <2>3. /\ inbox' = [inbox EXCEPT ![k] = x]
        /\ pollers' = [pollers EXCEPT ![p].batch = @ \ {m}, ![p].pc = "match",
                                      ![p].text = text]
    BY <1>3, <1>4, <1>5, <1>7, <2>1 DEF Store, Duplicate
  <2>4. PICK r : r = [g EXCEPT !.batch = @ \ {m}, !.pc = "match",
                               !.text = text]
    OBVIOUS
  <2>5. r \in Polling /\ r.pc = "match" /\ <<r.text, r.window>> = k /\ r.text \in Texts
    BY <1>5, <2>4 DEF Polling
  <2>6. pollers' = [pollers EXCEPT ![p] = r]
    BY <1>3, <2>3, <2>4 DEF AcarsInv, AcarsTypeOK, Polling
  <2>7. \A q \in Pollers : Busy(q) /\ q # p => Entry(q) # k
    BY <1>7 DEF AcarsInv, InboxOK, PollerOK
  <2>8. inbox' = [inbox EXCEPT ![k] = x]
    BY <2>3
  <2>9. x.applied \in {0, 1} /\ (x.applied = 1 => x.flight # None)
    BY <2>2
  <2> QED BY <1>2, <2>2, <2>5, <2>6, <2>7, <2>8, <2>9, PollerWorks
<1> QED BY <1>6, <1>7

LEMMA NextMessageType ==
  ASSUME AcarsInv, NEW p \in Pollers, ~At(p, "asleep"), NextMessage(p)
  PROVE  \E r \in Polling : /\ r.pc = "batch"
                             /\ pollers' = [pollers EXCEPT ![p] = r]
<1>1. PICK g \in Polling : g = pollers[p]
  BY PollerType
<1>2. PICK r : r = [g EXCEPT !.pc = "batch", !.text = None]
  OBVIOUS
<1>3. r \in Polling /\ r.pc = "batch"
  BY <1>2 DEF Polling
<1>4. pollers' = [pollers EXCEPT ![p] = r]
  BY <1>1, <1>2 DEF NextMessage, AcarsInv, AcarsTypeOK, Polling
<1> QED BY <1>3, <1>4

LEMMA IgnoreKeeps ==
  ASSUME AcarsInv, UNCHANGED telexes, NEW p \in Pollers, Ignore(p)
  PROVE  AcarsInv'
<1>1. /\ UNCHANGED <<unsent, queued, window, inbox, heard, lost, faults>>
      /\ NextMessage(p) /\ ~At(p, "asleep")
  BY DEF Ignore, At
<1>2. SurroundingsOK
  BY <1>1 DEF SurroundingsOK, AcarsInv, AcarsTypeOK
<1> QED BY <1>1, <1>2, NextMessageType, PollerTurns

LEMMA MatchKeeps ==
  ASSUME AcarsInv, UNCHANGED telexes, NEW p \in Pollers, Match(p)
  PROVE  AcarsInv'
<1>1. /\ UNCHANGED <<unsent, queued, window, heard, lost, faults>>
      /\ At(p, "match") /\ Flight(p) # None /\ Busy(p)
      /\ inbox' = [inbox EXCEPT ![Entry(p)].flight = Flight(p)]
      /\ pollers' = [pollers EXCEPT ![p].pc = "apply"]
  BY DEF Match, Busy, At
<1>2. SurroundingsOK
  BY <1>1 DEF SurroundingsOK, AcarsInv, AcarsTypeOK
<1>3. PICK g \in Polling : g = pollers[p]
  BY <1>1, EntryType
<1>4. PICK k \in Texts \X Windows : k = Entry(p)
  BY <1>1, EntryType
<1>5. PICK y \in Stored : y = inbox[k]
  BY <1>1, <1>4, EntryType
<1>6. /\ g.text \in Texts /\ y.stored /\ y.applied = 0
      /\ <<g.text, g.window>> = k
  BY <1>1, <1>3, <1>4, <1>5 DEF AcarsInv, InboxOK, PollerOK, Entry
<1>7. PICK f \in Flights : f = Flight(p)
  BY <1>1, <1>3, <1>6, AcarsAssumption DEF Texts, Flight
<1>8. PICK x : x = [y EXCEPT !.flight = f]
  OBVIOUS
<1>9. x \in Stored /\ x.stored /\ x.applied = 0 /\ x.flight # None
  BY <1>1, <1>6, <1>7, <1>8 DEF Stored
<1>10. PICK r : r = [g EXCEPT !.pc = "apply"]
  OBVIOUS
<1>11. r \in Polling /\ r.pc = "apply" /\ r.text = g.text /\ r.window = g.window
  BY <1>10 DEF Polling
<1>12. /\ pollers' = [pollers EXCEPT ![p] = r]
       /\ inbox' = [inbox EXCEPT ![k] = x]
  BY <1>1, <1>3, <1>4, <1>5, <1>7, <1>8, <1>10
     DEF AcarsInv, AcarsTypeOK
<1>13. \A q \in Pollers : Busy(q) /\ q # p => Entry(q) # k
  BY <1>1, <1>4 DEF AcarsInv, InboxOK
<1> QED BY <1>2, <1>6, <1>9, <1>11, <1>12, <1>13, PollerWorks

LEMMA ApplyKeeps ==
  ASSUME AcarsInv, UNCHANGED telexes, NEW p \in Pollers, Apply(p)
  PROVE  AcarsInv'
<1>1. /\ UNCHANGED <<unsent, queued, window, heard, lost, faults>>
      /\ At(p, "apply") /\ Busy(p) /\ ~At(p, "asleep") /\ NextMessage(p)
      /\ inbox' = [inbox EXCEPT ![Entry(p)].applied = @ + 1]
  BY DEF Apply, Busy, At
<1>2. SurroundingsOK
  BY <1>1 DEF SurroundingsOK, AcarsInv, AcarsTypeOK
<1>3. PICK r \in Polling : r.pc = "batch" /\ pollers' = [pollers EXCEPT ![p] = r]
  BY <1>1, NextMessageType
<1>4. PICK k \in Texts \X Windows : k = Entry(p)
  BY <1>1, EntryType
<1>5. PICK y \in Stored : y = inbox[k]
  BY <1>1, <1>4, EntryType
<1>6. y.stored /\ y.applied = 0 /\ y.flight # None
  BY <1>1, <1>4, <1>5 DEF AcarsInv, InboxOK, PollerOK
<1>7. PICK x : x = [y EXCEPT !.applied = 1]
  OBVIOUS
<1>8. /\ x \in Stored /\ x.stored /\ x.applied \in {0, 1}
      /\ x.flight # None /\ r.pc = "batch"
  <2>0. 1 \in 0..2
    OBVIOUS
  <2>1. x \in Stored
    BY <1>7, <2>0, Zenon DEF Stored
  <2>2. x.applied = 1
    BY <1>7 DEF Stored
  <2>3. x.stored
    BY <2>1 DEF Stored
  <2>4. x.flight = y.flight
    BY <1>7 DEF Stored
  <2> QED BY <1>3, <1>6, <2>1, <2>2, <2>3, <2>4
<1>9. inbox' = [inbox EXCEPT ![k] = x]
  <2>1. inbox' = [inbox EXCEPT ![k] = [inbox[k] EXCEPT !.applied = inbox[k].applied + 1]]
    BY <1>1, <1>4
  <2>2. inbox[k].applied + 1 = 1
    BY <1>5, <1>6
  <2> QED BY <1>5, <1>7, <2>1, <2>2
<1>10. \A q \in Pollers : Busy(q) /\ q # p => Entry(q) # k
  BY <1>1, <1>4 DEF AcarsInv, InboxOK
<1> QED BY <1>2, <1>3, <1>8, <1>9, <1>10, PollerWorks

LEMMA InboxKept ==
  ASSUME AcarsInv, InboundNext
  PROVE  AcarsInv'
<1>1. UNCHANGED telexes
  BY DEF InboundNext
<1>2. CASE (\E m \in Inbound : PilotSends(m)) \/ WindowPasses
  BY <1>1, <1>2, PilotKeeps
<1>3. ASSUME NEW p \in Pollers, StartPoll(p) \/ PollFails(p) \/ PollerDies(p)
      PROVE  AcarsInv'
  BY <1>1, <1>3, StartKeeps, FailuresKeep, PollerDiesKeeps
<1>4. ASSUME NEW p \in Pollers, Working(p)
      PROVE  AcarsInv'
  <2>1. CASE FinishPoll(p)
    BY <1>1, <2>1, FinishPollKeeps
  <2>2. CASE FinishBatch(p)
    BY <1>1, <2>2, StartKeeps
  <2>3. CASE \E t \in Tenants : Fetch(p, t)
    BY <1>1, <2>3, FetchKeeps
  <2>4. CASE \E t \in Tenants : Refused(p, t)
    BY <1>1, <2>4, FailuresKeep
  <2>5. CASE \E m \in Inbound : Store(p, m)
    BY <1>1, <2>5, StoreKeeps
  <2>6. CASE Ignore(p) \/ Match(p) \/ Apply(p)
    BY <1>1, <2>6, IgnoreKeeps, MatchKeeps, ApplyKeeps
  <2> QED BY <1>4, <2>1, <2>2, <2>3, <2>4, <2>5, <2>6 DEF Working
<1> QED BY <1>2, <1>3, <1>4 DEF InboundNext

LEMMA TelexTurns ==
  ASSUME AcarsInv, UNCHANGED inboundVars, NEW o \in Telexes, NEW x \in Telex,
         TelexOK(x), telexes' = [telexes EXCEPT ![o] = x]
  PROVE  AcarsInv'
<1>1. /\ telexes' \in [Telexes -> Telex]
      /\ \A q \in Telexes : telexes'[q] = IF q = o THEN x ELSE telexes[q]
  BY DEF AcarsInv, AcarsTypeOK
<1>2. AcarsTypeOK'
  BY <1>1 DEF AcarsInv, AcarsTypeOK, inboundVars
<1>3. TelexesOK'
  BY <1>1 DEF AcarsInv, TelexesOK
<1>4. InboxOK'
  BY DEF AcarsInv, InboxOK, PollerOK, Busy, Entry, At, AppliedOnce,
         inboundVars
<1> QED BY <1>2, <1>3, <1>4 DEF AcarsInv

LEMMA OutboxKept ==
  ASSUME AcarsInv, OutboundNext
  PROVE  AcarsInv'
<1>1. UNCHANGED inboundVars
  BY DEF OutboundNext
<1>2. PICK o \in Telexes :
        \/ Compose(o) \/ Record(o) \/ SenderDies(o)
        \/ \E answer \in Answers, relayed \in BOOLEAN :
             Send(o, answer, relayed)
  BY DEF OutboundNext
<1>3. PICK y \in Telex : y = telexes[o]
  BY DEF AcarsInv, AcarsTypeOK
<1>4. TelexOK(y)
  BY <1>3 DEF AcarsInv, TelexesOK
<1>5. telexes \in [Telexes -> Telex]
  BY DEF AcarsInv, AcarsTypeOK
<1>6. ASSUME Compose(o)
      PROVE  AcarsInv'
  <2>1. PICK x : x = [y EXCEPT !.status = "pending"]
    OBVIOUS
  <2>2. x \in Telex /\ TelexOK(x)
    BY <1>4, <2>1 DEF Telex, TelexOK
  <2>3. telexes' = [telexes EXCEPT ![o] = x]
    BY <1>3, <1>5, <1>6, <2>1 DEF Compose
  <2> QED BY <1>1, <2>2, <2>3, TelexTurns
<1>7. ASSUME SenderDies(o)
      PROVE  AcarsInv'
  <2>1. PICK x : x = [y EXCEPT !.answer = "dead"]
    OBVIOUS
  <2>2. x \in Telex /\ TelexOK(x)
    BY <1>4, <2>1 DEF Telex, TelexOK
  <2>3. telexes' = [telexes EXCEPT ![o] = x]
    BY <1>3, <1>5, <1>7, <2>1 DEF SenderDies
  <2> QED BY <1>1, <2>2, <2>3, TelexTurns
<1>8. ASSUME NEW answer \in Answers, NEW relayed \in BOOLEAN,
             Send(o, answer, relayed)
      PROVE  AcarsInv'
  <2>1. PICK x : x = [y EXCEPT !.answer = answer, !.relayed = relayed]
    OBVIOUS
  <2>2. /\ x \in Telex /\ x.answer = answer /\ x.relayed = relayed
        /\ x.status = y.status /\ y.status = "pending"
    BY <1>3, <1>8, <2>1 DEF Telex, Send
  <2>3. TelexOK(x)
    BY <1>8, <2>2 DEF TelexOK, Send
  <2>4. telexes' = [telexes EXCEPT ![o] = x]
    BY <1>3, <1>5, <1>8, <2>1 DEF Send
  <2> QED BY <1>1, <2>2, <2>3, <2>4, TelexTurns
<1>9. ASSUME Record(o)
      PROVE  AcarsInv'
  <2>1. PICK status : status =
          CASE y.answer = "ok" -> "accepted"
            [] y.answer \in Ambiguous -> "ambiguous"
            [] OTHER -> "rejected"
    OBVIOUS
  <2>2. y.answer \in Answers
    BY <1>3, <1>9 DEF Record
  <2>3. /\ status \in {"accepted", "ambiguous", "rejected"}
        /\ status = "accepted" => y.answer = "ok"
        /\ status = "rejected" => y.answer = "refused"
    BY <2>1, <2>2 DEF Ambiguous, Answers
  <2>4. PICK x : x = [y EXCEPT !.status = status]
    OBVIOUS
  <2>5. x \in Telex /\ x.status = status
        /\ x.answer = y.answer /\ x.relayed = y.relayed
    BY <2>3, <2>4 DEF Telex
  <2>6. TelexOK(x)
    BY <1>4, <2>3, <2>5 DEF TelexOK
  <2>7. telexes' = [telexes EXCEPT ![o] = x]
    BY <1>3, <1>5, <1>9, <2>1, <2>4 DEF Record
  <2> QED BY <1>1, <2>5, <2>6, <2>7, TelexTurns
<1> QED BY <1>2, <1>6, <1>7, <1>8, <1>9

LEMMA AcarsUnmoved ==
  ASSUME AcarsInv, UNCHANGED acarsVars
  PROVE  AcarsInv'
BY DEF acarsVars, inboundVars, AcarsInv, AcarsTypeOK, InboxOK, PollerOK, Busy,
       Entry, At, AppliedOnce, TelexesOK

LEMMA AcarsHonest ==
  ASSUME AcarsInv
  PROVE  AcarsTypeOK /\ AppliedOnce /\ DeliveryHonest
BY DEF AcarsInv, InboxOK, TelexesOK, TelexOK, DeliveryHonest

-----------------------------------------------------------------------------
(* TenantConfig.                                                           *)

\* An upload whose logo is not yet shown.
Uploading(x) ==
  x # NoForm /\ x.op = "upload" /\ x.pc \in {"call", "write"}

\* A request beside a row and a blob store.
FormOK(x, r, b) ==
  x # NoForm =>
    /\ x.op = "remove" => x.to.logo = NoValue
    /\ x.op = "upload" => x.to.logo \in Logos
    /\ x.seen.logo # NoValue => b[x.seen.logo] # "unused"
    /\ Uploading(x) =>
         /\ x.to.logo # r.logo
         /\ x.pc = "call" => b[x.to.logo] = "unused"
         /\ x.pc = "write" => b[x.to.logo] = "stored"
    /\ x.pc = "clean" =>
         /\ x.op \in {"upload", "remove"}
         /\ x.seen.logo # NoValue /\ x.seen.logo # r.logo

\* Nobody saw the logo of x, and nobody else uploads it.
Unseen(x, y) == Uploading(x) /\ y # NoForm => y.seen.logo # x.to.logo
Distinct(x, y) == Uploading(x) /\ Uploading(y) => x.to.logo # y.to.logo

LogosOK ==
  /\ NoDanglingLogo
  /\ \A e \in Editors : FormOK(forms[e], row, blobs)
  /\ \A e, f \in Editors : Unseen(forms[e], forms[f])
  /\ \A e, f \in Editors : e # f => Distinct(forms[e], forms[f])

TenantInv == TenantTypeOK /\ LogosOK

LEMMA TenantInitially ==
  ASSUME TenantInit
  PROVE  TenantInv
<1>1. \A e \in Editors : forms[e] = NoForm
  BY DEF TenantInit
<1>2. row \in Row /\ row.logo = NoValue
  BY DEF TenantInit, Row
<1>3. TenantTypeOK
  <2>1. orgName \in Names
    BY <1>2 DEF TenantInit, Row
  <2>2. blobs \in [Logos -> {"unused", "stored", "deleted"}]
    BY DEF TenantInit
  <2>3. forms \in [Editors -> {NoForm} \cup Form]
    BY DEF TenantInit
  <2>4. edits \in 0..MaxEdits
    BY TenantAssumption DEF TenantInit
  <2> QED BY <1>2, <2>1, <2>2, <2>3, <2>4 DEF TenantTypeOK
<1>4. LogosOK
  BY <1>1, <1>2 DEF LogosOK, NoDanglingLogo, FormOK, Unseen, Distinct, Uploading
<1> QED BY <1>3, <1>4 DEF TenantInv

\* One request moves, and row and blobs with it.
LEMMA FormTurns ==
  ASSUME TenantInv, NEW e \in Editors, NEW x \in {NoForm} \cup Form,
         NEW r \in Row, NEW b \in [Logos -> {"unused", "stored", "deleted"}],
         forms' = [forms EXCEPT ![e] = x], row' = r, blobs' = b,
         orgName' \in Names, edits' \in 0..MaxEdits,
         r.logo # NoValue => b[r.logo] = "stored",
         FormOK(x, r, b), Unseen(x, x),
         \A f \in Editors : f # e =>
           /\ FormOK(forms[f], r, b)
           /\ Unseen(x, forms[f]) /\ Unseen(forms[f], x)
           /\ Distinct(x, forms[f])
  PROVE  TenantInv'
<1>1. /\ forms' \in [Editors -> {NoForm} \cup Form]
      /\ forms'[e] = x
      /\ \A f \in Editors : f # e => forms'[f] = forms[f]
  BY DEF TenantInv, TenantTypeOK
<1>2. TenantTypeOK'
  BY <1>1 DEF TenantTypeOK
<1>3. NoDanglingLogo'
  BY DEF NoDanglingLogo
<1>4. \A f \in Editors : FormOK(forms'[f], row', blobs')
  BY <1>1
<1>5. ASSUME NEW f \in Editors, NEW g \in Editors
      PROVE  Unseen(forms'[f], forms'[g])
  BY <1>1 DEF TenantInv, LogosOK
<1>6. ASSUME NEW f \in Editors, NEW g \in Editors, f # g
      PROVE  Distinct(forms'[f], forms'[g])
  <2>1. CASE f = e
    BY <1>1, <1>6, <2>1
  <2>2. CASE g = e
    <3>1. Distinct(x, forms[f])
      BY <1>6, <2>2
    <3> QED BY <1>1, <1>6, <2>2, <3>1 DEF Distinct
  <2>3. CASE f # e /\ g # e
    BY <1>1, <1>6, <2>3 DEF TenantInv, LogosOK
  <2> QED BY <2>1, <2>2, <2>3
<1> QED BY <1>2, <1>3, <1>4, <1>5, <1>6 DEF TenantInv, LogosOK

\* A request ends and leaves row and blobs alone.
LEMMA CloseKeeps ==
  ASSUME TenantInv, NEW e \in Editors, Close(e),
         UNCHANGED <<row, blobs, edits>>, orgName' \in Names
  PROVE  TenantInv'
<1>1. forms' = [forms EXCEPT ![e] = NoForm]
  BY DEF Close
<1>2. /\ row \in Row /\ edits \in 0..MaxEdits
      /\ blobs \in [Logos -> {"unused", "stored", "deleted"}]
      /\ row.logo # NoValue => blobs[row.logo] = "stored"
      /\ \A f \in Editors : FormOK(forms[f], row, blobs)
  BY DEF TenantInv, TenantTypeOK, LogosOK, NoDanglingLogo
<1>3. /\ FormOK(NoForm, row, blobs) /\ Unseen(NoForm, NoForm)
      /\ \A f \in Editors :
           /\ Unseen(NoForm, forms[f]) /\ Unseen(forms[f], NoForm)
           /\ Distinct(NoForm, forms[f])
  BY DEF FormOK, Unseen, Distinct, Uploading
<1> QED BY <1>1, <1>2, <1>3, FormTurns

LEMMA OpenKeeps ==
  ASSUME TenantInv, NEW e \in Editors, NEW op, NEW pc, NEW to \in Row,
         op \in {"rename", "access", "put", "test", "clear", "upload", "remove"},
         pc \in {"call", "write"}, Open(e, op, pc, to),
         op = "remove" => to.logo = NoValue,
         op = "upload" =>
           /\ pc = "call" /\ to.logo \in Logos /\ blobs[to.logo] = "unused"
           /\ \A f \in Editors : forms[f] # NoForm => To(f).logo # to.logo
  PROVE  TenantInv'
<1>1. /\ edits' \in 0..MaxEdits /\ UNCHANGED <<row, orgName, blobs>>
      /\ forms' = [forms EXCEPT ![e] =
                     [op |-> op, pc |-> pc, seen |-> row, to |-> to]]
  BY TenantAssumption DEF Open, TenantInv, TenantTypeOK
<1>2. /\ row \in Row /\ orgName \in Names
      /\ blobs \in [Logos -> {"unused", "stored", "deleted"}]
      /\ row.logo # NoValue => blobs[row.logo] = "stored"
      /\ \A f \in Editors : FormOK(forms[f], row, blobs)
  BY DEF TenantInv, TenantTypeOK, LogosOK, NoDanglingLogo
<1>3. PICK x : x = [op |-> op, pc |-> pc, seen |-> row, to |-> to]
  OBVIOUS
<1>4. /\ x \in Form /\ x # NoForm
      /\ x.op = op /\ x.pc = pc /\ x.seen = row /\ x.to = to
  BY <1>2, <1>3 DEF Form, NoForm
<1>5. FormOK(x, row, blobs)
  <2>1. op = "upload" => to.logo # row.logo
    BY <1>2, TenantAssumption
  <2> QED BY <1>2, <1>4, <2>1 DEF FormOK, Uploading
<1>6. Unseen(x, x)
  BY <1>2, <1>4, TenantAssumption DEF Unseen, Uploading
<1>7. ASSUME NEW f \in Editors
      PROVE  Unseen(x, forms[f]) /\ Unseen(forms[f], x) /\ Distinct(x, forms[f])
  <2>1. FormOK(forms[f], row, blobs)
    BY <1>2
  <2>2. Unseen(x, forms[f])
    BY <1>4, <2>1, TenantAssumption DEF FormOK, Unseen, Uploading
  <2>3. Unseen(forms[f], x)
    BY <1>4, <2>1 DEF FormOK, Unseen, Uploading
  <2>4. Distinct(x, forms[f])
    BY <1>4 DEF Distinct, Uploading, To
  <2> QED BY <2>2, <2>3, <2>4
<1> QED BY <1>1, <1>2, <1>3, <1>4, <1>5, <1>6, <1>7, FormTurns

LEMMA OpensKeep ==
  ASSUME TenantInv, NEW e \in Editors,
         \/ \E name \in Names : OpenRename(e, name)
         \/ \E open \in BOOLEAN : OpenAccess(e, open)
         \/ \E station \in Stations, logon \in Logons \cup {NoValue} :
              OpenPut(e, station, logon)
         \/ OpenTest(e) \/ OpenClear(e) \/ OpenRemove(e)
         \/ \E logo \in Logos : OpenUpload(e, logo)
  PROVE  TenantInv'
<1>1. PICK r \in Row : r = row
  BY DEF TenantInv, TenantTypeOK
<1>2. ASSUME NEW name \in Names, OpenRename(e, name)
      PROVE  TenantInv'
  <2>1. [r EXCEPT !.name = name] \in Row
    BY DEF Row
  <2>2. PICK pc \in {"call", "write"} :
          Open(e, "rename", pc, [r EXCEPT !.name = name])
    BY <1>1, <1>2 DEF OpenRename
  <2> QED BY <2>1, <2>2, OpenKeeps
<1>3. ASSUME NEW open \in BOOLEAN, OpenAccess(e, open)
      PROVE  TenantInv'
  <2>1. [r EXCEPT !.open = open] \in Row
    BY DEF Row
  <2> QED BY <1>1, <1>3, <2>1, OpenKeeps DEF OpenAccess
<1>4. ASSUME NEW station \in Stations, NEW logon \in Logons \cup {NoValue},
             OpenPut(e, station, logon)
      PROVE  TenantInv'
  <2>1. [r EXCEPT !.station = station, !.tested = TRUE, !.logon = logon] \in Row
    BY DEF Row
  <2> QED BY <1>1, <1>4, <2>1, OpenKeeps DEF OpenPut
<1>5. ASSUME OpenTest(e)
      PROVE  TenantInv'
  <2>1. [r EXCEPT !.tested = TRUE] \in Row
    BY DEF Row
  <2> QED BY <1>1, <1>5, <2>1, OpenKeeps DEF OpenTest
<1>6. ASSUME OpenClear(e)
      PROVE  TenantInv'
  <2>1. [r EXCEPT !.logon = NoValue, !.tested = FALSE] \in Row
    BY DEF Row
  <2> QED BY <1>1, <1>6, <2>1, OpenKeeps DEF OpenClear
<1>7. ASSUME OpenRemove(e)
      PROVE  TenantInv'
  <2>1. PICK to : to = [r EXCEPT !.logo = NoValue]
    OBVIOUS
  <2>2. to \in Row /\ to.logo = NoValue
    BY <2>1 DEF Row
  <2>3. Open(e, "remove", "write", to)
    BY <1>1, <1>7, <2>1 DEF OpenRemove
  <2> QED BY <2>2, <2>3, OpenKeeps
<1>8. ASSUME NEW logo \in Logos, OpenUpload(e, logo)
      PROVE  TenantInv'
  <2>1. PICK to : to = [r EXCEPT !.logo = logo]
    OBVIOUS
  <2>2. to \in Row /\ to.logo = logo
    BY <2>1 DEF Row
  <2>3. /\ Open(e, "upload", "call", to)
        /\ blobs[logo] = "unused"
        /\ \A f \in Editors : forms[f] # NoForm => To(f).logo # logo
    BY <1>1, <1>8, <2>1 DEF OpenUpload
  <2> QED BY <2>2, <2>3, OpenKeeps
<1> QED BY <1>2, <1>3, <1>4, <1>5, <1>6, <1>7, <1>8

\* What the invariant says of one request, as constants.
LEMMA FormFacts ==
  ASSUME TenantInv, NEW e \in Editors, forms[e] # NoForm
  PROVE  /\ forms[e] \in Form
         /\ row \in Row /\ orgName \in Names /\ edits \in 0..MaxEdits
         /\ blobs \in [Logos -> {"unused", "stored", "deleted"}]
         /\ row.logo # NoValue => blobs[row.logo] = "stored"
         /\ FormOK(forms[e], row, blobs) /\ Unseen(forms[e], forms[e])
         /\ \A f \in Editors : f # e =>
              /\ FormOK(forms[f], row, blobs)
              /\ Unseen(forms[e], forms[f]) /\ Unseen(forms[f], forms[e])
              /\ Distinct(forms[e], forms[f])
BY DEF TenantInv, TenantTypeOK, LogosOK, NoDanglingLogo

LEMMA CallKeeps ==
  ASSUME TenantInv, NEW e \in Editors, Call(e)
  PROVE  TenantInv'
<1>1. /\ forms[e] # NoForm /\ forms[e].pc = "call"
      /\ UNCHANGED <<row, edits>>
      /\ forms' = [forms EXCEPT ![e].pc = "write"]
  BY DEF Call, TurnTo
<1>2. PICK y \in Form : y = forms[e]
  BY <1>1, FormFacts
<1>3. /\ FormOK(y, row, blobs) /\ Unseen(y, y) /\ y # NoForm /\ y.pc = "call"
      /\ row \in Row /\ orgName \in Names /\ edits \in 0..MaxEdits
      /\ blobs \in [Logos -> {"unused", "stored", "deleted"}]
      /\ row.logo # NoValue => blobs[row.logo] = "stored"
      /\ \A f \in Editors : f # e =>
           /\ FormOK(forms[f], row, blobs)
           /\ Unseen(y, forms[f]) /\ Unseen(forms[f], y) /\ Distinct(y, forms[f])
  BY <1>1, <1>2, FormFacts
<1>4. orgName' \in Names
  BY <1>2, <1>3 DEF Call, To, Form, Row
<1>5. PICK b : b = IF y.op = "upload"
                   THEN [blobs EXCEPT ![y.to.logo] = "stored"] ELSE blobs
  OBVIOUS
<1>6. /\ blobs' = b /\ b \in [Logos -> {"unused", "stored", "deleted"}]
      /\ \A logo \in Logos : b[logo] =
           IF y.op = "upload" /\ logo = y.to.logo THEN "stored" ELSE blobs[logo]
  BY <1>2, <1>3, <1>5 DEF Call, To
<1>7. PICK x : x = [y EXCEPT !.pc = "write"]
  OBVIOUS
<1>8. /\ x \in Form /\ x # NoForm /\ x.pc = "write"
      /\ x.op = y.op /\ x.to = y.to /\ x.seen = y.seen
  BY <1>7 DEF Form, NoForm
<1>9. forms' = [forms EXCEPT ![e] = x]
  BY <1>1, <1>2, <1>7
<1>10. row.logo # NoValue => b[row.logo] = "stored"
  BY <1>3, <1>6 DEF Row
<1>11. y.seen.logo \in Logos \cup {NoValue}
  BY DEF Form, Row
<1>12. FormOK(x, row, b)
  BY <1>3, <1>6, <1>8, <1>11 DEF FormOK, Uploading
<1>13. Unseen(x, x)
  BY <1>3, <1>8 DEF Unseen, Uploading
<1>14. ASSUME NEW f \in Editors, f # e
       PROVE  /\ FormOK(forms[f], row, b)
              /\ Unseen(x, forms[f]) /\ Unseen(forms[f], x)
              /\ Distinct(x, forms[f])
  <2>1. /\ FormOK(forms[f], row, blobs)
        /\ Unseen(y, forms[f]) /\ Unseen(forms[f], y) /\ Distinct(y, forms[f])
    BY <1>3, <1>14
  <2>2. Unseen(x, forms[f]) /\ Unseen(forms[f], x) /\ Distinct(x, forms[f])
    BY <1>3, <1>8, <2>1 DEF Unseen, Distinct, Uploading
  <2>3. forms[f] # NoForm => forms[f].seen.logo \in Logos \cup {NoValue}
    BY DEF TenantInv, TenantTypeOK, Form, Row
  <2>4. FormOK(forms[f], row, b)
    BY <1>3, <1>6, <2>1, <2>3 DEF FormOK, Distinct, Uploading
  <2> QED BY <2>2, <2>4
<1> QED BY <1>1, <1>3, <1>4, <1>6, <1>8, <1>9, <1>10, <1>12, <1>13, <1>14, FormTurns

\* The columns that updateTenant writes.
LEMMA WrittenLogo ==
  ASSUME TenantInv, NEW e \in Editors, forms[e] # NoForm
  PROVE  /\ Written(e) \in Row
         /\ Written(e).logo = IF forms[e].op \in {"upload", "remove"}
                              THEN forms[e].to.logo ELSE row.logo
<1>1. PICK y \in Form : y = forms[e]
  BY FormFacts
<1>2. PICK r \in Row : r = row
  BY DEF TenantInv, TenantTypeOK
<1>3. PICK to \in Row : to = y.to
  BY DEF Form
<1> QED BY <1>1, <1>2, <1>3 DEF Written, To, Row

LEMMA WriteKeeps ==
  ASSUME TenantInv, NEW e \in Editors, Write(e)
  PROVE  TenantInv'
<1>1. /\ forms[e] # NoForm /\ forms[e].pc = "write"
      /\ row' = Written(e)
      /\ UNCHANGED <<orgName, blobs, edits>>
      /\ IF forms[e].op \in {"upload", "remove"} /\ forms[e].seen.logo # NoValue
         THEN forms' = [forms EXCEPT ![e].pc = "clean"]
         ELSE forms' = [forms EXCEPT ![e] = NoForm]
  BY DEF Write, TurnTo, Close, Seen
<1>2. PICK y \in Form : y = forms[e]
  BY <1>1, FormFacts
<1>3. /\ FormOK(y, row, blobs) /\ Unseen(y, y) /\ y # NoForm /\ y.pc = "write"
      /\ row \in Row /\ orgName \in Names /\ edits \in 0..MaxEdits
      /\ blobs \in [Logos -> {"unused", "stored", "deleted"}]
      /\ row.logo # NoValue => blobs[row.logo] = "stored"
      /\ \A f \in Editors : f # e =>
           /\ FormOK(forms[f], row, blobs)
           /\ Unseen(y, forms[f]) /\ Unseen(forms[f], y) /\ Distinct(y, forms[f])
  BY <1>1, <1>2, FormFacts
<1>4. PICK r \in Row :
        /\ row' = r
        /\ r.logo = IF y.op \in {"upload", "remove"} THEN y.to.logo ELSE row.logo
  BY <1>1, <1>2, WrittenLogo
<1>5. r.logo # NoValue => blobs[r.logo] = "stored"
  BY <1>3, <1>4 DEF FormOK, Uploading
<1>6. /\ r.logo # row.logo =>
           \/ r.logo = NoValue
           \/ Uploading(y) /\ r.logo = y.to.logo
      /\ y.op = "upload" => Uploading(y) /\ r.logo = y.to.logo
      /\ y.op = "remove" => r.logo = NoValue
  BY <1>3, <1>4 DEF FormOK, Uploading
<1>7. ASSUME NEW f \in Editors, f # e
      PROVE  FormOK(forms[f], r, blobs)
  <2>1. /\ FormOK(forms[f], row, blobs)
        /\ Unseen(y, forms[f]) /\ Distinct(y, forms[f])
    BY <1>3, <1>7
  <2>2. Uploading(forms[f]) => forms[f].to.logo \in Logos
    BY <2>1 DEF FormOK, Uploading
  <2>3. CASE forms[f] # NoForm
    <3>1. Uploading(forms[f]) => forms[f].to.logo # r.logo
      BY <1>6, <2>1, <2>2, <2>3, TenantAssumption DEF FormOK, Distinct
    <3>2. forms[f].pc = "clean" => forms[f].seen.logo # r.logo
      BY <1>6, <2>1, <2>3 DEF FormOK, Unseen
    <3> QED BY <2>1, <2>3, <3>1, <3>2 DEF FormOK
  <2> QED BY <2>3 DEF FormOK
<1>8. CASE ~(y.op \in {"upload", "remove"} /\ y.seen.logo # NoValue)
  <2>1. forms' = [forms EXCEPT ![e] = NoForm]
    BY <1>1, <1>2, <1>8
  <2>2. /\ FormOK(NoForm, r, blobs) /\ Unseen(NoForm, NoForm)
        /\ \A f \in Editors :
             /\ Unseen(NoForm, forms[f]) /\ Unseen(forms[f], NoForm)
             /\ Distinct(NoForm, forms[f])
    BY DEF FormOK, Unseen, Distinct, Uploading
  <2> QED BY <1>1, <1>3, <1>4, <1>5, <1>7, <2>1, <2>2, FormTurns
<1>9. CASE y.op \in {"upload", "remove"} /\ y.seen.logo # NoValue
  <2>1. PICK x : x = [y EXCEPT !.pc = "clean"]
    OBVIOUS
  <2>2. /\ x \in Form /\ x # NoForm /\ x.pc = "clean"
        /\ x.op = y.op /\ x.to = y.to /\ x.seen = y.seen
    BY <2>1 DEF Form, NoForm
  <2>3. forms' = [forms EXCEPT ![e] = x]
    BY <1>1, <1>2, <1>9, <2>1
  <2>4. ~Uploading(x)
    BY <2>2 DEF Uploading
  <2>5. x.seen.logo # r.logo
    BY <1>3, <1>6, <1>9, <2>2 DEF Unseen
  <2>6. FormOK(x, r, blobs)
    BY <1>3, <1>9, <2>2, <2>4, <2>5 DEF FormOK
  <2>7. Unseen(x, x)
    BY <2>4 DEF Unseen
  <2>8. ASSUME NEW f \in Editors, f # e
        PROVE  /\ Unseen(x, forms[f]) /\ Unseen(forms[f], x)
               /\ Distinct(x, forms[f])
    <3>1. Unseen(forms[f], y)
      BY <1>3, <2>8
    <3> QED BY <1>3, <2>2, <2>4, <3>1 DEF Unseen, Distinct
  <2> QED BY <1>1, <1>3, <1>4, <1>5, <1>7, <2>2, <2>3, <2>6, <2>7, <2>8, FormTurns
<1> QED BY <1>8, <1>9

LEMMA WriteFailsKeeps ==
  ASSUME TenantInv, NEW e \in Editors, WriteFails(e)
  PROVE  TenantInv'
<1>1. /\ forms[e] # NoForm /\ forms[e].op = "rename"
      /\ UNCHANGED <<row, orgName, blobs, edits>>
      /\ forms' = [forms EXCEPT ![e].pc = "restore"]
  BY DEF WriteFails, TurnTo, Editing
<1>2. PICK y \in Form : y = forms[e]
  BY <1>1, FormFacts
<1>3. /\ FormOK(y, row, blobs) /\ y # NoForm /\ y.op = "rename"
      /\ row \in Row /\ orgName \in Names /\ edits \in 0..MaxEdits
      /\ blobs \in [Logos -> {"unused", "stored", "deleted"}]
      /\ row.logo # NoValue => blobs[row.logo] = "stored"
      /\ \A f \in Editors : f # e =>
           FormOK(forms[f], row, blobs) /\ Unseen(forms[f], y)
  BY <1>1, <1>2, FormFacts
<1>4. PICK x : x = [y EXCEPT !.pc = "restore"]
  OBVIOUS
<1>5. /\ x \in Form /\ x # NoForm /\ x.pc = "restore"
      /\ x.op = y.op /\ x.to = y.to /\ x.seen = y.seen
  BY <1>4 DEF Form, NoForm
<1>6. forms' = [forms EXCEPT ![e] = x]
  BY <1>1, <1>2, <1>4
<1>7. ~Uploading(x)
  BY <1>3, <1>5 DEF Uploading
<1>8. FormOK(x, row, blobs) /\ Unseen(x, x)
  BY <1>3, <1>5, <1>7 DEF FormOK, Unseen
<1>9. ASSUME NEW f \in Editors, f # e
      PROVE  /\ Unseen(x, forms[f]) /\ Unseen(forms[f], x)
             /\ Distinct(x, forms[f])
  <2>1. Unseen(forms[f], y)
    BY <1>3, <1>9
  <2> QED BY <1>3, <1>5, <1>7, <2>1 DEF Unseen, Distinct
<1> QED BY <1>1, <1>3, <1>5, <1>6, <1>8, <1>9, FormTurns

LEMMA RestoreKeeps ==
  ASSUME TenantInv, NEW e \in Editors, RestoreName(e) \/ Abandon(e)
  PROVE  TenantInv'
<1>1. forms[e] # NoForm /\ Close(e) /\ UNCHANGED <<row, blobs, edits>>
  BY DEF RestoreName, Abandon, Editing
<1>2. orgName' \in Names
  BY <1>1, FormFacts DEF RestoreName, Abandon, Seen, Form, Row
<1> QED BY <1>1, <1>2, CloseKeeps

LEMMA CleanUpKeeps ==
  ASSUME TenantInv, NEW e \in Editors, CleanUp(e)
  PROVE  TenantInv'
<1>1. /\ forms[e] # NoForm /\ forms[e].pc = "clean"
      /\ UNCHANGED <<row, orgName, edits>>
      /\ forms' = [forms EXCEPT ![e] = NoForm]
      /\ blobs' = [logo \in Logos |->
                    IF logo = forms[e].seen.logo THEN "deleted" ELSE blobs[logo]]
  BY DEF CleanUp, Close, Replaced, Seen
<1>2. PICK y \in Form : y = forms[e]
  BY <1>1, FormFacts
<1>3. /\ FormOK(y, row, blobs) /\ y # NoForm /\ y.pc = "clean"
      /\ row \in Row /\ orgName \in Names /\ edits \in 0..MaxEdits
      /\ blobs \in [Logos -> {"unused", "stored", "deleted"}]
      /\ row.logo # NoValue => blobs[row.logo] = "stored"
      /\ \A f \in Editors : f # e =>
           FormOK(forms[f], row, blobs) /\ Unseen(forms[f], y)
  BY <1>1, <1>2, FormFacts
<1>4. PICK b : b = [logo \in Logos |->
                     IF logo = y.seen.logo THEN "deleted" ELSE blobs[logo]]
  OBVIOUS
<1>5. /\ blobs' = b /\ b \in [Logos -> {"unused", "stored", "deleted"}]
      /\ \A logo \in Logos :
           b[logo] = IF logo = y.seen.logo THEN "deleted" ELSE blobs[logo]
  BY <1>1, <1>2, <1>3, <1>4
<1>6. row.logo # NoValue => b[row.logo] = "stored"
  BY <1>3, <1>5 DEF FormOK, Row
<1>7. ASSUME NEW f \in Editors, f # e
      PROVE  FormOK(forms[f], row, b)
  <2>1. FormOK(forms[f], row, blobs) /\ Unseen(forms[f], y)
    BY <1>3, <1>7
  <2>2. forms[f] # NoForm => forms[f].seen.logo \in Logos \cup {NoValue}
    BY DEF TenantInv, TenantTypeOK, Form, Row
  <2> QED BY <1>3, <1>5, <2>1, <2>2 DEF FormOK, Unseen, Uploading
<1>8. /\ FormOK(NoForm, row, b) /\ Unseen(NoForm, NoForm)
      /\ \A f \in Editors :
           /\ Unseen(NoForm, forms[f]) /\ Unseen(forms[f], NoForm)
           /\ Distinct(NoForm, forms[f])
  BY DEF FormOK, Unseen, Distinct, Uploading
<1> QED BY <1>1, <1>3, <1>5, <1>6, <1>7, <1>8, FormTurns

LEMMA SettingsKept ==
  ASSUME TenantInv, TenantNext
  PROVE  TenantInv'
BY OpensKeep, CallKeeps, WriteKeeps, WriteFailsKeeps, RestoreKeeps, CleanUpKeeps
   DEF TenantNext

LEMMA TenantUnmoved ==
  ASSUME TenantInv, UNCHANGED tenantVars
  PROVE  TenantInv'
BY DEF tenantVars, TenantInv, TenantTypeOK, LogosOK, NoDanglingLogo

-----------------------------------------------------------------------------
(* NavigraphOauth.                                                         *)

\* A transaction that a callback works on, or that has connected an account.
Settled(x) ==
  /\ x # NoFlow /\ x.state \in {"consumed", "deleted"}
  /\ x.granted # "undecided"

CallbackOK(x) ==
  x # NoCallback =>
    /\ Settled(flows[x.flow]) /\ links[x.flow] = 0
    /\ x.pc \in {"exchange", "link"} => flows[x.flow].granted \in Accounts

FlowsOK ==
  /\ \A f \in Flows : links[f] > 0 => Settled(flows[f])
  /\ \A c \in Callbacks : CallbackOK(callbacks[c])
  /\ \A c, d \in Callbacks :
       callbacks[c] # NoCallback /\ callbacks[d] # NoCallback /\ c # d
         => callbacks[c].flow # callbacks[d].flow
  /\ NavigraphHonest

OauthInv == OauthTypeOK /\ FlowsOK

LEMMA OauthInitially ==
  ASSUME OauthInit
  PROVE  OauthInv
<1>1. OauthTypeOK
  BY DEF OauthInit, OauthTypeOK, Membership
<1>2. FlowsOK
  BY DEF OauthInit, FlowsOK, CallbackOK, NavigraphHonest
<1> QED BY <1>1, <1>2 DEF OauthInv

LEMMA FlowTypes ==
  ASSUME OauthInv
  PROVE  /\ \A f \in Flows : flows[f] # NoFlow => flows[f] \in Transaction
         /\ \A c \in Callbacks :
              callbacks[c] # NoCallback => callbacks[c] \in Callback
         /\ \A x \in Transaction : x # NoFlow
         /\ \A x \in Callback : x # NoCallback
BY DEF OauthInv, OauthTypeOK, Transaction, NoFlow, Callback, NoCallback

\* Transactions move, and what is settled stays so.
LEMMA FlowsTurn ==
  ASSUME OauthInv, UNCHANGED <<member, callbacks, links>>,
         flows' \in [Flows -> {NoFlow} \cup Transaction],
         \A f \in Flows : Settled(flows[f]) =>
           /\ Settled(flows'[f])
           /\ flows'[f].of = flows[f].of
           /\ flows'[f].granted = flows[f].granted
  PROVE  OauthInv'
<1>1. OauthTypeOK'
  BY DEF OauthInv, OauthTypeOK
<1>2. \A f \in Flows : links'[f] > 0 => Settled(flows'[f])
  BY DEF OauthInv, FlowsOK
<1>3. ASSUME NEW c \in Callbacks
      PROVE  CallbackOK(callbacks[c])'
  <2>1. CallbackOK(callbacks[c]) /\
        (callbacks[c] # NoCallback => callbacks[c].flow \in Flows)
    BY FlowTypes DEF OauthInv, FlowsOK, Callback
  <2> QED BY <2>1 DEF CallbackOK
<1>4. NavigraphHonest'
  <2>1. ASSUME NEW m \in Members, member[m].account # NoAccount
        PROVE  /\ ~Taken(m, member[m].account)'
               /\ \E f \in Flows :
                    /\ links[f] > 0
                    /\ flows'[f].of = m /\ flows'[f].granted = member[m].account
    <3>1. ~Taken(m, member[m].account)
      BY <2>1 DEF OauthInv, FlowsOK, NavigraphHonest
    <3>2. PICK f \in Flows : /\ links[f] > 0 /\ flows[f].of = m
                             /\ flows[f].granted = member[m].account
      BY <2>1 DEF OauthInv, FlowsOK, NavigraphHonest
    <3>3. Settled(flows[f])
      BY <3>2 DEF OauthInv, FlowsOK
    <3> QED BY <3>1, <3>2, <3>3 DEF Taken
  <2> QED BY <2>1 DEF NavigraphHonest, OauthInv, FlowsOK
<1>5. \A c, d \in Callbacks :
       callbacks'[c] # NoCallback /\ callbacks'[d] # NoCallback /\ c # d
         => callbacks'[c].flow # callbacks'[d].flow
  BY DEF OauthInv, FlowsOK
<1> QED BY <1>1, <1>2, <1>3, <1>4, <1>5 DEF OauthInv, FlowsOK

LEMMA FlowsMoveKeeps ==
  ASSUME OauthInv, NEW f \in Flows,
         \/ ExpireFlow(f)
         \/ \E answer \in Accounts \cup {"denied"} : Decide(f, answer)
         \/ \E m \in Members : StartFlow(f, m)
  PROVE  OauthInv'
<1>1. UNCHANGED <<member, callbacks, links>>
  BY DEF ExpireFlow, Decide, StartFlow
<1>2. /\ flows \in [Flows -> {NoFlow} \cup Transaction]
      /\ \A g \in Flows : flows[g] # NoFlow => flows[g] \in Transaction
  BY DEF OauthInv, OauthTypeOK
<1>3. CASE ExpireFlow(f)
  <2>1. flows[f] \in Transaction
    BY <1>2, <1>3 DEF ExpireFlow, NoFlow
  <2>2. PICK x \in Transaction : x = flows[f]
    BY <2>1
  <2>3. PICK y : y = [x EXCEPT !.expired = TRUE]
    OBVIOUS
  <2>4. /\ y \in Transaction /\ y.state = x.state
        /\ y.of = x.of /\ y.granted = x.granted
    BY <2>3 DEF Transaction
  <2>5. flows' = [flows EXCEPT ![f] = y]
    BY <1>2, <1>3, <2>2, <2>3 DEF ExpireFlow
  <2>6. flows' \in [Flows -> {NoFlow} \cup Transaction]
    BY <1>2, <2>4, <2>5
  <2>7. y # NoFlow
    BY <2>4, FlowTypes
  <2> QED BY <1>1, <1>2, <2>2, <2>4, <2>5, <2>6, <2>7, FlowsTurn DEF Settled
<1>4. ASSUME NEW answer \in Accounts \cup {"denied"}, Decide(f, answer)
      PROVE  OauthInv'
  <2>1. flows[f] \in Transaction /\ ~Settled(flows[f])
    BY <1>2, <1>4 DEF Decide, NoFlow, Settled
  <2>2. PICK x \in Transaction : x = flows[f]
    BY <2>1
  <2>3. PICK y : y = [x EXCEPT !.granted = answer]
    OBVIOUS
  <2>4. y \in Transaction
    BY <2>3 DEF Transaction
  <2>5. flows' = [flows EXCEPT ![f] = y]
    BY <1>2, <1>4, <2>2, <2>3 DEF Decide
  <2>6. flows' \in [Flows -> {NoFlow} \cup Transaction]
    BY <1>2, <2>4, <2>5
  <2>7. \A g \in Flows : Settled(flows[g]) => flows'[g] = flows[g]
    BY <1>2, <2>1, <2>5
  <2> QED BY <1>1, <2>6, <2>7, FlowsTurn
<1>5. ASSUME NEW m \in Members, StartFlow(f, m)
      PROVE  OauthInv'
  <2>1. PICK new : new = [state |-> "open", expired |-> FALSE, of |-> m,
                          granted |-> "undecided"]
    OBVIOUS
  <2>2. new \in Transaction
    BY <2>1 DEF Transaction
  <2>3. PICK cleaned : cleaned = [g \in Flows |->
          IF g \in {h \in Flows : flows[h] # NoFlow /\ flows[h].expired}
          THEN [flows[g] EXCEPT !.state = "deleted"] ELSE flows[g]]
    OBVIOUS
  <2>4. flows[f] = NoFlow /\ flows' = [cleaned EXCEPT ![f] = new]
    BY <1>5, <2>1, <2>3 DEF StartFlow
  <2>5. ASSUME NEW g \in Flows
        PROVE  /\ cleaned[g] \in {NoFlow} \cup Transaction
               /\ Settled(flows[g]) =>
                    /\ Settled(cleaned[g])
                    /\ cleaned[g].of = flows[g].of
                    /\ cleaned[g].granted = flows[g].granted
    <3>1. CASE flows[g] # NoFlow /\ flows[g].expired
      <4>1. PICK x \in Transaction : x = flows[g]
        BY <1>2, <3>1
      <4>2. PICK y : y = [x EXCEPT !.state = "deleted"]
        OBVIOUS
      <4>3. /\ y \in Transaction /\ y.state = "deleted"
            /\ y.of = x.of /\ y.granted = x.granted
        BY <4>2 DEF Transaction
      <4>4. y # NoFlow
        BY <4>3, FlowTypes
      <4>5. cleaned[g] = y
        BY <2>3, <3>1, <4>1, <4>2
      <4> QED BY <4>1, <4>3, <4>4, <4>5 DEF Settled
    <3>2. CASE ~(flows[g] # NoFlow /\ flows[g].expired)
      BY <1>2, <2>3, <3>2
    <3> QED BY <3>1, <3>2
  <2>6. cleaned \in [Flows -> {NoFlow} \cup Transaction]
    BY <2>3, <2>5
  <2>7. flows' \in [Flows -> {NoFlow} \cup Transaction]
    BY <2>2, <2>4, <2>6
  <2>8. ASSUME NEW g \in Flows, Settled(flows[g])
        PROVE  flows'[g] = cleaned[g]
    BY <2>4, <2>6, <2>8 DEF Settled
  <2> QED BY <1>1, <2>5, <2>7, <2>8, FlowsTurn
<1> QED BY <1>3, <1>4, <1>5

\* A callback moves within its transaction, or ends.
LEMMA CallbackTurns ==
  ASSUME OauthInv, NEW c \in Callbacks, NEW x \in {NoCallback} \cup Callback,
         callbacks' = [callbacks EXCEPT ![c] = x],
         UNCHANGED <<member, flows, links>>,
         x # NoCallback =>
           /\ callbacks[c] # NoCallback /\ x.flow = callbacks[c].flow
           /\ CallbackOK(x)
  PROVE  OauthInv'
<1>1. /\ callbacks' \in [Callbacks -> {NoCallback} \cup Callback]
      /\ \A d \in Callbacks : callbacks'[d] = IF d = c THEN x ELSE callbacks[d]
  BY DEF OauthInv, OauthTypeOK
<1>2. OauthTypeOK'
  BY <1>1 DEF OauthInv, OauthTypeOK
<1>3. ASSUME NEW d \in Callbacks
      PROVE  CallbackOK(callbacks[d])'
  <2>1. CallbackOK(callbacks[d])
    BY DEF OauthInv, FlowsOK
  <2> QED BY <1>1, <2>1 DEF CallbackOK, Settled
<1>4. \A d, e \in Callbacks :
       callbacks'[d] # NoCallback /\ callbacks'[e] # NoCallback /\ d # e
         => callbacks'[d].flow # callbacks'[e].flow
  BY <1>1 DEF OauthInv, FlowsOK
<1>5. NavigraphHonest' /\ \A f \in Flows : links'[f] > 0 => Settled(flows'[f])
  BY DEF OauthInv, FlowsOK, NavigraphHonest, Taken
<1> QED BY <1>2, <1>3, <1>4, <1>5 DEF OauthInv, FlowsOK

LEMMA CallbackKeeps ==
  ASSUME OauthInv, NEW c \in Callbacks,
         CheckCallback(c) \/ Exchange(c) \/ EndCallback(c)
  PROVE  OauthInv'
<1>1. callbacks[c] # NoCallback /\ UNCHANGED <<member, flows, links>>
  BY DEF CheckCallback, Exchange, EndCallback, Pending
<1>2. PICK y \in Callback : y = callbacks[c]
  BY <1>1, FlowTypes
<1>3. CallbackOK(y) /\ y # NoCallback
  BY <1>1, <1>2 DEF OauthInv, FlowsOK
<1>4. ASSUME NEW pc \in {"exchange", "link"}, flows[y.flow].granted \in Accounts,
             callbacks' = [callbacks EXCEPT ![c].pc = pc]
      PROVE  OauthInv'
  <2>1. PICK x : x = [y EXCEPT !.pc = pc]
    OBVIOUS
  <2>2. x \in Callback /\ x.flow = y.flow
    BY <2>1 DEF Callback
  <2>3. callbacks' = [callbacks EXCEPT ![c] = x]
    BY <1>2, <1>4, <2>1 DEF OauthInv, OauthTypeOK
  <2>4. CallbackOK(x)
    BY <1>3, <1>4, <2>2 DEF CallbackOK
  <2> QED BY <1>1, <1>2, <2>2, <2>3, <2>4, CallbackTurns
<1>5. CASE CheckCallback(c)
  BY <1>2, <1>4, <1>5 DEF CheckCallback, Authorized, FlowOf
<1>6. CASE Exchange(c)
  <2>1. flows[y.flow].granted \in Accounts
    BY <1>2, <1>3, <1>6 DEF Exchange, Pending, CallbackOK
  <2> QED BY <1>4, <1>6, <2>1 DEF Exchange
<1>7. CASE EndCallback(c)
  BY <1>1, <1>7, CallbackTurns DEF EndCallback
<1> QED BY <1>5, <1>6, <1>7

LEMMA ConsumeKeeps ==
  ASSUME OauthInv, NEW c \in Callbacks, NEW f \in Flows, Consume(c, f)
  PROVE  OauthInv'
<1>1. /\ UNCHANGED <<member, links>>
      /\ callbacks[c] = NoCallback
      /\ flows[f] # NoFlow /\ flows[f].granted # "undecided"
      /\ flows[f].state = "open"
      /\ flows' = [flows EXCEPT ![f].state = "consumed"]
      /\ callbacks' = [callbacks EXCEPT ![c] = [pc |-> "check", flow |-> f]]
  BY DEF Consume, Live
<1>2. PICK x \in Transaction : x = flows[f]
  BY <1>1, FlowTypes
<1>3. PICK y : y = [x EXCEPT !.state = "consumed"]
  OBVIOUS
<1>4. /\ y \in Transaction /\ y.state = "consumed"
      /\ y.of = x.of /\ y.granted = x.granted
  BY <1>3 DEF Transaction
<1>5. Settled(y) /\ ~Settled(x)
  BY <1>1, <1>2, <1>4, FlowTypes DEF Settled
<1>6. PICK z : z = [pc |-> "check", flow |-> f]
  OBVIOUS
<1>7. z \in Callback /\ z.pc = "check" /\ z.flow = f
  BY <1>6 DEF Callback
<1>8. /\ flows' \in [Flows -> {NoFlow} \cup Transaction]
      /\ \A g \in Flows : flows'[g] = IF g = f THEN y ELSE flows[g]
  <2>1. flows' = [flows EXCEPT ![f] = y]
    BY <1>1, <1>2, <1>3 DEF OauthInv, OauthTypeOK
  <2> QED BY <1>4, <2>1 DEF OauthInv, OauthTypeOK
<1>9. /\ callbacks' \in [Callbacks -> {NoCallback} \cup Callback]
      /\ \A d \in Callbacks : callbacks'[d] = IF d = c THEN z ELSE callbacks[d]
  BY <1>1, <1>6, <1>7 DEF OauthInv, OauthTypeOK
<1>10. links[f] = 0
  BY <1>2, <1>5 DEF OauthInv, FlowsOK, OauthTypeOK
<1>11. ASSUME NEW d \in Callbacks, d # c, callbacks[d] # NoCallback
       PROVE  callbacks[d].flow \in Flows \ {f}
  <2>1. callbacks[d].flow \in Flows
    BY <1>11, FlowTypes DEF Callback
  <2>2. Settled(flows[callbacks[d].flow])
    BY <1>11 DEF OauthInv, FlowsOK, CallbackOK
  <2> QED BY <1>2, <1>5, <2>1, <2>2
<1>12. ASSUME NEW d \in Callbacks
       PROVE  CallbackOK(callbacks[d])'
  <2>1. CASE d = c
    <3>1. /\ callbacks'[d] = z /\ flows'[z.flow] = y /\ links'[z.flow] = 0
      BY <1>1, <1>7, <1>8, <1>9, <1>10, <2>1
    <3> QED BY <1>5, <1>7, <3>1 DEF CallbackOK, Settled
  <2>2. CASE d # c /\ callbacks[d] # NoCallback
    <3>1. /\ CallbackOK(callbacks[d]) /\ callbacks'[d] = callbacks[d]
          /\ flows'[callbacks[d].flow] = flows[callbacks[d].flow]
      BY <1>8, <1>9, <1>11, <2>2 DEF OauthInv, FlowsOK
    <3> QED BY <1>1, <3>1 DEF CallbackOK, Settled
  <2>3. CASE d # c /\ callbacks[d] = NoCallback
    BY <1>9, <2>3 DEF CallbackOK
  <2> QED BY <2>1, <2>2, <2>3
<1>13. \A d, e \in Callbacks :
        callbacks'[d] # NoCallback /\ callbacks'[e] # NoCallback /\ d # e
          => callbacks'[d].flow # callbacks'[e].flow
  BY <1>7, <1>9, <1>11 DEF OauthInv, FlowsOK
<1>14. \A g \in Flows : links'[g] > 0 => Settled(flows'[g])
  BY <1>1, <1>5, <1>8 DEF OauthInv, FlowsOK
<1>15. NavigraphHonest'
  <2>1. ASSUME NEW m \in Members, member[m].account # NoAccount
        PROVE  \E g \in Flows :
                 /\ links[g] > 0
                 /\ flows'[g].of = m /\ flows'[g].granted = member[m].account
    <3>1. PICK g \in Flows : /\ links[g] > 0 /\ flows[g].of = m
                             /\ flows[g].granted = member[m].account
      BY <2>1 DEF OauthInv, FlowsOK, NavigraphHonest
    <3> QED BY <1>2, <1>4, <1>8, <3>1
  <2> QED BY <1>1, <2>1 DEF OauthInv, FlowsOK, NavigraphHonest, Taken
<1>16. OauthTypeOK'
  BY <1>1, <1>8, <1>9 DEF OauthInv, OauthTypeOK
<1> QED BY <1>12, <1>13, <1>14, <1>15, <1>16 DEF OauthInv, FlowsOK

\* A member's row changes, and the account is cleared or stays.
LEMMA MemberTurns ==
  ASSUME OauthInv, NEW m \in Members, NEW x \in Membership,
         member' = [member EXCEPT ![m] = x],
         x.account \in {NoAccount, member[m].account},
         UNCHANGED <<flows, callbacks, links>>
  PROVE  OauthInv'
<1>1. /\ member' \in [Members -> Membership]
      /\ \A n \in Members : member'[n] = IF n = m THEN x ELSE member[n]
  BY DEF OauthInv, OauthTypeOK
<1>2. ASSUME NEW n \in Members, member'[n].account # NoAccount
      PROVE  /\ member'[n].account = member[n].account
             /\ ~Taken(n, member[n].account)'
             /\ \E f \in Flows :
                  /\ links[f] > 0
                  /\ flows[f].of = n /\ flows[f].granted = member[n].account
  <2>1. member'[n].account = member[n].account
    BY <1>1, <1>2
  <2>2. /\ ~Taken(n, member[n].account)
        /\ \E f \in Flows :
             /\ links[f] > 0
             /\ flows[f].of = n /\ flows[f].granted = member[n].account
    BY <1>2, <2>1 DEF OauthInv, FlowsOK, NavigraphHonest
  <2>3. \A other \in Members \ {n} : member'[other].account # member[n].account
    BY <1>1, <1>2, <2>1, <2>2 DEF Taken
  <2> QED BY <2>1, <2>2, <2>3 DEF Taken
<1>3. NavigraphHonest'
  <2>1. ASSUME NEW n \in Members, member'[n].account # NoAccount
        PROVE  /\ ~Taken(n, member[n].account)'
               /\ \E f \in Flows :
                    /\ links'[f] > 0
                    /\ flows'[f].of = n /\ flows'[f].granted = member'[n].account
    BY <1>2, <2>1 DEF Taken
  <2> QED BY <2>1 DEF OauthInv, FlowsOK, NavigraphHonest
<1>4. OauthTypeOK'
  BY <1>1 DEF OauthInv, OauthTypeOK
<1> QED BY <1>3, <1>4 DEF OauthInv, FlowsOK, CallbackOK, Settled

LEMMA MembershipKeeps ==
  ASSUME OauthInv, NEW m \in Members, ChangeMembership(m) \/ DisconnectAccount(m)
  PROVE  OauthInv'
<1>1. PICK x \in Membership : x = member[m]
  BY DEF OauthInv, OauthTypeOK
<1>2. UNCHANGED <<flows, callbacks, links>>
  BY DEF ChangeMembership, DisconnectAccount
<1>3. ASSUME NEW active \in BOOLEAN, member' = [member EXCEPT ![m].active = active]
      PROVE  OauthInv'
  <2>1. PICK y : y = [x EXCEPT !.active = active]
    OBVIOUS
  <2>2. y \in Membership /\ y.account = x.account
    BY <2>1 DEF Membership
  <2>3. member' = [member EXCEPT ![m] = y]
    BY <1>1, <1>3, <2>1 DEF OauthInv, OauthTypeOK
  <2> QED BY <1>1, <1>2, <2>2, <2>3, MemberTurns
<1>4. ASSUME NEW objects \in BOOLEAN, member' = [member EXCEPT ![m].objects = objects]
      PROVE  OauthInv'
  <2>1. PICK y : y = [x EXCEPT !.objects = objects]
    OBVIOUS
  <2>2. y \in Membership /\ y.account = x.account
    BY <2>1 DEF Membership
  <2>3. member' = [member EXCEPT ![m] = y]
    BY <1>1, <1>4, <2>1 DEF OauthInv, OauthTypeOK
  <2> QED BY <1>1, <1>2, <2>2, <2>3, MemberTurns
<1>5. CASE DisconnectAccount(m)
  <2>1. PICK y : y = [x EXCEPT !.account = NoAccount]
    OBVIOUS
  <2>2. y \in Membership /\ y.account = NoAccount
    BY <2>1 DEF Membership
  <2>3. member' = [member EXCEPT ![m] = y]
    BY <1>1, <1>5, <2>1 DEF OauthInv, OauthTypeOK, DisconnectAccount
  <2> QED BY <1>1, <1>2, <2>2, <2>3, MemberTurns
<1>6. CASE ChangeMembership(m)
  <2>1. \/ \E active \in BOOLEAN : member' = [member EXCEPT ![m].active = active]
        \/ \E objects \in BOOLEAN : member' = [member EXCEPT ![m].objects = objects]
    BY <1>1, <1>6 DEF ChangeMembership
  <2> QED BY <1>3, <1>4, <2>1
<1> QED BY <1>5, <1>6

LEMMA LinkKeeps ==
  ASSUME OauthInv, NEW c \in Callbacks, LinkAccount(c)
  PROVE  OauthInv'
<1>1. PICK f : f = callbacks[c].flow
  OBVIOUS
<1>2. PICK x : x = flows[f]
  OBVIOUS
<1>3. /\ callbacks[c] # NoCallback /\ callbacks[c].pc = "link"
      /\ ~Taken(x.of, x.granted)
      /\ member' = [member EXCEPT ![x.of].account = x.granted]
      /\ links' = [links EXCEPT ![f] = @ + 1]
      /\ callbacks' = [callbacks EXCEPT ![c] = NoCallback]
      /\ UNCHANGED flows
  BY <1>1, <1>2 DEF LinkAccount, Pending, FlowOf
<1>4. /\ f \in Flows /\ Settled(x) /\ links[f] = 0 /\ x.granted \in Accounts
  BY <1>1, <1>2, <1>3, FlowTypes DEF Callback, OauthInv, FlowsOK, CallbackOK
<1>5. x \in Transaction
  BY <1>2, <1>4, FlowTypes DEF Settled
<1>6. PICK m \in Members : m = x.of
  BY <1>5 DEF Transaction
<1>7. PICK a \in Accounts : a = x.granted
  BY <1>4
<1>8. PICK y : y = [member[m] EXCEPT !.account = a]
  OBVIOUS
<1>9. y \in Membership /\ y.account = a
  BY <1>8 DEF OauthInv, OauthTypeOK, Membership
<1>10. /\ member' \in [Members -> Membership]
       /\ \A n \in Members : member'[n] = IF n = m THEN y ELSE member[n]
  <2>1. member' = [member EXCEPT ![m] = y]
    BY <1>3, <1>6, <1>7, <1>8
  <2> QED BY <1>9, <2>1 DEF OauthInv, OauthTypeOK
<1>11. /\ links' \in [Flows -> Nat]
       /\ \A g \in Flows : links'[g] = IF g = f THEN 1 ELSE links[g]
  BY <1>3, <1>4 DEF OauthInv, OauthTypeOK
<1>12. /\ callbacks' \in [Callbacks -> {NoCallback} \cup Callback]
       /\ \A d \in Callbacks :
            callbacks'[d] = IF d = c THEN NoCallback ELSE callbacks[d]
  BY <1>3 DEF OauthInv, OauthTypeOK
<1>13. OauthTypeOK'
  BY <1>3, <1>10, <1>11, <1>12 DEF OauthInv, OauthTypeOK
<1>14. \A g \in Flows : links'[g] > 0 => Settled(flows'[g])
  BY <1>2, <1>3, <1>4, <1>11 DEF OauthInv, FlowsOK
<1>15. ASSUME NEW d \in Callbacks
       PROVE  CallbackOK(callbacks[d])'
  <2>1. CASE callbacks'[d] = NoCallback
    BY <2>1 DEF CallbackOK
  <2>2. CASE callbacks'[d] # NoCallback
    <3>1. /\ callbacks'[d] = callbacks[d] /\ CallbackOK(callbacks[d])
          /\ callbacks[d].flow \in Flows /\ callbacks[d].flow # f
      BY <1>1, <1>3, <1>12, <2>2, FlowTypes DEF OauthInv, FlowsOK, Callback
    <3>2. links'[callbacks[d].flow] = links[callbacks[d].flow]
      BY <1>11, <3>1
    <3> QED BY <1>3, <3>1, <3>2 DEF CallbackOK, Settled
  <2> QED BY <2>1, <2>2
<1>16. \A d, e \in Callbacks :
        callbacks'[d] # NoCallback /\ callbacks'[e] # NoCallback /\ d # e
          => callbacks'[d].flow # callbacks'[e].flow
  BY <1>12 DEF OauthInv, FlowsOK
<1>17. ASSUME NEW n \in Members, member'[n].account # NoAccount
       PROVE  /\ ~Taken(n, member[n].account)'
              /\ \E g \in Flows :
                   /\ links'[g] > 0
                   /\ flows'[g].of = n /\ flows'[g].granted = member'[n].account
  <2>1. CASE n = m
    <3>1. /\ member'[n].account = a
          /\ \A other \in Members \ {n} : member'[other].account # a
      BY <1>3, <1>6, <1>7, <1>9, <1>10, <2>1 DEF Taken
    <3>2. links'[f] > 0 /\ flows'[f].of = n /\ flows'[f].granted = a
      BY <1>2, <1>3, <1>4, <1>6, <1>7, <1>11, <2>1
    <3> QED BY <1>4, <3>1, <3>2 DEF Taken
  <2>2. CASE n # m
    <3>1. PICK b : b = member[n].account
      OBVIOUS
    <3>2. /\ member'[n].account = b /\ b # NoAccount
      BY <1>10, <1>17, <2>2, <3>1
    <3>3. /\ \A other \in Members \ {n} : member[other].account # b
          /\ \E g \in Flows : /\ links[g] > 0
                              /\ flows[g].of = n /\ flows[g].granted = b
      BY <3>1, <3>2 DEF OauthInv, FlowsOK, NavigraphHonest, Taken
    <3>4. b # a
      BY <1>3, <1>6, <1>7, <2>2, <3>1 DEF Taken
    <3>5. \A other \in Members \ {n} : member'[other].account # b
      BY <1>9, <1>10, <3>3, <3>4
    <3>6. PICK g \in Flows : links[g] > 0 /\ flows[g].of = n /\ flows[g].granted = b
      BY <3>3
    <3>7. links'[g] > 0
      BY <1>11, <3>6
    <3>8. flows'[g].of = n /\ flows'[g].granted = b
      BY <1>3, <3>6
    <3> QED BY <3>2, <3>5, <3>7, <3>8 DEF Taken
  <2> QED BY <2>1, <2>2
<1>18. \A g \in Flows : links'[g] <= 1
  BY <1>11 DEF OauthInv, FlowsOK, NavigraphHonest, OauthTypeOK
<1>19. NavigraphHonest'
  BY <1>17, <1>18 DEF NavigraphHonest
<1> QED BY <1>13, <1>14, <1>15, <1>16, <1>19 DEF OauthInv, FlowsOK

LEMMA OauthKept ==
  ASSUME OauthInv, OauthNext
  PROVE  OauthInv'
BY MembershipKeeps, FlowsMoveKeeps, ConsumeKeeps, CallbackKeeps, LinkKeeps
   DEF OauthNext

LEMMA OauthUnmoved ==
  ASSUME OauthInv, UNCHANGED oauthVars
  PROVE  OauthInv'
BY DEF oauthVars, OauthInv, OauthTypeOK, FlowsOK, CallbackOK, Settled,
       NavigraphHonest, Taken

-----------------------------------------------------------------------------
(* Paging: pages of a finite set in a strict total order, as a set of      *)
(* pairs.                                                                  *)

StrictOrder(R, S) ==
  /\ \A x \in S : <<x, x>> \notin R
  /\ \A x, y, z \in S : <<x, y>> \in R /\ <<y, z>> \in R => <<x, z>> \in R
  /\ \A x, y \in S : x # y => <<x, y>> \in R \/ <<y, x>> \in R

Before(R, S, x) == {y \in S : <<y, x>> \in R}

LEMMA FirstExists ==
  ASSUME NEW S, IsFiniteSet(S), S # {}, NEW R, StrictOrder(R, S)
  PROVE  \E m \in S : \A j \in S : <<j, m>> \notin R
<1>1. PICK T : T = {Before(R, S, x) : x \in S}
  OBVIOUS
<1>2. ASSUME NEW x \in S
      PROVE  Before(R, S, x) \in FiniteSubsetsOf(S)
  <2>1. Before(R, S, x) \in SUBSET S
    BY DEF Before
  <2>2. IsFiniteSet(Before(R, S, x))
    BY <2>1, FS_Subset
  <2> QED BY <2>1, <2>2 DEF FiniteSubsetsOf
<1>3. T \subseteq FiniteSubsetsOf(S) /\ T # {}
  BY <1>1, <1>2
<1>4. PICK P \in T : \A Q \in T : ~(<<Q, P>> \in StrictSubsetOrdering(S))
  BY <1>3, FS_StrictSubsetOrderingWellFounded, WFMin
<1>5. PICK m \in S : P = Before(R, S, m)
  BY <1>1
<1>6. ASSUME NEW j \in S, <<j, m>> \in R
      PROVE  FALSE
  <2>1. Before(R, S, j) \subseteq P /\ j \in P /\ j \notin Before(R, S, j)
    BY <1>5, <1>6 DEF Before, StrictOrder
  <2>2. Before(R, S, j) \in T /\ P \in SUBSET S /\ Before(R, S, j) \in SUBSET S
    BY <1>1, <1>5 DEF Before
  <2>3. <<Before(R, S, j), P>> \in StrictSubsetOrdering(S)
    BY <2>1, <2>2 DEF StrictSubsetOrdering
  <2> QED BY <1>4, <2>2, <2>3
<1> QED BY <1>6

LEMMA LastExists ==
  ASSUME NEW S, IsFiniteSet(S), S # {}, NEW R, StrictOrder(R, S)
  PROVE  \E m \in S : \A j \in S \ {m} : <<j, m>> \in R
<1>1. PICK Q : Q = {p \in S \X S : <<p[2], p[1]>> \in R}
  OBVIOUS
<1>2. \A x, y \in S : <<x, y>> \in Q <=> <<y, x>> \in R
  BY <1>1
<1>3. StrictOrder(Q, S)
  BY <1>2 DEF StrictOrder
<1>4. PICK m \in S : \A j \in S : <<j, m>> \notin Q
  BY <1>3, FirstExists
<1>5. \A j \in S \ {m} : <<j, m>> \in R
  BY <1>2, <1>4 DEF StrictOrder
<1> QED BY <1>5

\* A page takes up the list from its first row, without a gap.
LEMMA PageIsInitial ==
  ASSUME NEW S, IsFiniteSet(S), NEW R, StrictOrder(R, S),
         NEW limit \in Int, limit > 0,
         NEW page, page = {i \in S : Cardinality(Before(R, S, i)) < limit}
  PROVE  /\ S # {} => page # {}
         /\ \A i \in page, j \in S : <<j, i>> \in R => j \in page
<1>1. ASSUME S # {}
      PROVE  page # {}
  <2>1. PICK m \in S : \A j \in S : <<j, m>> \notin R
    BY <1>1, FirstExists
  <2>2. Before(R, S, m) = {}
    BY <2>1 DEF Before
  <2>3. Cardinality(Before(R, S, m)) = 0
    BY <2>2, FS_EmptySet
  <2> QED BY <2>3
<1>2. ASSUME NEW i \in page, NEW j \in S, <<j, i>> \in R
      PROVE  j \in page
  <2>1. i \in S /\ Before(R, S, i) \subseteq S
    BY DEF Before
  <2>2. IsFiniteSet(Before(R, S, i)) /\ Before(R, S, j) \in SUBSET Before(R, S, i)
    BY <1>2, <2>1, FS_Subset DEF Before, StrictOrder
  <2>3. /\ Cardinality(Before(R, S, j)) <= Cardinality(Before(R, S, i))
        /\ Cardinality(Before(R, S, i)) \in Nat
        /\ Cardinality(Before(R, S, j)) \in Nat
    BY <2>2, FS_Subset, FS_CardinalityType
  <2>4. Cardinality(Before(R, S, i)) < limit
    OBVIOUS
  <2>5. Cardinality(Before(R, S, j)) < limit
    BY <2>3, <2>4
  <2> QED BY <2>5
<1> QED BY <1>1, <1>2

-----------------------------------------------------------------------------
(* Paging: the reader.                                                     *)

Pairs == SUBSET (Nat \X Nat)
IsReader(r) ==
  r \in [at : {"idle", "asking", "done", "filling", "answered"},
         cursor : [time : Nat, store : Nat, id : Nat],
         store : Nat, after : Nat, room : Int, items : Pairs,
         seen : {r.seen}, kept : Pairs]

\* Between two pages of the flights, those given are those not in the rest.
FlightsOK ==
  /\ IsReader(reader) /\ reader.kept \subseteq Held
  /\ time \in [Ids -> Nat]
  /\ \A i \in Ids : time[i] # 0 => InMilliseconds(time[i]) = time[i]
  /\ reader.at \in {"idle", "asking", "done"}
  /\ reader.at = "asking" =>
       \A i \in Ids : <<0, i>> \in reader.kept =>
         reader.seen[<<0, i>>] = IF i \in Rest THEN 0 ELSE 1
  /\ Listed

\* A record of the export that comes after the place s, a.
Beyond(r, s, a) == r[1] > s \/ (r[1] = s /\ r[2] > a)

\* Those given come before the cursor, and those in the page under way
\* between the cursor and where the next page will begin.
ExportOK ==
  /\ IsReader(reader) /\ reader.kept \subseteq Held
  /\ flown \subseteq Records
  /\ reader.cursor.store > 0 /\ reader.store > 0
  /\ reader.at \in {"asking", "filling", "answered"} =>
       \A r \in reader.kept : reader.seen[r] =
         IF Beyond(r, reader.cursor.store, reader.cursor.id) THEN 0 ELSE 1
  /\ reader.at \in {"filling", "answered"} =>
       /\ \/ reader.store > reader.cursor.store
          \/ reader.store = reader.cursor.store /\ reader.after >= reader.cursor.id
       /\ reader.items =
            {r \in reader.kept :
               /\ Beyond(r, reader.cursor.store, reader.cursor.id)
               /\ ~Beyond(r, reader.store, reader.after)}
  /\ Listed

ReaderOK ==
  /\ list \in Lists
  /\ list = "flights" => FlightsOK
  /\ list = "export" => ExportOK

LEMMA UnreadIsReader ==
  IsReader(Unread) /\ Unread.at = "idle" /\ Unread.kept = {}
BY DEF IsReader, Unread, Pairs

LEMMA PagingInitially ==
  ASSUME PagingInit
  PROVE  ReaderOK
<1>1. /\ IsReader(reader) /\ reader.at = "idle" /\ reader.kept = {}
      /\ reader.cursor.store = 1 /\ reader.store = 1
  <2>1. reader = Unread
    BY DEF PagingInit
  <2>2. Unread.cursor.store = 1 /\ Unread.store = 1
    BY DEF Unread
  <2> QED BY <2>1, <2>2, UnreadIsReader
<1>2. FlightsOK
  BY <1>1 DEF PagingInit, FlightsOK, Listed
<1>3. ExportOK
  BY <1>1 DEF PagingInit, ExportOK, Listed
<1> QED BY <1>2, <1>3 DEF PagingInit, ReaderOK

\* The order of the list of flights.
Listing == {p \in Ids \X Ids :
              time[p[2]] < time[p[1]] \/ (time[p[2]] = time[p[1]] /\ p[2] < p[1])}

LEMMA ListingIsOrder ==
  ASSUME time \in [Ids -> Nat], NEW S \in SUBSET Ids
  PROVE  /\ StrictOrder(Listing, S)
         /\ \A i, j \in Ids : <<j, i>> \in Listing <=> Follows(i, time[j], j)
<1>1. \A i, j \in Ids : <<j, i>> \in Listing <=>
        time[i] < time[j] \/ (time[i] = time[j] /\ i < j)
  BY DEF Listing
<1>2. \A i \in Ids : i \in Nat /\ time[i] \in Nat
  BY PagingAssumption
<1>3. \A i, j \in Ids : <<j, i>> \in Listing <=> Follows(i, time[j], j)
  BY <1>1 DEF Follows
<1>4. \A x \in S : <<x, x>> \notin Listing
  BY <1>1, <1>2
<1>5. \A x, y, z \in S :
        <<x, y>> \in Listing /\ <<y, z>> \in Listing => <<x, z>> \in Listing
  BY <1>1, <1>2
<1>6. \A x, y \in S : x # y => <<x, y>> \in Listing \/ <<y, x>> \in Listing
  BY <1>1, <1>2
<1> QED BY <1>3, <1>4, <1>5, <1>6 DEF StrictOrder

\* A page of the list of flights that does not empty it ends with a flight,
\* and the flights after that one are the rest without the page.
LEMMA PageOfFlights ==
  ASSUME FlightsOK, NEW limit \in 1..MaxLimit, Page(limit) # Rest
  PROVE  /\ Page(limit) \subseteq Rest
         /\ LastOf(Page(limit)) \in Rest
         /\ {i \in Ids : /\ time[i] # 0
                         /\ Follows(i, time[LastOf(Page(limit))],
                                     LastOf(Page(limit)))}
              = Rest \ Page(limit)
<1>1. /\ time \in [Ids -> Nat] /\ Rest \in SUBSET Ids
      /\ \A i \in Rest : time[i] # 0
  BY DEF FlightsOK, Rest
<1>2. IsFiniteSet(Rest)
  BY <1>1, PagingAssumption, FS_Subset
<1>3. PICK page : page = Page(limit)
  OBVIOUS
<1>4. /\ StrictOrder(Listing, Rest)
      /\ \A i, j \in Ids : <<j, i>> \in Listing <=> Follows(i, time[j], j)
  BY <1>1, ListingIsOrder
<1>5. page = {i \in Rest : Cardinality(Before(Listing, Rest, i)) < limit}
  <2>1. \A i \in Rest : {j \in Rest : Follows(i, time[j], j)}
                        = Before(Listing, Rest, i)
    BY <1>1, <1>4 DEF Before
  <2> QED BY <1>3, <2>1 DEF Page
<1>6. limit \in Int /\ limit > 0
  BY PagingAssumption
<1>7. /\ page \in SUBSET Rest /\ page # {}
      /\ \A i \in page, j \in Rest : <<j, i>> \in Listing => j \in page
  <2>1. page \in SUBSET Rest /\ Rest # {}
    BY <1>3, <1>5
  <2> QED BY <1>2, <1>4, <1>5, <1>6, <2>1, PageIsInitial
<1>8. IsFiniteSet(page) /\ StrictOrder(Listing, page)
  BY <1>1, <1>2, <1>7, FS_Subset, ListingIsOrder
<1>9. \E m \in page : \A j \in page \ {m} : Follows(m, time[j], j)
  <2>1. PICK m \in page : \A j \in page \ {m} : <<j, m>> \in Listing
    BY <1>7, <1>8, LastExists
  <2> QED BY <1>1, <1>4, <1>7, <2>1
<1>10. PICK last \in page :
         last = LastOf(page) /\ \A j \in page \ {last} : Follows(last, time[j], j)
  BY <1>9 DEF LastOf
<1>11. ASSUME NEW i \in Ids
       PROVE  time[i] # 0 /\ Follows(i, time[last], last) <=> i \in Rest \ page
  <2>1. last \in Rest /\ last \in Ids
    BY <1>1, <1>7
  <2>2. ASSUME time[i] # 0, Follows(i, time[last], last)
        PROVE  i \in Rest \ page
    <3>1. i \in Rest
      <4>1. CASE reader.cursor.time = 0
        BY <2>2, <4>1 DEF Rest
      <4>2. CASE reader.cursor.time # 0
        <5>1. Follows(last, reader.cursor.time, reader.cursor.id)
          BY <2>1, <4>2 DEF Rest
        <5>2. /\ reader.cursor.time \in Nat /\ reader.cursor.id \in Nat
              /\ time[last] \in Nat /\ time[i] \in Nat
              /\ i \in Nat /\ last \in Nat
          BY <1>1, <2>1, PagingAssumption DEF FlightsOK, IsReader
        <5>3. Follows(i, reader.cursor.time, reader.cursor.id)
          BY <2>2, <5>1, <5>2 DEF Follows
        <5> QED BY <2>2, <5>3 DEF Rest
      <4> QED BY <4>1, <4>2
    <3>2. i \notin page
      BY <1>1, <1>4, <1>7, <1>10, <2>1, <2>2, <3>1 DEF StrictOrder
    <3> QED BY <3>1, <3>2
  <2>3. ASSUME i \in Rest \ page
        PROVE  time[i] # 0 /\ Follows(i, time[last], last)
    <3>1. <<i, last>> \notin Listing
      BY <1>7, <2>3
    <3> QED BY <1>1, <1>4, <2>1, <2>3, <3>1 DEF StrictOrder
  <2> QED BY <2>2, <2>3
<1>12. {i \in Ids : time[i] # 0 /\ Follows(i, time[last], last)} = Rest \ page
  BY <1>1, <1>11
<1> QED BY <1>3, <1>7, <1>10, <1>12

LEMMA HeldFlights ==
  ASSUME list = "flights"
  PROVE  Held = {0} \X {i \in Ids : time[i] # 0}
BY DEF Held

LEMMA HeldIsPairs ==
  ASSUME list = "flights" \/ flown \subseteq Records
  PROVE  /\ Held \in Pairs
         /\ list = "export" =>
              \A r \in Held : /\ r = <<r[1], r[2]>>
                              /\ r[1] \in Stores /\ r[2] \in Records
<1>1. Ids \subseteq Nat /\ Records \subseteq Nat /\ 1 \in Stores
      /\ Stores \subseteq Nat
  BY PagingAssumption DEF Stores
<1>2. CASE list # "export"
  <2>1. ASSUME NEW r \in Held
        PROVE  r \in Nat \X Nat
    <3>1. PICK i \in Ids : r = <<0, i>>
      BY <1>2 DEF Held
    <3> QED BY <1>1, <3>1
  <2> QED BY <1>2, <2>1 DEF Pairs
<1>3. CASE list = "export"
  <2>1. Held \subseteq Stores \X Records
    BY <1>1, <1>3 DEF Held, NoteStores
  <2>2. \A r \in Held : r \in Nat \X Nat
    BY <1>1, <2>1
  <2> QED BY <2>1, <2>2 DEF Pairs
<1> QED BY <1>2, <1>3

\* The first page of any list.
LEMMA StartIs ==
  ASSUME Start, Held \in Pairs
  PROVE  /\ IsReader(reader') /\ reader'.at = "asking" /\ reader'.kept = Held
         /\ reader'.seen = [r \in Held |-> 0]
         /\ reader'.cursor = [time |-> 0, store |-> 1, id |-> 0]
         /\ reader'.store = 1
<1>1. PICK u, kept, seen : /\ u = Unread /\ kept = Held
                           /\ seen = [r \in Held |-> 0]
  OBVIOUS
<1>2. IsReader(u) /\ kept \in Pairs
  BY <1>1, UnreadIsReader
<1>3. PICK x : x = [u EXCEPT !.at = "asking", !.kept = kept, !.seen = seen]
  OBVIOUS
<1>4. /\ IsReader(x) /\ x.at = "asking" /\ x.kept = kept /\ x.seen = seen
      /\ x.cursor = u.cursor /\ x.store = u.store
  BY <1>2, <1>3 DEF IsReader
<1>5. reader' = x
  BY <1>1, <1>3 DEF Start
<1>6. Unread.cursor = [time |-> 0, store |-> 1, id |-> 0] /\ Unread.store = 1
  BY DEF Unread
<1> QED BY <1>1, <1>4, <1>5, <1>6

LEMMA StartFlights ==
  ASSUME list = "flights", FlightsOK, Start
  PROVE  FlightsOK'
<1>1. Held \in Pairs /\ UNCHANGED <<list, time, flown, notes>>
  BY HeldIsPairs DEF Start
<1>2. /\ IsReader(reader') /\ reader'.at = "asking" /\ reader'.kept = Held
      /\ reader'.seen = [r \in Held |-> 0]
      /\ reader'.cursor = [time |-> 0, store |-> 1, id |-> 0]
  BY <1>1, StartIs
<1>3. Held' = Held
  BY <1>1 DEF Held, Linked
<1>4. ASSUME NEW i \in Ids, <<0, i>> \in reader'.kept
      PROVE  reader'.seen[<<0, i>>] = IF i \in Rest' THEN 0 ELSE 1
  <2>1. time[i] # 0
    BY <1>2, <1>4, HeldFlights
  <2>2. i \in Rest'
    BY <1>1, <1>2, <2>1 DEF Rest
  <2> QED BY <1>2, <1>4, <2>2
<1> QED BY <1>1, <1>2, <1>3, <1>4 DEF FlightsOK, Listed, InMilliseconds

LEMMA ReadFlights ==
  ASSUME list = "flights", FlightsOK, NEW limit \in 1..MaxLimit, ReadPage(limit)
  PROVE  FlightsOK'
<1>1. /\ reader.at = "asking" /\ UNCHANGED <<list, time, flown, notes>>
  BY DEF ReadPage
<1>2. PICK g : g = reader
  OBVIOUS
<1>3. /\ IsReader(g) /\ g.kept \subseteq Held
      /\ \A i \in Ids : <<0, i>> \in g.kept =>
           g.seen[<<0, i>>] = IF i \in Rest THEN 0 ELSE 1
  BY <1>1, <1>2 DEF FlightsOK
<1>4. PICK page : page = Page(limit)
  OBVIOUS
<1>5. PICK seen : seen =
        [r \in g.kept |-> g.seen[r] + (IF r \in {0} \X page THEN 1 ELSE 0)]
  OBVIOUS
<1>6. Counted({0} \X page) = seen
  BY <1>2, <1>5 DEF Counted
<1>7. Held' = Held
  BY <1>1 DEF Held, Linked
<1>8. page \subseteq Rest
  BY <1>4 DEF Page
<1>9. ASSUME NEW i \in Ids, <<0, i>> \in g.kept
      PROVE  seen[<<0, i>>] = IF i \in Rest \ page THEN 0 ELSE 1
  <2>1. CASE i \in page
    BY <1>3, <1>5, <1>8, <1>9, <2>1
  <2>2. CASE i \notin page
    BY <1>3, <1>5, <1>9, <2>2
  <2> QED BY <2>1, <2>2
<1>10. CASE page = Rest
  <2>1. PICK x : x = [g EXCEPT !.at = "done", !.seen = seen]
    OBVIOUS
  <2>2. reader' = x
    BY <1>2, <1>4, <1>6, <1>10, <2>1 DEF ReadPage
  <2>3. IsReader(x) /\ x.at = "done" /\ x.kept = g.kept /\ x.seen = seen
    BY <1>3, <2>1 DEF IsReader
  <2>4. ASSUME NEW r \in g.kept
        PROVE  seen[r] = 1
    <3>1. PICK i \in Ids : r = <<0, i>>
      BY <1>3, HeldFlights
    <3> QED BY <1>9, <1>10, <3>1
  <2> QED BY <1>1, <1>3, <1>7, <2>2, <2>3, <2>4 DEF FlightsOK, Listed, InMilliseconds
<1>11. CASE page # Rest
  <2>1. PICK last : last = LastOf(page)
    OBVIOUS
  <2>2. /\ last \in Rest
        /\ {i \in Ids : time[i] # 0 /\ Follows(i, time[last], last)} = Rest \ page
    BY <1>4, <1>11, <2>1, PageOfFlights
  <2>3. /\ last \in Ids /\ last \in Nat /\ time[last] \in Nat /\ time[last] # 0
        /\ InMilliseconds(time[last]) = time[last]
    BY <2>2, PagingAssumption DEF Rest, FlightsOK
  <2>4. PICK cursor : cursor = [g.cursor EXCEPT !.time = time[last], !.id = last]
    OBVIOUS
  <2>5. /\ cursor \in [time : Nat, store : Nat, id : Nat]
        /\ cursor.time = time[last] /\ cursor.id = last
    BY <1>3, <2>3, <2>4 DEF IsReader
  <2>6. PICK x : x = [g EXCEPT !.seen = seen, !.cursor = cursor]
    OBVIOUS
  <2>7. reader' = [g EXCEPT !.seen = seen, !.cursor.time = time[last],
                            !.cursor.id = last]
    BY <1>2, <1>4, <1>6, <1>11, <2>1, <2>3 DEF ReadPage
  <2>8. reader' = x
    BY <1>3, <2>4, <2>6, <2>7 DEF IsReader
  <2>9. /\ IsReader(x) /\ x.at = "asking" /\ x.kept = g.kept
        /\ x.seen = seen /\ x.cursor = cursor
    BY <1>1, <1>2, <1>3, <2>5, <2>6 DEF IsReader
  <2>10. Rest' = Rest \ page
    BY <1>1, <2>2, <2>3, <2>5, <2>8, <2>9 DEF Rest, Follows
  <2> QED BY <1>1, <1>3, <1>7, <1>9, <2>8, <2>9, <2>10
       DEF FlightsOK, Listed, InMilliseconds
<1> QED BY <1>10, <1>11

LEMMA SpoilIs ==
  ASSUME NEW changed, Spoil(changed), IsReader(reader)
  PROVE  /\ IsReader(reader')
         /\ reader'.kept = (reader.kept \ changed) \intersect Held'
         /\ reader'.items = reader.items \intersect reader'.kept
         /\ \A r \in reader'.kept : reader'.seen[r] = reader.seen[r]
         /\ reader'.at = reader.at /\ reader'.cursor = reader.cursor
         /\ reader'.store = reader.store /\ reader'.after = reader.after
<1>1. PICK g : g = reader
  OBVIOUS
<1>2. PICK kept : kept = (g.kept \ changed) \intersect Held'
  OBVIOUS
<1>3. PICK seen : seen = [r \in kept |-> g.seen[r]]
  OBVIOUS
<1>4. PICK items : items = g.items \intersect kept
  OBVIOUS
<1>5. reader' = [g EXCEPT !.kept = kept, !.items = items, !.seen = seen]
  BY <1>1, <1>2, <1>3, <1>4 DEF Spoil, IsReader
<1>6. /\ kept \in Pairs /\ items \in Pairs
  BY <1>1, <1>2, <1>4 DEF IsReader, Pairs
<1>7. PICK x : x = [g EXCEPT !.kept = kept, !.items = items, !.seen = seen]
  OBVIOUS
<1>8. /\ IsReader(x) /\ x.kept = kept /\ x.items = items /\ x.seen = seen
      /\ x.at = g.at /\ x.cursor = g.cursor
      /\ x.store = g.store /\ x.after = g.after
  BY <1>1, <1>6, <1>7 DEF IsReader
<1> QED BY <1>1, <1>2, <1>3, <1>4, <1>5, <1>7, <1>8

\* A row changes its place, or comes or goes: the others are where they were.
LEMMA WriteFlights ==
  ASSUME list = "flights", FlightsOK, NEW i \in Ids,
         RemoveRow(i) \/ (\E t \in Times : SaveFlight(i, t))
  PROVE  FlightsOK'
<1>1. PICK t : /\ t \in {0} \cup Times /\ time' = [time EXCEPT ![i] = t]
               /\ (Spoil({}) /\ t = 0) \/ Spoil({<<0, i>>})
  BY DEF RemoveRow, SaveFlight
<1>2. UNCHANGED <<list, flown, notes>>
  BY DEF RemoveRow, SaveFlight
<1>3. t \in Nat /\ (t # 0 => InMilliseconds(t) = t)
  <2>1. ASSUME t # 0
        PROVE  t \in Nat /\ t % Milli = 0
    BY <1>1, <2>1, PagingAssumption DEF Times
  <2> QED BY <2>1 DEF InMilliseconds
<1>4. /\ time' \in [Ids -> Nat]
      /\ \A j \in Ids : time'[j] = IF j = i THEN t ELSE time[j]
  BY <1>1, <1>3 DEF FlightsOK
<1>5. Held' = {0} \X {j \in Ids : time'[j] # 0}
  BY <1>2 DEF Held
<1>6. /\ IsReader(reader') /\ reader'.kept \subseteq reader.kept \cap Held'
      /\ \A r \in reader'.kept : reader'.seen[r] = reader.seen[r]
      /\ reader'.at = reader.at /\ reader'.cursor = reader.cursor
      /\ t = 0 \/ <<0, i>> \notin reader'.kept
  BY <1>1, SpoilIs DEF FlightsOK
<1>7. ASSUME NEW j \in Ids, <<0, j>> \in reader'.kept
      PROVE  j # i /\ time'[j] = time[j] /\ (j \in Rest' <=> j \in Rest)
  <2>1. j # i
    BY <1>4, <1>5, <1>6, <1>7
  <2>2. time'[j] = time[j]
    BY <1>4, <2>1
  <2> QED BY <1>6, <2>1, <2>2 DEF Rest, Follows
<1>8. \A j \in Ids : time'[j] # 0 => InMilliseconds(time'[j]) = time'[j]
  BY <1>3, <1>4 DEF FlightsOK
<1>9. ASSUME reader.at = "asking", NEW j \in Ids, <<0, j>> \in reader'.kept
      PROVE  reader'.seen[<<0, j>>] = IF j \in Rest' THEN 0 ELSE 1
  BY <1>6, <1>7, <1>9 DEF FlightsOK
<1>10. Listed'
  BY <1>6 DEF FlightsOK, Listed
<1> QED BY <1>4, <1>6, <1>8, <1>9, <1>10 DEF FlightsOK, InMilliseconds

LEMMA FlightsKept ==
  ASSUME list = "flights", FlightsOK, PagingNext
  PROVE  FlightsOK' /\ list' = list
<1>1. reader.at \notin {"filling", "answered"}
  BY DEF FlightsOK
<1>2. CASE Read
  <2>1. \/ Start \/ \E limit \in 1..MaxLimit : ReadPage(limit)
    BY <1>1, <1>2 DEF Read, FillPage, ExhaustStore, Filling, EndPage, Receive,
       Lose, AskExport
  <2> QED BY <2>1, StartFlights, ReadFlights DEF Start, ReadPage
<1>3. CASE Change
  <2>1. \E i \in Ids : RemoveRow(i) \/ \E t \in Times : SaveFlight(i, t)
    BY <1>3 DEF Change, AddRows, Assign, WriteNote
  <2> QED BY <2>1, WriteFlights DEF RemoveRow, SaveFlight
<1> QED BY <1>2, <1>3 DEF PagingNext

\* What the invariant says of the records in the list, by store and id.
LEMMA HeldRecords ==
  ASSUME list = "export", ExportOK
  PROVE  /\ Held \in Pairs
         /\ \A r \in Held : /\ r = <<r[1], r[2]>>
                            /\ r[1] \in Nat /\ r[1] > 0 /\ r[1] <= LastStore
                            /\ r[2] \in Records /\ r[2] \in Nat /\ r[2] > 0
<1>1. \A r \in Held : r = <<r[1], r[2]>> /\ r[1] \in Stores /\ r[2] \in Records
  BY HeldIsPairs DEF ExportOK
<1> QED BY <1>1, HeldIsPairs, PagingAssumption DEF ExportOK, Stores

LEMMA StartExport ==
  ASSUME list = "export", ExportOK, Start
  PROVE  ExportOK'
<1>1. Held \in Pairs /\ UNCHANGED <<list, time, flown, notes>>
  BY HeldRecords DEF Start
<1>2. /\ IsReader(reader') /\ reader'.at = "asking" /\ reader'.kept = Held
      /\ reader'.seen = [r \in Held |-> 0]
      /\ reader'.cursor.store = 1 /\ reader'.cursor.id = 0 /\ reader'.store = 1
  BY <1>1, StartIs
<1>3. Held' = Held
  BY <1>1 DEF Held, Linked
<1>4. ASSUME NEW r \in Held
      PROVE  Beyond(r, 1, 0)
  BY HeldRecords DEF Beyond
<1>5. \A r \in reader'.kept : reader'.seen[r] =
        IF Beyond(r, reader'.cursor.store, reader'.cursor.id) THEN 0 ELSE 1
  BY <1>2, <1>4
<1> QED BY <1>1, <1>2, <1>3, <1>5 DEF ExportOK, Listed

\* A page begins at the cursor, or begins there again.
LEMMA AskExportKeeps ==
  ASSUME list = "export", ExportOK,
         (\E limit \in 1..MaxLimit : AskExport(limit)) \/ Lose
  PROVE  ExportOK'
<1>1. PICK g : g = reader
  OBVIOUS
<1>2. /\ IsReader(g) /\ g.at \in {"asking", "filling", "answered"}
      /\ g.kept \subseteq Held /\ g.cursor.store > 0
      /\ \A r \in g.kept : g.seen[r] =
           IF Beyond(r, g.cursor.store, g.cursor.id) THEN 0 ELSE 1
  BY <1>1 DEF ExportOK, AskExport, Lose
<1>3. PICK at \in {"asking", "filling"}, room \in Int :
        reader' = [g EXCEPT !.at = at, !.items = {}, !.room = room,
                            !.store = g.cursor.store, !.after = g.cursor.id]
  <2>1. 0 \in Int /\ \A limit \in 1..MaxLimit : limit \in Int
    BY PagingAssumption
  <2> QED BY <1>1, <2>1 DEF AskExport, Lose
<1>4. PICK x : x = [g EXCEPT !.at = at, !.items = {}, !.room = room,
                             !.store = g.cursor.store, !.after = g.cursor.id]
  OBVIOUS
<1>5. {} \in Pairs /\ g.cursor.store \in Nat /\ g.cursor.id \in Nat
  BY <1>2 DEF Pairs, IsReader
<1>6. /\ IsReader(x) /\ x.at = at /\ x.items = {} /\ x.kept = g.kept
      /\ x.seen = g.seen /\ x.cursor = g.cursor
      /\ x.store = g.cursor.store /\ x.after = g.cursor.id
  BY <1>2, <1>4, <1>5 DEF IsReader
<1>7. UNCHANGED <<list, time, flown, notes>> /\ Held' = Held
  BY DEF AskExport, Lose, Held, Linked
<1>8. x.items = {r \in x.kept : /\ Beyond(r, x.cursor.store, x.cursor.id)
                                /\ ~Beyond(r, x.store, x.after)}
  BY <1>6
<1> QED BY <1>2, <1>3, <1>4, <1>5, <1>6, <1>7, <1>8 DEF ExportOK, Listed

\* The rows of a store between the place of the reader and the next place are
\* added to the page.
LEMMA AddKeeps ==
  ASSUME list = "export", ExportOK, reader.at = "filling",
         UNCHANGED <<list, time, flown, notes>>,
         NEW page \in SUBSET Rows, NEW at \in {"filling", "answered"},
         NEW s \in Nat, NEW a \in Nat,
         reader' = [Add(page) EXCEPT !.at = at, !.store = s, !.after = a],
         s > reader.store \/ (s = reader.store /\ a >= reader.after),
         \A r \in Held : Beyond(r, s, a) => Beyond(r, reader.store, reader.after),
         \A r \in Held :
           Beyond(r, reader.store, reader.after) =>
             (Beyond(r, s, a) <=> r \notin {reader.store} \X page)
  PROVE  ExportOK'
<1>1. PICK g : g = reader
  OBVIOUS
<1>2. PICK items : items = (g.items \union ({g.store} \X page)) \intersect g.kept
  OBVIOUS
<1>3. PICK room : room = g.room - Cardinality(page)
  OBVIOUS
<1>4. PICK x : x = [g EXCEPT !.items = items, !.room = room, !.at = at,
                             !.store = s, !.after = a]
  OBVIOUS
<1>5. IsReader(g) /\ g.kept \subseteq Held
  BY <1>1 DEF ExportOK
<1>6. room \in Int
  <2>1. page \in SUBSET Records
    BY DEF Rows
  <2>2. Cardinality(page) \in Nat
    BY <2>1, PagingAssumption, FS_Subset, FS_CardinalityType
  <2>3. g.room \in Int
    BY <1>5 DEF IsReader
  <2> QED BY <1>3, <2>2, <2>3
<1>7. items \in Pairs
  BY <1>2, <1>5 DEF IsReader, Pairs
<1>8. reader' = x
  BY <1>1, <1>2, <1>3, <1>4, <1>5 DEF Add, IsReader
<1>9. /\ IsReader(x) /\ x.at = at /\ x.items = items /\ x.kept = g.kept
      /\ x.seen = g.seen /\ x.cursor = g.cursor /\ x.store = s /\ x.after = a
  BY <1>4, <1>5, <1>6, <1>7 DEF IsReader
<1>10. Held' = Held
  BY DEF Held, Linked
<1>11. PICK cs \in Nat, ci \in Nat : cs = g.cursor.store /\ ci = g.cursor.id
  BY <1>5 DEF IsReader
<1>12. PICK gs \in Nat, ga \in Nat : gs = g.store /\ ga = g.after
  BY <1>5 DEF IsReader
<1>13. /\ gs > cs \/ (gs = cs /\ ga >= ci)
       /\ g.items = {r \in g.kept : Beyond(r, cs, ci) /\ ~Beyond(r, gs, ga)}
       /\ \A r \in g.kept : g.seen[r] = IF Beyond(r, cs, ci) THEN 0 ELSE 1
       /\ cs > 0 /\ gs > 0
  BY <1>1, <1>11, <1>12 DEF ExportOK
<1>14. s > cs \/ (s = cs /\ a >= ci)
  BY <1>1, <1>12, <1>13
<1>15. \A r \in Held : Beyond(r, gs, ga) => Beyond(r, cs, ci)
  BY <1>13, HeldRecords DEF Beyond
<1>16. ASSUME NEW r \in g.kept
       PROVE  r \in items <=> Beyond(r, cs, ci) /\ ~Beyond(r, s, a)
  <2>1. r \in Held
    BY <1>5
  <2>2. r \in items <=> \/ Beyond(r, cs, ci) /\ ~Beyond(r, gs, ga)
                        \/ r \in {gs} \X page
    BY <1>2, <1>12, <1>13
  <2>3. r \in {gs} \X page => Beyond(r, gs, ga)
    <3>1. \A i \in page : i > ga
      BY <1>1, <1>12 DEF Rows
    <3> QED BY <3>1 DEF Beyond
  <2>4. /\ Beyond(r, s, a) => Beyond(r, gs, ga)
        /\ Beyond(r, gs, ga) => (Beyond(r, s, a) <=> r \notin {gs} \X page)
        /\ Beyond(r, gs, ga) => Beyond(r, cs, ci)
    BY <1>1, <1>12, <1>15, <2>1
  <2> QED BY <2>2, <2>3, <2>4
<1>17. items = {r \in g.kept : Beyond(r, cs, ci) /\ ~Beyond(r, s, a)}
  BY <1>2, <1>16
<1>18. s > 0
  BY <1>1, <1>12, <1>13
<1>19. /\ reader'.at = at /\ reader'.items = items /\ reader'.kept = g.kept
       /\ reader'.seen = g.seen /\ reader'.store = s /\ reader'.after = a
       /\ reader'.cursor.store = cs /\ reader'.cursor.id = ci
  BY <1>8, <1>9, <1>11
<1>20. IsReader(reader') /\ reader'.kept \subseteq Held' /\ flown' \subseteq Records
  BY <1>5, <1>8, <1>9, <1>10 DEF ExportOK
<1>21. Listed'
  BY <1>19 DEF Listed
<1>22. reader'.items = {r \in reader'.kept :
         /\ Beyond(r, reader'.cursor.store, reader'.cursor.id)
         /\ ~Beyond(r, reader'.store, reader'.after)}
  BY <1>17, <1>19
<1>23. \A r \in reader'.kept : reader'.seen[r] =
         IF Beyond(r, reader'.cursor.store, reader'.cursor.id) THEN 0 ELSE 1
  BY <1>13, <1>19
<1> QED BY <1>13, <1>14, <1>18, <1>19, <1>20, <1>21, <1>22, <1>23 DEF ExportOK

\* The page ends within a store, at the last record that it has room for.
LEMMA FillKeeps ==
  ASSUME list = "export", ExportOK, FillPage
  PROVE  ExportOK'
<1>1. /\ reader.at = "filling" /\ reader.room > 0 /\ Rows # Selected
      /\ UNCHANGED <<list, time, flown, notes>>
      /\ reader' = [Add(Selected) EXCEPT !.at = "answered",
                                         !.after = Greatest(Selected)]
  BY DEF FillPage, Filling
<1>2. /\ reader.room \in Int /\ reader.store \in Nat /\ reader.after \in Nat
  BY DEF ExportOK, IsReader
<1>3. Rows \in SUBSET Records /\ IsFiniteSet(Rows) /\ Rows \subseteq Nat
  BY PagingAssumption, FS_Subset DEF Rows
<1>4. PICK R : R = {p \in Nat \X Nat : p[1] < p[2]}
  OBVIOUS
<1>5. \A i, j \in Nat : <<i, j>> \in R <=> i < j
  BY <1>4
<1>6. \A S \in SUBSET Nat : StrictOrder(R, S)
  BY <1>5 DEF StrictOrder
<1>7. Selected = {i \in Rows : Cardinality(Before(R, Rows, i)) < reader.room}
  <2>1. \A i \in Rows : {j \in Rows : j < i} = Before(R, Rows, i)
    BY <1>3, <1>5 DEF Before
  <2> QED BY <2>1 DEF Selected
<1>8. Rows # {} /\ Selected \in SUBSET Rows
  BY <1>1 DEF Selected
<1>9. /\ Selected # {}
      /\ \A i \in Selected, j \in Rows : <<j, i>> \in R => j \in Selected
  BY <1>1, <1>2, <1>3, <1>6, <1>7, <1>8, PageIsInitial
<1>10. IsFiniteSet(Selected) /\ StrictOrder(R, Selected)
  BY <1>3, <1>6, <1>8, FS_Subset
<1>11. \E m \in Selected : \A j \in Selected : j <= m
  <2>1. PICK m \in Selected : \A j \in Selected \ {m} : <<j, m>> \in R
    BY <1>9, <1>10, LastExists
  <2>2. ASSUME NEW j \in Selected
        PROVE  j <= m
    <3>1. j \in Nat /\ m \in Nat
      BY <1>3, <1>8
    <3>2. j = m \/ j < m
      BY <1>5, <2>1, <3>1
    <3> QED BY <3>1, <3>2
  <2> QED BY <2>2
<1>12. PICK a \in Selected : a = Greatest(Selected) /\ \A j \in Selected : j <= a
  BY <1>11 DEF Greatest
<1>13. a \in Nat /\ a > reader.after
  BY <1>3, <1>8, <1>12 DEF Rows
<1>14. reader' = [Add(Selected) EXCEPT !.at = "answered", !.store = reader.store,
                                      !.after = a]
  BY <1>1, <1>12 DEF Add, ExportOK, IsReader
<1>15. \A r \in Held : Beyond(r, reader.store, a)
                        => Beyond(r, reader.store, reader.after)
  BY <1>2, <1>13, HeldRecords DEF Beyond
<1>16. ASSUME NEW r \in Held, Beyond(r, reader.store, reader.after)
       PROVE  Beyond(r, reader.store, a) <=> r \notin {reader.store} \X Selected
  <2>1. /\ r = <<r[1], r[2]>> /\ r[1] \in Nat /\ r[2] \in Nat /\ r[2] \in Records
    BY HeldRecords
  <2>2. CASE r[1] # reader.store
    <3>1. r \notin {reader.store} \X Selected
      BY <2>2
    <3>2. r[1] > reader.store
      BY <1>16, <2>2 DEF Beyond
    <3> QED BY <3>1, <3>2 DEF Beyond
  <2>3. CASE r[1] = reader.store
    <3>1. r[2] > reader.after
      BY <1>2, <1>16, <2>1, <2>3 DEF Beyond
    <3>2. r[2] \in Rows
      BY <2>1, <2>3, <3>1 DEF Rows
    <3>3. r[2] \in Selected <=> r[2] <= a
      <4>1. r[2] \in Selected => r[2] <= a
        BY <1>12
      <4>2. r[2] < a => r[2] \in Selected
        BY <1>5, <1>9, <1>13, <2>1, <3>2
      <4>3. r[2] = a => r[2] \in Selected
        OBVIOUS
      <4> QED BY <1>13, <2>1, <4>1, <4>2, <4>3
    <3>4. r \in {reader.store} \X Selected <=> r[2] \in Selected
      BY <2>1, <2>3
    <3>5. Beyond(r, reader.store, a) <=> r[2] > a
      BY <1>2, <2>1, <2>3 DEF Beyond
    <3> QED BY <1>13, <2>1, <3>3, <3>4, <3>5
  <2> QED BY <2>2, <2>3
<1>17. a >= reader.after
  BY <1>2, <1>13
<1>18. \A r \in Held : Beyond(r, reader.store, reader.after) =>
         (Beyond(r, reader.store, a) <=> r \notin {reader.store} \X Selected)
  BY <1>16
<1> QED BY <1>1, <1>2, <1>8, <1>13, <1>14, <1>15, <1>17, <1>18, AddKeeps

\* The rest of a store fits into the page.
LEMMA ExhaustKeeps ==
  ASSUME list = "export", ExportOK, ExhaustStore
  PROVE  ExportOK'
<1>1. /\ reader.at = "filling" /\ UNCHANGED <<list, time, flown, notes>>
      /\ reader' = [Add(Rows) EXCEPT !.store = @ + 1, !.after = 0]
  BY DEF ExhaustStore, Filling, Fresh
<1>2. /\ reader.store \in Nat /\ reader.after \in Nat
      /\ reader.store + 1 \in Nat /\ reader.store + 1 > reader.store
  BY DEF ExportOK, IsReader
<1>3. reader' = [Add(Rows) EXCEPT !.at = "filling", !.store = reader.store + 1,
                                  !.after = 0]
  BY <1>1 DEF Add, ExportOK, IsReader
<1>4. ASSUME NEW r \in Held
      PROVE  /\ Beyond(r, reader.store + 1, 0) <=> r[1] > reader.store
             /\ Beyond(r, reader.store, reader.after) =>
                  (r[1] > reader.store <=> r \notin {reader.store} \X Rows)
  <2>1. /\ r = <<r[1], r[2]>> /\ r[1] \in Nat /\ r[2] \in Nat /\ r[2] > 0
        /\ r[2] \in Records
    BY HeldRecords
  <2>2. Beyond(r, reader.store + 1, 0) <=> r[1] > reader.store
    BY <1>2, <2>1 DEF Beyond
  <2>3. ASSUME Beyond(r, reader.store, reader.after)
        PROVE  r[1] > reader.store <=> r \notin {reader.store} \X Rows
    <3>1. CASE r[1] = reader.store
      <4>1. r[2] > reader.after
        BY <1>2, <2>1, <2>3, <3>1 DEF Beyond
      <4>2. r[2] \in Rows
        BY <2>1, <3>1, <4>1 DEF Rows
      <4>3. r \in {reader.store} \X Rows
        BY <2>1, <3>1, <4>2
      <4> QED BY <1>2, <3>1, <4>3
    <3>2. CASE r[1] # reader.store
      <4>1. r \notin {reader.store} \X Rows
        BY <3>2
      <4>2. r[1] > reader.store
        BY <2>3, <3>2 DEF Beyond
      <4> QED BY <4>1, <4>2
    <3> QED BY <3>1, <3>2
  <2> QED BY <2>2, <2>3
<1>5. \A r \in Held : Beyond(r, reader.store + 1, 0)
                       => Beyond(r, reader.store, reader.after)
  BY <1>4 DEF Beyond
<1>6. \A r \in Held : Beyond(r, reader.store, reader.after) =>
        (Beyond(r, reader.store + 1, 0) <=> r \notin {reader.store} \X Rows)
  BY <1>4
<1> QED BY <1>1, <1>2, <1>3, <1>5, <1>6, AddKeeps

LEMMA EndPageKeeps ==
  ASSUME list = "export", ExportOK, EndPage
  PROVE  ExportOK'
<1>1. PICK g : g = reader
  OBVIOUS
<1>2. PICK x : x = [g EXCEPT !.at = "answered"]
  OBVIOUS
<1>3. IsReader(g) /\ g.at = "filling"
  BY <1>1 DEF ExportOK, EndPage
<1>4. /\ IsReader(x) /\ x.at = "answered" /\ x.items = g.items /\ x.kept = g.kept
      /\ x.seen = g.seen /\ x.cursor = g.cursor
      /\ x.store = g.store /\ x.after = g.after
  BY <1>2, <1>3 DEF IsReader
<1>5. reader' = x /\ UNCHANGED <<list, time, flown, notes>> /\ Held' = Held
  BY <1>1, <1>2 DEF EndPage, Held, Linked
<1> QED BY <1>1, <1>3, <1>4, <1>5 DEF ExportOK, Listed

LEMMA ReceiveKeeps ==
  ASSUME list = "export", ExportOK, Receive
  PROVE  ExportOK'
<1>1. PICK g : g = reader
  OBVIOUS
<1>2. /\ IsReader(g) /\ g.at = "answered" /\ g.kept \subseteq Held
      /\ g.store \in Nat /\ g.after \in Nat /\ g.store > 0
      /\ g.cursor.store \in Nat /\ g.cursor.id \in Nat
  BY <1>1 DEF ExportOK, Receive, IsReader
<1>3. PICK at \in {"asking", "done"} :
        at = IF g.store \in Stores THEN "asking" ELSE "done"
  OBVIOUS
<1>4. PICK seen : seen = [r \in g.kept |-> g.seen[r] + (IF r \in g.items THEN 1 ELSE 0)]
  OBVIOUS
<1>5. PICK cursor : cursor = [time |-> 0, store |-> g.store, id |-> g.after]
  OBVIOUS
<1>6. /\ cursor \in [time : Nat, store : Nat, id : Nat]
      /\ cursor.store = g.store /\ cursor.id = g.after
  BY <1>2, <1>5
<1>7. PICK x : x = [g EXCEPT !.at = at, !.seen = seen, !.cursor = cursor,
                             !.items = {}, !.room = 0]
  OBVIOUS
<1>8. /\ IsReader(x) /\ x.at = at /\ x.kept = g.kept /\ x.seen = seen
      /\ x.cursor = cursor /\ x.store = g.store
  <2>1. {} \in Pairs /\ 0 \in Int
    BY DEF Pairs
  <2> QED BY <1>2, <1>6, <1>7, <2>1 DEF IsReader
<1>9. reader' = x
  BY <1>1, <1>3, <1>4, <1>5, <1>7 DEF Receive, Counted
<1>10. UNCHANGED <<list, time, flown, notes>> /\ Held' = Held
  BY DEF Receive, Held, Linked
<1>11. ASSUME NEW r \in g.kept
       PROVE  seen[r] = IF Beyond(r, g.store, g.after) THEN 0 ELSE 1
  <2>1. /\ g.seen[r] = IF Beyond(r, g.cursor.store, g.cursor.id) THEN 0 ELSE 1
        /\ r \in g.items <=> /\ Beyond(r, g.cursor.store, g.cursor.id)
                             /\ ~Beyond(r, g.store, g.after)
    BY <1>1, <1>2 DEF ExportOK
  <2>2. Beyond(r, g.store, g.after) => Beyond(r, g.cursor.store, g.cursor.id)
    BY <1>1, <1>2, HeldRecords DEF ExportOK, Beyond
  <2>3. CASE Beyond(r, g.store, g.after)
    BY <1>4, <2>1, <2>2, <2>3
  <2>4. CASE ~Beyond(r, g.store, g.after)
    BY <1>4, <2>1, <2>4
  <2> QED BY <2>3, <2>4
<1>12. ASSUME at = "done", NEW r \in g.kept
       PROVE  seen[r] = 1
  <2>1. g.store > LastStore
    BY <1>2, <1>3, <1>12, PagingAssumption DEF Stores
  <2>2. /\ r[1] \in Nat /\ r[1] <= LastStore /\ LastStore \in Nat
    BY <1>2, HeldRecords, PagingAssumption
  <2>3. ~Beyond(r, g.store, g.after)
    BY <1>2, <2>1, <2>2 DEF Beyond
  <2> QED BY <1>11, <2>3
<1>13. Listed'
  BY <1>8, <1>9, <1>12 DEF Listed
<1> QED BY <1>2, <1>3, <1>6, <1>8, <1>9, <1>10, <1>11, <1>13 DEF ExportOK

\* Records are written, handed over and deleted between any two steps.
LEMMA SpoilKeeps ==
  ASSUME list = "export", ExportOK, Spoil({}), flown' \subseteq Records
  PROVE  ExportOK'
<1>1. PICK g : g = reader
  OBVIOUS
<1>2. PICK x : x = reader'
  OBVIOUS
<1>3. IsReader(g) /\ g.kept \subseteq Held
  BY <1>1 DEF ExportOK
<1>4. /\ IsReader(x) /\ x.kept = g.kept \intersect Held'
      /\ x.items = g.items \intersect x.kept
      /\ \A r \in x.kept : x.seen[r] = g.seen[r]
      /\ x.at = g.at /\ x.cursor = g.cursor
      /\ x.store = g.store /\ x.after = g.after
  BY <1>1, <1>2, <1>3, SpoilIs
<1>5. g.at \in {"filling", "answered"} =>
        x.items = {r \in x.kept : /\ Beyond(r, g.cursor.store, g.cursor.id)
                                  /\ ~Beyond(r, g.store, g.after)}
  BY <1>1, <1>4 DEF ExportOK
<1> QED BY <1>1, <1>2, <1>4, <1>5 DEF ExportOK, Listed

LEMMA ExportKept ==
  ASSUME list = "export", ExportOK, PagingNext
  PROVE  ExportOK' /\ list' = list
<1>1. CASE Read
  <2>1. \A limit \in 1..MaxLimit : ~ReadPage(limit)
    BY DEF ReadPage
  <2>2. list' = list
    BY <1>1, <2>1 DEF Read, Start, FillPage, ExhaustStore, EndPage, Receive, Lose,
       AskExport
  <2> QED BY <1>1, <2>1, <2>2, StartExport, AskExportKeeps, FillKeeps, ExhaustKeeps,
             EndPageKeeps, ReceiveKeeps DEF Read
<1>2. CASE Change
  <2>1. \/ \E i \in Records : Assign(i)
        \/ \E s \in NoteStores, i \in Records, n \in Note \union {NoNote} :
             WriteNote(s, i, n)
    BY <1>2 DEF Change, AddRows, RemoveRow, SaveFlight
  <2>2. Spoil({}) /\ flown' \subseteq Records /\ list' = list
    BY <2>1 DEF Assign, WriteNote, ExportOK
  <2> QED BY <2>2, SpoilKeeps
<1> QED BY <1>1, <1>2 DEF PagingNext

LEMMA PagesKept ==
  ASSUME ReaderOK, PagingNext
  PROVE  ReaderOK'
<1>1. CASE list = "flights"
  BY <1>1, FlightsKept DEF ReaderOK
<1>2. CASE list = "export"
  BY <1>2, ExportKept DEF ReaderOK
<1>3. CASE list \notin {"flights", "export"}
  <2>1. list' = list
    BY DEF PagingNext, Read, Change, Start, FillPage, ExhaustStore, EndPage,
       Receive, Lose, ReadPage, AskExport, AddRows, RemoveRow, SaveFlight,
       Assign, WriteNote
  <2> QED BY <1>3, <2>1 DEF ReaderOK
<1> QED BY <1>1, <1>2, <1>3

LEMMA PagesUnmoved ==
  ASSUME ReaderOK, UNCHANGED pagingVars
  PROVE  ReaderOK'
<1>1. UNCHANGED <<list, time, flown, notes, reader>>
  BY DEF pagingVars
<1>2. Held' = Held /\ Rest' = Rest
  BY <1>1 DEF Held, Linked, Rest, Follows
<1>3. list = "flights" => FlightsOK'
  BY <1>1, <1>2 DEF ReaderOK, FlightsOK, Listed, InMilliseconds
<1>4. list = "export" => ExportOK'
  BY <1>1, <1>2 DEF ReaderOK, ExportOK, Listed
<1> QED BY <1>1, <1>3, <1>4 DEF ReaderOK

-----------------------------------------------------------------------------
(* The parts together.                                                     *)

IInv == AcarsInv /\ TenantInv /\ OauthInv /\ ReaderOK

LEMMA SpecIsSteps == Spec => Init /\ [][Next]_vars
BY DEF Spec

LEMMA Initially ==
  ASSUME Init
  PROVE  IInv
BY AcarsInitially, TenantInitially, OauthInitially, PagingInitially
   DEF Init, IInv

LEMMA Kept ==
  ASSUME IInv, [Next]_vars
  PROVE  IInv'
<1>1. CASE Inbox
  BY <1>1, InboxKept, TenantUnmoved, OauthUnmoved, PagesUnmoved DEF Inbox, IInv
<1>2. CASE Outbox
  BY <1>2, OutboxKept, TenantUnmoved, OauthUnmoved, PagesUnmoved DEF Outbox, IInv
<1>3. CASE Settings
  BY <1>3, SettingsKept, AcarsUnmoved, OauthUnmoved, PagesUnmoved
     DEF Settings, IInv
<1>4. CASE Oauth
  BY <1>4, OauthKept, AcarsUnmoved, TenantUnmoved, PagesUnmoved DEF Oauth, IInv
<1>5. CASE Pages
  BY <1>5, PagesKept, AcarsUnmoved, TenantUnmoved, OauthUnmoved DEF Pages, IInv
<1>6. CASE UNCHANGED vars
  BY <1>6, AcarsUnmoved, TenantUnmoved, OauthUnmoved, PagesUnmoved DEF vars, IInv
<1> QED BY <1>1, <1>2, <1>3, <1>4, <1>5, <1>6 DEF Next

LEMMA InvariantSays ==
  ASSUME IInv
  PROVE  /\ IntegrationsTypeOK /\ AppliedOnce /\ DeliveryHonest
         /\ NoDanglingLogo /\ NavigraphHonest /\ PagesComplete
<1>1. AcarsTypeOK /\ AppliedOnce /\ DeliveryHonest
  BY AcarsHonest DEF IInv
<1>2. TenantTypeOK /\ NoDanglingLogo
  BY DEF IInv, TenantInv, LogosOK
<1>3. OauthTypeOK /\ NavigraphHonest
  BY DEF IInv, OauthInv, FlowsOK
<1>4. PagesComplete
  BY DEF IInv, ReaderOK, Lists, FlightsOK, ExportOK, PagesComplete
<1> QED BY <1>1, <1>2, <1>3, <1>4 DEF IntegrationsTypeOK

-----------------------------------------------------------------------------
(* The theorems.                                                           *)

\* The conjunction of the parts' inductive invariants holds throughout.
THEOREM Invariance == Spec => []IInv
<1>1. Init => IInv
  BY Initially
<1>2. IInv /\ [Next]_vars => IInv'
  BY Kept
<1> QED BY <1>1, <1>2, SpecIsSteps, PTL

\* Pollers, messages, telexes, the tenant and its forms, memberships,
\* transactions and callbacks have their types (pollTenantAcars, sendTelex,
\* routes/tenant.ts, oauth-service.ts).
THEOREM TypeCorrect == Spec => []IntegrationsTypeOK
<1>1. IInv => IntegrationsTypeOK
  BY InvariantSays
<1> QED BY <1>1, Invariance, PTL

\* However many pollers fetch a report, and however often Hoppie hands it out
\* in its window, applyHoppieProgress runs for it once, after the message was
\* linked to the flight.
THEOREM ReportsAppliedOnce == Spec => []AppliedOnce
<1>1. IInv => AppliedOnce
  BY InvariantSays
<1> QED BY <1>1, Invariance, PTL

\* sendTelex records acceptance only of what Hoppie took, and refusal only of
\* what it did not take.
THEOREM DeliveriesHonest == Spec => []DeliveryHonest
<1>1. IInv => DeliveryHonest
  BY InvariantSays
<1> QED BY <1>1, Invariance, PTL

\* The logo a tenant shows is stored, for every number of uploads and removals
\* that overlap, fail and clean up in any order (PUT and DELETE /tenant/logo).
THEOREM LogoIsStored == Spec => []NoDanglingLogo
<1>1. IInv => NoDanglingLogo
  BY InvariantSays
<1> QED BY <1>1, Invariance, PTL

\* A connected account was authorized by its member in a transaction of their
\* own, belongs to nobody else, and one authorization connects once, for every
\* number of callbacks brought back (completeNavigraphOauth).
THEOREM ConnectionsHonest == Spec => []NavigraphHonest
<1>1. IInv => NavigraphHonest
  BY InvariantSays
<1> QED BY <1>1, Invariance, PTL

\* A reader of the flights or of the privacy export who reaches the last page
\* has been given what stayed in the list once, for every number of rows and
\* stores, every page size and every write between the pages
\* (listFlights, exportPrivacyRequestPage).
THEOREM ReadersServed == Spec => []PagesComplete
<1>1. IInv => PagesComplete
  BY InvariantSays
<1> QED BY <1>1, Invariance, PTL
=============================================================================
