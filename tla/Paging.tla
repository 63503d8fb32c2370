------------------------------- MODULE Paging -------------------------------
(* How a reader gets through data that is handed out in pages, while others  *)
(* write.  Two kinds of list seek by (time, id), newest first: those ordered *)
(* by created_at (audit events, members, messages, schedule requests), whose *)
(* time is PostgreSQL's now() with microseconds, and the flights, ordered by *)
(* an etd that comes from the client in milliseconds and may be changed.     *)
(* The privacy export walks through the stores one after another by id, one  *)
(* statement for each store, several of them in one page.                    *)
(* A time is a number of ticks; Milli ticks make a millisecond.  Ids are     *)
(* random and compared, so they are numbers.  One list is read at a time:    *)
(* list says which.                                                         *)
EXTENDS Naturals, FiniteSets

CONSTANTS Ids,      \* of rows in a list
          Records,  \* ids of records in a store of the export
          LastStore, MaxTime, Milli, MaxLimit

ASSUME PagingAssumption ==
  /\ Ids \subseteq Nat \ {0} /\ IsFiniteSet(Ids)
  /\ Records \subseteq Nat \ {0} /\ IsFiniteSet(Records)
  /\ LastStore \in Nat \ {0}
  /\ MaxTime \in Nat \ {0} /\ Milli \in Nat \ {0} /\ MaxLimit \in Nat \ {0}

VARIABLES list,   \* the list that is read
          time,    \* a row's created_at or etd; 0: there is no such row
          flown,   \* the member's flights, for the export
          notes,   \* records about flights, for the export
          reader   \* the client, and the request that answers it

pagingVars == <<list, time, flown, notes, reader>>

----------------------------------------------------------------------------
(* What is stored. *)

\* Lists by created_at, the list of flights, and the privacy export.
Lists == {"created", "flights", "export"}

\* The times a row can have: a flight's etd is a JavaScript Date.
Times == IF list = "flights"
         THEN {t \in Milli..MaxTime : t % Milli = 0} ELSE Milli..MaxTime

\* A message, release or audit event: about a flight, perhaps the member's.
Note == [flight : Records, subjects : BOOLEAN]
NoNote == [flight |-> 0, subjects |-> FALSE]

\* Stores in the export's order; flights come before what is about them.
Stores == 1..LastStore

\* The stores of what is about flights.
NoteStores == Stores \ {1}

\* Records found by their author or through the member's flights.
Linked(s, id) ==
  LET n == notes[s][id]
  IN n # NoNote /\ (n.subjects \/ n.flight \in flown)

\* What the read list holds now, as pairs of store and id.
Held == IF list = "export"
        THEN ({1} \X flown)
               \union {r \in NoteStores \X Records : Linked(r[1], r[2])}
        ELSE {0} \X {i \in Ids : time[i] # 0}

----------------------------------------------------------------------------
(* The reader.  kept is what was in the list, unmoved, since he started;    *)
(* items are those of the page in preparation, and seen says how often he   *)
(* was given one.                                                           *)

\* The client before the first page.
Unread == [at |-> "idle", cursor |-> [time |-> 0, store |-> 1, id |-> 0],
           store |-> 1, after |-> 0, room |-> 0, items |-> {},
           seen |-> [r \in {} |-> 0], kept |-> {}]

\* One more time each for the rows of a page.
Counted(page) ==
  [r \in reader.kept |-> reader.seen[r] + (IF r \in page THEN 1 ELSE 0)]

\* The first page is asked for without a cursor.
Start ==
  /\ reader.at = "idle"
  /\ reader' = [Unread EXCEPT !.at = "asking", !.kept = Held,
                             !.seen = [r \in Held |-> 0]]
  /\ UNCHANGED <<list, time, flown, notes>>

----------------------------------------------------------------------------
(* Lists by (time desc, id desc). *)

\* Row i comes after the row or cursor at time t with id j.
Follows(i, t, j) == time[i] < t \/ (time[i] = t /\ i < j)

\* The rows after the cursor.
Rest == LET c == reader.cursor
        IN {i \in Ids : time[i] # 0
                          /\ (c.time = 0 \/ Follows(i, c.time, c.id))}

\* The page: as many of them as asked for, from the start of the order.
Page(limit) ==
  {i \in Rest : Cardinality({j \in Rest : Follows(i, time[j], j)}) < limit}

\* toISOString keeps milliseconds.
InMilliseconds(t) == t - (t % Milli)

\* The cursor after a page is its last row.
LastOf(page) ==
  CHOOSE i \in page : \A j \in page \ {i} : Follows(i, time[j], j)

\* A page of a list is one statement.
ReadPage(limit) ==
  LET page == Page(limit)
      last == LastOf(page)
  IN /\ list # "export" /\ reader.at = "asking"
     /\ reader' =
          IF page = Rest
          THEN [reader EXCEPT !.at = "done", !.seen = Counted({0} \X page)]
          ELSE [reader EXCEPT !.seen = Counted({0} \X page),
                              !.cursor.time = InMilliseconds(time[last]),
                              !.cursor.id = last]
     /\ UNCHANGED <<list, time, flown, notes>>

----------------------------------------------------------------------------
(* The export. *)

\* A request for one page: from the cursor, with room for limit records.
AskExport(limit) ==
  /\ list = "export" /\ reader.at = "asking"
  /\ reader' = [reader EXCEPT !.at = "filling", !.items = {}, !.room = limit,
                              !.store = reader.cursor.store,
                              !.after = reader.cursor.id]
  /\ UNCHANGED <<list, time, flown, notes>>

\* The loop goes on while there is room and a store.
Filling ==
  /\ list = "export" /\ reader.at = "filling"
  /\ reader.room > 0 /\ reader.store \in Stores

\* One store's records in the order of their ids, from after the cursor.
Rows == {i \in Records : <<reader.store, i>> \in Held /\ i > reader.after}

Greatest(S) == CHOOSE i \in S : \A j \in S : j <= i

\* As many as fit.
Selected ==
  {i \in Rows : Cardinality({j \in Rows : j < i}) < reader.room}

Add(page) ==
  [reader EXCEPT !.items = (@ \union ({reader.store} \X page))
                               \intersect reader.kept,
                 !.room = @ - Cardinality(page)]

\* More records than room: the page ends within the store.
FillPage ==
  /\ Filling /\ Rows # Selected
  /\ reader' = [Add(Selected) EXCEPT
                  !.at = "answered",
                  !.after = Greatest(Selected)]
  /\ UNCHANGED <<list, time, flown, notes>>

\* The last id of one store is carried over into the next.
Fresh_KeepsId(last) == last

\* Where the next store begins.
Fresh(last) == 0

\* The store's records fit: on to the next store.
ExhaustStore ==
  /\ Filling /\ Rows = Selected
  /\ reader' = [Add(Rows) EXCEPT
                  !.store = @ + 1,
                  !.after = Fresh(Greatest(Rows \union {@}))]
  /\ UNCHANGED <<list, time, flown, notes>>

\* A full page, or no store left.
EndPage ==
  /\ reader.at = "filling"
  /\ reader.room = 0 \/ reader.store \notin Stores
  /\ reader' = [reader EXCEPT !.at = "answered"]
  /\ UNCHANGED <<list, time, flown, notes>>

\* The page arrives; without a cursor it is the last one.
Receive ==
  /\ reader.at = "answered"
  /\ reader' = [reader EXCEPT
                  !.at = IF reader.store \in Stores THEN "asking" ELSE "done",
                  !.seen = Counted(reader.items),
                  !.cursor = [time |-> 0, store |-> reader.store,
                              id |-> reader.after],
                  !.items = {}, !.room = 0]
  /\ UNCHANGED <<list, time, flown, notes>>

\* The page is lost, or the request fails: it is asked for again.
Lose ==
  /\ reader.at \in {"filling", "answered"}
  /\ reader' = [reader EXCEPT !.at = "asking", !.items = {}, !.room = 0,
                              !.store = reader.cursor.store,
                              !.after = reader.cursor.id]
  /\ UNCHANGED <<list, time, flown, notes>>

----------------------------------------------------------------------------
(* The writers. *)

\* What changed or is no longer listed was not there throughout.
Spoil(changed) ==
  LET kept == (reader.kept \ changed) \intersect Held'
  IN reader' = [reader EXCEPT !.kept = kept,
                              !.items = @ \intersect kept,
                              !.seen = [r \in kept |-> reader.seen[r]]]

\* One statement gives all its rows the same now().
AddRows(new, t) ==
  /\ list = "created" /\ \A i \in new : time[i] = 0
  /\ time' = [i \in Ids |-> IF i \in new THEN t ELSE time[i]]
  /\ UNCHANGED <<list, flown, notes>> /\ Spoil({})

\* A flight is entered, or its etd changed.
SaveFlight(i, t) ==
  /\ list = "flights" /\ time[i] # t
  /\ time' = [time EXCEPT ![i] = t]
  /\ UNCHANGED <<list, flown, notes>> /\ Spoil({<<0, i>>})

\* Retention or erasure deletes a row.
RemoveRow(i) ==
  /\ list # "export" /\ time[i] # 0
  /\ time' = [time EXCEPT ![i] = 0]
  /\ UNCHANGED <<list, flown, notes>> /\ Spoil({})

\* A flight becomes the member's, or is handed over or deleted.
Assign(i) ==
  /\ list = "export"
  /\ flown' = IF i \in flown THEN flown \ {i} ELSE flown \union {i}
  /\ UNCHANGED <<list, time, notes>> /\ Spoil({})

\* A record about a flight is written or deleted.
WriteNote(s, i, n) ==
  /\ list = "export" /\ (notes[s][i] = NoNote) # (n = NoNote)
  /\ notes' = [notes EXCEPT ![s][i] = n]
  /\ UNCHANGED <<list, time, flown>> /\ Spoil({})

----------------------------------------------------------------------------

PagingInit ==
  /\ list \in Lists
  /\ time = [i \in Ids |-> 0]
  /\ flown = {}
  /\ notes = [s \in NoteStores |-> [i \in Records |-> NoNote]]
  /\ reader = Unread

Read ==
  \/ Start \/ FillPage \/ ExhaustStore \/ EndPage \/ Receive \/ Lose
  \/ \E limit \in 1..MaxLimit : ReadPage(limit) \/ AskExport(limit)

Change ==
  \/ \E new \in SUBSET Ids \ {{}}, t \in Times : AddRows(new, t)
  \/ \E i \in Ids : RemoveRow(i) \/ \E t \in Times : SaveFlight(i, t)
  \/ \E i \in Records : Assign(i)
  \/ \E s \in NoteStores, i \in Records, n \in Note \union {NoNote} :
       WriteNote(s, i, n)

\* Nothing written after the last page matters to this reader.
PagingNext == Read \/ (reader.at # "done" /\ Change)

PagingSpec == PagingInit /\ [][PagingNext]_pagingVars

----------------------------------------------------------------------------
(* Properties. *)

\* What was in the list, unmoved, from the first page to the last.
Listed ==
  reader.at = "done" =>
    \A r \in reader.kept : reader.seen[r] = 1

\* An export that reached its end holds every record that was the member's
\* all the time, once, whatever was added, deleted or handed over meanwhile
\* and whichever pages were asked for twice; and so does the list of flights
\* for every flight whose etd stayed (exportPrivacyRequestPage, listFlights).
PagesComplete == list # "created" => Listed

\* The same of the lists by created_at (listAuditEvents, listMemberships,
\* listAcarsMessages, listScheduleRequests).
HistoryListed == list = "created" => Listed
=============================================================================
