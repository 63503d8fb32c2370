----------------------------- MODULE TenantConfig -----------------------------
(***************************************************************************)
(* An administrator's settings of the tenant (routes/tenant.ts,            *)
(* db/repositories/tenants.ts): name and membership access, the Hoppie     *)
(* ground station, the logo.                                               *)
(*                                                                         *)
(* A handler reads the row, calls Clerk, Hoppie or the blob store, and     *)
(* then writes by updateTenant, which compares nothing: the two jsonb      *)
(* settings, membership access and the stamp of the last Hoppie test, are  *)
(* written back together as they were read, with one of them changed.      *)
(*                                                                         *)
(* The seed colour and the presence of the brand are one statement that    *)
(* nothing here reads, and are left out, as is the audit log.              *)
(***************************************************************************)
EXTENDS Naturals

CONSTANTS Editors,    \* requests of administrators under way
          Names, Stations, Logons,
          Logos,      \* pathnames, each a random UUID
          NoValue,
          MaxEdits    \* bound: requests ever made

ASSUME TenantAssumption == NoValue \notin Logos /\ MaxEdits \in Nat

VARIABLES
  row,       \* the tenant
  orgName,   \* name of the Clerk organization
  blobs,     \* the blob store
  forms,     \* requests, with the row as they read it
  edits

tenantVars == <<row, orgName, blobs, forms, edits>>

Row == [name : Names,
        open : BOOLEAN,     \* settings.memberAccess takes applications
        tested : BOOLEAN,   \* settings.acars has a test stamp
        station : Stations,
        logon : Logons \cup {NoValue},
        logo : Logos \cup {NoValue}]

NoForm == [pc |-> "none"]
Form ==
  [op : {"rename", "access", "put", "test", "clear", "upload", "remove"},
   pc : {"call", "write", "restore", "clean"},
   seen : Row,
   to : Row]   \* the columns to write, the others as seen

-----------------------------------------------------------------------------
Open(e, op, pc, to) ==
  /\ forms[e] = NoForm /\ edits < MaxEdits
  /\ edits' = edits + 1
  /\ forms' = [forms EXCEPT ![e] =
                 [op |-> op, pc |-> pc, seen |-> row, to |-> to]]
  /\ UNCHANGED <<row, orgName, blobs>>

Editing(e, op, pc) ==
  forms[e] # NoForm /\ forms[e].op = op /\ forms[e].pc = pc
TurnTo(e, pc) == forms' = [forms EXCEPT ![e].pc = pc]
Close(e) == forms' = [forms EXCEPT ![e] = NoForm]
Seen(e) == forms[e].seen
To(e) == forms[e].to

\* PATCH /tenant with a name, or with membership access.
OpenRename(e, name) ==
  Open(e, "rename", IF name # row.name THEN "call" ELSE "write",
       [row EXCEPT !.name = name])

OpenAccess(e, open) == Open(e, "access", "write", [row EXCEPT !.open = open])

\* Without a logon in the body the stored one is tested, and kept.
OpenPut(e, station, logon) ==
  /\ logon # NoValue \/ row.logon # NoValue
  /\ Open(e, "put", "call",
       [row EXCEPT !.station = station, !.tested = TRUE, !.logon = logon])

OpenTest(e) ==
  /\ row.logon # NoValue
  /\ Open(e, "test", "call", [row EXCEPT !.tested = TRUE])

OpenClear(e) ==
  Open(e, "clear", "write", [row EXCEPT !.logon = NoValue, !.tested = FALSE])

OpenUpload(e, logo) ==
  /\ blobs[logo] = "unused"
  /\ \A other \in Editors : forms[other] # NoForm => To(other).logo # logo
  /\ Open(e, "upload", "call", [row EXCEPT !.logo = logo])

OpenRemove(e) == Open(e, "remove", "write", [row EXCEPT !.logo = NoValue])

\* The call over the network before the statement: updateOrganization, the
\* ping, put.  One that fails ends the request (see Abandon).
Call(e) ==
  /\ forms[e] # NoForm /\ forms[e].pc = "call"
  /\ orgName' = IF forms[e].op = "rename" THEN To(e).name ELSE orgName
  /\ blobs' = IF forms[e].op = "upload"
              THEN [blobs EXCEPT ![To(e).logo] = "stored"] ELSE blobs
  /\ TurnTo(e, "write")
  /\ UNCHANGED <<row, edits>>

\* updateTenant: the columns given, the settings as a whole.
Written(e) ==
  LET op == forms[e].op
      settings == op \in {"access", "put", "test", "clear"}
  IN [name |-> IF op = "rename" THEN To(e).name ELSE row.name,
      open |-> IF settings THEN To(e).open ELSE row.open,
      tested |-> IF settings THEN To(e).tested ELSE row.tested,
      station |-> IF op = "put" THEN To(e).station ELSE row.station,
      logon |-> IF op = "clear" \/ (op = "put" /\ To(e).logon # NoValue)
                THEN To(e).logon ELSE row.logon,
      logo |-> IF op \in {"upload", "remove"} THEN To(e).logo ELSE row.logo]

Write(e) ==
  /\ forms[e] # NoForm /\ forms[e].pc = "write"
  /\ row' = Written(e)
  /\ IF forms[e].op \in {"upload", "remove"} /\ Seen(e).logo # NoValue
     THEN TurnTo(e, "clean") ELSE Close(e)
  /\ UNCHANGED <<orgName, blobs, edits>>

\* The statement of a renaming fails, and the name read is given back.
WriteFails(e) ==
  /\ Editing(e, "rename", "write") /\ To(e).name # Seen(e).name
  /\ TurnTo(e, "restore")
  /\ UNCHANGED <<row, orgName, blobs, edits>>

RestoreName(e) ==
  /\ Editing(e, "rename", "restore")
  /\ orgName' = Seen(e).name
  /\ Close(e)
  /\ UNCHANGED <<row, blobs, edits>>

\* Fault: the logo to delete is read again after the update.
Replaced_Reread(e) == row.logo

\* The logo that an upload or a removal has replaced.
Replaced(e) == Seen(e).logo

\* safeDeleteBlob
CleanUp(e) ==
  /\ forms[e] # NoForm /\ forms[e].pc = "clean"
  /\ blobs' = [logo \in Logos |->
                 IF logo = Replaced(e) THEN "deleted" ELSE blobs[logo]]
  /\ Close(e)
  /\ UNCHANGED <<row, orgName, edits>>

\* A call or statement fails, or the instance dies.
Abandon(e) ==
  /\ forms[e] # NoForm
  /\ Close(e)
  /\ UNCHANGED <<row, orgName, blobs, edits>>

-----------------------------------------------------------------------------
TenantInit ==
  /\ row \in [name : Names, open : {TRUE}, tested : {FALSE},
              station : Stations, logon : {NoValue}, logo : {NoValue}]
  /\ orgName = row.name
  /\ blobs = [logo \in Logos |-> "unused"]
  /\ forms = [e \in Editors |-> NoForm]
  /\ edits = 0

TenantNext ==
  \E e \in Editors :
    \/ \E name \in Names : OpenRename(e, name)
    \/ \E open \in BOOLEAN : OpenAccess(e, open)
    \/ \E station \in Stations, logon \in Logons \cup {NoValue} :
         OpenPut(e, station, logon)
    \/ OpenTest(e) \/ OpenClear(e) \/ OpenRemove(e)
    \/ \E logo \in Logos : OpenUpload(e, logo)
    \/ Call(e) \/ Write(e) \/ WriteFails(e) \/ RestoreName(e)
    \/ CleanUp(e) \/ Abandon(e)

TenantTypeOK ==
  /\ row \in Row /\ orgName \in Names
  /\ blobs \in [Logos -> {"unused", "stored", "deleted"}]
  /\ forms \in [Editors -> {NoForm} \cup Form]
  /\ edits \in 0..MaxEdits

\* The logo the tenant shows is in the blob store, whatever uploads and
\* removals overlap and wherever one of them dies.
NoDanglingLogo == row.logo # NoValue => blobs[row.logo] = "stored"
=============================================================================
