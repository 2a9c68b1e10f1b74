--------------------------- MODULE SessionLifecycle ---------------------------
(***************************************************************************)
(* The life of one session: its liveness marker in Redis, its ownership    *)
(* row, its upload directory and its DuckDB tables; the requests that use  *)
(* it and the sweep that reclaims it.  backend/main.py (middleware),       *)
(* deps.py (ownership guard), routers/session.py (create, upload,          *)
(* materialize, transform, delete), services/cleanup_service.py,           *)
(* services/ownership_service.py and the marker of redis_manager.py, in    *)
(* production, where Redis outlives the process.                           *)
(*                                                                         *)
(* Time passes in ticks.  Several sweeps may run at once: the loop's and   *)
(* those of POST /admin/sweep.  The sweep computes the age of a directory  *)
(* from the time it began; with one session that is the time it looks.     *)
(*                                                                         *)
(* Handlers and sweeps run on the event loop, where one segment follows    *)
(* the other; DuckDB's statements and the guard run on threads.  Two       *)
(* segments are taken apart here because the process may die in their      *)
(* middle: purge_session and rmtree of a deletion, rmtree and              *)
(* purge_session of a sweep.                                               *)
(***************************************************************************)
EXTENDS Integers, FiniteSets

CONSTANTS
  Requests,    (* requests that may be in flight at the same time          *)
  Sweepers,    (* sweeps that may be in flight at the same time            *)
  Grace,       (* SWEEP_GRACE_SECONDS, in ticks                            *)
  SessionTTL,  (* SESSION_TTL_SECONDS, in ticks                            *)
  OwnedTTL,    (* OWNED_SESSION_TTL_SECONDS, in ticks                      *)
  MaxRequests, (* bound: how many requests are ever made                   *)
  MaxFaults    (* bound: how often the process or a sweep fails            *)

ASSUME TimeAssumption ==
  /\ Grace \in Nat /\ SessionTTL \in Nat /\ OwnedTTL \in Nat
  /\ 0 < Grace /\ Grace < SessionTTL /\ SessionTTL < OwnedTTL
ASSUME ActorAssumption == Requests \intersect Sweepers = {}
ASSUME BoundAssumption == MaxRequests \in Nat /\ MaxFaults \in Nat

VARIABLES
  marker,      (* what is left of the TTL of session:{uuid}; 0: absent     *)
  row,         (* whether the datasets table has the owner of the session  *)
  dir,         (* age of uploads/{uuid}/, up to Grace; NoDir: none         *)
  tables,      (* the session's tables in DuckDB                           *)
  schema,      (* whether there is a schema:{uuid}                         *)
  pc,          (* where each request and each sweep is                     *)
  seen,        (* the catalog each of them has read                        *)
  quiet,       (* history variable: ticks since the owner was admitted     *)
  waived,      (* history variable: the owner has stayed away for          *)
               (* SessionTTL, or has asked for the session to be deleted,  *)
               (* and has not come back to intact data since               *)
  torn,        (* history variable: a deletion has taken the marker, and   *)
               (* nobody was admitted since                                *)
  lost,        (* history variable: a request of the owner has dropped the *)
               (* first table for good: it deleted the table, or failed    *)
               (* between dropping and replacing it                        *)
  deletion,    (* history variable: "none"; "alone" or "disturbed" while   *)
               (* or since the session is deleted; "done": nobody else     *)
               (* was admitted meanwhile                                   *)
  requests,    (* history variable: requests made                          *)
  faults       (* history variable: faults so far                          *)

vars == <<marker, row, dir, tables, schema, pc, seen, quiet, waived, torn,
          lost, deletion, requests, faults>>
session == <<row, dir, tables, schema>>
marks == <<torn, lost>>
history == <<quiet, waived, torn, lost, deletion, requests, faults>>

-----------------------------------------------------------------------------

NoDir == -1
Actors == Requests \union Sweepers

(* The table the session was created with, one that came later, and a      *)
(* snapshot table of the transforms.                                       *)
Tables == {"base", "later", "backup"}

(* The names that start with t_{uuid}_ or backup_{uuid}_; a snapshot is    *)
(* called backup_t_{uuid}_..., which starts with neither.                  *)
Victims(catalog) == catalog \ {"backup"}

CreateSteps == {"create_load", "create_register"}
TransformSteps == {"take", "swap"}
BodySteps == {"body", "load", "derive", "register", "unlist", "relist"}
             \union TransformSteps
DeleteSteps == {"catalog", "drop", "rmtree", "forget"}
RequestSteps == {"idle", "admit", "checked"} \union CreateSteps
                \union BodySteps \union DeleteSteps
SweepSteps == {"idle", "judge", "drop", "purge"}

TypeOK ==
  /\ marker \in 0 .. OwnedTTL
  /\ row \in BOOLEAN
  /\ dir \in {NoDir} \union 0 .. Grace
  /\ tables \subseteq Tables
  /\ schema \in BOOLEAN
  /\ pc \in [Actors -> RequestSteps \union SweepSteps]
  /\ seen \in [Actors -> SUBSET Tables]
  /\ quiet \in 0 .. OwnedTTL
  /\ waived \in BOOLEAN
  /\ torn \in BOOLEAN
  /\ lost \in BOOLEAN
  /\ deletion \in {"none", "alone", "disturbed", "done"}
  /\ requests \in Nat
  /\ faults \in Nat

(* The server has just started; the session does not exist.                *)
Init ==
  /\ marker = 0
  /\ row = FALSE
  /\ dir = NoDir
  /\ tables = {}
  /\ schema = FALSE
  /\ pc = [a \in Actors |-> "idle"]
  /\ seen = [a \in Actors |-> {}]
  /\ quiet = 0
  /\ waived = FALSE
  /\ torn = FALSE
  /\ lost = FALSE
  /\ deletion = "none"
  /\ requests = 0
  /\ faults = 0

Step(a, from, to) ==
  /\ pc[a] = from
  /\ pc' = [pc EXCEPT ![a] = to]

NewRequest ==
  /\ requests < MaxRequests
  /\ requests' = requests + 1

(* The uuid is known to clients once the session has been created; they    *)
(* may still use it when it has been deleted.                              *)
Known == row \/ deletion # "none"

(* No segment of the event loop is cut in two at the moment.               *)
LoopFree == \A a \in Actors : pc[a] \notin {"rmtree", "purge"}

-----------------------------------------------------------------------------
(* Time.                                                                   *)

Tick ==
  /\ marker' = IF marker = 0 THEN 0 ELSE marker - 1
  /\ dir' = IF dir \in {NoDir, Grace} THEN dir ELSE dir + 1
  /\ quiet' = IF quiet = OwnedTTL THEN quiet ELSE quiet + 1
  /\ waived' = (waived \/ (requests > 0 /\ quiet + 1 >= SessionTTL))
  /\ UNCHANGED <<row, tables, schema, pc, seen, marks, deletion, requests,
                 faults>>

-----------------------------------------------------------------------------
(* The marker.                                                             *)

(* touch_session with the TTL of owned sessions: SET with EXPIRE.          *)
Touch ==
  /\ marker' = OwnedTTL
  /\ quiet' = 0
  /\ torn' = FALSE

(* refresh_session: EXPIRE, which does nothing to a key that is absent.    *)
(* (Variants: SET with EXPIRE; the TTL is added to what is left.)          *)
RefreshSets == marker' = SessionTTL

RefreshExtends == marker' = IF marker = 0 THEN 0 ELSE marker + SessionTTL

Refresh == marker' = IF marker = 0 THEN 0 ELSE SessionTTL

(* The middleware sees any request that names the session, also one that   *)
(* is then refused because its token is missing, expired or another's.     *)
RefusedRequest ==
  /\ Known
  /\ NewRequest
  /\ Refresh
  /\ UNCHANGED <<session, pc, seen, quiet, waived, marks, deletion, faults>>

(* A request of the owner passes the middleware...                         *)
OwnerRequest(r) ==
  /\ Known
  /\ NewRequest
  /\ Step(r, "idle", "admit")
  /\ Refresh
  /\ UNCHANGED <<session, seen, quiet, waived, marks, deletion, faults>>

(* ... then, on a thread, the guard looks for the row...                   *)
Disturb == deletion' = IF deletion = "alone" THEN "disturbed" ELSE deletion

CheckOwner(r) ==
  /\ row
  /\ Step(r, "admit", "checked")
  /\ Disturb
  /\ UNCHANGED <<marker, session, seen, quiet, waived, marks, requests,
                 faults>>

NotFound(r) ==
  /\ ~row
  /\ Step(r, "admit", "idle")
  /\ UNCHANGED <<marker, session, seen, history>>

(* ... and sets the marker, whether or not there is one.  An owner who     *)
(* comes back to intact data that nobody is taking apart may count on it   *)
(* again.                                                                  *)
Replacing == \E r \in Requests : pc[r] = "swap"

Intact ==
  /\ dir # NoDir
  /\ schema
  /\ "base" \in tables \/ Replacing \/ lost

TakenApart ==
  \/ \E r \in Requests : pc[r] \in DeleteSteps
  \/ \E s \in Sweepers : pc[s] \in {"drop", "purge"}

Admit(r) ==
  /\ Step(r, "checked", "body")
  /\ Touch
  /\ waived' = (waived /\ ~(Intact /\ ~TakenApart))
  /\ UNCHANGED <<session, seen, lost, deletion, requests, faults>>

-----------------------------------------------------------------------------
(* POST /sessions.  The marker and the directory are made in one segment   *)
(* of the handler, the row only when the table is registered.              *)

(* (Variant: the marker is not made before the directory.)                 *)
CreateUnmarked(r) ==
  /\ NewRequest
  /\ requests = 0
  /\ Step(r, "idle", "create_load")
  /\ quiet' = 0
  /\ dir' = 0
  /\ UNCHANGED <<marker, row, tables, schema, seen, waived, marks, deletion,
                 faults>>

CreateSession(r) ==
  /\ NewRequest
  /\ requests = 0
  /\ Step(r, "idle", "create_load")
  /\ Touch
  /\ dir' = 0
  /\ UNCHANGED <<row, tables, schema, seen, waived, lost, deletion, faults>>

CreateTable(r) ==
  /\ Step(r, "create_load", "create_register")
  /\ tables' = tables \union {"base"}
  /\ UNCHANGED <<marker, row, dir, schema, seen, history>>

RecordDataset(r) ==
  /\ Step(r, "create_register", "idle")
  /\ schema' = TRUE
  /\ row' = TRUE
  /\ UNCHANGED <<marker, dir, tables, seen, history>>

-----------------------------------------------------------------------------
(* Requests that passed the guard.                                         *)

(* A query, or a handler that fails its own checks.                        *)
Read(r) ==
  /\ Step(r, "body", "idle")
  /\ UNCHANGED <<marker, session, seen, history>>

(* GET /schema rebuilds a schema that is missing, or lists nothing (what   *)
(* it lists is modelled in SchemaCache), from the tables it finds.         *)
Rebuild(r) ==
  /\ tables \intersect {"base", "later"} # {}
  /\ Step(r, "body", "register")
  /\ UNCHANGED <<marker, session, seen, history>>

(* POST /tables.  The marker is set again, the directory made if it is     *)
(* missing; writing over a file of the same name does not make it younger. *)
Upload(r) ==
  /\ Step(r, "body", "load")
  /\ Touch
  /\ dir' \in {0, IF dir = NoDir THEN 0 ELSE dir}
  /\ UNCHANGED <<row, tables, schema, seen, waived, lost, deletion, requests,
                 faults>>

(* CREATE TABLE from the file; it may have been opened before the          *)
(* directory was removed.                                                  *)
LoadTable(r) ==
  /\ Step(r, "load", "register")
  /\ tables' = tables \union {"later"}
  /\ UNCHANGED <<marker, row, dir, schema, seen, history>>

(* POST /materialize sets the marker but makes no directory.               *)
Materialize(r) ==
  /\ Step(r, "body", "derive")
  /\ Touch
  /\ UNCHANGED <<session, seen, waived, lost, deletion, requests, faults>>

DeriveTable(r) ==
  /\ "base" \in tables
  /\ Step(r, "derive", "register")
  /\ tables' = tables \union {"later"}
  /\ UNCHANGED <<marker, row, dir, schema, seen, history>>

(* POST /transform, /undo, /redo and /goto of the first table, one at a    *)
(* time (see Transform for the states between which they move it).  Each   *)
(* drops the table and then puts another in its place; before that, the    *)
(* first transform makes a snapshot.                                       *)
Locked == \E r \in Requests : pc[r] \in TransformSteps

TakeSnapshot(r) ==
  /\ ~Locked
  /\ "base" \in tables
  /\ Step(r, "body", "take")
  /\ tables' = tables \union {"backup"}
  /\ UNCHANGED <<marker, row, dir, schema, seen, history>>

(* DROP TABLE in _materialize, DROP TABLE IF EXISTS in _restore, which     *)
(* finds a snapshot when there has been a transform.                       *)
TakeTable(r) ==
  /\ \/ Step(r, "take", "swap") /\ "base" \in tables
     \/ Step(r, "body", "swap") /\ "backup" \in tables /\ ~Locked
  /\ tables' = tables \ {"base"}
  /\ UNCHANGED <<marker, row, dir, schema, seen, history>>

(* RENAME in _materialize, CREATE from the snapshot in _restore.           *)
PutTable(r) ==
  /\ Step(r, "swap", "register")
  /\ tables' = tables \union {"base"}
  /\ lost' = FALSE
  /\ UNCHANGED <<marker, row, dir, schema, seen, quiet, waived, torn, deletion,
                 requests, faults>>

(* DELETE /tables/{name} reads the schema, drops one of the two tables and *)
(* writes the schema back without it, also when it has been purged since.  *)
StartUnlist(r) ==
  /\ schema
  /\ Step(r, "body", "unlist")
  /\ UNCHANGED <<marker, session, seen, history>>

DropTable(r, t) ==
  /\ Step(r, "unlist", "relist")
  /\ tables' = tables \ {t}
  /\ lost' = (lost \/ t = "base")
  /\ UNCHANGED <<marker, row, dir, schema, seen, quiet, waived, torn, deletion,
                 requests, faults>>

WriteSchemaBack(r) ==
  /\ Step(r, "relist", "idle")
  /\ schema' = TRUE
  /\ UNCHANGED <<marker, row, dir, tables, seen, history>>

(* refresh_table_schema_cache, after its last await.                       *)
Register(r) ==
  /\ Step(r, "register", "idle")
  /\ schema' = TRUE
  /\ UNCHANGED <<marker, row, dir, tables, seen, history>>

(* A statement of a request fails: the table or the snapshot is gone, the  *)
(* file unreadable, the upload too large, a store unavailable.  Nothing is *)
(* undone.                                                                 *)
Fail(r) ==
  /\ pc[r] \in CreateSteps \union (BodySteps \ {"body"})
              \union (DeleteSteps \ {"rmtree"})
  /\ pc' = [pc EXCEPT ![r] = "idle"]
  /\ seen' = [seen EXCEPT ![r] = {}]
  /\ lost' = (lost \/ pc[r] = "swap")
  /\ UNCHANGED <<marker, session, quiet, waived, torn, deletion, requests,
                 faults>>

-----------------------------------------------------------------------------
(* DELETE /sessions/{uuid} and the sweep share the way they take a session *)
(* apart: read the catalog, drop one victim after the other, then remove   *)
(* the keys and the directory, the sweep the directory first.              *)

StartDelete(r) ==
  /\ Step(r, "body", "catalog")
  /\ waived' = TRUE
  /\ LET alone == \A o \in Requests \ {r} : pc[o] \in {"idle", "admit"}
     IN  deletion' = IF alone THEN "alone" ELSE "disturbed"
  /\ UNCHANGED <<marker, session, seen, quiet, marks, requests, faults>>

ReadCatalog(a, from, to) ==
  /\ Step(a, from, to)
  /\ seen' = [seen EXCEPT ![a] = tables]
  /\ UNCHANGED <<marker, session, history>>

DropVictim(a) ==
  /\ pc[a] = "drop"
  /\ \E t \in Victims(seen[a]) :
       /\ tables' = tables \ {t}
       /\ seen' = [seen EXCEPT ![a] = @ \ {t}]
  /\ UNCHANGED <<marker, row, dir, schema, pc, history>>

(* purge_session; here its keys are schema:{uuid} and the marker.          *)
PurgeSession ==
  /\ schema' = FALSE
  /\ marker' = 0

(* rmtree.  (Variant: the directory is forgotten.)                         *)
DirectoryForgotten == UNCHANGED dir

RemoveDirectory == dir' = NoDir

PurgeDeleted(r) ==
  /\ Victims(seen[r]) = {}
  /\ Step(r, "drop", "rmtree")
  /\ seen' = [seen EXCEPT ![r] = {}]
  /\ PurgeSession
  /\ torn' = TRUE
  /\ UNCHANGED <<row, dir, tables, quiet, waived, lost, deletion, requests,
                 faults>>

RemoveDeleted(r) ==
  /\ Step(r, "rmtree", "forget")
  /\ RemoveDirectory
  /\ UNCHANGED <<marker, row, tables, schema, seen, history>>

DeleteDataset(r) ==
  /\ Step(r, "forget", "idle")
  /\ row' = FALSE
  /\ deletion' = IF deletion = "alone" THEN "done" ELSE deletion
  /\ UNCHANGED <<marker, dir, tables, schema, seen, quiet, waived, marks,
                 requests, faults>>

-----------------------------------------------------------------------------
(* sweep.                                                                  *)

(* It looks at each directory when it comes to it...                       *)
(* (Variant: the marker is not looked at.)                                 *)
CondemnByAge(s) ==
  /\ dir = Grace
  /\ Step(s, "judge", "drop")
  /\ UNCHANGED <<marker, session, seen, history>>

Condemn(s) ==
  /\ dir = Grace
  /\ marker = 0
  /\ Step(s, "judge", "drop")
  /\ UNCHANGED <<marker, session, seen, history>>

(* ... and leaves it alone when it is young or the session alive.          *)
Spare(s) ==
  /\ dir # Grace \/ marker > 0
  /\ Step(s, "judge", "idle")
  /\ seen' = [seen EXCEPT ![s] = {}]
  /\ UNCHANGED <<marker, session, history>>

(* The marker is not looked at again.                                      *)
RemoveDead(s) ==
  /\ Victims(seen[s]) = {}
  /\ Step(s, "drop", "purge")
  /\ seen' = [seen EXCEPT ![s] = {}]
  /\ RemoveDirectory
  /\ UNCHANGED <<marker, row, tables, schema, history>>

PurgeDead(s) ==
  /\ Step(s, "purge", "idle")
  /\ PurgeSession
  /\ UNCHANGED <<row, dir, tables, seen, history>>

(* A fault: a statement of the sweep fails; the loop tries again later.    *)
SweepError(s) ==
  /\ faults < MaxFaults
  /\ faults' = faults + 1
  /\ pc[s] # "idle"
  /\ pc' = [pc EXCEPT ![s] = "idle"]
  /\ seen' = [seen EXCEPT ![s] = {}]
  /\ UNCHANGED <<marker, session, quiet, waived, marks, deletion, requests>>

(* A fault: the process dies and is started again; all stores survive.     *)
Crash ==
  /\ faults < MaxFaults
  /\ faults' = faults + 1
  /\ pc' = [a \in Actors |-> "idle"]
  /\ seen' = [a \in Actors |-> {}]
  /\ lost' = (lost \/ Replacing)
  /\ UNCHANGED <<marker, session, quiet, waived, torn, deletion, requests>>

-----------------------------------------------------------------------------

(* Steps of a request that the event loop takes, and steps it leaves to a  *)
(* thread, as it does with the guard and the statements of DuckDB.         *)
Resume(r) ==
  \/ RecordDataset(r)
  \/ Read(r) \/ Rebuild(r) \/ Upload(r) \/ Materialize(r)
  \/ StartUnlist(r) \/ WriteSchemaBack(r)
  \/ Register(r) \/ Fail(r)
  \/ StartDelete(r) \/ PurgeDeleted(r) \/ DeleteDataset(r)

OnThread(r) ==
  \/ CheckOwner(r) \/ NotFound(r) \/ Admit(r)
  \/ CreateTable(r) \/ LoadTable(r) \/ DeriveTable(r)
  \/ TakeSnapshot(r) \/ TakeTable(r) \/ PutTable(r)
  \/ \E t \in {"base", "later"} : DropTable(r, t)
  \/ ReadCatalog(r, "catalog", "drop") \/ DropVictim(r)

Serve(r) ==
  \/ LoopFree /\ Resume(r)
  \/ RemoveDeleted(r)
  \/ OnThread(r)

Sweep(s) ==
  \/ LoopFree /\ (Condemn(s) \/ Spare(s) \/ RemoveDead(s))
  \/ PurgeDead(s)
  \/ ReadCatalog(s, "idle", "judge") \/ DropVictim(s)

Arrive ==
  \/ RefusedRequest
  \/ \E r \in Requests : CreateSession(r) \/ OwnerRequest(r)

Next ==
  \/ Tick
  \/ LoopFree /\ Arrive
  \/ \E r \in Requests : Serve(r)
  \/ \E s \in Sweepers : Sweep(s) \/ SweepError(s)
  \/ Crash

(* Time passes, handlers that can go on do, and the sweep loop never ends. *)
Fairness ==
  /\ WF_vars(Tick)
  /\ \A r \in Requests : WF_vars(Serve(r))
  /\ \A s \in Sweepers : WF_vars(Sweep(s))

Spec == Init /\ [][Next]_vars

FairSpec == Spec /\ Fairness

-----------------------------------------------------------------------------
(* Properties.                                                             *)

(* The sweep takes a directory without a marker for a dead session, and it *)
(* is right: whatever refused requests, other sweeps, failures and crashes *)
(* did to the marker, also during the creation, the owner has then stayed  *)
(* away for at least SessionTTL, or has asked for the deletion, which was  *)
(* cut after it had taken the marker, and has not been admitted since.     *)
OnlyIdleIsCondemned ==
  dir # NoDir /\ marker = 0 => quiet >= SessionTTL \/ torn

(* The data of a registered session stays until its owner stays away for   *)
(* SessionTTL or deletes the session, and again once the owner has come    *)
(* back to it before a sweep condemned it: no sweep, failure, crash or     *)
(* deletion cut short takes the directory, the schema or the first table.  *)
(* Only requests of the owner take the table: between the DROP of a        *)
(* transform and the statement after it, for good when the request fails   *)
(* or the process dies just there, or when the owner deletes the table.    *)
DataKept ==
  row /\ ~waived => Intact

(* A deletion during which no other request was admitted is final: no      *)
(* request or sweep that is still in flight brings anything back.          *)
DeletedIsGone ==
  deletion = "done" =>
    /\ ~row /\ marker = 0 /\ dir = NoDir
    /\ Victims(tables) = {} /\ ~schema

(* Every directory is reclaimed some time after the last request.          *)
Reclaimed ==
  <>[](dir = NoDir)

(* config.py: a logged-in user's dataset survives OWNED_SESSION_TTL_DAYS   *)
(* of inactivity before the sweeper may reclaim it.                        *)
OwnedSurvives ==
  dir = Grace /\ marker = 0 => quiet >= OwnedTTL

(* sweep: a live marker means the session is still in use -- skip.         *)
AliveIsSpared ==
  [][\A s \in Sweepers : RemoveDead(s) => marker = 0]_vars

=============================================================================
