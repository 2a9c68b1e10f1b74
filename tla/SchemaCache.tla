------------------------------ MODULE SchemaCache ------------------------------
(***************************************************************************)
(* The tables of one session and what Redis says of them: the upload,      *)
(* materialize, delete, primary, schema, relationship and transform routes *)
(* of routers/session.py, run by several requests at the same time.        *)
(*                                                                         *)
(* DuckDB's catalog holds the tables; schema:{s} lists them with their     *)
(* is_primary flag and is the only way a route finds a table.  Handlers    *)
(* are coroutines: what lies between two awaited statements is one step.   *)
(* The two relationship routes are the exception: they run on threads, and *)
(* every access of theirs to Redis is a step of its own.                   *)
(*                                                                         *)
(* Of what a table holds only the upload is kept that it goes back to.  A  *)
(* transform, undo, redo or goto takes the table out of the catalog and    *)
(* puts another under its name; which of the snapshots that is, is left to *)
(* module Transform, the files and the session's end to SessionLifecycle.  *)
(***************************************************************************)
EXTENDS Naturals, FiniteSets

CONSTANTS
  Tables,      (* table names of the session                               *)
  First,       (* the table the session was created with: primary_table    *)
  Requests,    (* requests that may be under way at the same time          *)
  Links,       (* the pairs of tables that clients relate                  *)
  MaxUploads   (* bound: tables created after the first                    *)

ASSUME FirstAssumption == First \in Tables
ASSUME LinkAssumption == Links \subseteq Tables \X Tables
ASSUME UploadAssumption == MaxUploads \in Nat

VARIABLES
  catalog,  (* table |-> the upload it goes back to; 0: no table           *)
  schema,   (* schema:{s}: table |-> its flag, or "none"                   *)
  rels,     (* relationships:{s}: <<from_table, to_table>>                 *)
  saved,    (* history:{s}:{t}: the uploads its snapshots go back to       *)
  request,  (* the requests                                                *)
  uploads,  (* history variable: uploads so far                            *)
  answered, (* history variable: table |-> the upload that was answered    *)
            (* with 200, when its table was there, and not deleted since;  *)
            (* 0: none                                                     *)
  lost,     (* history variable: the tables that a transform which was cut *)
            (* short has taken, or replaced by an earlier upload, or that  *)
            (* a deletion which was cut short has dropped but not unlisted *)
  chosen,   (* history variable: the table that was last made the primary  *)
            (* one, as long as it is not deleted                           *)
  mixed     (* history variable: requests that do not go together have     *)
            (* overlapped, one has failed half way, or an upload has taken *)
            (* the name of a lost table, and the cache has not been        *)
            (* rebuilt since                                               *)

tables == <<catalog, schema, rels, saved>>
marks == <<uploads, answered, lost, chosen, mixed>>
vars == <<tables, request, marks>>

-----------------------------------------------------------------------------

NoTable == "none"

ASSUME NameAssumption == NoTable \notin Tables

Idle == [at |-> "idle"]
Flags == {"none", "plain", "primary"}
Uploads == 0 .. MaxUploads + 1

Transforms == {"apply", "restore"}    (* restore: undo, redo and goto        *)

(* A request that ends in refresh_table_schema_cache.  An upload waits for *)
(* its CREATE, a transform for the lock, for its copy of the table, for    *)
(* the DROP, for the table's return and for the rest; then each waits for  *)
(* the statements of the refresh, and writes.                              *)
(* held: the upload it creates, or that the copy goes back to.             *)
(* todo: the tables a rebuild has yet to refresh.                          *)
Refreshing ==
  [at : {"create", "change", "take", "swap", "done", "read", "write"},
   kind : {"upload", "rebuild"} \union Transforms, table : Tables,
   flag : {"plain", "primary"}, held : Uploads, todo : SUBSET Tables]
Deleting == [at : {"drop", "unlist"}, table : Tables, seen : [Tables -> Flags]]
Relating == [at : {"rels"}, add : BOOLEAN, pair : Links]
Saving == [at : {"save"}, seen : SUBSET Links]

TypeOK ==
  /\ catalog \in [Tables -> Uploads]
  /\ schema \in [Tables -> Flags]
  /\ rels \subseteq Links
  /\ saved \in [Tables -> SUBSET Uploads]
  /\ request \in [Requests ->
       {Idle} \union Refreshing \union Deleting \union Relating \union Saving]
  /\ uploads \in Uploads
  /\ answered \in [Tables -> Uploads]
  /\ lost \subseteq Tables
  /\ chosen \in Tables \union {NoTable}
  /\ mixed \in BOOLEAN

Init ==
  /\ catalog = [t \in Tables |-> IF t = First THEN 1 ELSE 0]
  /\ schema = [t \in Tables |-> IF t = First THEN "primary" ELSE "none"]
  /\ rels = {}
  /\ saved = [t \in Tables |-> {}]
  /\ request = [r \in Requests |-> Idle]
  /\ uploads = 1
  /\ answered = catalog
  /\ lost = {}
  /\ chosen = First
  /\ mixed = FALSE

Listed == {t \in Tables : schema[t] # "none"}
Present == {t \in Tables : catalog[t] # 0}
Busy(S) == {r \in Requests : request[r].at \in S}
RefreshOf(kinds) ==
  {r \in Busy({"create", "change", "take", "swap", "done", "read", "write"}) :
     request[r].kind \in kinds}
Deletions == Busy({"drop", "unlist"})

(* The tables that are lost when the requests of S end here.               *)
Cut(S) == {t \in {request[r].table : r \in S \intersect Busy({"swap", "unlist"})} :
             t \notin Present \/ catalog[t] # answered[t]}

Step(r, next) == request' = [request EXCEPT ![r] = next]

-----------------------------------------------------------------------------
(* upload_table and materialize_query.                                     *)

(* 409 if the table is listed.                                             *)
Upload(r, t) ==
  /\ request[r] = Idle
  /\ t \notin Listed
  /\ Step(r, [at |-> "create", kind |-> "upload", table |-> t,
              flag |-> "plain", held |-> 0, todo |-> {}])
  /\ mixed' = (mixed \/ Deletions # {} \/ RefreshOf({"rebuild"}) # {})
  /\ UNCHANGED <<tables, uploads, answered, lost, chosen>>

CreateAs(r) ==
  /\ request[r].at = "create"
  /\ uploads \in 1 .. MaxUploads
  /\ uploads' = uploads + 1
  /\ catalog' = [catalog EXCEPT ![request[r].table] = uploads + 1]
  /\ Step(r, [request[r] EXCEPT !.at = "read", !.held = uploads + 1])
  /\ UNCHANGED <<schema, rels, saved, answered, lost, chosen, mixed>>

(* (Variant: CREATE OR REPLACE TABLE.)                                     *)
CreateOrReplace(r) == CreateAs(r)

(* CREATE TABLE ... AS SELECT, which fails if the table exists.            *)
Create(r) == CreateAs(r) /\ request[r].table \notin Present

(* CREATE fails: the table exists, or the file or query cannot be read.    *)
CreateError(r) ==
  /\ request[r].at = "create"
  /\ Step(r, Idle)
  /\ UNCHANGED <<tables, marks>>

-----------------------------------------------------------------------------
(* The transform routes.  apply_transform, undo, redo and goto_step hold   *)
(* the table's lock from their first statement to the save of the history. *)

Transform(r, t, kind) ==
  /\ request[r] = Idle
  /\ t \in Listed
  /\ Step(r, [at |-> "change", kind |-> kind, table |-> t,
              flag |-> "plain", held |-> 0, todo |-> {}])
  /\ mixed' = (mixed \/ RefreshOf({"rebuild"}) # {}
                     \/ \E d \in Deletions : request[d].table = t)
  /\ UNCHANGED <<tables, uploads, answered, lost, chosen>>

Locked(t) == \E r \in Busy({"take", "swap", "done"}) : request[r].table = t

(* The lock is free.  apply copies the table, to its first snapshot and    *)
(* to __tmp; the others look up a snapshot in the history.                 *)
Prepare(r) ==
  LET q == request[r]
  IN /\ q.at = "change"
     /\ ~ Locked(q.table)
     /\ \E u \in IF q.kind = "apply" THEN {catalog[q.table]} \ {0}
                 ELSE saved[q.table] :
          Step(r, [q EXCEPT !.at = "take", !.held = u])
     /\ UNCHANGED <<tables, marks>>

(* DROP TABLE, or DROP TABLE IF EXISTS for undo, redo and goto.            *)
TakeTable(r) ==
  LET q == request[r]
  IN /\ q.at = "take"
     /\ q.kind = "apply" => q.table \in Present
     /\ catalog' = [catalog EXCEPT ![q.table] = 0]
     /\ Step(r, [q EXCEPT !.at = "swap"])
     /\ UNCHANGED <<schema, rels, saved, marks>>

(* ALTER TABLE __tmp RENAME, or CREATE TABLE from the snapshot.            *)
PutTable(r) ==
  LET q == request[r]
      t == q.table
  IN /\ q.at = "swap"
     /\ t \notin Present
     /\ catalog' = [catalog EXCEPT ![t] = q.held]
     /\ lost' = IF q.held = answered[t] THEN lost \ {t} ELSE lost \union {t}
     /\ Step(r, [q EXCEPT !.at = "done"])
     /\ UNCHANGED <<schema, rels, saved, uploads, answered, chosen, mixed>>

(* The history with the new snapshot is saved and the rows are counted;    *)
(* then the route reads the flag that it will write back.                  *)
ChangedAs(r, flag) ==
  LET q == request[r]
      t == q.table
  IN /\ q.at = "done"
     /\ t \in Present
     /\ saved' = IF q.kind = "restore" THEN saved
                 ELSE [saved EXCEPT ![t] = IF @ = {} THEN {q.held, catalog[t]}
                                           ELSE @ \union {catalog[t]}]
     /\ Step(r, [q EXCEPT !.at = "read", !.flag = flag, !.held = 0])
     /\ UNCHANGED <<catalog, schema, rels, marks>>

(* (Variant: the flag is not looked up.)                                   *)
ChangedPlain(r) == ChangedAs(r, "plain")

(* (Variant: no default for a table without an entry.)                     *)
ChangedNoDefault(r) == ChangedAs(r, schema[request[r].table])

Changed(r) ==
  ChangedAs(r, IF schema[request[r].table] = "primary" THEN "primary"
               ELSE "plain")

(* A TransformError or a failed statement.  Between the DROP and the       *)
(* table's return it loses the table: there is no snapshot, the disk is    *)
(* full, an upload that was waiting has taken the name.                    *)
TransformError(r) ==
  /\ request[r].at \in {"change", "take", "swap", "done"}
  /\ Step(r, Idle)
  /\ lost' = lost \union Cut({r})
  /\ UNCHANGED <<tables, uploads, answered, chosen, mixed>>

-----------------------------------------------------------------------------
(* refresh_table_schema_cache.                                             *)

(* The awaited statements need the table.                                  *)
RefreshRead(r) ==
  /\ request[r].at = "read"
  /\ request[r].table \in Present
  /\ Step(r, [request[r] EXCEPT !.at = "write"])
  /\ UNCHANGED <<tables, marks>>

(* One of them fails, or Redis does.  After CREATE this leaves a table     *)
(* that no route finds and whose name no upload can take again.            *)
RefreshError(r) ==
  /\ request[r].at \in {"read", "write"}
  /\ Step(r, Idle)
  /\ mixed' = (mixed \/ request[r].kind \in {"upload", "rebuild"})
  /\ UNCHANGED <<tables, uploads, answered, lost, chosen>>

(* The entry is read, changed and written in one step.  A rebuild goes on  *)
(* to the next table.                                                      *)
RefreshWrite(r) ==
  LET q == request[r]
      t == q.table
  IN /\ q.at = "write"
     /\ schema' = [schema EXCEPT ![t] = q.flag]
     /\ IF q.kind = "upload"
        THEN /\ answered' = [answered EXCEPT
                               ![t] = IF catalog[t] = q.held THEN q.held ELSE 0]
             /\ lost' = IF catalog[t] = q.held THEN lost \ {t} ELSE lost
             /\ mixed' = (mixed \/ t \in Listed)
        ELSE UNCHANGED <<answered, lost, mixed>>
     /\ IF q.todo = {} THEN Step(r, Idle)
        ELSE \E u \in q.todo :
               Step(r, [q EXCEPT !.at = "read", !.table = u, !.todo = @ \ {u},
                          !.flag = IF u = First THEN "primary" ELSE "plain"])
     /\ UNCHANGED <<catalog, rels, saved, uploads, chosen>>

(* get_schema on an empty cache: the tables in the catalog are read, then  *)
(* refreshed one after the other.  With no table it answers 404.           *)
Rebuild(r) ==
  /\ request[r] = Idle
  /\ Listed = {}
  /\ \E t \in Present :
       Step(r, [at |-> "read", kind |-> "rebuild", table |-> t,
                flag |-> IF t = First THEN "primary" ELSE "plain",
                held |-> 0, todo |-> Present \ {t}])
  /\ mixed' = (rels # {} \/ \E o \in Requests : request[o] # Idle)
  /\ chosen' = IF First \in Present THEN First ELSE NoTable
  /\ UNCHANGED <<tables, uploads, answered, lost>>

-----------------------------------------------------------------------------

(* (Variant: the relationships of a deleted table stay.)                   *)
KeepAll(t) == rels

WithoutTable(t) == {p \in rels : p[1] # t /\ p[2] # t}

(* delete_table up to the DROP: the schema is read, the relationships of   *)
(* the table are deleted.                                                  *)
Delete(r, t) ==
  /\ request[r] = Idle
  /\ t \in Listed
  /\ rels' = WithoutTable(t)
  /\ Step(r, [at |-> "drop", table |-> t, seen |-> schema])
  /\ answered' = [answered EXCEPT ![t] = 0]
  /\ mixed' = (mixed \/ Deletions # {} \/ Busy({"rels", "save"}) # {}
                     \/ RefreshOf({"upload", "rebuild"}) # {}
                     \/ \E o \in RefreshOf(Transforms) : request[o].table = t)
  /\ UNCHANGED <<catalog, schema, saved, uploads, lost, chosen>>

(* DROP TABLE IF EXISTS is awaited.                                        *)
Drop(r) ==
  LET t == request[r].table
  IN /\ request[r].at = "drop"
     /\ catalog' = [catalog EXCEPT ![t] = 0]
     /\ answered' = [answered EXCEPT ![t] = 0]
     /\ Step(r, [request[r] EXCEPT !.at = "unlist"])
     /\ UNCHANGED <<schema, rels, saved, uploads, lost, chosen, mixed>>

(* The schema as it was read, without the table, is written back.          *)
Unlist(r) ==
  LET t == request[r].table
  IN /\ request[r].at = "unlist"
     /\ schema' = [request[r].seen EXCEPT ![t] = "none"]
     /\ chosen' = IF chosen = t THEN NoTable ELSE chosen
     /\ Step(r, Idle)
     /\ UNCHANGED <<catalog, rels, saved, uploads, answered, lost, mixed>>

(* The DROP fails: 500; the table stays, its relationships are gone.  Or   *)
(* Redis fails: the table is gone and stays listed.                        *)
DeleteError(r) ==
  /\ request[r].at \in {"drop", "unlist"}
  /\ Step(r, Idle)
  /\ lost' = lost \union Cut({r})
  /\ UNCHANGED <<tables, uploads, answered, chosen, mixed>>

(* make_table_primary does not wait for anything.                          *)
MakePrimary(r, t) ==
  /\ request[r] = Idle
  /\ t \in Listed
  /\ schema' = [u \in Tables |-> IF u = t THEN "primary"
                                 ELSE IF u \in Listed THEN "plain" ELSE "none"]
  /\ mixed' = (mixed \/ Deletions # {}
                     \/ RefreshOf({"rebuild"} \union Transforms) # {})
  /\ chosen' = t
  /\ UNCHANGED <<catalog, rels, saved, request, uploads, answered, lost>>

-----------------------------------------------------------------------------
(* create_relationship and delete_relationship.                            *)

Relate(r, p) ==
  /\ request[r] = Idle
  /\ p[1] \in Listed /\ p[2] \in Listed
  /\ Step(r, [at |-> "rels", add |-> TRUE, pair |-> p])
  /\ mixed' = (mixed \/ Deletions # {})
  /\ UNCHANGED <<tables, uploads, answered, lost, chosen>>

Unrelate(r, p) ==
  /\ request[r] = Idle
  /\ Step(r, [at |-> "rels", add |-> FALSE, pair |-> p])
  /\ mixed' = (mixed \/ Deletions # {})
  /\ UNCHANGED <<tables, uploads, answered, lost, chosen>>

(* The list is read and changed; 404 if there is nothing to delete.        *)
ReadRels(r) ==
  LET q == request[r]
  IN /\ q.at = "rels"
     /\ Step(r, IF q.add THEN [at |-> "save", seen |-> rels \union {q.pair}]
                ELSE IF q.pair \in rels
                THEN [at |-> "save", seen |-> rels \ {q.pair}]
                ELSE Idle)
     /\ UNCHANGED <<tables, marks>>

SaveRels(r) ==
  /\ request[r].at = "save"
  /\ rels' = request[r].seen
  /\ Step(r, Idle)
  /\ UNCHANGED <<catalog, schema, saved, marks>>

-----------------------------------------------------------------------------

AllStop == request' = [r \in Requests |-> Idle]

(* The process dies.  A table between DROP and RENAME or CREATE is lost, a *)
(* dropped one stays listed; what an upload has created, or a rebuild has  *)
(* not refreshed yet, stays unlisted.                                      *)
Crash ==
  /\ AllStop
  /\ lost' = lost \union Cut(Requests)
  /\ mixed' = (mixed \/ \E r \in Busy({"read", "write"}) :
                          request[r].kind \in {"upload", "rebuild"})
  /\ UNCHANGED <<tables, uploads, answered, chosen>>

(* The keys of the session are lost: Redis is flushed, or it was fakeredis *)
(* and the process has restarted.                                          *)
Forget ==
  /\ AllStop
  /\ schema' = [t \in Tables |-> "none"]
  /\ rels' = {}
  /\ saved' = [t \in Tables |-> {}]
  /\ answered' = [t \in Tables |-> 0]
  /\ lost' = {}
  /\ mixed' = TRUE
  /\ UNCHANGED <<catalog, uploads, chosen>>

Next ==
  \/ \E r \in Requests :
       \/ \E t \in Tables :
            \/ Upload(r, t)
            \/ \E kind \in Transforms : Transform(r, t, kind)
            \/ Delete(r, t)
            \/ MakePrimary(r, t)
       \/ \E p \in Links : Relate(r, p) \/ Unrelate(r, p)
       \/ Create(r) \/ CreateError(r)
       \/ Prepare(r) \/ TakeTable(r) \/ PutTable(r)
       \/ Changed(r) \/ TransformError(r)
       \/ RefreshRead(r) \/ RefreshError(r) \/ RefreshWrite(r)
       \/ Rebuild(r)
       \/ Drop(r) \/ Unlist(r) \/ DeleteError(r)
       \/ ReadRels(r) \/ SaveRels(r)
  \/ Crash
  \/ Forget

Spec == Init /\ [][Next]_vars

-----------------------------------------------------------------------------

(* The tables that a transform has taken and not put back yet.             *)
Taken == {request[r].table : r \in Busy({"swap"})}

(* A table for which an upload or materialize was answered with 200 goes   *)
(* back to that upload, whatever uploads of the same name, failures and    *)
(* crashes follow ("no silent clobber"), unless it was deleted.  What can  *)
(* lose it is a transform of this very table: one that is cut, or loses    *)
(* the name, between its DROP and the return of the table, or one that     *)
(* restores a snapshot of an earlier upload of the name.  And the table is *)
(* listed (or a rebuild is about to list it), unless requests that do not  *)
(* go together have overlapped.                                            *)
Acknowledged ==
  \A t \in Tables : answered[t] # 0 /\ t \notin lost =>
    /\ catalog[t] = answered[t] \/ t \in Taken
    /\ mixed \/ RefreshOf({"rebuild"}) # {} \/ t \in Listed

(* At rest, the cache lists the tables of the catalog, those that a cut    *)
(* transform or deletion has lost, and no others, and the primary table is *)
(* the one that was chosen, unless requests that do not go together have   *)
(* overlapped.  Uploads go together with uploads and transforms, whatever  *)
(* the tables, and a deletion with the transforms of other tables; a       *)
(* deletion and an upload, two deletions, or a choice of the primary table *)
(* and a transform do not.  (Of an entry only its name and its flag are    *)
(* compared; what it says of the columns may be older than the table.)     *)
ListsTheCatalog ==
  ~ mixed /\ Busy({"idle"}) = Requests =>
    /\ Present \subseteq Listed /\ Listed \subseteq Present \union lost
    /\ {t \in Tables : schema[t] = "primary"} = {chosen} \ {NoTable}

(* Relationships connect listed tables: delete_table cascades to them, and *)
(* threads that overwrite one another's list may lose one of them or bring *)
(* one back, but none whose table is gone, unless a deletion overlaps.     *)
RelationsHold ==
  ~ mixed => \A p \in rels : p[1] \in Listed /\ p[2] \in Listed

=============================================================================
