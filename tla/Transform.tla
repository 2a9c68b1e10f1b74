------------------------------ MODULE Transform ------------------------------
(***************************************************************************)
(* The data-cleaning transforms of one table of one session:               *)
(* backend/services/transform_service.py, with the handlers of             *)
(* backend/routers/session.py that change the same table.                  *)
(*                                                                         *)
(* apply, undo, redo and goto run as coroutines of one asyncio process.    *)
(* Each DuckDB statement is awaited, so between two of them any other      *)
(* request may run; an action below is what happens up to the next await   *)
(* (two statements share an action only where nothing can tell them        *)
(* apart).  A per-table lock keeps the transforms of a table apart, but    *)
(* deleting the table and uploading it again do not take it.  A statement  *)
(* may fail anywhere, which ends the request, and the process may crash:   *)
(* the DuckDB file and Redis survive, the coroutines and the lock do not.  *)
(*                                                                         *)
(* The content of a table is an opaque value.  A snapshot table is the     *)
(* record of its number and content; so is an entry of the history, where  *)
(* "of" is the content the step left behind, which only the specification  *)
(* remembers.  Entry e can be restored exactly when e is in snaps.         *)
(***************************************************************************)
EXTENDS Integers, Sequences, FiniteSets

CONSTANTS
  Clients,      (* requests that may be in flight at the same time         *)
  Contents,     (* what a table may hold                                   *)
  Cap,          (* SNAPSHOT_CAP, the number of states kept                 *)
  NoTable,      (* the table does not exist                                *)
  NoClient,     (* the lock is free                                        *)
  MaxVersion,   (* bound: the schema version a run may reach               *)
  MaxFaults,    (* bound: how often the process may crash or the store fail *)
  MaxDeletes    (* bound: how often the table may be deleted               *)

ASSUME CapAssumption == Cap \in Nat /\ Cap >= 2
ASSUME TableAssumption == NoTable \notin Contents
ASSUME ClientAssumption == NoClient \notin Clients
ASSUME BoundAssumption ==
  /\ MaxVersion \in Nat
  /\ MaxFaults \in Nat
  /\ MaxDeletes \in Nat

VARIABLES
  live,     (* the table itself                                            *)
  tmp,      (* the temporary table of the swap in _materialize             *)
  snaps,    (* the snapshot tables backup_{table}_step_{id}                *)
  hist,     (* history:{session}:{table} in Redis                          *)
  version,  (* schema_version:{session} in Redis                           *)
  listed,   (* whether schema:{session} in Redis names the table           *)
  lock,     (* the holder of the table's asyncio.Lock                      *)
  pc,       (* where each request is                                       *)
  mem,      (* the history each request has read and is changing           *)
  saves,    (* history variable: how often hist has been written           *)
  faults,   (* history variable: how often the process or the store failed *)
  deletes   (* history variable: how often the table has been deleted      *)

vars == <<live, tmp, snaps, hist, version, listed, lock, pc, mem, saves,
          faults, deletes>>
tables == <<live, tmp, snaps>>
redis == <<hist, version, listed>>
counters == <<saves, faults, deletes>>

-----------------------------------------------------------------------------
(* Types and null values.                                                  *)

Entry == [id : Nat, of : Contents]
History == [entries : Seq(Entry), current : Nat \union {-1}, next_id : Nat]
NoHistory == [entries |-> <<>>, current |-> -1, next_id |-> 0]

ApplySteps == {"snap0", "redo", "compile", "create", "drop", "rename",
               "snap", "cap"}
MoveSteps == {"restore_drop", "restore_copy", "save"}
Critical == ApplySteps \union MoveSteps \union {"bump"}
Outside == {"idle", "wait", "refresh", "list", "ingest", "drop_table",
            "unlist"}

TypeOK ==
  /\ live \in Contents \union {NoTable}
  /\ tmp \in Contents \union {NoTable}
  /\ \A s \in snaps : s \in Entry
  /\ hist \in History
  /\ version \in Nat
  /\ listed \in BOOLEAN
  /\ lock \in Clients \union {NoClient}
  /\ pc \in [Clients -> Critical \union Outside]
  /\ mem \in [Clients -> History]
  /\ saves \in Nat
  /\ faults \in Nat
  /\ deletes \in Nat

(* The table has just been uploaded and registered; it has no history.     *)
Init ==
  /\ live \in Contents
  /\ tmp = NoTable
  /\ snaps = {}
  /\ hist = NoHistory
  /\ version = 0
  /\ listed = TRUE
  /\ lock = NoClient
  /\ pc = [c \in Clients |-> "idle"]
  /\ mem = [c \in Clients |-> NoHistory]
  /\ saves = 0
  /\ faults = 0
  /\ deletes = 0

-----------------------------------------------------------------------------
(* Helpers.                                                                *)

Step(c, from, to) ==
  /\ pc[c] = from
  /\ pc' = [pc EXCEPT ![c] = to]

(* "async with _lock_for(...)": mem is the history read under the lock.    *)
(* (Variant: the lock is not waited for.)                                  *)
AcquireUnlocked(c, history) ==
  /\ lock' = c
  /\ mem' = [mem EXCEPT ![c] = history]

Acquire(c, history) ==
  /\ lock = NoClient
  /\ lock' = c
  /\ mem' = [mem EXCEPT ![c] = history]

(* The end of "async with": the lock is free, the local history is gone.   *)
Release(c) ==
  /\ lock' = NoClient
  /\ mem' = [mem EXCEPT ![c] = NoHistory]

(* An exception leaves the handler: the request is answered with an error. *)
Fail(c) ==
  /\ pc' = [pc EXCEPT ![c] = "idle"]
  /\ Release(c)

Without(id) == {s \in snaps : s.id # id}
Exists(id) == \E s \in snaps : s.id = id
Indices(h) == 1 .. Len(h.entries)
Current(h) == h.entries[h.current + 1]

(* The redo branch: entries[cur + 1:].  (Variant: entries[cur:].)          *)
DoomedFromCurrent(h) == {i \in Indices(h) : i >= h.current + 1}

Doomed(h) == {i \in Indices(h) : i > h.current + 1}

Busy == {c \in Clients : pc[c] # "idle"}

-----------------------------------------------------------------------------
(* A transform request arrives, its table is resolved against the schema   *)
(* cache, and it queues for the lock.                                      *)

Request(c) ==
  /\ listed
  /\ version + Cardinality(Busy) < MaxVersion
  /\ Step(c, "idle", "wait")
  /\ UNCHANGED <<tables, redis, lock, mem, counters>>

(* The request is refused under the lock: the table is gone, there is      *)
(* nothing to undo or redo, the goto target is invalid or already current. *)
Refuse(c) ==
  /\ lock = NoClient
  /\ Step(c, "wait", "idle")
  /\ UNCHANGED <<tables, redis, lock, mem, counters>>

Apply(c) ==
  /\ live # NoTable
  /\ Step(c, "wait", IF hist.entries = <<>> THEN "snap0" ELSE "redo")
  /\ Acquire(c, hist)
  /\ UNCHANGED <<tables, redis, counters>>

MoveTo(c, position) ==
  /\ Step(c, "wait", "restore_drop")
  /\ Acquire(c, [hist EXCEPT !.current = position])
  /\ UNCHANGED <<tables, redis, counters>>

(* (Variant: undo without "nothing to undo".)                              *)
UndoUnguarded(c) ==
  MoveTo(c, hist.current - 1)

Undo(c) ==
  /\ hist.current > 0
  /\ MoveTo(c, hist.current - 1)

Redo(c) ==
  /\ hist.current < Len(hist.entries) - 1
  /\ MoveTo(c, hist.current + 1)

Goto(c) ==
  \E target \in (0 .. Len(hist.entries) - 1) \ {hist.current} :
    MoveTo(c, target)

-----------------------------------------------------------------------------
(* apply_transform under the lock.                                         *)

(* The first transform of the table keeps its pristine state as state 0.   *)
SnapshotInitial(c) ==
  LET pristine == [id |-> 0, of |-> live] IN
  /\ live # NoTable
  /\ Step(c, "snap0", "compile")
  /\ snaps' = Without(0) \union {pristine}
  /\ mem' = [mem EXCEPT ![c] = [entries |-> <<pristine>>,
                                current |-> 0, next_id |-> 1]]
  /\ UNCHANGED <<live, tmp, redis, lock, counters>>

(* Later ones discard the redo branch, one snapshot at a time in order;    *)
(* dropping one that does not exist changes nothing.                       *)
DropRedoSnapshot(c) ==
  /\ pc[c] = "redo"
  /\ \E i \in Doomed(mem[c]) :
       /\ Exists(mem[c].entries[i].id)
       /\ \A j \in Doomed(mem[c]) : Exists(mem[c].entries[j].id) => i <= j
       /\ snaps' = Without(mem[c].entries[i].id)
  /\ UNCHANGED <<live, tmp, redis, lock, pc, mem, counters>>

DropRedoDone(c) ==
  /\ Step(c, "redo", "compile")
  /\ \A i \in Doomed(mem[c]) : ~Exists(mem[c].entries[i].id)
  /\ mem' = [mem EXCEPT ![c].entries = SubSeq(@, 1, mem[c].current + 1)]
  /\ UNCHANGED <<tables, redis, lock, counters>>

(* The operation is compiled to SQL and the new state gets its number.     *)
(* (Variant: the number is the length of the history.)                     *)
CompileByLength(c) ==
  /\ Step(c, "compile", "create")
  /\ mem' = [mem EXCEPT ![c].next_id = Len(mem[c].entries) + 1]
  /\ UNCHANGED <<tables, redis, lock, counters>>

Compile(c) ==
  /\ Step(c, "compile", "create")
  /\ mem' = [mem EXCEPT ![c].next_id = @ + 1]
  /\ UNCHANGED <<tables, redis, lock, counters>>

(* _compile_op raises TransformError: unknown column, bad formula or type. *)
(* (Variant: the lock is not released on that path.)                       *)
CompileErrorKeepsLock(c) ==
  /\ Step(c, "compile", "idle")
  /\ UNCHANGED <<tables, redis, lock, mem, counters>>

CompileError(c) ==
  /\ pc[c] = "compile"
  /\ Fail(c)
  /\ UNCHANGED <<tables, redis, counters>>

(* _materialize: the result is built aside, then swapped in.               *)
CreateTmp(c) ==
  /\ live # NoTable
  /\ Step(c, "create", "drop")
  /\ tmp' \in Contents
  /\ UNCHANGED <<live, snaps, redis, lock, mem, counters>>

CreateTmpError(c) ==
  /\ pc[c] = "create"
  /\ tmp' = NoTable
  /\ Fail(c)
  /\ UNCHANGED <<live, snaps, redis, counters>>

DropLive(c) ==
  /\ live # NoTable
  /\ Step(c, "drop", "rename")
  /\ live' = NoTable
  /\ UNCHANGED <<tmp, snaps, redis, lock, mem, counters>>

RenameTmp(c) ==
  /\ live = NoTable
  /\ Step(c, "rename", "snap")
  /\ live' = tmp
  /\ tmp' = NoTable
  /\ UNCHANGED <<snaps, redis, lock, mem, counters>>

Snapshot(c) ==
  LET id == mem[c].next_id - 1
      state == [id |-> id, of |-> live]
  IN
  /\ live # NoTable
  /\ Step(c, "snap", "cap")
  /\ snaps' = Without(id) \union {state}
  /\ mem' = [mem EXCEPT ![c].entries = Append(@, state),
                        ![c].current = Len(mem[c].entries)]
  /\ UNCHANGED <<live, tmp, redis, lock, counters>>

(* _snapshot drops the table it is about to create.                        *)
Replaced(c) == IF pc[c] = "snap0" THEN 0 ELSE mem[c].next_id - 1

(* Statements that find the table missing, or back, because a delete or    *)
(* an upload came between: the request fails where it stands.              *)
LostTable(c) ==
  /\ \/ /\ pc[c] \in {"snap0", "snap"}
        /\ live = NoTable
        /\ snaps' = Without(Replaced(c))
     \/ pc[c] = "drop" /\ live = NoTable /\ UNCHANGED snaps
     \/ pc[c] = "rename" /\ live # NoTable /\ UNCHANGED snaps
  /\ Fail(c)
  /\ UNCHANGED <<live, tmp, redis, counters>>

(* A fault: DuckDB or Redis fails while the request holds the lock.        *)
StatementError(c) ==
  /\ faults < MaxFaults
  /\ faults' = faults + 1
  /\ \/ pc[c] \in Critical /\ UNCHANGED snaps
     \/ pc[c] \in {"snap0", "snap"} /\ snaps' = Without(Replaced(c))
  /\ Fail(c)
  /\ UNCHANGED <<live, tmp, redis, saves, deletes>>

(* The oldest entries beyond the cap go, with their snapshots.             *)
(* (Variant: the position is not shifted.)                                 *)
EnforceCapKeepsPosition(c) ==
  /\ pc[c] = "cap"
  /\ Len(mem[c].entries) > Cap
  /\ mem' = [mem EXCEPT ![c].entries = Tail(@)]
  /\ snaps' = Without(Head(mem[c].entries).id)
  /\ UNCHANGED <<live, tmp, redis, lock, pc, counters>>

EnforceCap(c) ==
  /\ pc[c] = "cap"
  /\ Len(mem[c].entries) > Cap
  /\ mem' = [mem EXCEPT ![c].entries = Tail(@), ![c].current = @ - 1]
  /\ snaps' = Without(Head(mem[c].entries).id)
  /\ UNCHANGED <<live, tmp, redis, lock, pc, counters>>

-----------------------------------------------------------------------------
(* undo, redo and goto under the lock: _restore.                           *)

RestoreDrop(c) ==
  /\ Step(c, "restore_drop", "restore_copy")
  /\ live' = NoTable
  /\ UNCHANGED <<tmp, snaps, redis, lock, mem, counters>>

(* (Variant: the snapshot is looked up before the position moves.)         *)
RestoreCopyOfSaved(c) ==
  /\ live = NoTable
  /\ Step(c, "restore_copy", "save")
  /\ \E s \in snaps :
       /\ s.id = Current(hist).id
       /\ live' = s.of
  /\ UNCHANGED <<tmp, snaps, redis, lock, mem, counters>>

RestoreCopy(c) ==
  /\ live = NoTable
  /\ Step(c, "restore_copy", "save")
  /\ \E s \in snaps :
       /\ s.id = Current(mem[c]).id
       /\ live' = s.of
  /\ UNCHANGED <<tmp, snaps, redis, lock, mem, counters>>

(* The snapshot does not exist, or the table is back.                      *)
(* (Variant: the error is swallowed.)                                      *)
RestoreErrorSaves(c) ==
  /\ Step(c, "restore_copy", "save")
  /\ ~Exists(Current(mem[c]).id)
  /\ UNCHANGED <<tables, redis, lock, mem, counters>>

RestoreError(c) ==
  /\ pc[c] = "restore_copy"
  /\ live # NoTable \/ ~Exists(Current(mem[c]).id)
  /\ Fail(c)
  /\ UNCHANGED <<tables, redis, counters>>

-----------------------------------------------------------------------------
(* The common end: the history is written, the version is bumped, the rows *)
(* are counted, the lock is released.                                      *)

Save(c) ==
  /\ \/ Step(c, "cap", "bump") /\ Len(mem[c].entries) <= Cap
     \/ Step(c, "save", "bump")
  /\ hist' = mem[c]
  /\ saves' = saves + 1
  /\ UNCHANGED <<tables, version, listed, lock, mem, faults, deletes>>

(* (Variant: the bump is forgotten.)                                       *)
BumpForgotten(c) ==
  /\ Step(c, "bump", "refresh")
  /\ Release(c)
  /\ UNCHANGED <<tables, redis, counters>>

Bump(c) ==
  /\ Step(c, "bump", "refresh")
  /\ Release(c)
  /\ version' = version + 1
  /\ UNCHANGED <<tables, hist, listed, counters>>

(* The rows are counted, and the router reads the columns of the table     *)
(* outside the lock...                                                     *)
RefreshRead(c) ==
  /\ live # NoTable
  /\ Step(c, "refresh", "list")
  /\ UNCHANGED <<tables, redis, lock, mem, counters>>

(* ... which fails when the table has been deleted meanwhile...            *)
RefreshError(c) ==
  /\ live = NoTable
  /\ \E from \in {"refresh", "list"} : Step(c, from, "idle")
  /\ UNCHANGED <<tables, redis, lock, mem, counters>>

(* ... and writes them to the schema cache.                                *)
RefreshWrite(c) ==
  /\ Step(c, "list", "idle")
  /\ listed' = TRUE
  /\ UNCHANGED <<tables, hist, version, lock, mem, counters>>

-----------------------------------------------------------------------------
(* The other handlers that touch the table, none of which takes the lock.  *)

Delete(c) ==
  /\ listed
  /\ deletes < MaxDeletes
  /\ deletes' = deletes + 1
  /\ Step(c, "idle", "drop_table")
  /\ UNCHANGED <<tables, redis, lock, mem, saves, faults>>

DropTable(c) ==
  /\ Step(c, "drop_table", "unlist")
  /\ live' = NoTable
  /\ UNCHANGED <<tmp, snaps, redis, lock, mem, counters>>

Unlist(c) ==
  /\ Step(c, "unlist", "idle")
  /\ listed' = FALSE
  /\ UNCHANGED <<tables, hist, version, lock, mem, counters>>

Upload(c) ==
  /\ ~listed
  /\ Step(c, "idle", "ingest")
  /\ UNCHANGED <<tables, redis, lock, mem, counters>>

Ingest(c) ==
  /\ live = NoTable
  /\ Step(c, "ingest", "refresh")
  /\ live' \in Contents
  /\ UNCHANGED <<tmp, snaps, redis, lock, mem, counters>>

(* The file cannot be read, or a table of that name exists.                *)
IngestError(c) ==
  /\ Step(c, "ingest", "idle")
  /\ UNCHANGED <<tables, redis, lock, mem, counters>>

(* A fault: DuckDB or Redis fails in a handler that holds no lock.         *)
HandlerError(c) ==
  /\ faults < MaxFaults
  /\ faults' = faults + 1
  /\ \E from \in Outside \ {"idle", "wait", "ingest"} : Step(c, from, "idle")
  /\ UNCHANGED <<tables, redis, lock, mem, saves, deletes>>

(* A fault: the process dies and is started again.                         *)
Crash ==
  /\ faults < MaxFaults
  /\ faults' = faults + 1
  /\ lock' = NoClient
  /\ pc' = [c \in Clients |-> "idle"]
  /\ mem' = [c \in Clients |-> NoHistory]
  /\ UNCHANGED <<tables, redis, saves, deletes>>

-----------------------------------------------------------------------------

Start(c) == Apply(c) \/ Undo(c) \/ Redo(c) \/ Goto(c) \/ Refuse(c)

Continue(c) ==
  \/ SnapshotInitial(c)
  \/ DropRedoSnapshot(c)
  \/ DropRedoDone(c)
  \/ Compile(c)
  \/ CompileError(c)
  \/ CreateTmp(c)
  \/ CreateTmpError(c)
  \/ DropLive(c)
  \/ RenameTmp(c)
  \/ Snapshot(c)
  \/ LostTable(c)
  \/ EnforceCap(c)
  \/ RestoreDrop(c)
  \/ RestoreCopy(c)
  \/ RestoreError(c)
  \/ Save(c)
  \/ Bump(c)
  \/ RefreshRead(c)
  \/ RefreshError(c)
  \/ RefreshWrite(c)
  \/ DropTable(c)
  \/ Unlist(c)
  \/ Ingest(c)
  \/ IngestError(c)

Next ==
  \/ \E c \in Clients : Request(c) \/ Delete(c) \/ Upload(c)
  \/ \E c \in Clients : Start(c)
  \/ \E c \in Clients : Continue(c)
  \/ \E c \in Clients : StatementError(c) \/ HandlerError(c)
  \/ Crash

(* asyncio runs every coroutine that can run, and asyncio.Lock wakes its   *)
(* waiters in the order they came; nobody is obliged to send a request.    *)
Fairness ==
  \A c \in Clients : WF_vars(Continue(c)) /\ SF_vars(Start(c))

Spec == Init /\ [][Next]_vars

FairSpec == Spec /\ Fairness

-----------------------------------------------------------------------------
(* Properties.                                                             *)

(* The history in Redis is well formed: at most SNAPSHOT_CAP entries whose *)
(* numbers only grow and are all used up, and a position inside them.      *)
HistoryWellFormed ==
  /\ Len(hist.entries) <= Cap
  /\ hist.current \in -1 .. Len(hist.entries) - 1
  /\ hist.current = -1 <=> hist.entries = <<>>
  /\ \A i \in Indices(hist) : hist.entries[i].id < hist.next_id
  /\ \A i, j \in Indices(hist) :
       i < j => hist.entries[i].id < hist.entries[j].id

(* A snapshot table that an entry of the saved history names holds what    *)
(* that step left behind, never another state: numbers are not reused, not *)
(* even after a failed apply, a fault, or a delete and a new upload.       *)
SnapshotsFaithful ==
  \A i \in Indices(hist) : \A s \in snaps :
    s.id = hist.entries[i].id => s = hist.entries[i]

(* Whatever happens, a full copy of the state the history points at is on  *)
(* disk: no step drops it before another position is saved.                *)
CurrentHasCopy ==
  hist.entries # <<>> => Current(hist) \in snaps

(* As long as there has been no fault, every state that undo can reach     *)
(* has its snapshot; only the oldest may be gone, while the apply that     *)
(* pushes it out of the history is about to save.                          *)
UndoIsSafe ==
  faults = 0 =>
    \A i \in Indices(hist) :
      \/ i > hist.current + 1
      \/ hist.entries[i] \in snaps
      \/ i = 1 /\ \E c \in Clients : pc[c] = "cap"

(* Without faults and deletes, a table that is there and that no          *)
(* transform is working on is the state the history points at, also after  *)
(* requests that failed half way.                                          *)
LiveIsCurrent ==
  (/\ faults = 0
   /\ deletes = 0
   /\ lock = NoClient
   /\ live # NoTable
   /\ hist.entries # <<>>) => live = Current(hist).of

(* Every change of the history is announced by exactly one bump of the     *)
(* version that stamps cached queries, but for the one being made and      *)
(* those that faults cut off.                                              *)
SavesAreAnnounced ==
  saves - version \in
    0 .. faults + (IF \E c \in Clients : pc[c] = "bump" THEN 1 ELSE 0)

(* The saved history is a linear undo list, whatever the interleaving of   *)
(* requests: see UndoHistory.                                              *)
List == INSTANCE UndoHistory WITH
  states <- [i \in Indices(hist) |-> hist.entries[i].of],
  at <- hist.current

ImplementsUndoHistory == List!Spec

(* Every request is answered, so the lock is always given back.            *)
Answered ==
  \A c \in Clients : pc[c] # "idle" ~> pc[c] = "idle"

(* _materialize: "a bad transform can't destroy data".  Transforms alone,  *)
(* with no delete and no fault, never leave the table missing.             *)
TransformsKeepTable ==
  lock = NoClient => live # NoTable

(* apply_transform: "state 0 = pristine snapshot the first time this table *)
(* is touched".  A table that has just been uploaded has no history yet.   *)
UploadStartsHistory ==
  [][~listed /\ listed' => hist.entries = <<>>]_vars

=============================================================================
