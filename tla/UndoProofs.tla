------------------------------ MODULE UndoProofs ------------------------------
(***************************************************************************)
(* More proofs about Transform, on top of the invariant of                 *)
(* TransformProofs: the writes of the history are announced, undo can      *)
(* restore what it offers, the table is the state the history points at,   *)
(* and the history is a linear undo list.                                  *)
(***************************************************************************)
EXTENDS TransformProofs, SequenceTheorems

At(steps) == \E c \in Clients : pc[c] \in steps

(* What SavesAreAnnounced says, with the bump that is due counted exactly. *)
Announced == saves - version - (IF At({"bump"}) THEN 1 ELSE 0) \in 0 .. faults

(* The steps at which the table need not be the state the history points   *)
(* at, and what is known of it there and everywhere else.                  *)
Replacing == {"rename", "snap", "cap", "restore_copy", "save"}

Calm == faults = 0 /\ deletes = 0

AtHome == live # NoTable /\ hist.entries # <<>> => live = Current(hist).of

Moved(c) ==
  /\ pc[c] \in {"rename", "restore_copy"} => live = NoTable
  /\ pc[c] \in {"cap", "save"} /\ live # NoTable => live = Current(mem[c]).of

Whereabouts ==
  /\ listed
  /\ \A c \in Clients : pc[c] \notin {"drop_table", "unlist", "ingest"}
  /\ \A c \in Clients : Moved(c)
  /\ At(Replacing) \/ AtHome

(* Which snapshots there are: what UndoIsSafe says, that the saved history *)
(* has lost none but at its end (while a transform drops some, nothing is  *)
(* known of those that redo would need), and that a transform in progress  *)
(* has lost none of the states it will save.                               *)
Restorable ==
  \A i \in Indices(hist) :
    i > hist.current + 1 \/ hist.entries[i] \in snaps \/ (i = 1 /\ At({"cap"}))

Prefix ==
  \A i, j \in Indices(hist) :
    i < j /\ hist.entries[j] \in snaps => hist.entries[i] \in snaps

AllKept(h) == \A i \in Indices(h) : h.entries[i] \in snaps

Copied(c) ==
  pc[c] \in {"compile", "create", "drop", "rename", "snap", "cap"} => AllKept(mem[c])

Undoable ==
  /\ Restorable
  /\ At({"redo", "cap"}) \/ Prefix
  /\ \A c \in Clients : Copied(c)

(* What the history a transform has in memory keeps of the saved one: up   *)
(* to the position, or the fresh state 0; then with one new state, and     *)
(* without the oldest when that makes too many.                            *)
Begun(h) ==
  IF hist.entries = <<>> THEN Len(h.entries) = 1
  ELSE /\ Len(h.entries) = hist.current + 1
       /\ \A i \in Indices(h) : h.entries[i] = hist.entries[i]

Extended(h) ==
  IF hist.entries = <<>> THEN Len(h.entries) = 2
  ELSE \/ /\ Len(h.entries) = hist.current + 2
          /\ \A i \in 1 .. hist.current + 1 : h.entries[i] = hist.entries[i]
       \/ /\ Len(h.entries) = Cap /\ hist.current + 1 = Cap
          /\ \A i \in 1 .. Cap - 1 : h.entries[i] = hist.entries[i + 1]

Grown(c) ==
  /\ pc[c] \in {"compile", "create", "drop", "rename", "snap"} => Begun(mem[c])
  /\ pc[c] = "cap" => Extended(mem[c])

Growing == \A c \in Clients : Grown(c)

(* The history as UndoHistory sees it.                                     *)
StatesOf(h) == [i \in Indices(h) |-> h.entries[i].of]

-----------------------------------------------------------------------------
USE DEF Critical, Outside, ApplySteps, MoveSteps

(***************************************************************************)
(* Where the requests are.                                                 *)
(***************************************************************************)

(* While one request holds the lock, no other is at a step under it.       *)
LEMMA Alone ==
  ASSUME LockInv, NEW c \in Clients, lock \in {c, NoClient},
         NEW d \in Clients, d # c
  PROVE  pc[d] \notin Critical
BY ClientAssumption DEF LockInv

(* With the lock free, nobody is.                                          *)
LEMMA Nobody ==
  ASSUME LockInv, lock = NoClient, NEW d \in Clients
  PROVE  pc[d] \notin Critical
BY ClientAssumption DEF LockInv

LEMMA HoldsLock ==
  ASSUME LockInv, NEW c \in Clients, pc[c] \in Critical
  PROVE  lock = c
BY DEF LockInv

(* A request that is outside the lock before and after a step moves nobody *)
(* at a step under it.                                                     *)
LEMMA StaysOutside ==
  ASSUME TypeOK, NEW c \in Clients, NEW to \in Outside,
         pc' = [pc EXCEPT ![c] = to], pc[c] \in Outside,
         NEW steps \in SUBSET Critical
  PROVE  At(steps)' <=> At(steps)
<1>1. \A d \in Clients : pc'[d] \in Critical \/ pc[d] \in Critical => pc'[d] = pc[d]
  BY DEF TypeOK
<1>2. \A d \in Clients : pc'[d] \in steps <=> pc[d] \in steps
  BY <1>1
<1> QED
  BY <1>2 DEF At

(* A step under the lock, or one that takes it.                            *)
LEMMA AtAfter ==
  ASSUME LockInv', NEW c \in Clients, lock' \in {c, NoClient},
         NEW steps \in SUBSET Critical
  PROVE  At(steps)' <=> pc'[c] \in steps
<1>1. \A d \in Clients : d # c => pc'[d] \notin Critical
  BY ClientAssumption DEF LockInv
<1> QED
  BY <1>1 DEF At

LEMMA AtBefore ==
  ASSUME LockInv, NEW c \in Clients, lock \in {c, NoClient},
         NEW steps \in SUBSET Critical
  PROVE  At(steps) <=> pc[c] \in steps
<1>1. \A d \in Clients : d # c => pc[d] \notin Critical
  BY ClientAssumption DEF LockInv
<1> QED
  BY <1>1 DEF At

(* The three kinds of steps a request makes without a fault: those outside *)
(* the lock...                                                             *)
Unlocked(c) ==
  \/ Request(c) \/ Refuse(c) \/ RefreshRead(c) \/ RefreshError(c) \/ RefreshWrite(c)
  \/ Delete(c) \/ DropTable(c) \/ Unlist(c) \/ Upload(c) \/ Ingest(c) \/ IngestError(c)

LEMMA UnlockedMoves ==
  ASSUME IInv, NEW c \in Clients, Unlocked(c) \/ HandlerError(c)
  PROVE  /\ \E to \in Outside : pc' = [pc EXCEPT ![c] = to]
         /\ pc[c] \in Outside
         /\ UNCHANGED <<hist, snaps, mem, lock, saves, version>>
<1>1. CASE Request(c)
  BY <1>1 DEF Request, Step, tables, redis, counters
<1>2. CASE Refuse(c)
  BY <1>2 DEF Refuse, Step, tables, redis, counters
<1>3. CASE RefreshRead(c) \/ RefreshError(c) \/ RefreshWrite(c)
  BY <1>3 DEF RefreshRead, RefreshError, RefreshWrite, Step, tables, redis, counters
<1>4. CASE Delete(c)
  BY <1>4 DEF Delete, Step, tables, redis, counters
<1>5. CASE DropTable(c) \/ Unlist(c)
  BY <1>5 DEF DropTable, Unlist, Step, tables, redis, counters
<1>6. CASE Upload(c) \/ Ingest(c) \/ IngestError(c)
  BY <1>6 DEF Upload, Ingest, IngestError, Step, tables, redis, counters
<1>7. CASE HandlerError(c)
  BY <1>7 DEF HandlerError, Step, tables, redis, counters
<1> QED
  BY <1>1, <1>2, <1>3, <1>4, <1>5, <1>6, <1>7 DEF Unlocked

(* ... those that begin, go on or give up under the lock...                *)
Quiet(c) ==
  \/ Apply(c) \/ Undo(c) \/ Redo(c) \/ Goto(c)
  \/ SnapshotInitial(c) \/ DropRedoSnapshot(c) \/ DropRedoDone(c)
  \/ Compile(c) \/ CompileError(c) \/ CreateTmp(c) \/ CreateTmpError(c)
  \/ DropLive(c) \/ RenameTmp(c) \/ Snapshot(c) \/ LostTable(c) \/ EnforceCap(c)
  \/ RestoreDrop(c) \/ RestoreCopy(c) \/ RestoreError(c)

LEMMA QuietMoves ==
  ASSUME IInv, NEW c \in Clients, Quiet(c)
  PROVE  /\ pc[c] # "bump" /\ pc'[c] # "bump"
         /\ lock \in {c, NoClient} /\ lock' \in {c, NoClient}
         /\ UNCHANGED <<hist, version, listed, saves, faults, deletes>>
<1>1. pc \in [Clients -> Critical \union Outside] /\ LockInv
  BY DEF IInv, TypeOK
<1>2. CASE Apply(c)
  BY <1>1, <1>2 DEF Apply, Step, Acquire, redis, counters
<1>3. CASE Undo(c) \/ Redo(c) \/ Goto(c)
  BY <1>1, <1>3 DEF Undo, Redo, Goto, MoveTo, Step, Acquire, redis, counters
<1>4. CASE SnapshotInitial(c)
  BY <1>1, <1>4, HoldsLock DEF SnapshotInitial, Step, redis, counters
<1>5. CASE DropRedoSnapshot(c) \/ EnforceCap(c)
  BY <1>1, <1>5, HoldsLock DEF DropRedoSnapshot, EnforceCap, redis, counters
<1>6. CASE DropRedoDone(c) \/ Compile(c)
  BY <1>1, <1>6, HoldsLock DEF DropRedoDone, Compile, Step, redis, counters
<1>7. CASE CompileError(c) \/ CreateTmpError(c) \/ RestoreError(c)
  BY <1>1, <1>7, HoldsLock DEF CompileError, CreateTmpError, RestoreError, Fail, Release,
     redis, counters
<1>8. CASE LostTable(c)
  BY <1>1, <1>8, HoldsLock DEF LostTable, Fail, Release, redis, counters
<1>9. CASE CreateTmp(c) \/ DropLive(c) \/ RenameTmp(c)
  BY <1>1, <1>9, HoldsLock DEF CreateTmp, DropLive, RenameTmp, Step, redis, counters
<1>10. CASE Snapshot(c)
  BY <1>1, <1>10, HoldsLock DEF Snapshot, Step, redis, counters
<1>11. CASE RestoreDrop(c) \/ RestoreCopy(c)
  BY <1>1, <1>11, HoldsLock DEF RestoreDrop, RestoreCopy, Step, redis, counters
<1> QED
  BY <1>2, <1>3, <1>4, <1>5, <1>6, <1>7, <1>8, <1>9, <1>10, <1>11 DEF Quiet

(* ... and the save and the bump.                                          *)
LEMMA EveryStep ==
  ASSUME Next
  PROVE  \/ Crash
         \/ \E c \in Clients :
              \/ Unlocked(c) \/ Quiet(c) \/ Save(c) \/ Bump(c)
              \/ StatementError(c) \/ HandlerError(c)
<1>1. ASSUME NEW c \in Clients, Start(c)
      PROVE  Unlocked(c) \/ Quiet(c)
  BY <1>1 DEF Start, Unlocked, Quiet
<1>2. ASSUME NEW c \in Clients, Continue(c)
      PROVE  Unlocked(c) \/ Quiet(c) \/ Save(c) \/ Bump(c)
  BY <1>2 DEF Continue, Unlocked, Quiet
<1>3. ASSUME NEW c \in Clients, Request(c) \/ Delete(c) \/ Upload(c)
      PROVE  Unlocked(c)
  BY <1>3 DEF Unlocked
<1> QED
  BY <1>1, <1>2, <1>3 DEF Next

(***************************************************************************)
(* Announcements.                                                          *)
(***************************************************************************)

LEMMA NextAnnounced ==
  ASSUME IInv, IInv', Announced, [Next]_vars
  PROVE  Announced'
<1> DEFINE due == IF At({"bump"}) THEN 1 ELSE 0
<1>1. /\ saves \in Nat /\ version \in Nat /\ faults \in Nat
      /\ LockInv /\ LockInv' /\ TypeOK
  BY DEF IInv, TypeOK
<1>2. saves - version - due \in 0 .. faults
  BY DEF Announced
<1>3. CASE UNCHANGED vars
  BY <1>3 DEF vars, Announced, At
<1>4. ASSUME NEW c \in Clients, Unlocked(c) \/ HandlerError(c)
      PROVE  Announced'
  <2>1. /\ At({"bump"})' <=> At({"bump"})
        /\ saves' = saves /\ version' = version
    BY <1>1, <1>4, UnlockedMoves, StaysOutside
  <2>2. faults' = faults \/ faults' = faults + 1
    BY <1>4 DEF Unlocked, Request, Refuse, RefreshRead, RefreshError, RefreshWrite, Delete,
       DropTable, Unlist, Upload, Ingest, IngestError, HandlerError, counters
  <2> QED
    BY <1>1, <1>2, <2>1, <2>2 DEF Announced
<1>5. ASSUME NEW c \in Clients, Quiet(c)
      PROVE  Announced'
  <2>1. ~At({"bump"}) /\ ~At({"bump"})'
    BY <1>1, <1>5, QuietMoves, AtBefore, AtAfter
  <2> QED
    BY <1>2, <1>5, <2>1, QuietMoves DEF Announced
<1>6. ASSUME NEW c \in Clients, Save(c)
      PROVE  Announced'
  <2>1. /\ pc[c] \in Critical /\ pc[c] # "bump" /\ pc'[c] = "bump"
        /\ lock' = lock /\ saves' = saves + 1 /\ version' = version /\ faults' = faults
    BY <1>1, <1>6 DEF Save, Step, TypeOK
  <2>2. ~At({"bump"}) /\ At({"bump"})'
    BY <1>1, <2>1, HoldsLock, AtBefore, AtAfter
  <2> QED
    BY <1>1, <1>2, <2>1, <2>2 DEF Announced
<1>7. ASSUME NEW c \in Clients, Bump(c)
      PROVE  Announced'
  <2>1. /\ pc[c] = "bump" /\ pc'[c] = "refresh" /\ lock' = NoClient
        /\ saves' = saves /\ version' = version + 1 /\ faults' = faults
    BY <1>1, <1>7 DEF Bump, Step, Release, TypeOK, counters
  <2>2. At({"bump"}) /\ ~At({"bump"})'
    BY <1>1, <2>1, HoldsLock, AtBefore, AtAfter
  <2> QED
    BY <1>1, <1>2, <2>1, <2>2 DEF Announced
<1>8. ASSUME lock' = NoClient, UNCHANGED <<saves, version>>, faults' = faults + 1
      PROVE  Announced'
  <2>1. ~At({"bump"})'
    BY <1>1, <1>8, ClientAssumption DEF LockInv, At
  <2> QED
    BY <1>1, <1>2, <1>8, <2>1 DEF Announced
<1>9. ASSUME NEW c \in Clients, StatementError(c)
      PROVE  Announced'
  BY <1>8, <1>9 DEF StatementError, Fail, Release, redis
<1>10. CASE Crash
  BY <1>8, <1>10 DEF Crash, redis
<1> QED
  BY <1>3, <1>4, <1>5, <1>6, <1>7, <1>9, <1>10, EveryStep

(* Every write of the history is followed by exactly one bump of the       *)
(* version that stamps the cached queries, but for the one under way and   *)
(* those a fault cut off, for any number of requests in any order.         *)
THEOREM EverySaveIsAnnounced == Spec => []SavesAreAnnounced
<1>1. Init => Announced
  <2> SUFFICES ASSUME Init PROVE Announced
    OBVIOUS
  <2>1. saves = 0 /\ version = 0 /\ faults = 0
    BY DEF Init
  <2>2. ~At({"bump"})
    BY DEF Init, At
  <2>3. 0 - 0 - 0 \in 0 .. 0
    OBVIOUS
  <2> QED
    BY <2>1, <2>2, <2>3 DEF Announced
<1>2. IInv /\ IInv' /\ Announced /\ [Next]_vars => Announced'
  BY NextAnnounced
<1>3. IInv /\ Announced => SavesAreAnnounced
  BY DEF IInv, TypeOK, Announced, SavesAreAnnounced, At
<1> QED
  BY <1>1, <1>2, <1>3, Invariance, PTL DEF Spec

(***************************************************************************)
(* Where the table is.                                                     *)
(***************************************************************************)

(* Only the request with the lock can be replacing the table.              *)
LEMMA HolderMoves ==
  ASSUME LockInv', NEW c \in Clients, lock' \in {c, NoClient},
         listed', \A d \in Clients : pc'[d] \notin {"drop_table", "unlist", "ingest"},
         Moved(c)', pc'[c] \in Replacing \/ AtHome'
  PROVE  Whereabouts'
<1>1. \A d \in Clients : d # c => pc'[d] \notin Critical
  BY ClientAssumption DEF LockInv
<1>2. \A d \in Clients : Moved(d)'
  BY <1>1 DEF Moved
<1> QED
  BY <1>2 DEF Whereabouts, At

(* A step of the holder from outside the replacing steps to outside them.  *)
LEMMA StaysHome ==
  ASSUME LockInv, LockInv', Whereabouts,
         NEW c \in Clients, lock \in {c, NoClient}, lock' \in {c, NoClient},
         listed', \A d \in Clients : pc'[d] \notin {"drop_table", "unlist", "ingest"},
         UNCHANGED <<live, hist>>,
         pc[c] \notin Replacing, pc'[c] \notin Replacing
  PROVE  Whereabouts'
<1>1. Replacing \in SUBSET Critical
  BY DEF Replacing
<1>2. AtHome
  BY <1>1, AtBefore DEF Whereabouts
<1>3. AtHome' /\ Moved(c)'
  BY <1>2 DEF AtHome, Moved, Replacing, Current
<1> QED
  BY <1>3, HolderMoves

LEMMA UnlockedWhereabouts ==
  ASSUME IInv, IInv', Whereabouts, NEW c \in Clients, Unlocked(c), Calm'
  PROVE  Whereabouts'
<1>1. /\ listed /\ TypeOK /\ Replacing \in SUBSET Critical
      /\ \A d \in Clients : pc[d] \notin {"drop_table", "unlist", "ingest"}
  BY DEF Whereabouts, IInv, Replacing
<1>2. Request(c) \/ Refuse(c) \/ RefreshRead(c) \/ RefreshError(c) \/ RefreshWrite(c)
  BY <1>1 DEF Unlocked, Delete, DropTable, Unlist, Upload, Ingest, IngestError, Step, Calm, IInv,
     TypeOK
<1>3. /\ live' = live /\ hist' = hist /\ mem' = mem /\ listed'
      /\ \E to \in {"idle", "wait", "list"} : pc' = [pc EXCEPT ![c] = to]
      /\ pc[c] \in Outside
  BY <1>1, <1>2 DEF Request, Refuse, RefreshRead, RefreshError, RefreshWrite, Step, tables, redis
<1>4. At(Replacing)' <=> At(Replacing)
  BY <1>1, <1>3, StaysOutside
<1>5. AtHome' <=> AtHome
  BY <1>3 DEF AtHome, Current
<1>6. \A d \in Clients : pc'[d] = pc[d] \/ pc'[d] \in {"idle", "wait", "list"}
  BY <1>1, <1>3 DEF TypeOK
<1>7. \A d \in Clients : Moved(d)'
  BY <1>3, <1>6 DEF Whereabouts, Moved, Current
<1> QED
  BY <1>1, <1>3, <1>4, <1>5, <1>6, <1>7 DEF Whereabouts

(* Deletes and uploads aside, nobody is at their steps.                    *)
LEMMA NoOtherHandler ==
  ASSUME TypeOK, Whereabouts, NEW c \in Clients, Quiet(c) \/ Save(c) \/ Bump(c)
  PROVE  /\ \A d \in Clients : pc'[d] \notin {"drop_table", "unlist", "ingest"}
         /\ listed'
<1>1. pc' = pc \/ \E to \in Critical \union {"idle", "refresh"} : pc' = [pc EXCEPT ![c] = to]
  BY DEF Quiet, Apply, Undo, Redo, Goto, MoveTo, SnapshotInitial, DropRedoSnapshot, DropRedoDone,
     Compile, CompileError, CreateTmp, CreateTmpError, DropLive, RenameTmp, Snapshot, LostTable,
     EnforceCap, RestoreDrop, RestoreCopy, RestoreError, Save, Bump, Step, Fail
<1>2. listed' = listed
  BY DEF Quiet, Apply, Undo, Redo, Goto, MoveTo, SnapshotInitial, DropRedoSnapshot, DropRedoDone,
     Compile, CompileError, CreateTmp, CreateTmpError, DropLive, RenameTmp, Snapshot, LostTable,
     EnforceCap, RestoreDrop, RestoreCopy, RestoreError, Save, Bump, redis
<1> QED
  BY <1>1, <1>2 DEF TypeOK, Whereabouts

LEMMA QuietWhereabouts ==
  ASSUME IInv, IInv', Whereabouts, NEW c \in Clients, Quiet(c)
  PROVE  Whereabouts'
<1>1. /\ LockInv /\ LockInv' /\ TypeOK
      /\ Replacing \in SUBSET Critical
      /\ Moved(c)
      /\ pc \in [Clients -> Critical \union Outside] /\ mem \in [Clients -> History]
      /\ hist \in History
  BY DEF IInv, TypeOK, Replacing, Whereabouts
<1>2. /\ lock \in {c, NoClient} /\ lock' \in {c, NoClient}
      /\ hist' = hist
      /\ \A d \in Clients : pc'[d] \notin {"drop_table", "unlist", "ingest"}
      /\ listed'
  BY <1>1, QuietMoves, NoOtherHandler
<1>3. CASE \/ Apply(c) \/ SnapshotInitial(c) \/ DropRedoSnapshot(c) \/ DropRedoDone(c)
           \/ Compile(c) \/ CompileError(c) \/ CreateTmp(c) \/ CreateTmpError(c)
  <2>1. live' = live /\ pc[c] \notin Replacing /\ pc'[c] \notin Replacing
    BY <1>1, <1>3 DEF Apply, SnapshotInitial, DropRedoSnapshot, DropRedoDone, Compile,
       CompileError, CreateTmp, CreateTmpError, Step, Fail, tables, Replacing
  <2> QED
    BY <1>1, <1>2, <2>1, StaysHome
<1>4. CASE Undo(c) \/ Redo(c) \/ Goto(c)
  <2>1. live' = live /\ pc[c] \notin Replacing /\ pc'[c] \notin Replacing
    BY <1>1, <1>4 DEF Undo, Redo, Goto, MoveTo, Step, tables, Replacing
  <2> QED
    BY <1>1, <1>2, <2>1, StaysHome
<1>5. CASE DropLive(c) \/ RestoreDrop(c)
  <2>1. live' = NoTable
    BY <1>5 DEF DropLive, RestoreDrop
  <2> QED
    BY <1>1, <1>2, <2>1, HolderMoves DEF Moved, AtHome
<1>6. CASE RenameTmp(c)
  <2>1. pc'[c] = "snap"
    BY <1>1, <1>6 DEF RenameTmp, Step
  <2>2. Moved(c)' /\ pc'[c] \in Replacing
    BY <2>1 DEF Moved, Replacing
  <2> QED
    BY <1>1, <1>2, <2>2, HolderMoves
<1>7. CASE Snapshot(c)
  <2> DEFINE s == [id |-> mem[c].next_id - 1, of |-> live]
             h == mem[c]
             g == mem'[c]
  <2>1. /\ pc[c] = "snap" /\ pc'[c] = "cap" /\ live' = live /\ live # NoTable
        /\ g = [h EXCEPT !.entries = Append(@, s), !.current = Len(h.entries)]
    BY <1>1, <1>7 DEF Snapshot, Step
  <2>2. s \in Entry
    <3>1. mem[c].next_id > hist.next_id
      BY <2>1 DEF IInv, Holding, Swapping
    <3>2. mem[c].next_id \in Nat /\ hist.next_id \in Nat
      BY <1>1 DEF History
    <3> QED
      BY <1>1, <2>1, <3>1, <3>2 DEF TypeOK, Entry
  <2>3. /\ h \in History /\ g \in History
        /\ g.entries = Append(h.entries, s) /\ g.current = Len(h.entries)
    BY <1>1, <2>1 DEF IInv, TypeOK, History
  <2> HIDE DEF s, h, g
  <2>4. Current(g) = s
    BY <2>2, <2>3, AppendedHistory
  <2>5. Moved(c)' /\ pc'[c] \in Replacing
    BY <2>1, <2>4 DEF Moved, Replacing, g, s, Current
  <2> QED
    BY <1>1, <1>2, <2>5, HolderMoves
<1>8. CASE LostTable(c)
  <2>1. live' = live /\ pc'[c] = "idle"
    BY <1>1, <1>8 DEF LostTable, Fail
  <2>2. live = NoTable
    BY <1>1, <1>8 DEF LostTable, Moved
  <2> QED
    BY <1>1, <1>2, <2>1, <2>2, HolderMoves DEF Moved, AtHome
<1>9. CASE EnforceCap(c)
  <2> DEFINE h == mem[c]
             g == mem'[c]
  <2>1. /\ pc[c] = "cap" /\ pc'[c] = "cap" /\ live' = live
        /\ Len(h.entries) > Cap
        /\ g = [h EXCEPT !.entries = Tail(@), !.current = @ - 1]
    BY <1>1, <1>9 DEF EnforceCap
  <2>2. AtEnd(h) /\ h \in History
    BY <1>1, <2>1 DEF IInv, Holding, Capping
  <2> HIDE DEF h, g
  <2>3. Len(h.entries) >= 2
    BY <2>1, <2>2, CapAssumption DEF History
  <2>4. Current(g) = Current(h)
    BY <2>1, <2>2, <2>3, ShortenedHistory
  <2>5. Moved(c)' /\ pc'[c] \in Replacing
    BY <1>1, <2>1, <2>4 DEF Moved, Replacing, g, h, Current
  <2> QED
    BY <1>1, <1>2, <2>5, HolderMoves
<1>10. CASE RestoreCopy(c)
  <2>1. /\ pc[c] = "restore_copy" /\ pc'[c] = "save" /\ mem' = mem
    BY <1>1, <1>10 DEF RestoreCopy, Step
  <2>2. PICK s \in snaps : s.id = Current(mem[c]).id /\ live' = s.of
    BY <1>10 DEF RestoreCopy
  <2>3. s = Current(mem[c])
    <3>1. mem[c].entries = hist.entries /\ mem[c].current \in 0 .. Len(hist.entries) - 1
      BY <2>1 DEF IInv, Holding, Moving
    <3>2. mem[c].current + 1 \in Indices(hist)
      BY <1>1, <3>1 DEF History, Indices
    <3> QED
      BY <2>2, <3>1, <3>2 DEF IInv, SnapshotsFaithful, Current
  <2>4. Moved(c)' /\ pc'[c] \in Replacing
    BY <2>1, <2>2, <2>3 DEF Moved, Replacing, Current
  <2> QED
    BY <1>1, <1>2, <2>4, HolderMoves
<1>11. CASE RestoreError(c)
  <2>1. live' = live /\ pc'[c] = "idle" /\ live = NoTable
    BY <1>1, <1>11 DEF RestoreError, Fail, tables, Moved
  <2> QED
    BY <1>1, <1>2, <2>1, HolderMoves DEF Moved, AtHome
<1> QED
  BY <1>3, <1>4, <1>5, <1>6, <1>7, <1>8, <1>9, <1>10, <1>11 DEF Quiet

LEMMA NextWhereabouts ==
  ASSUME IInv, IInv', Calm => Whereabouts, [Next]_vars
  PROVE  Calm' => Whereabouts'
<1> SUFFICES ASSUME Calm' PROVE Whereabouts'
  OBVIOUS
<1>1. /\ LockInv /\ LockInv' /\ TypeOK
      /\ faults \in Nat /\ deletes \in Nat
  BY DEF IInv, TypeOK
<1>2. CASE UNCHANGED vars
  <2>1. Whereabouts
    BY <1>2 DEF vars, Calm
  <2> QED
    BY <1>2, <2>1 DEF vars, Whereabouts, At, AtHome, Moved, Current
<1>3. ASSUME NEW c \in Clients, Unlocked(c)
      PROVE  Whereabouts'
  <2>1. Calm
    BY <1>1, <1>3 DEF Calm, Unlocked, Request, Refuse, RefreshRead, RefreshError, RefreshWrite,
       Delete, DropTable, Unlist, Upload, Ingest, IngestError, counters
  <2> QED
    BY <1>3, <2>1, UnlockedWhereabouts
<1>4. ASSUME NEW c \in Clients, Quiet(c)
      PROVE  Whereabouts'
  <2>1. Calm
    BY <1>4, QuietMoves DEF Calm
  <2> QED
    BY <1>4, <2>1, QuietWhereabouts
<1>5. ASSUME NEW c \in Clients, Save(c)
      PROVE  Whereabouts'
  <2>1. /\ pc[c] \in {"cap", "save"} /\ pc'[c] = "bump" /\ hist' = mem[c]
        /\ UNCHANGED <<live, lock, faults, deletes>>
    BY <1>1, <1>5 DEF Save, Step, TypeOK, tables
  <2>2. Whereabouts
    BY <2>1 DEF Calm
  <2>3. Moved(c)' /\ AtHome'
    BY <2>1, <2>2 DEF Whereabouts, Moved, AtHome, Current
  <2>4. lock' \in {c, NoClient}
    BY <1>1, <2>1, HoldsLock
  <2> QED
    BY <1>1, <1>5, <2>2, <2>3, <2>4, NoOtherHandler, HolderMoves
<1>6. ASSUME NEW c \in Clients, Bump(c)
      PROVE  Whereabouts'
  <2>1. /\ pc[c] = "bump" /\ pc'[c] = "refresh" /\ lock' = NoClient
        /\ UNCHANGED <<live, hist, faults, deletes>>
    BY <1>1, <1>6 DEF Bump, Step, Release, TypeOK, tables, counters
  <2>2. Whereabouts
    BY <2>1 DEF Calm
  <2>3. lock \in {c, NoClient} /\ pc[c] \notin Replacing /\ pc'[c] \notin Replacing
    BY <1>1, <2>1, HoldsLock DEF Replacing
  <2> QED
    BY <1>1, <1>6, <2>1, <2>2, <2>3, NoOtherHandler, StaysHome
<1>7. ASSUME faults' = faults + 1
      PROVE  FALSE
  BY <1>1, <1>7 DEF Calm
<1>8. \A c \in Clients : ~StatementError(c) /\ ~HandlerError(c)
  BY <1>7 DEF StatementError, HandlerError
<1>9. ~Crash
  BY <1>7 DEF Crash
<1> QED
  BY <1>2, <1>3, <1>4, <1>5, <1>6, <1>8, <1>9, EveryStep

(* Without faults and deletes, the table of a request-free moment is the   *)
(* state the history points at, also after requests that failed half way.  *)
THEOREM LiveStaysCurrent == Spec => []LiveIsCurrent
<1>1. Init => (Calm => Whereabouts)
  <2> SUFFICES ASSUME Init PROVE Whereabouts
    OBVIOUS
  <2>1. \A c \in Clients : pc[c] = "idle"
    BY DEF Init
  <2>2. listed /\ AtHome
    BY DEF Init, NoHistory, AtHome
  <2> QED
    BY <2>1, <2>2 DEF Whereabouts, Moved
<1>2. IInv /\ IInv' /\ (Calm => Whereabouts) /\ [Next]_vars => (Calm => Whereabouts)'
  BY NextWhereabouts
<1>3. IInv /\ (Calm => Whereabouts) => LiveIsCurrent
  <2> SUFFICES ASSUME LockInv, Whereabouts, lock = NoClient PROVE AtHome
    BY DEF IInv, Calm, LiveIsCurrent, AtHome
  <2>1. \A c \in Clients : pc[c] \notin Critical
    BY Nobody
  <2> QED
    BY <2>1 DEF Whereabouts, At, Replacing
<1> QED
  BY <1>1, <1>2, <1>3, Invariance, PTL DEF Spec

(***************************************************************************)
(* What undo can restore.                                                  *)
(***************************************************************************)

(* A step under the lock; its request need not have it any longer.         *)
LEMMA HolderCopies ==
  ASSUME LockInv', NEW c \in Clients, lock' \in {c, NoClient},
         Restorable', pc'[c] \in {"redo", "cap"} \/ Prefix', Copied(c)'
  PROVE  Undoable'
<1>1. \A d \in Clients : d # c => pc'[d] \notin Critical
  BY ClientAssumption DEF LockInv
<1>2. \A d \in Clients : Copied(d)'
  BY <1>1 DEF Copied
<1> QED
  BY <1>2 DEF Undoable, At

(* A step that drops no snapshot, from other steps than those which do, to *)
(* others.                                                                 *)
LEMMA SameSnapshots ==
  ASSUME LockInv, LockInv', Undoable,
         NEW c \in Clients, lock \in {c, NoClient}, lock' \in {c, NoClient},
         UNCHANGED <<snaps, hist>>,
         pc[c] \notin {"redo", "cap"},
         Copied(c)'
  PROVE  Undoable'
<1>1. ~At({"redo", "cap"}) /\ ~At({"cap"})
  BY AtBefore
<1>2. Restorable' /\ Prefix'
  BY <1>1 DEF Undoable, Restorable, Prefix, Indices
<1> QED
  BY <1>2, HolderCopies

(* The request at the step "snap" drops a table that no entry has.         *)
LEMMA NextNumberIsFree ==
  ASSUME IInv, NEW c \in Clients, pc[c] = "snap"
  PROVE  /\ \A i \in Indices(hist) : hist.entries[i].id # mem[c].next_id - 1
         /\ \A i \in Indices(mem[c]) : mem[c].entries[i].id # mem[c].next_id - 1
<1> DEFINE h == mem[c]
<1>1. /\ h \in History /\ hist \in History
      /\ h.next_id \in Nat /\ hist.next_id \in Nat
      /\ h.next_id > hist.next_id
      /\ Numbered(h, h.next_id - 1)
      /\ Numbered(hist, hist.next_id)
  BY DEF IInv, TypeOK, History, Holding, Swapping, HistoryWellFormed, Numbered
<1>2. /\ \A i \in Indices(hist) : hist.entries[i].id \in Nat
      /\ \A i \in Indices(h) : h.entries[i].id \in Nat
  BY <1>1, EntryNumbers
<1> HIDE DEF h
<1>3. /\ \A i \in Indices(hist) : hist.entries[i].id # h.next_id - 1
      /\ \A i \in Indices(h) : h.entries[i].id # h.next_id - 1
  BY <1>1, <1>2 DEF Numbered
<1> QED
  BY <1>3 DEF h

LEMMA UnlockedUndoable ==
  ASSUME IInv, Undoable, NEW c \in Clients, Unlocked(c)
  PROVE  Undoable'
<1>1. /\ TypeOK
      /\ \E to \in Outside : pc' = [pc EXCEPT ![c] = to]
      /\ pc[c] \in Outside
      /\ UNCHANGED <<hist, snaps, mem>>
  BY UnlockedMoves DEF IInv
<1>2. (At({"cap"})' <=> At({"cap"})) /\ (At({"redo", "cap"})' <=> At({"redo", "cap"}))
  BY <1>1, StaysOutside
<1>3. \A d \in Clients : pc'[d] \in Critical => pc'[d] = pc[d]
  BY <1>1 DEF TypeOK
<1>4. ASSUME NEW d \in Clients
      PROVE  Copied(d)'
  BY <1>1, <1>3 DEF Undoable, Copied, AllKept, Indices
<1>5. Restorable' /\ (Prefix' <=> Prefix)
  BY <1>1, <1>2 DEF Undoable, Restorable, Prefix, Indices
<1> QED
  BY <1>2, <1>4, <1>5 DEF Undoable

LEMMA DropRedoSnapshotUndoable ==
  ASSUME IInv, IInv', Undoable, NEW c \in Clients, DropRedoSnapshot(c)
  PROVE  Undoable'
<1>1. /\ LockInv /\ LockInv' /\ hist \in History
      /\ pc[c] = "redo" /\ pc' = pc /\ lock' = lock /\ hist' = hist
      /\ mem[c] = hist
  BY DEF IInv, TypeOK, DropRedoSnapshot, redis, Holding, Beginning
<1>2. PICK i \in Indices(hist) : i > hist.current + 1 /\ snaps' = Without(hist.entries[i].id)
  BY <1>1 DEF DropRedoSnapshot, Doomed
<1>3. lock = c /\ ~At({"cap"})
  BY <1>1, HoldsLock, AtBefore
<1>4. ASSUME NEW j \in Indices(hist), j <= hist.current + 1
      PROVE  hist.entries[j] \in snaps'
  <2>1. hist.entries[j] \in snaps
    BY <1>1, <1>3, <1>4 DEF Undoable, Restorable, Indices, History
  <2>2. hist.entries[j].id < hist.entries[i].id
    BY <1>1, <1>2, <1>4 DEF IInv, HistoryWellFormed, Indices, History
  <2>3. hist.entries[j].id # hist.entries[i].id
    BY <1>1, <2>2, EntryNumbers
  <2> QED
    BY <1>2, <2>1, <2>3 DEF Without
<1>5. Restorable'
  BY <1>1, <1>4 DEF Restorable, Indices, History
<1> QED
  BY <1>1, <1>3, <1>5, HolderCopies DEF Copied

LEMMA DropRedoDoneUndoable ==
  ASSUME IInv, IInv', Undoable, NEW c \in Clients, DropRedoDone(c)
  PROVE  Undoable'
<1> DEFINE g == [hist EXCEPT !.entries = SubSeq(@, 1, hist.current + 1)]
<1>1. /\ LockInv /\ LockInv' /\ hist \in History
      /\ pc[c] = "redo" /\ pc'[c] = "compile" /\ lock' = lock
      /\ hist' = hist /\ snaps' = snaps
      /\ mem[c] = hist /\ hist.entries # <<>>
      /\ \A i \in Doomed(hist) : ~Exists(hist.entries[i].id)
      /\ mem'[c] = g
  BY DEF IInv, TypeOK, DropRedoDone, Step, tables, redis, Holding, Beginning
<1> HIDE DEF g
<1>2. hist.current \in 0 .. Len(hist.entries) - 1
  BY <1>1 DEF IInv, HistoryWellFormed, History
<1>3. lock = c /\ ~At({"cap"})
  BY <1>1, HoldsLock, AtBefore
<1>4. \A i \in Indices(hist) : i <= hist.current + 1 => hist.entries[i] \in snaps
  BY <1>1, <1>2, <1>3 DEF Undoable, Restorable, Indices, History
<1>5. ASSUME NEW i \in Indices(hist), hist.entries[i] \in snaps
      PROVE  i <= hist.current + 1
  <2>1. i \notin Doomed(hist)
    BY <1>1, <1>5 DEF Exists
  <2> QED
    BY <1>2, <2>1 DEF Doomed, Indices
<1>6. Restorable' /\ Prefix'
  BY <1>1, <1>2, <1>4, <1>5 DEF Restorable, Prefix, Indices, History
<1>7. Copied(c)'
  <2>1. /\ g \in History
        /\ AtEnd(g)
        /\ g.next_id = hist.next_id
        /\ Len(g.entries) = hist.current + 1
        /\ Indices(g) \subseteq Indices(hist)
        /\ \A i \in Indices(g) : g.entries[i] = hist.entries[i]
    <3>1. hist \in History /\ hist.entries # <<>>
      BY <1>1
    <3> QED
      BY <1>2, <3>1, TruncatedHistory DEF g
  <2>2. ASSUME NEW i \in Indices(g)
        PROVE  g.entries[i] \in snaps
    <3>1. i \in Indices(hist) /\ i <= hist.current + 1 /\ g.entries[i] = hist.entries[i]
      BY <1>2, <2>1 DEF Indices
    <3> QED
      BY <1>4, <3>1
  <2> QED
    BY <1>1, <2>2 DEF Copied, AllKept, Indices
<1> QED
  BY <1>1, <1>3, <1>6, <1>7, HolderCopies

LEMMA SnapshotUndoable ==
  ASSUME IInv, IInv', Undoable, NEW c \in Clients, Snapshot(c)
  PROVE  Undoable'
<1> DEFINE h == mem[c]
           g == mem'[c]
           n == mem[c].next_id - 1
           s == [id |-> n, of |-> live]
<1>1. /\ LockInv /\ LockInv' /\ h \in History
      /\ pc[c] = "snap" /\ pc'[c] = "cap" /\ lock' = lock /\ hist' = hist
      /\ snaps' = Without(n) \union {s}
      /\ g = [h EXCEPT !.entries = Append(@, s), !.current = Len(h.entries)]
  BY DEF IInv, TypeOK, Snapshot, Step, redis
<1>2. lock = c /\ ~At({"cap"})
  BY <1>1, HoldsLock, AtBefore
<1>3. /\ \A i \in Indices(hist) : hist.entries[i].id # n
      /\ \A i \in Indices(h) : h.entries[i].id # n
  BY <1>1, NextNumberIsFree
<1>4. Restorable'
  BY <1>1, <1>2, <1>3 DEF Undoable, Restorable, Without, Indices
<1>5. /\ g \in History /\ g.entries = Append(h.entries, s)
      /\ h.entries \in Seq(Entry)
  BY <1>1 DEF IInv, TypeOK, History
<1>6. \A i \in Indices(g) :
        g.entries[i] = s \/ (i \in Indices(h) /\ g.entries[i] = h.entries[i])
  <2> HIDE DEF g, h, s
  <2>1. /\ Len(h.entries) \in Nat /\ Len(g.entries) = Len(h.entries) + 1
        /\ \A i \in 1 .. Len(h.entries) : g.entries[i] = h.entries[i]
        /\ g.entries[Len(h.entries) + 1] = s
    BY <1>5
  <2>2. ASSUME NEW i \in Indices(g), i \notin Indices(h)
        PROVE  g.entries[i] = s
    <3>1. i = Len(h.entries) + 1
      BY <2>1, <2>2 DEF Indices
    <3> QED
      BY <2>1, <3>1
  <2>3. \A i \in Indices(h) : g.entries[i] = h.entries[i]
    BY <2>1 DEF Indices
  <2> QED
    BY <2>2, <2>3
<1>7. \A i \in Indices(h) : h.entries[i] \in snaps
  BY <1>1 DEF Undoable, Copied, AllKept
<1>8. ASSUME NEW i \in Indices(g)
      PROVE  g.entries[i] \in snaps'
  <2>1. CASE g.entries[i] = s
    BY <1>1, <2>1
  <2>2. CASE i \in Indices(h) /\ g.entries[i] = h.entries[i]
    <3>1. h.entries[i] \in snaps /\ h.entries[i].id # n
      BY <1>3, <1>7, <2>2
    <3> QED
      BY <1>1, <2>2, <3>1 DEF Without
  <2> QED
    BY <1>6, <2>1, <2>2
<1>9. Copied(c)'
  BY <1>8 DEF Copied, AllKept, Indices
<1> QED
  BY <1>1, <1>2, <1>4, <1>9, HolderCopies

LEMMA EnforceCapUndoable ==
  ASSUME IInv, IInv', Undoable, NEW c \in Clients, EnforceCap(c)
  PROVE  Undoable'
<1> DEFINE h == mem[c]
           g == mem'[c]
<1>1. /\ LockInv /\ LockInv' /\ h \in History /\ hist \in History
      /\ pc[c] = "cap" /\ pc'[c] = "cap" /\ lock' = lock /\ hist' = hist
      /\ Len(h.entries) > Cap
      /\ snaps' = Without(Head(h.entries).id)
      /\ g = [h EXCEPT !.entries = Tail(@), !.current = @ - 1]
      /\ AtEnd(h) /\ Ordered(h) /\ h.entries[1] = hist.entries[1] /\ AllKept(h)
      /\ hist.entries # <<>>
  BY DEF IInv, TypeOK, EnforceCap, redis, Holding, Capping, Undoable, Copied
<1>2. lock = c /\ At({"cap"})'
  BY <1>1, HoldsLock, AtAfter
<1> HIDE DEF h, g
<1>3. Len(h.entries) >= 2 /\ Head(h.entries) = h.entries[1] /\ Len(hist.entries) \in Nat
      /\ 1 \in Indices(h) /\ 1 \in Indices(hist) /\ Len(h.entries) \in Nat
  BY <1>1, CapAssumption DEF History, Indices
<1>4. ASSUME NEW i \in Indices(hist), i # 1, hist.entries[i] \in snaps
      PROVE  hist.entries[i] \in snaps'
  <2>1. hist.entries[1].id < hist.entries[i].id
    BY <1>3, <1>4 DEF IInv, HistoryWellFormed, Indices
  <2>2. hist.entries[1].id # hist.entries[i].id
    BY <1>1, <1>3, <2>1, EntryNumbers
  <2> QED
    BY <1>1, <1>3, <1>4, <2>2 DEF Without
<1>5. Restorable'
  BY <1>1, <1>2, <1>4 DEF Undoable, Restorable, Indices
<1>6. /\ Len(g.entries) = Len(h.entries) - 1
      /\ \A i \in Indices(g) : i + 1 \in Indices(h) /\ g.entries[i] = h.entries[i + 1]
  BY <1>1, <1>3, ShortenedHistory
<1>7. ASSUME NEW i \in Indices(g)
      PROVE  g.entries[i] \in snaps'
  <2>1. i + 1 \in Indices(h) /\ 1 < i + 1 /\ g.entries[i] = h.entries[i + 1]
    BY <1>6, <1>7 DEF Indices
  <2>2. h.entries[1].id < h.entries[i + 1].id
    BY <1>1, <1>3, <2>1 DEF Ordered
  <2>3. h.entries[1].id # h.entries[i + 1].id
    BY <1>1, <1>3, <2>1, <2>2, EntryNumbers
  <2>4. h.entries[i + 1] \in snaps
    BY <1>1, <2>1 DEF AllKept
  <2>5. h.entries[i + 1] \in Without(h.entries[1].id)
    BY <2>3, <2>4 DEF Without
  <2> QED
    BY <1>1, <1>3, <2>1, <2>5
<1>8. Copied(c)'
  BY <1>7 DEF Copied, AllKept, Indices, g
<1> QED
  BY <1>1, <1>2, <1>5, <1>8, HolderCopies

LEMMA LostTableUndoable ==
  ASSUME IInv, IInv', Undoable, NEW c \in Clients, LostTable(c)
  PROVE  Undoable'
<1>1. /\ LockInv /\ LockInv'
      /\ pc[c] \in {"snap0", "drop", "rename", "snap"} /\ pc'[c] = "idle"
      /\ lock' = NoClient /\ hist' = hist
  BY DEF IInv, TypeOK, LostTable, Fail, Release, redis
<1>2. lock = c /\ Copied(c)'
  BY <1>1, HoldsLock DEF Copied
<1>3. CASE snaps' = snaps
  BY <1>1, <1>2, <1>3, SameSnapshots
<1>4. CASE pc[c] = "snap0"
  <2>1. hist.entries = <<>>
    BY <1>4 DEF IInv, Holding, Beginning
  <2>2. Restorable' /\ Prefix'
    BY <1>1, <2>1 DEF Restorable, Prefix, Indices
  <2> QED
    BY <1>1, <1>2, <2>2, HolderCopies
<1>5. CASE pc[c] = "snap" /\ snaps' = Without(mem[c].next_id - 1)
  <2>1. \A i \in Indices(hist) : hist.entries[i] \in snaps' <=> hist.entries[i] \in snaps
    BY <1>5, NextNumberIsFree DEF Without
  <2>2. ~At({"cap"}) /\ ~At({"redo", "cap"})
    BY <1>1, <1>2, <1>5, AtBefore
  <2>3. Restorable' /\ Prefix'
    BY <1>1, <2>1, <2>2 DEF Undoable, Restorable, Prefix, Indices
  <2> QED
    BY <1>1, <1>2, <2>3, HolderCopies
<1> QED
  BY <1>1, <1>3, <1>4, <1>5 DEF LostTable, Replaced

LEMMA QuietUndoable ==
  ASSUME IInv, IInv', Undoable, NEW c \in Clients, Quiet(c)
  PROVE  Undoable'
<1>1. /\ LockInv /\ LockInv' /\ Copied(c)
      /\ pc \in [Clients -> Critical \union Outside] /\ mem \in [Clients -> History]
  BY DEF IInv, TypeOK, Undoable
<1>2. lock \in {c, NoClient} /\ lock' \in {c, NoClient} /\ hist' = hist
  BY QuietMoves
<1>3. CASE Apply(c) \/ Undo(c) \/ Redo(c) \/ Goto(c)
  <2>1. pc[c] = "wait" /\ pc'[c] \in {"snap0", "redo", "restore_drop"} /\ snaps' = snaps
    BY <1>1, <1>3 DEF Apply, Undo, Redo, Goto, MoveTo, Step, tables
  <2> QED
    BY <1>1, <1>2, <2>1, SameSnapshots DEF Copied
<1>4. CASE SnapshotInitial(c)
  <2> DEFINE s == [id |-> 0, of |-> live]
  <2>1. /\ pc[c] = "snap0" /\ snaps' = Without(0) \union {s}
        /\ mem'[c].entries = <<s>>
    BY <1>1, <1>4 DEF SnapshotInitial, Step
  <2>2. hist.entries = <<>>
    BY <2>1 DEF IInv, Holding, Beginning
  <2>3. Restorable' /\ Prefix'
    BY <1>2, <2>2 DEF Restorable, Prefix, Indices
  <2>4. Copied(c)'
    BY <2>1 DEF Copied, AllKept, Indices
  <2> QED
    BY <1>1, <1>2, <2>3, <2>4, HolderCopies
<1>5. CASE Compile(c) \/ CreateTmp(c) \/ DropLive(c) \/ RenameTmp(c)
  <2>1. /\ pc[c] \in {"compile", "create", "drop", "rename"}
        /\ snaps' = snaps /\ mem'[c].entries = mem[c].entries
    <3>1. CASE Compile(c)
      BY <1>1, <3>1 DEF Compile, Step, tables, History
    <3>2. CASE CreateTmp(c) \/ DropLive(c) \/ RenameTmp(c)
      BY <3>2 DEF CreateTmp, DropLive, RenameTmp, Step
    <3> QED
      BY <1>5, <3>1, <3>2
  <2>2. Copied(c)'
    BY <1>1, <2>1 DEF Copied, AllKept, Indices
  <2> QED
    BY <1>1, <1>2, <2>1, <2>2, SameSnapshots
<1>6. CASE CompileError(c) \/ CreateTmpError(c) \/ RestoreError(c)
  <2>1. pc[c] \in {"compile", "create", "restore_copy"} /\ pc'[c] = "idle" /\ snaps' = snaps
    BY <1>1, <1>6 DEF CompileError, CreateTmpError, RestoreError, Fail, tables
  <2> QED
    BY <1>1, <1>2, <2>1, SameSnapshots DEF Copied
<1>7. CASE RestoreDrop(c) \/ RestoreCopy(c)
  <2>1. /\ pc[c] \in {"restore_drop", "restore_copy"}
        /\ pc'[c] \in {"restore_copy", "save"} /\ snaps' = snaps
    BY <1>1, <1>7 DEF RestoreDrop, RestoreCopy, Step
  <2> QED
    BY <1>1, <1>2, <2>1, SameSnapshots DEF Copied
<1> QED
  BY <1>3, <1>4, <1>5, <1>6, <1>7, DropRedoSnapshotUndoable, DropRedoDoneUndoable,
     SnapshotUndoable, EnforceCapUndoable, LostTableUndoable DEF Quiet

LEMMA SaveUndoable ==
  ASSUME IInv, IInv', Undoable, NEW c \in Clients, Save(c)
  PROVE  Undoable'
<1>1. /\ LockInv /\ LockInv' /\ hist \in History /\ mem[c] \in History
      /\ pc[c] \in {"cap", "save"} /\ pc'[c] = "bump" /\ lock' = lock
      /\ hist' = mem[c] /\ snaps' = snaps
  BY DEF IInv, TypeOK, Save, Step, tables
<1>2. lock = c /\ Copied(c)'
  BY <1>1, HoldsLock DEF Copied
<1>3. CASE pc[c] = "cap"
  <2>1. AllKept(mem[c])
    BY <1>3 DEF Undoable, Copied
  <2>2. Restorable' /\ Prefix'
    BY <1>1, <2>1 DEF AllKept, Restorable, Prefix, Indices
  <2> QED
    BY <1>1, <1>2, <2>2, HolderCopies
<1>4. CASE pc[c] = "save"
  <2>1. /\ mem[c].entries = hist.entries
        /\ mem[c].current \in 0 .. Len(hist.entries) - 1
        /\ hist.entries[mem[c].current + 1] \in snaps
    BY <1>4 DEF IInv, Holding, Moving, Current
  <2>2. Prefix
    BY <1>1, <1>2, <1>4, AtBefore DEF Undoable
  <2>3. Prefix'
    BY <1>1, <2>1, <2>2 DEF Prefix, Indices
  <2>4. ASSUME NEW i \in Indices(hist), ~(i > mem[c].current + 1)
        PROVE  hist.entries[i] \in snaps
    <3>1. CASE i = mem[c].current + 1
      BY <2>1, <3>1
    <3>2. CASE i < mem[c].current + 1
      <4>1. mem[c].current + 1 \in Indices(hist)
        BY <1>1, <2>1 DEF Indices, History
      <4> QED
        BY <2>1, <2>2, <3>2, <4>1 DEF Prefix
    <3> QED
      BY <1>1, <2>1, <2>4, <3>1, <3>2 DEF Indices, History
  <2>5. Restorable'
    BY <1>1, <2>1, <2>4 DEF Restorable, Indices
  <2> QED
    BY <1>1, <1>2, <2>3, <2>5, HolderCopies
<1> QED
  BY <1>1, <1>3, <1>4

LEMMA NextUndoable ==
  ASSUME IInv, IInv', faults = 0 => Undoable, [Next]_vars
  PROVE  faults' = 0 => Undoable'
<1> SUFFICES ASSUME faults' = 0 PROVE Undoable'
  OBVIOUS
<1>1. LockInv /\ LockInv' /\ TypeOK /\ faults \in Nat
  BY DEF IInv, TypeOK
<1>2. CASE UNCHANGED vars
  <2>1. Undoable
    BY <1>2 DEF vars
  <2> QED
    BY <1>2, <2>1 DEF vars, Undoable, Restorable, Prefix, Copied, AllKept, At, Indices
<1>3. ASSUME NEW c \in Clients, Unlocked(c)
      PROVE  Undoable'
  <2>1. faults' = faults
    BY <1>3 DEF Unlocked, Request, Refuse, RefreshRead, RefreshError, RefreshWrite,
       Delete, DropTable, Unlist, Upload, Ingest, IngestError, counters
  <2> QED
    BY <1>3, <2>1, UnlockedUndoable
<1>4. ASSUME NEW c \in Clients, Quiet(c)
      PROVE  Undoable'
  BY <1>4, QuietMoves, QuietUndoable
<1>5. ASSUME NEW c \in Clients, Save(c)
      PROVE  Undoable'
  BY <1>5, SaveUndoable DEF Save
<1>6. ASSUME NEW c \in Clients, Bump(c)
      PROVE  Undoable'
  <2>1. /\ pc[c] = "bump" /\ pc'[c] = "refresh" /\ lock' = NoClient
        /\ UNCHANGED <<snaps, hist, faults>>
    BY <1>1, <1>6 DEF Bump, Step, Release, TypeOK, tables, counters
  <2>2. lock = c /\ Copied(c)'
    BY <1>1, <2>1, HoldsLock DEF Copied
  <2> QED
    BY <1>1, <2>1, <2>2, SameSnapshots
<1>7. ASSUME faults' = faults + 1
      PROVE  FALSE
  BY <1>1, <1>7
<1>8. \A c \in Clients : ~StatementError(c) /\ ~HandlerError(c)
  BY <1>7 DEF StatementError, HandlerError
<1>9. ~Crash
  BY <1>7 DEF Crash
<1> QED
  BY <1>2, <1>3, <1>4, <1>5, <1>6, <1>8, <1>9, EveryStep

(* Until the first fault, every state undo can reach has its snapshot,     *)
(* whatever transforms, undos, deletes and uploads came before.            *)
THEOREM UndoStaysSafe == Spec => []UndoIsSafe
<1>1. Init => Undoable
  BY DEF Init, NoHistory, Undoable, Restorable, Prefix, Copied, Indices
<1>2. IInv /\ IInv' /\ (faults = 0 => Undoable) /\ [Next]_vars => (faults = 0 => Undoable)'
  BY NextUndoable
<1>3. (faults = 0 => Undoable) => UndoIsSafe
  BY DEF Undoable, Restorable, UndoIsSafe, At
<1> QED
  BY <1>1, <1>2, <1>3, Invariance, PTL DEF Spec

(***************************************************************************)
(* The history is a linear undo list.                                      *)
(***************************************************************************)

LEMMA HolderGrows ==
  ASSUME LockInv', NEW c \in Clients, lock' \in {c, NoClient}, Grown(c)'
  PROVE  Growing'
<1>1. \A d \in Clients : d # c => pc'[d] \notin Critical
  BY ClientAssumption DEF LockInv
<1>2. \A d \in Clients : Grown(d)'
  BY <1>1 DEF Grown
<1> QED
  BY <1>2 DEF Growing

LEMMA UnlockedGrowing ==
  ASSUME IInv, Growing, NEW c \in Clients, Unlocked(c) \/ HandlerError(c)
  PROVE  Growing'
<1>1. /\ TypeOK
      /\ \E to \in Outside : pc' = [pc EXCEPT ![c] = to]
      /\ hist' = hist /\ mem' = mem
  BY UnlockedMoves DEF IInv
<1>2. \A d \in Clients : pc'[d] \in Critical => pc'[d] = pc[d]
  BY <1>1 DEF TypeOK
<1> QED
  BY <1>1, <1>2 DEF Growing, Grown, Begun, Extended, Indices

LEMMA QuietGrowing ==
  ASSUME IInv, IInv', Growing, NEW c \in Clients, Quiet(c)
  PROVE  Growing'
<1>1. /\ LockInv' /\ Grown(c)
      /\ pc \in [Clients -> Critical \union Outside] /\ mem \in [Clients -> History]
      /\ hist \in History
  BY DEF IInv, TypeOK, Growing
<1>2. lock' \in {c, NoClient} /\ hist' = hist
  BY QuietMoves
<1>3. CASE Apply(c) \/ Undo(c) \/ Redo(c) \/ Goto(c)
  <2>1. pc'[c] \in {"snap0", "redo", "restore_drop"}
    BY <1>1, <1>3 DEF Apply, Undo, Redo, Goto, MoveTo, Step
  <2> QED
    BY <1>1, <1>2, <2>1, HolderGrows DEF Grown
<1>4. CASE SnapshotInitial(c)
  <2> DEFINE s == [id |-> 0, of |-> live]
  <2>1. pc[c] = "snap0" /\ pc'[c] = "compile" /\ mem'[c].entries = <<s>>
    BY <1>1, <1>4 DEF SnapshotInitial, Step
  <2>2. hist.entries = <<>> /\ Len(mem'[c].entries) = 1
    BY <2>1 DEF IInv, Holding, Beginning
  <2> QED
    BY <1>1, <1>2, <2>1, <2>2, HolderGrows DEF Grown, Begun
<1>5. CASE DropRedoSnapshot(c)
  <2>1. pc'[c] = "redo"
    BY <1>5 DEF DropRedoSnapshot
  <2> QED
    BY <1>1, <1>2, <2>1, HolderGrows DEF Grown
<1>6. CASE DropRedoDone(c)
  <2> DEFINE g == [hist EXCEPT !.entries = SubSeq(@, 1, hist.current + 1)]
  <2>1. /\ pc'[c] = "compile" /\ mem'[c] = g /\ hist.entries # <<>>
    BY <1>1, <1>6 DEF DropRedoDone, Step, IInv, Holding, Beginning
  <2>2. hist.current \in 0 .. Len(hist.entries) - 1
    BY <1>1, <2>1 DEF IInv, HistoryWellFormed, History
  <2> HIDE DEF g
  <2>3. /\ g \in History
        /\ AtEnd(g)
        /\ g.next_id = hist.next_id
        /\ Len(g.entries) = hist.current + 1
        /\ Indices(g) \subseteq Indices(hist)
        /\ \A i \in Indices(g) : g.entries[i] = hist.entries[i]
    <3>1. hist \in History /\ hist.entries # <<>>
      BY <1>1, <2>1
    <3> QED
      BY <2>2, <3>1, TruncatedHistory DEF g
  <2>4. Grown(c)'
    BY <1>2, <2>1, <2>3 DEF Grown, Begun, Indices
  <2> QED
    BY <1>1, <1>2, <2>4, HolderGrows
<1>7. CASE Compile(c) \/ CreateTmp(c) \/ DropLive(c) \/ RenameTmp(c)
  <2>1. /\ pc[c] \in {"compile", "create", "drop", "rename"}
        /\ pc'[c] \in {"create", "drop", "rename", "snap"}
        /\ mem'[c].entries = mem[c].entries
    <3>1. CASE Compile(c)
      BY <1>1, <3>1 DEF Compile, Step, History
    <3>2. CASE CreateTmp(c) \/ DropLive(c) \/ RenameTmp(c)
      BY <1>1, <3>2 DEF CreateTmp, DropLive, RenameTmp, Step
    <3> QED
      BY <1>7, <3>1, <3>2
  <2>2. Grown(c)'
    BY <1>1, <1>2, <2>1 DEF Grown, Begun, Indices
  <2> QED
    BY <1>1, <1>2, <2>2, HolderGrows
<1>8. CASE Snapshot(c)
  <2> DEFINE s == [id |-> mem[c].next_id - 1, of |-> live]
             h == mem[c]
             g == mem'[c]
  <2>1. /\ pc[c] = "snap" /\ pc'[c] = "cap" /\ Begun(h)
        /\ g = [h EXCEPT !.entries = Append(@, s), !.current = Len(h.entries)]
    BY <1>1, <1>8 DEF Snapshot, Step, Grown
  <2>2. g.entries = Append(h.entries, s) /\ h.entries \in Seq(Entry)
    BY <1>1, <2>1 DEF History
  <2> HIDE DEF s, h, g
  <2>3. /\ Len(h.entries) \in Nat /\ Len(g.entries) = Len(h.entries) + 1
        /\ \A i \in 1 .. Len(h.entries) : g.entries[i] = h.entries[i]
    BY <2>2
  <2>4. hist.current \in Int
    BY <1>1 DEF History
  <2>5. Extended(g)
    <3>1. CASE hist.entries = <<>>
      <4>1. Len(h.entries) = 1
        BY <2>1, <3>1 DEF Begun
      <4>2. Len(g.entries) = 2
        BY <2>3, <4>1
      <4> QED
        BY <3>1, <4>2 DEF Extended
    <3>2. CASE hist.entries # <<>>
      <4>1. /\ Len(h.entries) = hist.current + 1
            /\ \A i \in 1 .. Len(h.entries) : h.entries[i] = hist.entries[i]
        BY <2>1, <3>2 DEF Begun, Indices
      <4>2. Len(g.entries) = hist.current + 2
        BY <2>3, <2>4, <4>1
      <4>3. \A i \in 1 .. hist.current + 1 : g.entries[i] = hist.entries[i]
        BY <2>3, <4>1
      <4> QED
        BY <3>2, <4>2, <4>3 DEF Extended
    <3> QED
      BY <3>1, <3>2
  <2>6. Grown(c)'
    BY <1>2, <2>1, <2>5 DEF Grown, Extended, g
  <2> QED
    BY <1>1, <1>2, <2>6, HolderGrows
<1>9. CASE LostTable(c) \/ CompileError(c) \/ CreateTmpError(c) \/ RestoreError(c)
  <2>1. pc'[c] = "idle"
    BY <1>1, <1>9 DEF LostTable, CompileError, CreateTmpError, RestoreError, Fail
  <2> QED
    BY <1>1, <1>2, <2>1, HolderGrows DEF Grown
<1>10. CASE EnforceCap(c)
  <2> DEFINE h == mem[c]
             g == mem'[c]
  <2>1. /\ pc[c] = "cap" /\ pc'[c] = "cap" /\ h \in History
        /\ Len(h.entries) > Cap
        /\ g = [h EXCEPT !.entries = Tail(@), !.current = @ - 1]
        /\ AtEnd(h) /\ hist.entries # <<>> /\ Extended(h)
    BY <1>1, <1>10 DEF EnforceCap, IInv, Holding, Capping, Grown
  <2> HIDE DEF h, g
  <2>2. Len(h.entries) >= 2 /\ Len(h.entries) \in Nat /\ Len(hist.entries) \in Nat
    BY <1>1, <2>1, CapAssumption DEF History
  <2>3. /\ Len(g.entries) = Len(h.entries) - 1
        /\ \A i \in Indices(g) : i + 1 \in Indices(h) /\ g.entries[i] = h.entries[i + 1]
    BY <2>1, <2>2, ShortenedHistory
  <2>4. /\ Len(h.entries) = hist.current + 2
        /\ \A i \in 1 .. hist.current + 1 : h.entries[i] = hist.entries[i]
    BY <2>1, CapAssumption DEF Extended
  <2>5. hist.current + 1 = Cap
    <3>1. hist.current <= Len(hist.entries) - 1 /\ Len(hist.entries) <= Cap
          /\ hist.current \in Int
      BY <2>2 DEF IInv, HistoryWellFormed
    <3> QED
      BY <2>1, <2>2, <2>4, <3>1, CapAssumption
  <2>6. Len(g.entries) = Cap
    <3>1. hist.current \in Int
      BY <1>1 DEF History
    <3> QED
      BY <2>3, <2>4, <2>5, <3>1, CapAssumption
  <2>7. ASSUME NEW i \in 1 .. Cap - 1
        PROVE  g.entries[i] = hist.entries[i + 1]
    <3>1. i \in Indices(g) /\ i + 1 \in 1 .. hist.current + 1
      BY <2>5, <2>6, CapAssumption DEF Indices
    <3> QED
      BY <2>3, <2>4, <3>1
  <2>8. Grown(c)'
    BY <1>2, <2>1, <2>5, <2>6, <2>7 DEF Grown, Extended, g
  <2> QED
    BY <1>1, <1>2, <2>8, HolderGrows
<1>11. CASE RestoreDrop(c) \/ RestoreCopy(c)
  <2>1. pc'[c] \in {"restore_copy", "save"}
    BY <1>1, <1>11 DEF RestoreDrop, RestoreCopy, Step
  <2> QED
    BY <1>1, <1>2, <2>1, HolderGrows DEF Grown
<1> QED
  BY <1>3, <1>4, <1>5, <1>6, <1>7, <1>8, <1>9, <1>10, <1>11 DEF Quiet

LEMMA NextGrowing ==
  ASSUME IInv, IInv', Growing, [Next]_vars
  PROVE  Growing'
<1>1. LockInv /\ LockInv' /\ TypeOK
  BY DEF IInv
<1>2. CASE UNCHANGED vars
  BY <1>2 DEF vars, Growing, Grown, Begun, Extended, Indices
<1>3. ASSUME NEW c \in Clients, pc'[c] \in {"idle", "bump", "refresh"}, lock' \in {c, NoClient}
      PROVE  Growing'
  BY <1>1, <1>3, HolderGrows DEF Grown
<1>4. ASSUME NEW c \in Clients, Save(c)
      PROVE  Growing'
  <2>1. pc[c] \in Critical /\ pc'[c] = "bump" /\ lock' = lock
    BY <1>1, <1>4 DEF Save, Step, TypeOK
  <2> QED
    BY <1>1, <1>3, <2>1, HoldsLock
<1>5. ASSUME NEW c \in Clients, Bump(c) \/ StatementError(c)
      PROVE  Growing'
  <2>1. pc'[c] \in {"idle", "refresh"} /\ lock' = NoClient
    BY <1>1, <1>5 DEF Bump, StatementError, Step, Fail, Release, TypeOK
  <2> QED
    BY <1>3, <2>1
<1>6. CASE Crash
  BY <1>6 DEF Crash, Growing, Grown
<1> QED
  BY <1>2, <1>4, <1>5, <1>6, EveryStep, UnlockedGrowing, QuietGrowing

LEMMA StatesAreASequence ==
  ASSUME NEW h \in History
  PROVE  /\ StatesOf(h) \in Seq(Contents)
         /\ Len(StatesOf(h)) = Len(h.entries)
         /\ Len(h.entries) \in Nat
         /\ \A i \in Indices(h) : StatesOf(h)[i] = h.entries[i].of
<1> DEFINE n == Len(h.entries)
<1>1. n \in Nat
  BY DEF History
<1>2. \A i \in 1 .. n : h.entries[i].of \in Contents
  BY EntryNumbers DEF Entry, Indices
<1>3. StatesOf(h) \in [1 .. n -> Contents]
  BY <1>2 DEF StatesOf, Indices
<1> HIDE DEF n
<1>4. StatesOf(h) \in Seq(Contents)
  BY <1>1, <1>3, SeqDef
<1>5. DOMAIN StatesOf(h) = 1 .. Len(StatesOf(h)) /\ Len(StatesOf(h)) \in Nat
  BY <1>4, LenProperties
<1>6. DOMAIN StatesOf(h) = 1 .. n
  BY <1>3
<1>7. Len(StatesOf(h)) = n
  <2> DEFINE m == Len(StatesOf(h))
  <2>1. m \in Nat /\ \A i : i \in 1 .. m <=> i \in 1 .. n
    BY <1>5, <1>6
  <2> HIDE DEF m
  <2>2. m <= n
    <3>1. m = 0 \/ m \in 1 .. n
      BY <2>1
    <3> QED
      BY <1>1, <3>1
  <2>3. n <= m
    <3>1. n = 0 \/ n \in 1 .. m
      BY <1>1, <2>1
    <3> QED
      BY <2>1, <3>1
  <2>4. m = n
    BY <1>1, <2>1, <2>2, <2>3
  <2> QED
    BY <2>4 DEF m
<1> QED
  BY <1>1, <1>4, <1>7 DEF StatesOf, n

(* A new state goes to the end of what is kept, and the oldest goes when   *)
(* there are too many: this is what UndoHistory's Do says.                 *)
LEMMA ExtendedIsKept ==
  ASSUME NEW old \in Seq(Contents), NEW new \in Seq(Contents),
         NEW cur \in 0 .. Len(old) - 1, Len(new) >= 1,
         \/ /\ Len(new) = cur + 2 /\ cur + 2 <= Cap
            /\ \A i \in 1 .. cur + 1 : new[i] = old[i]
         \/ /\ Len(new) = Cap /\ cur + 1 = Cap
            /\ \A i \in 1 .. Cap - 1 : new[i] = old[i + 1]
  PROVE  new = List!KeepLast(Append(SubSeq(old, 1, cur + 1), new[Len(new)]))
<1> DEFINE last == new[Len(new)]
           kept == SubSeq(old, 1, cur + 1)
           all == Append(kept, last)
           from == IF Len(all) > Cap THEN Len(all) - Cap + 1 ELSE 1
           right == SubSeq(all, from, Len(all))
<1>1. Len(old) \in Nat /\ Len(new) \in Nat /\ cur \in Nat /\ cur + 1 \in 1 .. Len(old)
      /\ Cap \in Nat
  BY CapAssumption
<1>2. \A i \in 1 .. cur + 1 : old[i] \in Contents
  BY <1>1, ElementOfSeq
<1>3. /\ kept \in Seq(Contents) /\ Len(kept) = cur + 1
      /\ \A i \in 1 .. cur + 1 : kept[i] = old[i]
  <2>1. /\ SubSeq(old, 1, cur + 1) \in Seq(Contents)
        /\ Len(SubSeq(old, 1, cur + 1)) = IF 1 <= cur + 1 THEN (cur + 1) - 1 + 1 ELSE 0
        /\ \A i \in 1 .. (cur + 1) - 1 + 1 : SubSeq(old, 1, cur + 1)[i] = old[1 + i - 1]
    BY <1>1, <1>2, SubSeqProperties
  <2> QED
    BY <1>1, <2>1
<1>4. last \in Contents
  BY <1>1, ElementOfSeq
<1> HIDE DEF kept, last
<1>5. /\ all \in Seq(Contents) /\ Len(all) = cur + 2
      /\ \A i \in 1 .. cur + 1 : all[i] = old[i]
      /\ all[cur + 2] = last
  BY <1>1, <1>3, <1>4, AppendProperties
<1> HIDE DEF all
<1>6. from \in Nat /\ from >= 1 /\ from <= cur + 2
  BY <1>1, <1>5, CapAssumption
<1>7. \A i \in from .. Len(all) : all[i] \in Contents
  BY <1>1, <1>5, <1>6, ElementOfSeq
<1> DEFINE k == from
<1> HIDE DEF k
<1>8. /\ right \in Seq(Contents)
      /\ Len(right) = cur + 2 - k + 1
      /\ \A i \in 1 .. cur + 2 - k + 1 : right[i] = all[k + i - 1]
  <2>1. k \in Nat /\ k <= cur + 2 /\ Len(all) \in Int /\ \A i \in k .. Len(all) : all[i] \in Contents
    BY <1>1, <1>5, <1>6, <1>7 DEF k
  <2>2. /\ SubSeq(all, k, Len(all)) \in Seq(Contents)
        /\ Len(SubSeq(all, k, Len(all)))
             = IF k <= Len(all) THEN Len(all) - k + 1 ELSE 0
        /\ \A i \in 1 .. Len(all) - k + 1 : SubSeq(all, k, Len(all))[i] = all[k + i - 1]
    BY <2>1, SubSeqProperties
  <2>3. right = SubSeq(all, k, Len(all))
    BY DEF k
  <2> QED
    BY <1>1, <1>5, <2>1, <2>2, <2>3
<1> HIDE DEF right
<1>9. Len(new) = Len(right) /\ \A i \in 1 .. Len(new) : new[i] = right[i]
  <2>1. CASE /\ Len(new) = cur + 2 /\ cur + 2 <= Cap
             /\ \A i \in 1 .. cur + 1 : new[i] = old[i]
    <3>1. k = 1
      BY <1>1, <1>5, <2>1 DEF k
    <3>2. Len(new) = Len(right)
      BY <1>1, <1>8, <2>1, <3>1
    <3>3. ASSUME NEW i \in 1 .. cur + 2
          PROVE  new[i] = right[i]
      <4>1. right[i] = all[i]
        BY <1>1, <1>8, <3>1
      <4>2. CASE i = cur + 2
        BY <1>5, <2>1, <4>1, <4>2 DEF last
      <4>3. CASE i # cur + 2
        <5>1. i \in 1 .. cur + 1
          BY <1>1, <4>3
        <5> QED
          BY <1>5, <2>1, <4>1, <5>1
      <4> QED
        BY <4>2, <4>3
    <3> QED
      BY <2>1, <3>2, <3>3
  <2>2. CASE /\ Len(new) = Cap /\ cur + 1 = Cap
             /\ \A i \in 1 .. Cap - 1 : new[i] = old[i + 1]
    <3>1. k = 2
      BY <1>1, <1>5, <2>2 DEF k
    <3>2. Len(new) = Len(right)
      BY <1>1, <1>8, <2>2, <3>1
    <3>3. ASSUME NEW i \in 1 .. Cap
          PROVE  new[i] = right[i]
      <4>1. right[i] = all[i + 1]
        <5>1. i \in 1 .. cur + 2 - k + 1 /\ k + i - 1 = i + 1
          BY <1>1, <2>2, <3>1
        <5> QED
          BY <1>8, <5>1
      <4>2. CASE i = Cap
        <5>1. i + 1 = cur + 2 /\ i = Len(new)
          BY <1>1, <2>2, <4>2
        <5> QED
          BY <1>5, <4>1, <5>1 DEF last
      <4>3. CASE i # Cap
        <5>1. i \in 1 .. Cap - 1 /\ i + 1 \in 1 .. cur + 1
          BY <1>1, <2>2, <4>3
        <5> QED
          BY <1>5, <2>2, <4>1, <5>1
      <4> QED
        BY <4>2, <4>3
    <3> QED
      BY <2>2, <3>2, <3>3
  <2> QED
    BY <2>1, <2>2
<1>10. new = right
  BY <1>8, <1>9, SeqEqual
<1> QED
  BY <1>10 DEF right, all, kept, last, List!KeepLast

LEMMA SaveImplements ==
  ASSUME IInv, IInv', Growing, NEW c \in Clients, Save(c)
  PROVE  List!Next
<1> DEFINE h == mem[c]
           old == StatesOf(hist)
           new == StatesOf(h)
<1>1. /\ pc[c] \in {"cap", "save"}
      /\ pc[c] = "cap" => Len(h.entries) <= Cap
      /\ hist' = h /\ h \in History /\ hist \in History
      /\ hist.current \in Int /\ h.current \in Int
  BY DEF Save, Step, IInv, TypeOK, History
<1>2. /\ old \in Seq(Contents) /\ Len(old) = Len(hist.entries)
      /\ Len(hist.entries) \in Nat
      /\ \A i \in Indices(hist) : old[i] = hist.entries[i].of
  BY <1>1, StatesAreASequence
<1>3. /\ new \in Seq(Contents) /\ Len(new) = Len(h.entries)
      /\ Len(h.entries) \in Nat
      /\ \A i \in Indices(h) : new[i] = h.entries[i].of
  BY <1>1, StatesAreASequence
<1>4. old = [i \in Indices(hist) |-> hist.entries[i].of]
  BY DEF StatesOf
<1>5. new = [i \in Indices(hist) |-> hist.entries[i].of]'
  BY <1>1 DEF StatesOf, Indices
<1>6. CASE pc[c] = "save"
  <2>1. /\ h.entries = hist.entries /\ h.current \in 0 .. Len(hist.entries) - 1
    BY <1>6 DEF IInv, Holding, Moving
  <2>2. new = old
    BY <2>1 DEF StatesOf, Indices
  <2>3. List!Move(h.current)
    BY <1>1, <1>2, <1>4, <1>5, <2>1, <2>2 DEF List!Move
  <2> QED
    BY <1>2, <1>4, <2>1, <2>3 DEF List!Next
<1>7. CASE pc[c] = "cap"
  <2>1. /\ h.entries # <<>> /\ h.current = Len(h.entries) - 1
        /\ Len(h.entries) <= Cap /\ Extended(h)
    BY <1>1, <1>7 DEF IInv, Holding, Capping, AtEnd, Growing, Grown
  <2>2. CASE hist.entries = <<>>
    <3>1. Len(new) = 2 /\ h.current = 1
      BY <1>3, <2>1, <2>2 DEF Extended
    <3>2. new[1] \in Contents /\ new[2] \in Contents /\ new = <<new[1], new[2]>>
      <4> HIDE DEF new
      <4>1. new[1] \in Contents /\ new[2] \in Contents
        BY <1>3, <3>1, ElementOfSeq
      <4>2. <<new[1], new[2]>> \in Seq(Contents) /\ Len(<<new[1], new[2]>>) = 2
        BY <4>1
      <4>3. \A i \in 1 .. 2 : new[i] = <<new[1], new[2]>>[i]
        OBVIOUS
      <4> QED
        BY <1>3, <3>1, <4>1, <4>2, <4>3, SeqEqual
    <3>3. old = <<>>
      <4>1. Len(old) = 0
        BY <1>2, <2>2
      <4> HIDE DEF old
      <4> QED
        BY <1>2, <4>1, EmptySeq
    <3>4. PICK was, becomes \in Contents : new = <<was, becomes>>
      BY <3>2
    <3>5. List!First(was, becomes)
      BY <1>1, <1>4, <1>5, <3>1, <3>3, <3>4 DEF List!First
    <3> QED
      BY <3>5 DEF List!Next
  <2>3. CASE hist.entries # <<>>
    <3>1. /\ hist.current \in 0 .. Len(old) - 1 /\ old # <<>> /\ Len(new) >= 1
      <4>1. hist.current \in -1 .. Len(hist.entries) - 1 /\ hist.current # -1
        BY <2>3 DEF IInv, HistoryWellFormed
      <4>2. hist.current \in 0 .. Len(old) - 1
        BY <1>1, <1>2, <4>1
      <4>3. Len(old) # 0
        BY <1>2, <4>2
      <4>4. old # <<>>
        <5> HIDE DEF old
        <5> QED
          BY <4>3
      <4>5. Len(h.entries) # 0
        BY <1>1, <2>1, EmptySeq DEF History
      <4> QED
        BY <1>3, <4>2, <4>4, <4>5
    <3>2. \/ /\ Len(new) = hist.current + 2 /\ hist.current + 2 <= Cap
             /\ \A i \in 1 .. hist.current + 1 : new[i] = old[i]
          \/ /\ Len(new) = Cap /\ hist.current + 1 = Cap
             /\ \A i \in 1 .. Cap - 1 : new[i] = old[i + 1]
      <4>1. CASE /\ Len(h.entries) = hist.current + 2
                 /\ \A i \in 1 .. hist.current + 1 : h.entries[i] = hist.entries[i]
        <5>1. Len(new) = hist.current + 2 /\ hist.current + 2 <= Cap
          BY <1>3, <2>1, <4>1
        <5>2. ASSUME NEW i \in 1 .. hist.current + 1
              PROVE  new[i] = old[i]
          <6>1. i \in Indices(h) /\ i \in Indices(hist)
            BY <1>1, <1>2, <3>1, <4>1 DEF Indices
          <6> QED
            BY <1>2, <1>3, <4>1, <6>1
        <5> QED
          BY <5>1, <5>2
      <4>2. CASE /\ Len(h.entries) = Cap /\ hist.current + 1 = Cap
                 /\ \A i \in 1 .. Cap - 1 : h.entries[i] = hist.entries[i + 1]
        <5>1. Len(new) = Cap
          BY <1>3, <4>2
        <5>2. ASSUME NEW i \in 1 .. Cap - 1
              PROVE  new[i] = old[i + 1]
          <6>1. i \in Indices(h) /\ i + 1 \in Indices(hist)
            BY <1>1, <1>2, <3>1, <4>2, CapAssumption DEF Indices
          <6> QED
            BY <1>2, <1>3, <4>2, <6>1
        <5> QED
          BY <4>2, <5>1, <5>2
      <4> QED
        BY <2>1, <2>3, <4>1, <4>2 DEF Extended
    <3>3. new = List!KeepLast(Append(SubSeq(old, 1, hist.current + 1), new[Len(new)]))
      <4> HIDE DEF old, new
      <4> QED
        BY <1>2, <1>3, <3>1, <3>2, ExtendedIsKept
    <3>4. new[Len(new)] \in Contents
      <4> HIDE DEF new
      <4> QED
        BY <1>3, <3>1, ElementOfSeq
    <3>5. PICK becomes \in Contents : becomes = new[Len(new)]
      BY <3>4
    <3>6. List!Do(becomes)
      <4>1. h.current = Len(new) - 1
        BY <1>3, <2>1
      <4> HIDE DEF old, new
      <4> QED
        BY <1>1, <1>4, <1>5, <3>1, <3>3, <3>5, <4>1 DEF List!Do
    <3> QED
      BY <3>6 DEF List!Next
  <2> QED
    BY <2>2, <2>3
<1> QED
  BY <1>1, <1>6, <1>7

LEMMA NextImplements ==
  ASSUME IInv, IInv', Growing, [Next]_vars
  PROVE  [List!Next]_(List!vars)
<1>1. ASSUME hist' = hist
      PROVE  UNCHANGED List!vars
  BY <1>1 DEF List!vars, Indices
<1>2. CASE UNCHANGED vars
  BY <1>1, <1>2 DEF vars
<1>3. ASSUME NEW c \in Clients, Unlocked(c) \/ HandlerError(c)
      PROVE  hist' = hist
  BY <1>3, UnlockedMoves
<1>4. ASSUME NEW c \in Clients, Quiet(c)
      PROVE  hist' = hist
  BY <1>4, QuietMoves
<1>5. ASSUME NEW c \in Clients, Bump(c) \/ StatementError(c)
      PROVE  hist' = hist
  BY <1>5 DEF Bump, StatementError, redis
<1>6. CASE Crash
  BY <1>1, <1>6 DEF Crash, redis
<1> QED
  BY <1>1, <1>2, <1>3, <1>4, <1>5, <1>6, EveryStep, SaveImplements

(* The history in Redis is a linear undo list with at most Cap states,     *)
(* whatever the interleaving of requests, deletes, uploads and faults:     *)
(* Transform implements UndoHistory.                                       *)
THEOREM HistoryIsAnUndoList == Spec => ImplementsUndoHistory
<1>1. Init => List!Init
  <2> SUFFICES ASSUME Init PROVE List!Init
    OBVIOUS
  <2>1. hist = NoHistory /\ hist \in History
    BY DEF Init, NoHistory, History
  <2>2. Len(StatesOf(hist)) = 0 /\ StatesOf(hist) \in Seq(Contents)
    BY <2>1, StatesAreASequence DEF NoHistory
  <2>3. StatesOf(hist) = <<>>
    BY <2>2, EmptySeq
  <2> QED
    BY <2>1, <2>3 DEF List!Init, StatesOf, NoHistory
<1>2. Init => Growing
  BY DEF Init, Growing, Grown
<1>3. IInv /\ IInv' /\ Growing /\ [Next]_vars => Growing'
  BY NextGrowing
<1>4. IInv /\ IInv' /\ Growing /\ [Next]_vars => [List!Next]_(List!vars)
  BY NextImplements
<1> QED
  BY <1>1, <1>2, <1>3, <1>4, Invariance, PTL DEF Spec, ImplementsUndoHistory, List!Spec

=============================================================================
