--------------------------- MODULE TransformProofs ---------------------------
(***************************************************************************)
(* Proofs about Transform, for every set of requests and contents, every   *)
(* cap of at least 2 and every bound.                                      *)
(***************************************************************************)
EXTENDS Transform, TLAPS

(* The lock is held exactly by the request that is in a critical section.  *)
LockInv ==
  \A c \in Clients : pc[c] \in Critical <=> lock = c

(* What is known of a history, in Redis or in the memory of a request.     *)
Ordered(h) ==
  \A i, j \in Indices(h) : i < j => h.entries[i].id < h.entries[j].id

Numbered(h, n) == \A i \in Indices(h) : h.entries[i].id < n

Faithful(h) ==
  \A i \in Indices(h) : \A s \in snaps :
    s.id = h.entries[i].id => s = h.entries[i]

AtEnd(h) == h.entries # <<>> /\ h.current = Len(h.entries) - 1

(* The first entry that apply has in memory, and how many there are: those *)
(* up to the saved position, or the fresh state 0.                         *)
Kept(h) ==
  /\ hist.entries = <<>> => Len(h.entries) = 1
  /\ hist.entries # <<>> =>
       Len(h.entries) = hist.current + 1 /\ h.entries[1] = hist.entries[1]

Beginning(c) ==
  pc[c] \in {"snap0", "redo"} =>
    /\ mem[c] = hist
    /\ pc[c] = "snap0" <=> hist.entries = <<>>

Compiling(c) ==
  pc[c] = "compile" =>
    /\ AtEnd(mem[c]) /\ Ordered(mem[c]) /\ Faithful(mem[c]) /\ Kept(mem[c])
    /\ Numbered(mem[c], mem[c].next_id)
    /\ mem[c].next_id >= hist.next_id

Swapping(c) ==
  pc[c] \in {"create", "drop", "rename", "snap"} =>
    /\ AtEnd(mem[c]) /\ Ordered(mem[c]) /\ Faithful(mem[c]) /\ Kept(mem[c])
    /\ Numbered(mem[c], mem[c].next_id - 1)
    /\ mem[c].next_id > hist.next_id

Capping(c) ==
  pc[c] = "cap" =>
    /\ AtEnd(mem[c]) /\ Ordered(mem[c]) /\ Faithful(mem[c])
    /\ Numbered(mem[c], mem[c].next_id)
    /\ Current(mem[c]) \in snaps
    /\ Len(mem[c].entries) > Cap =>
         /\ hist.entries # <<>>
         /\ Len(mem[c].entries) = hist.current + 2
         /\ mem[c].entries[1] = hist.entries[1]

Moving(c) ==
  pc[c] \in MoveSteps =>
    /\ mem[c].entries = hist.entries
    /\ mem[c].next_id = hist.next_id
    /\ mem[c].current \in 0 .. Len(hist.entries) - 1
    /\ pc[c] = "save" => Current(mem[c]) \in snaps

(* What each request knows while it holds the lock.                        *)
Holding ==
  \A c \in Clients :
    Beginning(c) /\ Compiling(c) /\ Swapping(c) /\ Capping(c) /\ Moving(c)

(* The first transform of a table starts from nothing.                     *)
Fresh == hist.entries = <<>> => hist = NoHistory

(* The inductive invariant.                                                *)
IInv ==
  /\ TypeOK
  /\ LockInv
  /\ HistoryWellFormed
  /\ SnapshotsFaithful
  /\ CurrentHasCopy
  /\ Fresh
  /\ Holding

-----------------------------------------------------------------------------
USE DEF Critical, Outside, ApplySteps, MoveSteps

LEMMA InitIInv == Init => IInv
<1> USE DEF Init, NoHistory
<1> SUFFICES ASSUME Init PROVE IInv
  OBVIOUS
<1>1. TypeOK
  BY DEF TypeOK, History, Entry
<1>2. LockInv
  BY ClientAssumption DEF LockInv
<1>3. HistoryWellFormed /\ SnapshotsFaithful /\ CurrentHasCopy
  BY CapAssumption DEF HistoryWellFormed, SnapshotsFaithful, CurrentHasCopy, Indices
<1>4. Holding
  BY DEF Holding, Beginning, Compiling, Swapping, Capping, Moving
<1> QED
  BY <1>1, <1>2, <1>3, <1>4 DEF IInv, Fresh

(***************************************************************************)
(* The lock.                                                               *)
(***************************************************************************)

(* A step of c that takes, keeps or gives back the lock.                   *)
LEMMA LockStep ==
  ASSUME TypeOK, LockInv,
         NEW c \in Clients, NEW to \in Critical \union Outside,
         pc' = [pc EXCEPT ![c] = to],
         lock \in {c, NoClient}, lock' \in {c, NoClient},
         to \in Critical <=> lock' = c
  PROVE  LockInv'
<1> SUFFICES ASSUME NEW d \in Clients PROVE pc'[d] \in Critical <=> lock' = d
  BY DEF LockInv
<1>1. CASE d = c
  BY <1>1 DEF TypeOK
<1>2. CASE d # c
  <2>1. pc'[d] = pc[d] /\ pc[d] \notin Critical
    BY <1>2, ClientAssumption DEF TypeOK, LockInv
  <2> QED
    BY <1>2, <2>1, ClientAssumption
<1> QED
  BY <1>1, <1>2

(* A request that stays outside the lock leaves it to its holder.          *)
LEMMA OutsideStep ==
  ASSUME TypeOK, LockInv,
         NEW c \in Clients, NEW to \in Outside,
         pc' = [pc EXCEPT ![c] = to], pc[c] \in Outside,
         lock' = lock
  PROVE  LockInv'
BY DEF TypeOK, LockInv

(* Only the holder can be in the middle of something.                      *)
LEMMA HolderOnly ==
  ASSUME NEW c \in Clients,
         LockInv', lock' \in {c, NoClient},
         Beginning(c)', Compiling(c)', Swapping(c)', Capping(c)', Moving(c)'
  PROVE  Holding'
<1> SUFFICES ASSUME NEW d \in Clients
             PROVE  (Beginning(d) /\ Compiling(d) /\ Swapping(d)
                       /\ Capping(d) /\ Moving(d))'
  BY DEF Holding
<1>1. CASE d = c
  BY <1>1
<1>2. CASE d # c
  <2>1. pc'[d] \notin Critical
    BY <1>2, ClientAssumption DEF LockInv
  <2> QED
    BY <2>1 DEF Beginning, Compiling, Swapping, Capping, Moving
<1> QED
  BY <1>1, <1>2

(***************************************************************************)
(* Histories.                                                              *)
(***************************************************************************)

LEMMA MovedHistory ==
  ASSUME NEW h \in History, NEW k \in Nat
  PROVE  /\ [h EXCEPT !.current = k] \in History
         /\ [h EXCEPT !.current = k].entries = h.entries
         /\ [h EXCEPT !.current = k].current = k
         /\ [h EXCEPT !.current = k].next_id = h.next_id
BY DEF History

LEMMA EntryNumbers ==
  ASSUME NEW h \in History, NEW i \in Indices(h)
  PROVE  h.entries[i] \in Entry /\ h.entries[i].id \in Nat
<1>1. h.entries \in Seq(Entry) /\ i \in 1 .. Len(h.entries)
  BY DEF History, Indices
<1>2. h.entries[i] \in Entry
  BY <1>1
<1> QED
  BY <1>2 DEF Entry

LEMMA AppendedEntries ==
  ASSUME NEW h \in History, NEW s \in Entry
  PROVE  Append(h.entries, s) \in Seq(Entry) /\ Len(h.entries) \in Nat
<1>1. h.entries \in Seq(Entry)
  BY DEF History
<1> QED
  BY <1>1

(* What appending a numbered state to a history does.                      *)
LEMMA AppendedHistory ==
  ASSUME NEW h \in History, NEW s \in Entry, NEW g \in History,
         g.entries = Append(h.entries, s),
         g.current = Len(h.entries)
  PROVE  /\ AtEnd(g)
         /\ Len(g.entries) = Len(h.entries) + 1
         /\ \A i \in Indices(h) : g.entries[i] = h.entries[i]
         /\ Current(g) = s
         /\ g.entries[Len(g.entries)] = s
<1>1. h.entries \in Seq(Entry)
  BY DEF History
<1>2. /\ Len(g.entries) = Len(h.entries) + 1
      /\ \A i \in 1 .. Len(h.entries) : g.entries[i] = h.entries[i]
      /\ g.entries[Len(h.entries) + 1] = s
      /\ Len(h.entries) \in Nat
  BY <1>1
<1>3. AtEnd(g)
  <2>1. g.entries # <<>>
    BY <1>1
  <2>2. g.current = Len(g.entries) - 1
    BY <1>2
  <2> QED
    BY <2>1, <2>2 DEF AtEnd
<1> QED
  BY <1>2, <1>3 DEF Indices, Current

LEMMA TruncatedHistory ==
  ASSUME NEW h \in History, h.entries # <<>>,
         h.current \in 0 .. Len(h.entries) - 1,
         NEW g, g = [h EXCEPT !.entries = SubSeq(@, 1, h.current + 1)]
  PROVE  /\ g \in History
         /\ AtEnd(g)
         /\ g.next_id = h.next_id
         /\ Len(g.entries) = h.current + 1
         /\ Indices(g) \subseteq Indices(h)
         /\ \A i \in Indices(g) : g.entries[i] = h.entries[i]
<1>1. h.entries \in Seq(Entry) /\ Len(h.entries) \in Nat
  BY DEF History
<1>2. /\ g.entries = SubSeq(h.entries, 1, h.current + 1)
      /\ g.current = h.current
      /\ g.next_id = h.next_id
  BY DEF History
<1>3. h.current + 1 \in 1 .. Len(h.entries)
  BY <1>1
<1>4. /\ g.entries \in Seq(Entry)
      /\ Len(g.entries) = h.current + 1
      /\ \A i \in 1 .. h.current + 1 : g.entries[i] = h.entries[i]
  BY <1>1, <1>2, <1>3
<1>5. g \in History
  BY <1>4 DEF History
<1>6. AtEnd(g)
  BY <1>2, <1>3, <1>4 DEF AtEnd
<1> QED
  BY <1>1, <1>2, <1>3, <1>4, <1>5, <1>6 DEF Indices

(* What forgetting the oldest entry does.                                  *)
LEMMA ShortenedHistory ==
  ASSUME NEW h \in History, AtEnd(h), Len(h.entries) >= 2,
         NEW g, g = [h EXCEPT !.entries = Tail(@), !.current = @ - 1]
  PROVE  /\ g \in History
         /\ AtEnd(g)
         /\ g.next_id = h.next_id
         /\ Len(g.entries) = Len(h.entries) - 1
         /\ \A i \in Indices(g) :
              i + 1 \in Indices(h) /\ g.entries[i] = h.entries[i + 1]
         /\ Current(g) = Current(h)
<1>1. h.entries \in Seq(Entry) /\ Len(h.entries) \in Nat
  BY DEF History
<1>2. /\ g.entries = Tail(h.entries)
      /\ g.current = Len(h.entries) - 2
      /\ g.next_id = h.next_id
  BY DEF History, AtEnd
<1>3. /\ g.entries \in Seq(Entry)
      /\ Len(g.entries) = Len(h.entries) - 1
      /\ \A i \in 1 .. Len(h.entries) - 1 : g.entries[i] = h.entries[i + 1]
  BY <1>1, <1>2
<1>4. g \in History
  <2>1. g.current \in Nat
    BY <1>1, <1>2
  <2> QED
    BY <1>3, <2>1 DEF History
<1>5. AtEnd(g)
  <2>1. g.entries # <<>>
    <3> DEFINE n == Len(g.entries)
               m == Len(h.entries)
    <3>1. n = m - 1 /\ m \in Nat /\ m >= 2
      BY <1>1, <1>3
    <3> HIDE DEF n, m
    <3>2. n # 0
      BY <3>1
    <3> QED
      BY <3>2 DEF n
  <2>2. g.current = Len(g.entries) - 1
    BY <1>1, <1>2, <1>3
  <2> QED
    BY <2>1, <2>2 DEF AtEnd
<1>6. Current(g) = Current(h)
  BY <1>1, <1>2, <1>3 DEF AtEnd, Current
<1> QED
  BY <1>1, <1>2, <1>3, <1>4, <1>5, <1>6 DEF Indices

(***************************************************************************)
(* How the invariant follows from its parts.                               *)
(***************************************************************************)

(* A step that touches neither a history nor a snapshot and that takes no  *)
(* request into, or further inside, the critical section.                  *)
LEMMA BystanderStep ==
  ASSUME IInv, TypeOK', LockInv',
         UNCHANGED <<hist, snaps, mem>>,
         \A d \in Clients : pc'[d] \in Critical => pc'[d] = pc[d]
  PROVE  IInv'
<1>1. HistoryWellFormed' /\ SnapshotsFaithful' /\ CurrentHasCopy' /\ Fresh'
  BY DEF IInv, HistoryWellFormed, SnapshotsFaithful, CurrentHasCopy, Fresh,
         Indices, Current
<1>2. ASSUME NEW d \in Clients
      PROVE  (Beginning(d) /\ Compiling(d) /\ Swapping(d)
                /\ Capping(d) /\ Moving(d))'
  <2>1. Beginning(d) /\ Compiling(d) /\ Swapping(d) /\ Capping(d) /\ Moving(d)
    BY DEF IInv, Holding
  <2>2. /\ Ordered(mem[d]) => Ordered(mem[d])'
        /\ Faithful(mem[d]) => Faithful(mem[d])'
        /\ Kept(mem[d]) => Kept(mem[d])'
        /\ AtEnd(mem[d]) => AtEnd(mem[d])'
        /\ Numbered(mem[d], mem[d].next_id) => Numbered(mem[d], mem[d].next_id)'
        /\ Numbered(mem[d], mem[d].next_id - 1)
             => Numbered(mem[d], mem[d].next_id - 1)'
    BY DEF Ordered, Faithful, Kept, AtEnd, Numbered, Indices
  <2>3. pc'[d] \in Critical => pc'[d] = pc[d]
    OBVIOUS
  <2>4. Beginning(d)'
    BY <2>1, <2>3 DEF Beginning
  <2>5. Compiling(d)'
    BY <2>1, <2>2, <2>3 DEF Compiling
  <2>6. Swapping(d)'
    BY <2>1, <2>2, <2>3 DEF Swapping
  <2>7. Capping(d)'
    BY <2>1, <2>2, <2>3 DEF Capping, Current
  <2>8. Moving(d)'
    BY <2>1, <2>3 DEF Moving, Current
  <2> QED
    BY <2>4, <2>5, <2>6, <2>7, <2>8
<1> QED
  BY <1>1, <1>2 DEF IInv, Holding

(* When nobody holds the lock afterwards, nobody is in the middle of it.   *)
LEMMA ReleasingStep ==
  ASSUME TypeOK', LockInv', lock' = NoClient,
         HistoryWellFormed', SnapshotsFaithful', CurrentHasCopy', Fresh'
  PROVE  IInv'
<1>1. \A d \in Clients : pc'[d] \notin Critical
  BY ClientAssumption DEF LockInv
<1>2. Holding'
  BY <1>1 DEF Holding, Beginning, Compiling, Swapping, Capping, Moving
<1> QED
  BY <1>2 DEF IInv

(* Snapshots may go, except the one the saved history points at.           *)
LEMMA FewerSnapshots ==
  ASSUME IInv, hist' = hist, snaps' \subseteq snaps,
         hist.entries # <<>> => Current(hist) \in snaps'
  PROVE  HistoryWellFormed' /\ SnapshotsFaithful' /\ CurrentHasCopy' /\ Fresh'
BY DEF IInv, HistoryWellFormed, SnapshotsFaithful, CurrentHasCopy, Fresh, Indices,
       Current

(* A request gives up, having dropped no snapshot that matters.            *)
LEMMA FailStep ==
  ASSUME IInv, NEW c \in Clients, pc[c] \in Critical, Fail(c),
         TypeOK', hist' = hist, snaps' \subseteq snaps,
         hist.entries # <<>> => Current(hist) \in snaps'
  PROVE  IInv'
<1>1. LockInv'
  <2>1. lock = c
    BY DEF IInv, LockInv
  <2>2. pc' = [pc EXCEPT ![c] = "idle"] /\ lock' = NoClient
    BY DEF Fail, Release
  <2>3. "idle" \in Critical <=> lock' = c
    BY <2>2, ClientAssumption
  <2> QED
    BY <2>1, <2>2, <2>3, LockStep DEF IInv
<1> QED
  BY <1>1, FewerSnapshots, ReleasingStep DEF Fail, Release

-----------------------------------------------------------------------------
(* Steps outside the lock.                                                 *)

LEMMA OutsideSteps ==
  ASSUME IInv, NEW c \in Clients,
         \/ Request(c) \/ Refuse(c) \/ RefreshRead(c) \/ RefreshError(c) \/ RefreshWrite(c)
         \/ Delete(c) \/ DropTable(c) \/ Unlist(c)
         \/ Upload(c) \/ Ingest(c) \/ IngestError(c) \/ HandlerError(c)
  PROVE  IInv'
<1>1. PICK to \in Outside : pc' = [pc EXCEPT ![c] = to]
  <2>1. CASE Request(c)
    BY <2>1 DEF Request, Step
  <2>2. CASE \/ Refuse(c) \/ RefreshError(c) \/ RefreshWrite(c)
              \/ Unlist(c) \/ IngestError(c) \/ HandlerError(c)
    BY <2>2 DEF Refuse, RefreshError, RefreshWrite, Unlist, IngestError, HandlerError, Step
  <2>3. CASE RefreshRead(c)
    BY <2>3 DEF RefreshRead, Step
  <2>4. CASE Delete(c)
    BY <2>4 DEF Delete, Step
  <2>5. CASE DropTable(c)
    BY <2>5 DEF DropTable, Step
  <2>6. CASE Upload(c)
    BY <2>6 DEF Upload, Step
  <2>7. CASE Ingest(c)
    BY <2>7 DEF Ingest, Step
  <2> QED
    BY <2>1, <2>2, <2>3, <2>4, <2>5, <2>6, <2>7
<1>2. pc[c] \in Outside
  BY DEF Request, Refuse, RefreshRead, RefreshError, RefreshWrite, Delete, DropTable, Unlist,
         Upload, Ingest, IngestError, HandlerError, Step
<1>3. UNCHANGED <<hist, snaps, mem, lock, tmp, saves>>
  BY DEF Request, Refuse, RefreshRead, RefreshError, RefreshWrite, Delete, DropTable, Unlist,
         Upload, Ingest, IngestError, HandlerError, tables, redis, counters
<1>4. /\ live' \in Contents \union {NoTable}
      /\ version' = version
      /\ listed' \in BOOLEAN
      /\ deletes' \in Nat /\ faults' \in Nat
  <2>1. live \in Contents \union {NoTable} /\ listed \in BOOLEAN
        /\ deletes \in Nat /\ faults \in Nat
    BY DEF IInv, TypeOK
  <2>2. live' = live \/ live' \in Contents \union {NoTable}
    BY DEF Request, Refuse, RefreshRead, RefreshError, RefreshWrite, Delete, DropTable, Unlist,
           Upload, Ingest, IngestError, HandlerError, tables
  <2>3. version' = version
    BY DEF Request, Refuse, RefreshRead, RefreshError, RefreshWrite, Delete, DropTable, Unlist,
           Upload, Ingest, IngestError, HandlerError, redis
  <2>4. listed' = listed \/ listed' \in BOOLEAN
    BY DEF Request, Refuse, RefreshRead, RefreshError, RefreshWrite, Delete, DropTable, Unlist,
           Upload, Ingest, IngestError, HandlerError, redis
  <2>5. /\ deletes' = deletes \/ deletes' = deletes + 1
        /\ faults' = faults \/ faults' = faults + 1
    BY DEF Request, Refuse, RefreshRead, RefreshError, RefreshWrite, Delete, DropTable, Unlist,
           Upload, Ingest, IngestError, HandlerError, counters
  <2> QED
    BY <2>1, <2>2, <2>3, <2>4, <2>5
<1>5. TypeOK'
  BY <1>1, <1>3, <1>4 DEF IInv, TypeOK
<1>6. LockInv'
  BY <1>1, <1>2, <1>3, OutsideStep DEF IInv
<1>7. \A d \in Clients : pc'[d] \in Critical => pc'[d] = pc[d]
  BY <1>1 DEF IInv, TypeOK
<1> QED
  BY <1>3, <1>5, <1>6, <1>7, BystanderStep

LEMMA CrashStep ==
  ASSUME IInv, Crash
  PROVE  IInv'
<1> USE DEF Crash, tables, redis
<1>1. TypeOK'
  BY DEF IInv, TypeOK, NoHistory, History
<1>2. LockInv'
  BY ClientAssumption DEF LockInv
<1>3. HistoryWellFormed' /\ SnapshotsFaithful' /\ CurrentHasCopy' /\ Fresh'
  BY FewerSnapshots DEF IInv, CurrentHasCopy
<1> QED
  BY <1>1, <1>2, <1>3, ReleasingStep

-----------------------------------------------------------------------------
(* Steps under the lock.                                                   *)

(* The holder goes on without saving.                                      *)
LEMMA WithinStep ==
  ASSUME IInv, NEW c \in Clients, NEW to \in Critical,
         pc[c] \in Critical, pc' = [pc EXCEPT ![c] = to], lock' = lock,
         TypeOK', HistoryWellFormed', SnapshotsFaithful', CurrentHasCopy', Fresh',
         Beginning(c)', Compiling(c)', Swapping(c)', Capping(c)', Moving(c)'
  PROVE  IInv'
<1>1. lock = c
  BY DEF IInv, LockInv
<1>2. LockInv'
  <2>1. to \in Critical <=> lock' = c
    BY <1>1
  <2> QED
    BY <1>1, <2>1, LockStep DEF IInv
<1>3. Holding'
  BY <1>1, <1>2, HolderOnly
<1> QED
  BY <1>2, <1>3 DEF IInv

(* A request takes the free lock.                                          *)
LEMMA EnterStep ==
  ASSUME IInv, NEW c \in Clients, NEW to \in Critical, NEW h \in History,
         pc[c] \in Outside, pc' = [pc EXCEPT ![c] = to], Acquire(c, h),
         UNCHANGED <<tables, redis, counters>>,
         Beginning(c)', Moving(c)',
         to \in {"snap0", "redo", "restore_drop"}
  PROVE  IInv'
<1>1. lock = NoClient /\ lock' = c /\ mem' = [mem EXCEPT ![c] = h]
  BY DEF Acquire
<1>2. TypeOK'
  BY <1>1 DEF IInv, TypeOK, tables, redis, counters
<1>3. LockInv'
  <2>1. to \in Critical <=> lock' = c
    BY <1>1
  <2> QED
    BY <1>1, <2>1, LockStep DEF IInv
<1>4. HistoryWellFormed' /\ SnapshotsFaithful' /\ CurrentHasCopy' /\ Fresh'
  BY FewerSnapshots DEF IInv, CurrentHasCopy, tables, redis
<1>5. Compiling(c)' /\ Swapping(c)' /\ Capping(c)'
  <2>1. pc'[c] \in {"snap0", "redo", "restore_drop"}
    BY DEF IInv, TypeOK
  <2> QED
    BY <2>1 DEF Compiling, Swapping, Capping
<1>6. Holding'
  BY <1>1, <1>3, <1>5, HolderOnly
<1> QED
  BY <1>2, <1>3, <1>4, <1>6 DEF IInv

LEMMA ApplyStep ==
  ASSUME IInv, NEW c \in Clients, Apply(c)
  PROVE  IInv'
<1>1. hist \in History
  BY DEF IInv, TypeOK
<1> DEFINE to == IF hist.entries = <<>> THEN "snap0" ELSE "redo"
<1>2. /\ pc[c] = "wait"
      /\ pc' = [pc EXCEPT ![c] = to]
      /\ Acquire(c, hist)
      /\ UNCHANGED <<tables, redis, counters>>
  BY DEF Apply, Step
<1>3. mem'[c] = hist /\ hist' = hist /\ pc'[c] = to
  BY <1>2 DEF IInv, TypeOK, Acquire, redis
<1>4. Beginning(c)' /\ Moving(c)'
  BY <1>3 DEF Beginning, Moving
<1> QED
  BY <1>1, <1>2, <1>4, EnterStep

LEMMA MoveToStep ==
  ASSUME IInv, NEW c \in Clients,
         NEW k \in 0 .. Len(hist.entries) - 1, MoveTo(c, k)
  PROVE  IInv'
<1> DEFINE h == [hist EXCEPT !.current = k]
<1>1. hist \in History /\ k \in Nat
  BY DEF IInv, TypeOK
<1>2. /\ h \in History
      /\ h.entries = hist.entries
      /\ h.current = k
      /\ h.next_id = hist.next_id
  BY <1>1, MovedHistory
<1>3. /\ pc[c] = "wait"
      /\ pc' = [pc EXCEPT ![c] = "restore_drop"]
      /\ Acquire(c, h)
      /\ UNCHANGED <<tables, redis, counters>>
  BY DEF MoveTo, Step
<1>4. mem'[c] = h /\ hist' = hist /\ pc'[c] = "restore_drop"
  BY <1>3 DEF IInv, TypeOK, Acquire, redis
<1> HIDE DEF h
<1>5. Beginning(c)' /\ Moving(c)'
  BY <1>2, <1>4 DEF Beginning, Moving
<1> QED
  BY <1>2, <1>3, <1>5, EnterStep

LEMMA StartStep ==
  ASSUME IInv, NEW c \in Clients, Start(c)
  PROVE  IInv'
<1>1. /\ hist.current \in Int
      /\ Len(hist.entries) \in Nat
      /\ hist.current \in -1 .. Len(hist.entries) - 1
  BY DEF IInv, TypeOK, History, HistoryWellFormed
<1>2. CASE Apply(c)
  BY <1>2, ApplyStep
<1>3. CASE Undo(c)
  <2>1. hist.current - 1 \in 0 .. Len(hist.entries) - 1
    BY <1>1, <1>3 DEF Undo
  <2> QED
    BY <1>3, <2>1, MoveToStep DEF Undo
<1>4. CASE Redo(c)
  <2>1. hist.current + 1 \in 0 .. Len(hist.entries) - 1
    BY <1>1, <1>4 DEF Redo
  <2> QED
    BY <1>4, <2>1, MoveToStep DEF Redo
<1>5. CASE Goto(c)
  BY <1>5, MoveToStep DEF Goto
<1>6. CASE Refuse(c)
  BY <1>6, OutsideSteps
<1> QED
  BY <1>2, <1>3, <1>4, <1>5, <1>6 DEF Start

-----------------------------------------------------------------------------
(* apply, one lemma for each of its steps.                                 *)

LEMMA SnapshotInitialStep ==
  ASSUME IInv, NEW c \in Clients, SnapshotInitial(c)
  PROVE  IInv'
<1> DEFINE p == [id |-> 0, of |-> live]
           m == [entries |-> <<p>>, current |-> 0, next_id |-> 1]
<1>1. /\ live # NoTable
      /\ pc[c] = "snap0"
      /\ pc' = [pc EXCEPT ![c] = "compile"]
      /\ snaps' = Without(0) \union {p}
      /\ mem' = [mem EXCEPT ![c] = m]
      /\ UNCHANGED <<live, tmp, hist, version, listed, lock, counters>>
  BY DEF SnapshotInitial, Step, redis
<1>2. p \in Entry /\ m \in History
  BY <1>1 DEF IInv, TypeOK, Entry, History
<1>3. TypeOK'
  BY <1>1, <1>2 DEF IInv, TypeOK, Without, counters
<1>4. hist.entries = <<>> /\ hist = NoHistory
  BY <1>1 DEF IInv, Holding, Beginning, Fresh
<1>5. HistoryWellFormed' /\ SnapshotsFaithful' /\ CurrentHasCopy' /\ Fresh'
  BY <1>1, <1>4 DEF IInv, HistoryWellFormed, SnapshotsFaithful, CurrentHasCopy,
     Fresh, Indices
<1>6. pc'[c] = "compile" /\ mem'[c] = m
  BY <1>1 DEF IInv, TypeOK
<1>7. Compiling(c)'
  <2>1. /\ mem'[c].entries = <<p>>
        /\ mem'[c].current = 0
        /\ mem'[c].next_id = 1
    BY <1>6
  <2>2. AtEnd(mem[c])'
    BY <2>1 DEF AtEnd
  <2>3. Ordered(mem[c])' /\ Numbered(mem[c], mem[c].next_id)'
    BY <2>1 DEF Ordered, Numbered, Indices
  <2>4. Kept(mem[c])'
    BY <1>1, <1>4, <2>1 DEF Kept
  <2>5. Faithful(mem[c])'
    BY <1>1, <2>1 DEF Faithful, Indices, Without
  <2>6. mem'[c].next_id >= hist'.next_id
    BY <1>1, <1>4, <2>1 DEF NoHistory
  <2> QED
    BY <2>2, <2>3, <2>4, <2>5, <2>6 DEF Compiling
<1>8. Beginning(c)' /\ Swapping(c)' /\ Capping(c)' /\ Moving(c)'
  BY <1>6 DEF Beginning, Swapping, Capping, Moving
<1> QED
  BY <1>1, <1>3, <1>5, <1>7, <1>8, WithinStep

(* The state the history points at is not in its redo branch.              *)
LEMMA DropRedoSnapshotStep ==
  ASSUME IInv, NEW c \in Clients, DropRedoSnapshot(c)
  PROVE  IInv'
<1>1. /\ pc[c] = "redo"
      /\ UNCHANGED <<live, tmp, hist, version, listed, lock, pc, mem, counters>>
  BY DEF DropRedoSnapshot, redis
<1>2. PICK i \in Doomed(mem[c]) : snaps' = Without(mem[c].entries[i].id)
  BY DEF DropRedoSnapshot
<1>3. mem[c] = hist /\ hist.entries # <<>>
  BY <1>1 DEF IInv, Holding, Beginning
<1>4. /\ snaps' \subseteq snaps
      /\ TypeOK'
  BY <1>1, <1>2 DEF IInv, TypeOK, Without, counters
<1>5. Current(hist) \in snaps'
  <2>1. /\ hist.current + 1 \in Indices(hist)
        /\ i \in Indices(hist)
        /\ hist.current + 1 < i
    BY <1>2, <1>3 DEF IInv, TypeOK, History, HistoryWellFormed, Doomed, Indices
  <2>2. hist.entries[hist.current + 1].id < hist.entries[i].id
    BY <2>1 DEF IInv, HistoryWellFormed
  <2>3. /\ hist.entries[hist.current + 1].id \in Nat
        /\ hist.entries[i].id \in Nat
    BY <2>1, EntryNumbers DEF IInv, TypeOK
  <2>4. Current(hist) \in snaps
    BY <1>3 DEF IInv, CurrentHasCopy
  <2> QED
    BY <1>2, <1>3, <2>2, <2>3, <2>4 DEF Without, Current
<1>6. HistoryWellFormed' /\ SnapshotsFaithful' /\ CurrentHasCopy' /\ Fresh'
  BY <1>1, <1>4, <1>5, FewerSnapshots
<1>7. /\ Beginning(c)' /\ Compiling(c)' /\ Swapping(c)' /\ Capping(c)'
      /\ Moving(c)'
  BY <1>1 DEF IInv, Holding, Beginning, Compiling, Swapping, Capping, Moving
<1>8. pc' = [pc EXCEPT ![c] = "redo"]
  BY <1>1 DEF IInv, TypeOK
<1> QED
  BY <1>1, <1>4, <1>6, <1>7, <1>8, WithinStep

LEMMA DropRedoDoneStep ==
  ASSUME IInv, NEW c \in Clients, DropRedoDone(c)
  PROVE  IInv'
<1> DEFINE m == [hist EXCEPT !.entries = SubSeq(@, 1, hist.current + 1)]
<1>1. mem[c] = hist /\ hist.entries # <<>> /\ hist \in History
  BY DEF IInv, TypeOK, Holding, Beginning, DropRedoDone, Step
<1>2. /\ pc[c] = "redo"
      /\ pc' = [pc EXCEPT ![c] = "compile"]
      /\ mem' = [mem EXCEPT ![c].entries = SubSeq(@, 1, mem[c].current + 1)]
      /\ UNCHANGED <<live, tmp, snaps, hist, version, listed, lock, counters>>
  BY DEF DropRedoDone, Step, tables, redis
<1>3. mem' = [mem EXCEPT ![c] = m]
  BY <1>1, <1>2 DEF IInv, TypeOK
<1>4. hist.current \in 0 .. Len(hist.entries) - 1
  BY <1>1 DEF IInv, HistoryWellFormed, History
<1> HIDE DEF m
<1>5. /\ m \in History
      /\ AtEnd(m)
      /\ m.next_id = hist.next_id
      /\ Len(m.entries) = hist.current + 1
      /\ Indices(m) \subseteq Indices(hist)
      /\ \A i \in Indices(m) : m.entries[i] = hist.entries[i]
  BY <1>1, <1>4, TruncatedHistory DEF m
<1>6. TypeOK'
  BY <1>2, <1>3, <1>5 DEF IInv, TypeOK, counters
<1>7. HistoryWellFormed' /\ SnapshotsFaithful' /\ CurrentHasCopy' /\ Fresh'
  BY <1>2, FewerSnapshots DEF IInv, CurrentHasCopy
<1>8. pc'[c] = "compile" /\ mem'[c] = m
  BY <1>2, <1>3 DEF IInv, TypeOK
<1>9. Compiling(c)'
  <2>1. Ordered(m) /\ Numbered(m, m.next_id)
    BY <1>5 DEF IInv, HistoryWellFormed, Ordered, Numbered
  <2>2. Faithful(m)
    BY <1>5 DEF IInv, SnapshotsFaithful, Faithful
  <2>3. Kept(m)
    <3>1. 1 \in Indices(m)
      BY <1>4, <1>5 DEF Indices
    <3> QED
      BY <1>1, <1>5, <3>1 DEF Kept
  <2>4. m.next_id >= hist.next_id
    BY <1>1, <1>5 DEF History
  <2> QED
    BY <1>2, <1>5, <1>8, <2>1, <2>2, <2>3, <2>4 DEF Compiling, AtEnd, Ordered,
       Numbered, Kept, Faithful, Indices
<1>10. Beginning(c)' /\ Swapping(c)' /\ Capping(c)' /\ Moving(c)'
  BY <1>8 DEF Beginning, Swapping, Capping, Moving
<1> QED
  BY <1>2, <1>6, <1>7, <1>9, <1>10, WithinStep

LEMMA CompileStep ==
  ASSUME IInv, NEW c \in Clients, Compile(c)
  PROVE  IInv'
<1> DEFINE h == mem[c]
           m == [h EXCEPT !.next_id = h.next_id + 1]
<1>1. /\ pc[c] = "compile"
      /\ pc' = [pc EXCEPT ![c] = "create"]
      /\ mem' = [mem EXCEPT ![c].next_id = @ + 1]
      /\ UNCHANGED <<live, tmp, snaps, hist, version, listed, lock, counters>>
  BY DEF Compile, Step, tables, redis
<1>2. /\ h \in History /\ h.next_id \in Nat /\ hist.next_id \in Nat
      /\ mem' = [mem EXCEPT ![c] = m]
  BY <1>1 DEF IInv, TypeOK, History
<1>3. /\ AtEnd(h) /\ Ordered(h) /\ Faithful(h) /\ Kept(h)
      /\ Numbered(h, h.next_id)
      /\ h.next_id >= hist.next_id
  BY <1>1 DEF IInv, Holding, Compiling
<1>4. /\ m \in History
      /\ m.entries = h.entries
      /\ m.current = h.current
      /\ m.next_id = h.next_id + 1
  BY <1>2 DEF History
<1>5. pc'[c] = "create" /\ mem'[c] = m
  BY <1>1, <1>2 DEF IInv, TypeOK
<1> HIDE DEF h, m
<1>6. TypeOK'
  BY <1>1, <1>2, <1>4 DEF IInv, TypeOK, counters
<1>7. HistoryWellFormed' /\ SnapshotsFaithful' /\ CurrentHasCopy' /\ Fresh'
  BY <1>1, FewerSnapshots DEF IInv, CurrentHasCopy
<1>8. Swapping(c)'
  <2>1. m.next_id - 1 = h.next_id /\ m.next_id > hist.next_id
    BY <1>2, <1>3, <1>4
  <2>2. AtEnd(mem[c])' /\ Ordered(mem[c])'
    BY <1>3, <1>4, <1>5 DEF AtEnd, Ordered, Indices
  <2>3. Faithful(mem[c])'
    <3>1. Faithful(h) /\ snaps' = snaps /\ mem'[c].entries = h.entries
      BY <1>1, <1>3, <1>4, <1>5
    <3> QED
      BY <3>1 DEF Faithful, Indices
  <2>4. Kept(mem[c])'
    BY <1>1, <1>3, <1>4, <1>5 DEF Kept
  <2>5. Numbered(mem[c], mem[c].next_id - 1)'
    BY <1>3, <1>4, <1>5, <2>1 DEF Numbered, Indices
  <2>6. mem'[c].next_id > hist'.next_id
    BY <1>1, <1>5, <2>1
  <2> QED
    BY <2>2, <2>3, <2>4, <2>5, <2>6 DEF Swapping
<1>9. Beginning(c)' /\ Compiling(c)' /\ Capping(c)' /\ Moving(c)'
  BY <1>5 DEF Beginning, Compiling, Capping, Moving
<1> QED
  BY <1>1, <1>6, <1>7, <1>8, <1>9, WithinStep

(* The swap itself: neither the history nor the snapshots change.          *)
LEMMA SwapStep ==
  ASSUME IInv, NEW c \in Clients, CreateTmp(c) \/ DropLive(c) \/ RenameTmp(c)
  PROVE  IInv'
<1>1. PICK to \in {"drop", "rename", "snap"} : pc' = [pc EXCEPT ![c] = to]
  <2>1. CASE CreateTmp(c)
    BY <2>1 DEF CreateTmp, Step
  <2>2. CASE DropLive(c)
    BY <2>2 DEF DropLive, Step
  <2>3. CASE RenameTmp(c)
    BY <2>3 DEF RenameTmp, Step
  <2> QED
    BY <2>1, <2>2, <2>3
<1>2. /\ pc[c] \in {"create", "drop", "rename"}
      /\ UNCHANGED <<snaps, hist, version, listed, lock, mem, counters>>
  BY DEF CreateTmp, DropLive, RenameTmp, Step, redis
<1>3. live' \in Contents \union {NoTable} /\ tmp' \in Contents \union {NoTable}
  BY DEF IInv, TypeOK, CreateTmp, DropLive, RenameTmp
<1>4. TypeOK'
  BY <1>1, <1>2, <1>3 DEF IInv, TypeOK, counters
<1>5. HistoryWellFormed' /\ SnapshotsFaithful' /\ CurrentHasCopy' /\ Fresh'
  BY <1>2, FewerSnapshots DEF IInv, CurrentHasCopy
<1>6. pc'[c] = to /\ mem'[c] = mem[c]
  BY <1>1, <1>2 DEF IInv, TypeOK
<1>7. Swapping(c)'
  BY <1>2, <1>6 DEF IInv, Holding, Swapping, AtEnd, Ordered, Numbered, Kept,
     Faithful, Indices
<1>8. Beginning(c)' /\ Compiling(c)' /\ Capping(c)' /\ Moving(c)'
  BY <1>6 DEF Beginning, Compiling, Capping, Moving
<1> QED
  BY <1>1, <1>2, <1>4, <1>5, <1>7, <1>8, WithinStep

LEMMA SnapshotStep ==
  ASSUME IInv, NEW c \in Clients, Snapshot(c)
  PROVE  IInv'
<1> DEFINE h == mem[c]
           n == h.next_id - 1
           s == [id |-> n, of |-> live]
           m == [h EXCEPT !.entries = Append(@, s), !.current = Len(h.entries)]
<1>1. /\ live # NoTable
      /\ pc[c] = "snap"
      /\ pc' = [pc EXCEPT ![c] = "cap"]
      /\ snaps' = Without(n) \union {s}
      /\ mem' = [mem EXCEPT ![c].entries = Append(@, s),
                            ![c].current = Len(h.entries)]
      /\ UNCHANGED <<live, tmp, hist, version, listed, lock, counters>>
  BY DEF Snapshot, Step, redis
<1>2. /\ h \in History /\ h.next_id \in Nat
      /\ hist \in History /\ hist.next_id \in Nat
      /\ mem' = [mem EXCEPT ![c] = m]
  BY <1>1 DEF IInv, TypeOK, History
<1>3. /\ AtEnd(h) /\ Ordered(h) /\ Faithful(h) /\ Kept(h)
      /\ Numbered(h, n)
      /\ h.next_id > hist.next_id
  BY <1>1 DEF IInv, Holding, Swapping
<1>4. n \in Nat /\ n >= hist.next_id /\ n < h.next_id
  BY <1>2, <1>3
<1> HIDE DEF n, h
<1>5. s \in Entry
  BY <1>1, <1>4 DEF IInv, TypeOK, Entry
<1>6. s.id = n
  OBVIOUS
<1>7. pc'[c] = "cap" /\ mem'[c] = m
  BY <1>1, <1>2 DEF IInv, TypeOK
<1>a. h \in History
  BY <1>2
<1> HIDE DEF s, m
<1>8. /\ m \in History
      /\ AtEnd(m)
      /\ m.next_id = h.next_id
      /\ Len(m.entries) = Len(h.entries) + 1
      /\ \A i \in Indices(h) : m.entries[i] = h.entries[i]
      /\ Current(m) = s
      /\ m.entries[Len(m.entries)] = s
  <2>1. Append(h.entries, s) \in Seq(Entry) /\ Len(h.entries) \in Nat
    BY <1>a, <1>5, AppendedEntries
  <2>2. /\ m \in History
        /\ m.entries = Append(h.entries, s)
        /\ m.current = Len(h.entries)
        /\ m.next_id = h.next_id
    <3> DEFINE e == Append(h.entries, s)
               k == Len(h.entries)
    <3>1. e \in Seq(Entry) /\ k \in Nat
      BY <2>1
    <3>2. m = [h EXCEPT !.entries = e, !.current = k]
      BY DEF m
    <3> HIDE DEF e, k
    <3>3. m \in History /\ m.entries = e /\ m.current = k /\ m.next_id = h.next_id
      BY <1>a, <3>1, <3>2 DEF History
    <3> QED
      BY <3>3 DEF e, k
  <2>3. m.entries = Append(h.entries, s) /\ m.current = Len(h.entries)
    BY <2>2
  <2> QED
    BY <1>a, <1>5, <2>2, <2>3, AppendedHistory
<1>9. TypeOK'
  BY <1>1, <1>2, <1>5, <1>8 DEF IInv, TypeOK, Without, counters
<1>10. SnapshotsFaithful' /\ CurrentHasCopy'
  <2>1. ASSUME NEW i \in Indices(hist)
        PROVE  hist.entries[i].id # n
    <3>1. hist.entries[i].id \in Nat /\ hist.entries[i].id < hist.next_id
      BY <1>2, EntryNumbers DEF IInv, HistoryWellFormed
    <3> QED
      BY <1>2, <1>4, <3>1
  <2>2. SnapshotsFaithful'
    <3> SUFFICES ASSUME NEW i \in Indices(hist), NEW t \in snaps',
                        t.id = hist.entries[i].id
                 PROVE  t = hist.entries[i]
      BY <1>1 DEF SnapshotsFaithful, Indices
    <3>1. t \in snaps
      BY <1>1, <1>6, <2>1 DEF Without
    <3> QED
      BY <3>1 DEF IInv, SnapshotsFaithful
  <2>3. CurrentHasCopy'
    <3> SUFFICES ASSUME hist.entries # <<>>
                 PROVE  Current(hist) \in snaps'
      BY <1>1 DEF CurrentHasCopy, Current
    <3>1. hist.current + 1 \in Indices(hist)
      BY <1>2 DEF IInv, HistoryWellFormed, History, Indices
    <3>2. Current(hist) \in snaps /\ Current(hist).id # n
      BY <2>1, <3>1 DEF IInv, CurrentHasCopy, Current
    <3> QED
      BY <1>1, <3>2 DEF Without
  <2> QED
    BY <2>2, <2>3
<1>11. HistoryWellFormed' /\ Fresh'
  BY <1>1 DEF IInv, HistoryWellFormed, Fresh, Indices
<1>12. ASSUME NEW i \in Indices(m)
       PROVE  \/ m.entries[i] = s /\ i = Len(m.entries)
              \/ /\ i \in Indices(h) /\ i < Len(m.entries)
                 /\ m.entries[i] = h.entries[i]
  <2>1. Len(h.entries) \in Nat
    BY <1>2 DEF History
  <2>2. i = Len(m.entries) \/ i \in Indices(h)
    BY <1>8, <2>1 DEF Indices
  <2> QED
    BY <1>8, <2>1, <2>2 DEF Indices
<1>13. \A i \in Indices(h) : h.entries[i].id \in Nat /\ h.entries[i].id < n
  BY <1>2, <1>3, EntryNumbers DEF Numbered
<1>14. Capping(c)'
  <2>1. Ordered(m)
    <3> SUFFICES ASSUME NEW i \in Indices(m), NEW j \in Indices(m), i < j
                 PROVE  m.entries[i].id < m.entries[j].id
      BY DEF Ordered
    <3>1. i \in Indices(h) /\ m.entries[i] = h.entries[i]
      BY <1>12 DEF Indices
    <3>2. CASE j = Len(m.entries) /\ m.entries[j] = s
      BY <1>6, <1>13, <3>1, <3>2
    <3>3. CASE j \in Indices(h) /\ m.entries[j] = h.entries[j]
      BY <1>3, <3>1, <3>3 DEF Ordered
    <3> QED
      BY <1>12, <3>2, <3>3
  <2>2. Numbered(m, m.next_id)
    BY <1>2, <1>4, <1>6, <1>8, <1>12, <1>13 DEF Numbered
  <2>3. \A i \in Indices(m) : \A t \in snaps' :
          t.id = m.entries[i].id => t = m.entries[i]
    <3> SUFFICES ASSUME NEW i \in Indices(m), NEW t \in snaps',
                        t.id = m.entries[i].id
                 PROVE  t = m.entries[i]
      OBVIOUS
    <3>1. CASE m.entries[i] = s
      BY <1>1, <1>6, <3>1 DEF Without
    <3>2. CASE i \in Indices(h) /\ m.entries[i] = h.entries[i]
      <4>1. t.id # n
        BY <1>4, <1>13, <3>2
      <4>2. t \in snaps
        BY <1>1, <1>6, <4>1 DEF Without
      <4> QED
        BY <1>3, <3>2, <4>2 DEF Faithful
    <3> QED
      BY <1>12, <3>1, <3>2
  <2>4. Current(m) \in snaps'
    BY <1>1, <1>8
  <2>5. ASSUME Len(m.entries) > Cap
        PROVE  /\ hist.entries # <<>>
               /\ Len(m.entries) = hist.current + 2
               /\ m.entries[1] = hist.entries[1]
    <3>1. Len(h.entries) \in Nat /\ Len(h.entries) >= 2 /\ hist.current \in Int
      BY <1>2, <1>8, <2>5, CapAssumption DEF History
    <3>2. hist.entries # <<>>
      <4> DEFINE l == Len(h.entries)
      <4>1. l \in Nat /\ l >= 2
        BY <3>1
      <4>2. hist.entries = <<>> => l = 1
        BY <1>3 DEF Kept
      <4> HIDE DEF l
      <4> QED
        BY <4>1, <4>2
    <3>3. Len(h.entries) = hist.current + 1 /\ h.entries[1] = hist.entries[1]
      BY <1>3, <3>2 DEF Kept
    <3>4. 1 \in Indices(h)
      BY <3>1 DEF Indices
    <3> QED
      BY <1>8, <3>1, <3>2, <3>3, <3>4
  <2>6. AtEnd(mem[c])' /\ Ordered(mem[c])' /\ Numbered(mem[c], mem[c].next_id)'
    BY <1>7, <1>8, <2>1, <2>2 DEF AtEnd, Ordered, Numbered, Indices
  <2>7. Faithful(mem[c])' /\ (Current(mem[c]) \in snaps)'
    BY <1>7, <2>3, <2>4 DEF Faithful, Indices, Current
  <2>8. hist' = hist
    BY <1>1
  <2> QED
    BY <1>7, <2>5, <2>6, <2>7, <2>8 DEF Capping
<1>15. Beginning(c)' /\ Compiling(c)' /\ Swapping(c)' /\ Moving(c)'
  BY <1>7 DEF Beginning, Compiling, Swapping, Moving
<1> QED
  BY <1>1, <1>9, <1>10, <1>11, <1>14, <1>15, WithinStep

(* The entry that falls out is the oldest, and not the current one.        *)
LEMMA EnforceCapStep ==
  ASSUME IInv, NEW c \in Clients, EnforceCap(c)
  PROVE  IInv'
<1> DEFINE h == mem[c]
           m == [h EXCEPT !.entries = Tail(@), !.current = @ - 1]
<1>1. /\ pc[c] = "cap"
      /\ Len(h.entries) > Cap
      /\ mem' = [mem EXCEPT ![c].entries = Tail(@), ![c].current = @ - 1]
      /\ snaps' = Without(Head(h.entries).id)
      /\ UNCHANGED <<live, tmp, hist, version, listed, lock, pc, counters>>
  BY DEF EnforceCap, redis
<1>2. /\ h \in History /\ hist \in History
      /\ mem' = [mem EXCEPT ![c] = m]
  BY <1>1 DEF IInv, TypeOK
<1>3. /\ AtEnd(h) /\ Ordered(h) /\ Faithful(h)
      /\ Numbered(h, h.next_id)
      /\ Current(h) \in snaps
      /\ hist.entries # <<>>
      /\ Len(h.entries) = hist.current + 2
      /\ h.entries[1] = hist.entries[1]
  BY <1>1 DEF IInv, Holding, Capping
<1>4. pc'[c] = "cap" /\ mem'[c] = m
  BY <1>1, <1>2 DEF IInv, TypeOK
<1> HIDE DEF h
<1>5. /\ Len(h.entries) \in Nat /\ Len(h.entries) >= 3
      /\ h.entries \in Seq(Entry) /\ Head(h.entries) = h.entries[1]
      /\ hist.current \in Int
  BY <1>1, <1>2, CapAssumption DEF History
<1>a. h \in History /\ AtEnd(h) /\ Len(h.entries) >= 2
  BY <1>2, <1>3, <1>5
<1> HIDE DEF m
<1>6. /\ m \in History
      /\ AtEnd(m)
      /\ m.next_id = h.next_id
      /\ Len(m.entries) = Len(h.entries) - 1
      /\ \A i \in Indices(m) :
           i + 1 \in Indices(h) /\ m.entries[i] = h.entries[i + 1]
      /\ Current(m) = Current(h)
  BY <1>a, ShortenedHistory DEF m
<1>7. /\ snaps' \subseteq snaps
      /\ TypeOK'
  BY <1>1, <1>2, <1>6 DEF IInv, TypeOK, Without, counters
<1>8. \A t \in snaps : t.id # h.entries[1].id => t \in snaps'
  BY <1>1, <1>5 DEF Without
<1>9. Current(hist) \in snaps'
  <2>1. 1 \in Indices(hist) /\ hist.current + 1 \in Indices(hist)
        /\ 1 < hist.current + 1
    <3>1. hist.current >= 1 /\ hist.current <= Len(hist.entries) - 1
          /\ Len(hist.entries) \in Nat
      BY <1>2, <1>3, <1>5 DEF IInv, HistoryWellFormed, History
    <3> QED
      BY <1>5, <3>1 DEF Indices
  <2>2. hist.entries[1].id < hist.entries[hist.current + 1].id
    BY <2>1 DEF IInv, HistoryWellFormed
  <2>3. hist.entries[1].id \in Nat /\ hist.entries[hist.current + 1].id \in Nat
    BY <1>2, <2>1, EntryNumbers
  <2>4. Current(hist) \in snaps /\ Current(hist).id # h.entries[1].id
    BY <1>3, <2>2, <2>3 DEF IInv, CurrentHasCopy, Current
  <2> QED
    BY <1>8, <2>4
<1>10. HistoryWellFormed' /\ SnapshotsFaithful' /\ CurrentHasCopy' /\ Fresh'
  BY <1>1, <1>7, <1>9, FewerSnapshots
<1>11. Capping(c)'
  <2>1. Ordered(m) /\ Numbered(m, m.next_id)
    <3>1. ASSUME NEW i \in Indices(m), NEW j \in Indices(m), i < j
          PROVE  m.entries[i].id < m.entries[j].id
      <4>1. i + 1 \in Indices(h) /\ j + 1 \in Indices(h) /\ i + 1 < j + 1
        BY <1>6, <3>1 DEF Indices
      <4> QED
        BY <1>3, <1>6, <4>1 DEF Ordered
    <3>2. Numbered(m, m.next_id)
      BY <1>3, <1>6 DEF Numbered
    <3> QED
      BY <3>1, <3>2 DEF Ordered
  <2>2. \A i \in Indices(m) : \A t \in snaps' :
          t.id = m.entries[i].id => t = m.entries[i]
    BY <1>3, <1>6, <1>7 DEF Faithful
  <2>3. Current(m) \in snaps'
    <3>1. 1 \in Indices(h) /\ h.current + 1 \in Indices(h) /\ 1 < h.current + 1
      BY <1>3, <1>5 DEF AtEnd, Indices
    <3>2. h.entries[1].id < h.entries[h.current + 1].id
      BY <1>3, <3>1 DEF Ordered
    <3>3. h.entries[1].id \in Nat /\ h.entries[h.current + 1].id \in Nat
      BY <1>2, <3>1, EntryNumbers
    <3>4. Current(h).id # h.entries[1].id
      BY <3>2, <3>3 DEF Current
    <3> QED
      BY <1>3, <1>6, <1>8, <3>4
  <2>4. Len(m.entries) <= Cap
    <3>1. Len(hist.entries) \in Nat /\ Len(hist.entries) <= Cap
          /\ hist.current <= Len(hist.entries) - 1
      BY <1>2, <1>3 DEF IInv, HistoryWellFormed, History
    <3> QED
      BY <1>3, <1>5, <1>6, <3>1, CapAssumption
  <2>5. ~(Len(m.entries) > Cap)
    BY <1>5, <1>6, <2>4, CapAssumption
  <2>6. AtEnd(mem[c])' /\ Ordered(mem[c])' /\ Numbered(mem[c], mem[c].next_id)'
    BY <1>4, <1>6, <2>1 DEF AtEnd, Ordered, Numbered, Indices
  <2>7. Faithful(mem[c])' /\ (Current(mem[c]) \in snaps)'
    BY <1>4, <2>2, <2>3 DEF Faithful, Indices, Current
  <2> QED
    BY <1>4, <2>5, <2>6, <2>7 DEF Capping
<1>12. Beginning(c)' /\ Compiling(c)' /\ Swapping(c)' /\ Moving(c)'
  BY <1>4 DEF Beginning, Compiling, Swapping, Moving
<1>13. pc' = [pc EXCEPT ![c] = "cap"]
  BY <1>1 DEF IInv, TypeOK
<1> QED
  BY <1>1, <1>7, <1>10, <1>11, <1>12, <1>13, WithinStep

(***************************************************************************)
(* A request gives up.                                                     *)
(***************************************************************************)

LEMMA GiveUpStep ==
  ASSUME IInv, NEW c \in Clients,
         \/ CompileError(c) \/ CreateTmpError(c) \/ LostTable(c)
         \/ StatementError(c) \/ RestoreError(c)
  PROVE  IInv'
<1>1. /\ pc[c] \in Critical
      /\ Fail(c)
      /\ UNCHANGED <<live, hist, version, listed, saves, deletes>>
      /\ faults' \in Nat
  BY DEF IInv, TypeOK, CompileError, CreateTmpError, LostTable, StatementError,
     RestoreError, tables, redis, counters
<1>2. /\ snaps' \subseteq snaps
      /\ hist.entries # <<>> => Current(hist) \in snaps'
  <2>1. CASE snaps' = snaps
    BY <2>1 DEF IInv, CurrentHasCopy
  <2>2. CASE pc[c] = "snap0" /\ snaps' = Without(0)
    BY <2>2 DEF IInv, Holding, Beginning, Without
  <2>3. CASE pc[c] = "snap" /\ snaps' = Without(mem[c].next_id - 1)
    <3> DEFINE n == mem[c].next_id - 1
    <3>1. snaps' = Without(n)
      BY <2>3
    <3>2. ASSUME hist.entries # <<>>
          PROVE  Current(hist).id # n
      <4>1. hist \in History /\ hist.next_id \in Nat /\ mem[c].next_id \in Nat
        BY DEF IInv, TypeOK, History
      <4>2. n >= hist.next_id
        BY <2>3, <4>1 DEF IInv, Holding, Swapping
      <4>3. hist.current + 1 \in Indices(hist)
        BY <3>2, <4>1 DEF IInv, HistoryWellFormed, History, Indices
      <4>4. Current(hist).id \in Nat /\ Current(hist).id < hist.next_id
        BY <4>1, <4>3, EntryNumbers DEF IInv, HistoryWellFormed, Current
      <4> QED
        BY <4>1, <4>2, <4>4
    <3> QED
      BY <3>1, <3>2 DEF IInv, CurrentHasCopy, Without
  <2> QED
    BY <2>1, <2>2, <2>3 DEF CompileError, CreateTmpError, LostTable,
       StatementError, RestoreError, Replaced, tables
<1>3. TypeOK'
  <2>1. tmp' \in Contents \union {NoTable}
    BY DEF IInv, TypeOK, CompileError, CreateTmpError, LostTable, StatementError,
       RestoreError, tables
  <2>2. NoHistory \in History
    BY DEF NoHistory, History
  <2> QED
    BY <1>1, <1>2, <2>1, <2>2 DEF IInv, TypeOK, Fail, Release
<1> QED
  BY <1>1, <1>2, <1>3, FailStep

-----------------------------------------------------------------------------
(* undo, redo, goto and the common end.                                    *)

LEMMA RestoreStep ==
  ASSUME IInv, NEW c \in Clients, RestoreDrop(c) \/ RestoreCopy(c)
  PROVE  IInv'
<1>1. PICK to \in {"restore_copy", "save"} :
        /\ pc' = [pc EXCEPT ![c] = to]
        /\ to = "save" => RestoreCopy(c)
  <2>1. CASE RestoreDrop(c)
    BY <2>1 DEF RestoreDrop, Step
  <2>2. CASE RestoreCopy(c)
    BY <2>2 DEF RestoreCopy, Step
  <2> QED
    BY <2>1, <2>2
<1>2. /\ pc[c] \in {"restore_drop", "restore_copy"}
      /\ UNCHANGED <<tmp, snaps, hist, version, listed, lock, mem, counters>>
  BY DEF RestoreDrop, RestoreCopy, Step, redis
<1>3. live' \in Contents \union {NoTable}
  BY DEF IInv, TypeOK, RestoreDrop, RestoreCopy, Entry
<1>4. TypeOK'
  BY <1>1, <1>2, <1>3 DEF IInv, TypeOK, counters
<1>5. HistoryWellFormed' /\ SnapshotsFaithful' /\ CurrentHasCopy' /\ Fresh'
  BY <1>2, FewerSnapshots DEF IInv, CurrentHasCopy
<1>6. pc'[c] = to /\ mem'[c] = mem[c]
  BY <1>1, <1>2 DEF IInv, TypeOK
<1>7. /\ mem[c].entries = hist.entries
      /\ mem[c].next_id = hist.next_id
      /\ mem[c].current \in 0 .. Len(hist.entries) - 1
  BY <1>2 DEF IInv, Holding, Moving
<1>8. ASSUME to = "save"
      PROVE  Current(mem[c]) \in snaps
  <2>1. PICK s \in snaps : s.id = Current(mem[c]).id
    BY <1>1, <1>8 DEF RestoreCopy
  <2>2. mem[c].current + 1 \in Indices(hist)
    BY <1>7 DEF IInv, TypeOK, History, Indices
  <2> QED
    BY <1>7, <2>1, <2>2 DEF IInv, SnapshotsFaithful, Current
<1>9. Moving(c)'
  BY <1>2, <1>6, <1>7, <1>8 DEF Moving, Current
<1>10. Beginning(c)' /\ Compiling(c)' /\ Swapping(c)' /\ Capping(c)'
  BY <1>6 DEF Beginning, Compiling, Swapping, Capping
<1> QED
  BY <1>1, <1>2, <1>4, <1>5, <1>9, <1>10, WithinStep

LEMMA SaveStep ==
  ASSUME IInv, NEW c \in Clients, Save(c)
  PROVE  IInv'
<1> DEFINE h == mem[c]
<1>1. /\ pc[c] \in {"cap", "save"}
      /\ pc' = [pc EXCEPT ![c] = "bump"]
      /\ hist' = h
      /\ saves' = saves + 1
      /\ UNCHANGED <<live, tmp, snaps, version, listed, lock, mem, faults, deletes>>
      /\ pc[c] = "cap" => Len(h.entries) <= Cap
  BY DEF Save, Step, tables
<1>2. h \in History /\ hist \in History
  BY DEF IInv, TypeOK
<1>3. TypeOK'
  BY <1>1, <1>2 DEF IInv, TypeOK
<1>4. /\ h.entries # <<>>
      /\ Len(h.entries) <= Cap
      /\ h.current \in 0 .. Len(h.entries) - 1
      /\ Ordered(h) /\ Numbered(h, h.next_id) /\ Faithful(h)
      /\ Current(h) \in snaps
  <2>1. CASE pc[c] = "cap"
    <3>1. /\ AtEnd(h) /\ Ordered(h) /\ Numbered(h, h.next_id) /\ Faithful(h)
          /\ Current(h) \in snaps
      BY <2>1 DEF IInv, Holding, Capping
    <3>2. h.current \in 0 .. Len(h.entries) - 1
      <4>1. h.entries # <<>> /\ h.entries \in Seq(Entry)
        BY <1>2, <3>1 DEF AtEnd, History
      <4>2. Len(h.entries) \in Nat /\ Len(h.entries) # 0
        BY <4>1
      <4> QED
        BY <3>1, <4>2 DEF AtEnd
    <3> QED
      BY <1>1, <2>1, <3>1, <3>2 DEF AtEnd
  <2>2. CASE pc[c] = "save"
    <3>1. /\ h.entries = hist.entries
          /\ h.next_id = hist.next_id
          /\ h.current \in 0 .. Len(hist.entries) - 1
          /\ Current(h) \in snaps
      BY <2>2 DEF IInv, Holding, Moving
    <3>2. Ordered(h) /\ Numbered(h, h.next_id) /\ Faithful(h)
      BY <3>1 DEF IInv, HistoryWellFormed, SnapshotsFaithful, Ordered, Numbered,
         Faithful, Indices
    <3>3. hist.entries # <<>>
      BY <3>1
    <3> QED
      BY <3>1, <3>2, <3>3 DEF IInv, HistoryWellFormed
  <2> QED
    BY <1>1, <2>1, <2>2
<1>5. HistoryWellFormed'
  <2>1. h.current \in -1 .. Len(h.entries) - 1 /\ h.current # -1
    BY <1>2, <1>4 DEF History
  <2> QED
    BY <1>1, <1>4, <2>1 DEF HistoryWellFormed, Ordered, Numbered, Indices
<1>6. SnapshotsFaithful' /\ CurrentHasCopy' /\ Fresh'
  BY <1>1, <1>4 DEF SnapshotsFaithful, Faithful, CurrentHasCopy, Current, Fresh,
     Indices
<1>7. pc'[c] = "bump"
  BY <1>1 DEF IInv, TypeOK
<1>8. /\ Beginning(c)' /\ Compiling(c)' /\ Swapping(c)' /\ Capping(c)'
      /\ Moving(c)'
  BY <1>7 DEF Beginning, Compiling, Swapping, Capping, Moving
<1> QED
  BY <1>1, <1>3, <1>5, <1>6, <1>8, WithinStep

LEMMA BumpStep ==
  ASSUME IInv, NEW c \in Clients, Bump(c)
  PROVE  IInv'
<1>1. /\ pc[c] = "bump"
      /\ pc' = [pc EXCEPT ![c] = "refresh"]
      /\ lock' = NoClient
      /\ mem' = [mem EXCEPT ![c] = NoHistory]
      /\ version' = version + 1
      /\ UNCHANGED <<live, tmp, snaps, hist, listed, counters>>
  BY DEF Bump, Step, Release, tables
<1>2. lock = c
  BY <1>1 DEF IInv, LockInv
<1>3. LockInv'
  <2>1. "refresh" \in Critical <=> lock' = c
    BY <1>1, ClientAssumption
  <2> QED
    BY <1>1, <1>2, <2>1, LockStep DEF IInv
<1>4. TypeOK'
  BY <1>1 DEF IInv, TypeOK, counters, NoHistory, History
<1>5. HistoryWellFormed' /\ SnapshotsFaithful' /\ CurrentHasCopy' /\ Fresh'
  BY <1>1, FewerSnapshots DEF IInv, CurrentHasCopy
<1> QED
  BY <1>1, <1>3, <1>4, <1>5, ReleasingStep

-----------------------------------------------------------------------------
(* The invariant.                                                          *)

LEMMA ContinueStep ==
  ASSUME IInv, NEW c \in Clients, Continue(c)
  PROVE  IInv'
<1>1. CASE SnapshotInitial(c)
  BY <1>1, SnapshotInitialStep
<1>2. CASE DropRedoSnapshot(c)
  BY <1>2, DropRedoSnapshotStep
<1>3. CASE DropRedoDone(c)
  BY <1>3, DropRedoDoneStep
<1>4. CASE Compile(c)
  BY <1>4, CompileStep
<1>5. CASE CreateTmp(c) \/ DropLive(c) \/ RenameTmp(c)
  BY <1>5, SwapStep
<1>6. CASE Snapshot(c)
  BY <1>6, SnapshotStep
<1>7. CASE EnforceCap(c)
  BY <1>7, EnforceCapStep
<1>8. CASE CompileError(c) \/ CreateTmpError(c) \/ LostTable(c) \/ RestoreError(c)
  BY <1>8, GiveUpStep
<1>9. CASE RestoreDrop(c) \/ RestoreCopy(c)
  BY <1>9, RestoreStep
<1>10. CASE Save(c)
  BY <1>10, SaveStep
<1>11. CASE Bump(c)
  BY <1>11, BumpStep
<1>12. CASE \/ RefreshRead(c) \/ RefreshError(c) \/ RefreshWrite(c) \/ DropTable(c)
            \/ Unlist(c) \/ Ingest(c) \/ IngestError(c)
  BY <1>12, OutsideSteps
<1> QED
  BY <1>1, <1>2, <1>3, <1>4, <1>5, <1>6, <1>7, <1>8, <1>9, <1>10, <1>11, <1>12
     DEF Continue

LEMMA NextIInv == IInv /\ [Next]_vars => IInv'
<1> SUFFICES ASSUME IInv, [Next]_vars PROVE IInv'
  OBVIOUS
<1>1. ASSUME NEW c \in Clients, Request(c) \/ Delete(c) \/ Upload(c)
      PROVE  IInv'
  BY <1>1, OutsideSteps
<1>2. ASSUME NEW c \in Clients, Start(c)
      PROVE  IInv'
  BY <1>2, StartStep
<1>3. ASSUME NEW c \in Clients, Continue(c)
      PROVE  IInv'
  BY <1>3, ContinueStep
<1>4. CASE Crash
  BY <1>4, CrashStep
<1>6. ASSUME NEW c \in Clients, StatementError(c) \/ HandlerError(c)
      PROVE  IInv'
  BY <1>6, GiveUpStep, OutsideSteps
<1>5. CASE UNCHANGED vars
  <2>1. UNCHANGED <<live, tmp, snaps, hist, version, listed, lock, pc, mem,
                    saves, faults, deletes>>
    BY <1>5 DEF vars
  <2>2. TypeOK' /\ LockInv'
    BY <2>1 DEF IInv, TypeOK, LockInv
  <2> QED
    BY <2>1, <2>2, BystanderStep
<1> QED
  BY <1>1, <1>2, <1>3, <1>4, <1>5, <1>6 DEF Next

(* The invariant holds in every reachable state.                           *)
THEOREM Invariance == Spec => []IInv
<1>1. Init => IInv
  BY InitIInv
<1>2. IInv /\ [Next]_vars => IInv'
  BY NextIInv
<1> QED
  BY <1>1, <1>2, PTL DEF Spec

-----------------------------------------------------------------------------
(* The results.                                                            *)

(* Every variable keeps its type, whatever the interleaving of requests,   *)
(* deletes, uploads and faults.                                           *)
THEOREM TypeCorrect == Spec => []TypeOK
<1>1. IInv => TypeOK
  BY DEF IInv
<1> QED
  BY <1>1, Invariance, PTL

(* The history saved in Redis always is one that undo, redo and goto can   *)
(* use: not longer than SNAPSHOT_CAP, with growing step numbers that are   *)
(* never given out again, and a position inside it.                        *)
THEOREM HistoryIsWellFormed == Spec => []HistoryWellFormed
<1>1. IInv => HistoryWellFormed
  BY DEF IInv
<1> QED
  BY <1>1, Invariance, PTL

(* A snapshot never holds another state than the step whose number it has. *)
THEOREM SnapshotsAreFaithful == Spec => []SnapshotsFaithful
<1>1. IInv => SnapshotsFaithful
  BY DEF IInv
<1> QED
  BY <1>1, Invariance, PTL

(* Once a table has been transformed, a full copy of the state the history *)
(* points at is on disk, also while the table itself is being replaced.    *)
THEOREM CurrentStateHasCopy == Spec => []CurrentHasCopy
<1>1. IInv => CurrentHasCopy
  BY DEF IInv
<1> QED
  BY <1>1, Invariance, PTL

(* The lock is held exactly by the one request in the critical section.    *)
THEOREM MutualExclusion == Spec => []LockInv
<1>1. IInv => LockInv
  BY DEF IInv
<1> QED
  BY <1>1, Invariance, PTL

=============================================================================
