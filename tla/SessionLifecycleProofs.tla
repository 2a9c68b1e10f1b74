------------------------ MODULE SessionLifecycleProofs ------------------------
(***************************************************************************)
(* Proofs about SessionLifecycle, for any number of requests and sweeps    *)
(* and any TTLs with Grace < SessionTTL < OwnedTTL.                        *)
(***************************************************************************)
EXTENDS SessionLifecycle, TLAPS

(* Requests are in the steps of requests, sweeps in those of sweeps.       *)
Roles ==
  /\ \A r \in Requests : pc[r] \in RequestSteps
  /\ \A s \in Sweepers : pc[s] \in SweepSteps

(* What is left of the TTL and what has gone by make a SessionTTL, unless  *)
(* a deletion has taken the marker.                                        *)
Covered ==
  /\ dir # NoDir => marker + quiet >= SessionTTL \/ torn
  /\ \A s \in Sweepers : pc[s] = "purge" => dir = NoDir

(* Before the first request there is nothing.                              *)
Unborn ==
  requests = 0 =>
    /\ dir = NoDir /\ ~row /\ ~waived /\ ~torn /\ deletion = "none"
    /\ \A r \in Requests : pc[r] = "idle"
    /\ \A s \in Sweepers : pc[s] \notin {"drop", "purge"}

(* While the session is created nobody else knows of it.                   *)
Unknown ==
  /\ ~Known => \A r \in Requests : pc[r] \in {"idle"} \union CreateSteps
  /\ \A r \in Requests : pc[r] \in CreateSteps => ~Known
  /\ \A r, q \in Requests :
       pc[r] \in CreateSteps /\ pc[q] \in CreateSteps => r = q

(* Who takes the session apart has said so.                                *)
Deleting == \A r \in Requests : pc[r] \in DeleteSteps => deletion # "none"

(* As long as the owner comes back in time nobody takes anything away.     *)
Safe ==
  requests > 0 /\ ~waived =>
    /\ quiet < SessionTTL
    /\ ~torn
    /\ ~TakenApart
    /\ \A r \in Requests : pc[r] \in CreateSteps => dir # NoDir
    /\ \A r \in Requests : pc[r] = "create_register" => "base" \in tables
    /\ row => Intact

Working(r) == pc[r] \notin {"idle", "admit"}

Purged ==
  /\ marker = 0
  /\ Victims(tables) = {}
  /\ ~schema

Gone == Purged /\ dir = NoDir

(* An undisturbed deletion is the only request that is past the guard, and *)
(* it has seen every table it has to drop.                                 *)
Alone ==
  deletion = "alone" =>
    /\ \A r, q \in Requests : Working(r) /\ Working(q) => r = q
    /\ \A r \in Requests :
         /\ Working(r) => pc[r] \in DeleteSteps
         /\ pc[r] = "drop" => Victims(tables) \subseteq seen[r]
         /\ pc[r] = "rmtree" => Purged
         /\ pc[r] = "forget" => Gone

Done ==
  deletion = "done" => ~row /\ Gone /\ \A r \in Requests : ~Working(r)

IInv == TypeOK /\ Roles /\ Covered /\ Unborn /\ Unknown /\ Deleting /\ Safe
        /\ Alone /\ Done

-----------------------------------------------------------------------------
(* The initial state, and the groups of actions a proof has to look at.    *)

LEMMA InitIInv == Init => IInv
<1> SUFFICES ASSUME Init
             PROVE  IInv
  OBVIOUS
<1> USE TimeAssumption, ActorAssumption, BoundAssumption DEF Init, Actors, NoDir
<1>1. TypeOK
  <2>1. pc \in [Actors -> RequestSteps \union SweepSteps]
    BY DEF RequestSteps
  <2>2. seen \in [Actors -> SUBSET Tables]
    OBVIOUS
  <2>3. marker \in 0 .. OwnedTTL /\ quiet \in 0 .. OwnedTTL
    OBVIOUS
  <2>4. dir \in {NoDir} \union 0 .. Grace
    OBVIOUS
  <2>5. tables \subseteq Tables /\ schema \in BOOLEAN
    OBVIOUS
  <2>6. requests \in Nat /\ faults \in Nat
    OBVIOUS
  <2>7. row \in BOOLEAN /\ waived \in BOOLEAN /\ torn \in BOOLEAN /\ lost \in BOOLEAN
    OBVIOUS
  <2>8. deletion \in {"none", "alone", "disturbed", "done"}
    OBVIOUS
  <2> HIDE DEF Init, Actors, NoDir
  <2> QED
    BY <2>1, <2>2, <2>3, <2>4, <2>5, <2>6, <2>7, <2>8 DEF TypeOK
<1>2. Roles
  BY DEF Roles, RequestSteps, SweepSteps
<1>3. Covered /\ Unborn /\ Unknown /\ Deleting /\ Safe
  BY DEF Covered, Unborn, Unknown, Deleting, Safe, CreateSteps, DeleteSteps
<1>4. Alone /\ Done
  BY DEF Alone, Done
<1> QED
  BY <1>1, <1>2, <1>3, <1>4 DEF IInv

(* Where requests and sweeps are.                                          *)
Located == pc \in [Actors -> RequestSteps \union SweepSteps] /\ Roles

LEMMA RolesStep == IInv /\ [Next]_vars => Located'
<1> SUFFICES ASSUME IInv, [Next]_vars
             PROVE  Located'
  OBVIOUS
<1> USE ActorAssumption
    DEF IInv, TypeOK, Located, Roles, Actors, RequestSteps, CreateSteps, BodySteps,
        TransformSteps, DeleteSteps, SweepSteps, Step
<1>1. ASSUME NEW r \in Requests, NEW to \in RequestSteps,
             pc' = [pc EXCEPT ![r] = to]
      PROVE  Located'
  BY <1>1
<1>2. ASSUME NEW s \in Sweepers, NEW to \in SweepSteps,
             pc' = [pc EXCEPT ![s] = to]
      PROVE  Located'
  BY <1>2
<1>3. ASSUME NEW r \in Requests, CreateSession(r) \/ OwnerRequest(r) \/ Serve(r)
      PROVE  UNCHANGED pc \/ \E to \in RequestSteps : pc' = [pc EXCEPT ![r] = to]
  BY <1>3
  DEF CreateSession, OwnerRequest, Serve, Resume, OnThread, CheckOwner, NotFound, Admit, CreateTable,
      RecordDataset, Read, Rebuild, Upload, LoadTable, Materialize, DeriveTable,
      TakeSnapshot, TakeTable, PutTable, StartUnlist, DropTable, WriteSchemaBack,
      Register, Fail, StartDelete, ReadCatalog, DropVictim, PurgeDeleted,
      RemoveDeleted, DeleteDataset
<1>4. ASSUME NEW s \in Sweepers, Sweep(s) \/ SweepError(s)
      PROVE  UNCHANGED pc \/ \E to \in SweepSteps : pc' = [pc EXCEPT ![s] = to]
  BY <1>4
  DEF Sweep, SweepError, ReadCatalog, Condemn, Spare, DropVictim,
      RemoveDead, PurgeDead
<1>5. CASE UNCHANGED pc
  BY <1>5
<1>6. CASE Crash
  BY <1>6 DEF Crash
<1> QED
  BY <1>1, <1>2, <1>3, <1>4, <1>5, <1>6 DEF Next, Arrive, vars, Tick, RefusedRequest

(* What a step does to the marker and the directory.                       *)
LEMMA MarkerSteps ==
  ASSUME [Next]_vars
  PROVE  \/ Tick
         \/ Refresh /\ UNCHANGED <<dir, quiet, torn>>
         \/ Touch /\ dir' \in {dir, 0} /\ LoopFree
         \/ Touch /\ UNCHANGED dir
         \/ marker' = 0 /\ torn' = TRUE /\ UNCHANGED <<dir, quiet>>
         \/ /\ marker' = 0 /\ UNCHANGED <<dir, quiet, torn>>
            /\ \E s \in Sweepers : pc[s] = "purge"
         \/ dir' = NoDir /\ UNCHANGED <<marker, quiet, torn>>
         \/ UNCHANGED <<marker, dir, quiet, torn>>
<1> USE DEF session, marks, history
<1>1. ASSUME NEW r \in Requests, Serve(r)
      PROVE  \/ Touch /\ dir' \in {dir, 0} /\ LoopFree
             \/ Touch /\ UNCHANGED dir
             \/ marker' = 0 /\ torn' = TRUE /\ UNCHANGED <<dir, quiet>>
             \/ dir' = NoDir /\ UNCHANGED <<marker, quiet, torn>>
             \/ UNCHANGED <<marker, dir, quiet, torn>>
  BY <1>1
  DEF Serve, Resume, OnThread, CheckOwner, NotFound, Admit, CreateTable,
      RecordDataset, Read, Rebuild, Upload, LoadTable, Materialize, DeriveTable,
      TakeSnapshot, TakeTable, PutTable, StartUnlist, DropTable, WriteSchemaBack,
      Register, Fail, StartDelete, ReadCatalog, DropVictim, PurgeDeleted,
      RemoveDeleted, DeleteDataset,
      PurgeSession, RemoveDirectory
<1>2. ASSUME NEW s \in Sweepers, Sweep(s) \/ SweepError(s)
      PROVE  \/ /\ marker' = 0 /\ UNCHANGED <<dir, quiet, torn>>
                /\ pc[s] = "purge"
             \/ dir' = NoDir /\ UNCHANGED <<marker, quiet, torn>>
             \/ UNCHANGED <<marker, dir, quiet, torn>>
  BY <1>2
  DEF Sweep, SweepError, ReadCatalog, Condemn, Spare, DropVictim,
      RemoveDead, PurgeDead, PurgeSession, RemoveDirectory, Step
<1> QED
  BY <1>1, <1>2
  DEF Next, Arrive, vars, RefusedRequest, CreateSession, OwnerRequest, Crash

(* What a step may do to the tables and the schema.                        *)
LEMMA StoreSteps ==
  ASSUME [Next]_vars
  PROVE  /\ tables' \subseteq tables \union Tables
         /\ schema' \in {schema, TRUE, FALSE}
<1> USE DEF session, history, Tables
<1>1. ASSUME NEW r \in Requests, Serve(r)
      PROVE  /\ tables' \subseteq tables \union Tables
             /\ schema' \in {schema, TRUE, FALSE}
  BY <1>1
  DEF Serve, Resume, OnThread, CheckOwner, NotFound, Admit, CreateTable,
      RecordDataset, Read, Rebuild, Upload, LoadTable, Materialize, DeriveTable,
      TakeSnapshot, TakeTable, PutTable, StartUnlist, DropTable, WriteSchemaBack,
      Register, Fail, StartDelete, ReadCatalog, DropVictim, PurgeDeleted,
      RemoveDeleted, DeleteDataset,
      PurgeSession
<1>2. ASSUME NEW s \in Sweepers, Sweep(s) \/ SweepError(s)
      PROVE  tables' \subseteq tables /\ schema' \in {schema, FALSE}
  BY <1>2
  DEF Sweep, SweepError, ReadCatalog, Condemn, Spare, DropVictim,
      RemoveDead, PurgeDead, PurgeSession
<1> QED
  BY <1>1, <1>2
  DEF Next, Arrive, vars, Tick, RefusedRequest, CreateSession, OwnerRequest, Crash

(* What a step may do to what an actor has seen of the catalog.            *)
LEMMA SeenSteps ==
  ASSUME [Next]_vars
  PROVE  \/ UNCHANGED seen
         \/ seen' = [a \in Actors |-> {}]
         \/ \E a \in Actors : \/ seen' = [seen EXCEPT ![a] = {}]
                              \/ seen' = [seen EXCEPT ![a] = tables]
                              \/ \E t : seen' = [seen EXCEPT ![a] = @ \ {t}]
<1> USE DEF Actors
<1>1. ASSUME NEW r \in Requests, Serve(r)
      PROVE  \/ UNCHANGED seen
             \/ seen' = [seen EXCEPT ![r] = {}]
             \/ seen' = [seen EXCEPT ![r] = tables]
             \/ \E t : seen' = [seen EXCEPT ![r] = @ \ {t}]
  BY <1>1
  DEF Serve, Resume, OnThread, CheckOwner, NotFound, Admit, CreateTable,
      RecordDataset, Read, Rebuild, Upload, LoadTable, Materialize, DeriveTable,
      TakeSnapshot, TakeTable, PutTable, StartUnlist, DropTable, WriteSchemaBack,
      Register, Fail, StartDelete, ReadCatalog, DropVictim, PurgeDeleted,
      RemoveDeleted, DeleteDataset
<1>2. ASSUME NEW s \in Sweepers, Sweep(s) \/ SweepError(s)
      PROVE  \/ UNCHANGED seen
             \/ seen' = [seen EXCEPT ![s] = {}]
             \/ seen' = [seen EXCEPT ![s] = tables]
             \/ \E t : seen' = [seen EXCEPT ![s] = @ \ {t}]
  BY <1>2 DEF Sweep, SweepError, ReadCatalog, Condemn, Spare, DropVictim,
      RemoveDead, PurgeDead
<1> QED
  BY <1>1, <1>2
  DEF Next, Arrive, vars, Tick, RefusedRequest, CreateSession, OwnerRequest, Crash

(* The row and the history variables.                                      *)
LEMMA LedgerSteps ==
  ASSUME [Next]_vars
  PROVE  /\ row' \in {row, TRUE, FALSE}
         /\ waived' \in {waived} \union BOOLEAN
         /\ torn' \in {torn, TRUE, FALSE}
         /\ lost' \in {lost} \union BOOLEAN
         /\ requests' \in {requests, requests + 1}
         /\ faults' \in {faults, faults + 1}
         /\ deletion' \in {deletion, "alone", "disturbed", "done"}
<1> USE DEF session, marks, history, NewRequest
<1>1. ASSUME NEW r \in Requests, Serve(r)
      PROVE  /\ row' \in {row, TRUE, FALSE}
             /\ waived' \in {waived} \union BOOLEAN
             /\ torn' \in {torn, TRUE, FALSE}
             /\ lost' \in {lost} \union BOOLEAN
             /\ UNCHANGED <<requests, faults>>
             /\ deletion' \in {deletion, "alone", "disturbed", "done"}
  BY <1>1
  DEF Serve, Resume, OnThread, CheckOwner, NotFound, Admit, CreateTable,
      RecordDataset, Read, Rebuild, Upload, LoadTable, Materialize, DeriveTable,
      TakeSnapshot, TakeTable, PutTable, StartUnlist, DropTable, WriteSchemaBack,
      Register, Fail, StartDelete, ReadCatalog, DropVictim, PurgeDeleted,
      RemoveDeleted, DeleteDataset,
      Disturb, Touch
<1>2. ASSUME NEW s \in Sweepers, Sweep(s) \/ SweepError(s)
      PROVE  /\ UNCHANGED <<row, waived, torn, lost, requests, deletion>>
             /\ faults' \in {faults, faults + 1}
  BY <1>2 DEF Sweep, SweepError, ReadCatalog, Condemn, Spare, DropVictim,
      RemoveDead, PurgeDead
<1> QED
  BY <1>1, <1>2
  DEF Next, Arrive, vars, Tick, RefusedRequest, CreateSession, OwnerRequest, Crash,
      Touch

(* Every action keeps every variable in its type.                          *)
LEMMA TypeStep == IInv /\ [Next]_vars => TypeOK'
<1> SUFFICES ASSUME IInv, [Next]_vars
             PROVE  TypeOK'
  OBVIOUS
<1>1. (pc \in [Actors -> RequestSteps \union SweepSteps])'
  BY RolesStep DEF Located
<1>2. (marker \in 0 .. OwnedTTL /\ quiet \in 0 .. OwnedTTL)'
  <2> USE TimeAssumption DEF IInv, TypeOK
  <2>1. CASE Tick
    BY <2>1 DEF Tick
  <2>2. CASE Refresh /\ UNCHANGED quiet
    BY <2>2 DEF Refresh
  <2>3. CASE Touch
    BY <2>3 DEF Touch
  <2>4. CASE marker' \in {marker, 0} /\ UNCHANGED quiet
    BY <2>4
  <2> QED
    BY <2>1, <2>2, <2>3, <2>4, MarkerSteps
<1>3. (dir \in {NoDir} \union 0 .. Grace)'
  <2> USE TimeAssumption DEF IInv, TypeOK, NoDir
  <2>1. CASE Tick
    BY <2>1 DEF Tick
  <2>2. CASE dir' \in {dir, 0, NoDir}
    BY <2>2
  <2> QED
    BY <2>1, <2>2, MarkerSteps
<1>4. (tables \subseteq Tables /\ schema \in BOOLEAN)'
  <2>1. tables \subseteq Tables /\ schema \in BOOLEAN
    BY DEF IInv, TypeOK
  <2>2. tables' \subseteq tables \union Tables /\ schema' \in {schema, TRUE, FALSE}
    BY StoreSteps
  <2> QED
    BY <2>1, <2>2, Zenon
<1>5. (seen \in [Actors -> SUBSET Tables])'
  BY SeenSteps DEF IInv, TypeOK, Actors
<1>6. (requests \in Nat /\ faults \in Nat)'
  <2>1. requests \in Nat /\ faults \in Nat
    BY DEF IInv, TypeOK
  <2>2. requests' \in {requests, requests + 1} /\ faults' \in {faults, faults + 1}
    BY LedgerSteps
  <2> QED
    BY <2>1, <2>2
<1>7. (deletion \in {"none", "alone", "disturbed", "done"})'
  BY LedgerSteps DEF IInv, TypeOK
<1>8. (row \in BOOLEAN /\ waived \in BOOLEAN /\ torn \in BOOLEAN /\ lost \in BOOLEAN)'
  <2>1. row \in BOOLEAN /\ waived \in BOOLEAN /\ torn \in BOOLEAN /\ lost \in BOOLEAN
    BY DEF IInv, TypeOK
  <2>2. /\ row' \in {row, TRUE, FALSE} /\ waived' \in {waived} \union BOOLEAN
        /\ torn' \in {torn, TRUE, FALSE} /\ lost' \in {lost} \union BOOLEAN
    BY LedgerSteps
  <2> QED
    BY <2>1, <2>2, Zenon
<1> QED
  BY <1>1, <1>2, <1>3, <1>4, <1>5, <1>6, <1>7, <1>8 DEF TypeOK

LEMMA CoveredStep == IInv /\ [Next]_vars => Covered'
<1> SUFFICES ASSUME IInv, [Next]_vars
             PROVE  Covered'
  OBVIOUS
<1> USE TimeAssumption DEF NoDir
<1>1. /\ marker \in 0 .. OwnedTTL /\ quiet \in 0 .. OwnedTTL
      /\ dir \in {NoDir} \union 0 .. Grace /\ torn \in BOOLEAN
      /\ pc \in [Actors -> RequestSteps \union SweepSteps]
      /\ Requests \subseteq Actors /\ Sweepers \subseteq Actors
      /\ Requests \intersect Sweepers = {}
  BY ActorAssumption DEF IInv, TypeOK, Actors
<1>2. /\ dir # NoDir => marker + quiet >= SessionTTL \/ torn
      /\ \A s \in Sweepers : pc[s] = "purge" => dir = NoDir
  BY DEF IInv, Covered
<1>3. dir' # NoDir => marker' + quiet' >= SessionTTL \/ torn'
  <2>1. CASE Tick
    BY <1>1, <1>2, <2>1 DEF Tick, marks
  <2>2. CASE Refresh /\ UNCHANGED <<dir, quiet, torn>>
    BY <1>1, <1>2, <2>2 DEF Refresh
  <2>3. CASE Touch
    BY <2>3 DEF Touch
  <2>4. CASE marker' = 0 /\ torn' = TRUE
    BY <2>4
  <2>5. CASE \/ dir' = NoDir
             \/ UNCHANGED dir /\ \E s \in Sweepers : pc[s] = "purge"
             \/ UNCHANGED <<marker, dir, quiet, torn>>
    BY <1>2, <2>5
  <2> QED
    BY <2>1, <2>2, <2>3, <2>4, <2>5, MarkerSteps
<1>4. ASSUME NEW s \in Sweepers, pc'[s] = "purge"
      PROVE  dir' = NoDir
  <2>1. pc[s] = "purge" \/ dir' = NoDir
    <3> USE DEF Step
    <3>1. ASSUME NEW r \in Requests, \/ LoopFree /\ (CreateSession(r) \/ OwnerRequest(r))
                                     \/ Serve(r)
          PROVE  pc'[s] = pc[s]
      BY <1>1, <3>1
      DEF CreateSession, OwnerRequest,
      Serve, Resume, OnThread, CheckOwner, NotFound, Admit, CreateTable,
      RecordDataset, Read, Rebuild, Upload, LoadTable, Materialize, DeriveTable,
      TakeSnapshot, TakeTable, PutTable, StartUnlist, DropTable, WriteSchemaBack,
      Register, Fail, StartDelete, ReadCatalog, DropVictim, PurgeDeleted,
      RemoveDeleted, DeleteDataset
    <3>2. ASSUME NEW z \in Sweepers, Sweep(z) \/ SweepError(z)
          PROVE  pc[s] = "purge" \/ dir' = NoDir
      BY <1>1, <1>4, <3>2 DEF Sweep, SweepError, ReadCatalog, Condemn, Spare, DropVictim,
      RemoveDead, PurgeDead, RemoveDirectory
    <3>3. CASE Tick \/ RefusedRequest \/ UNCHANGED vars
      BY <1>4, <3>3 DEF Tick, RefusedRequest, vars
    <3>4. CASE Crash
      BY <1>1, <1>4, <3>4 DEF Crash
    <3> QED
      BY <1>4, <3>1, <3>2, <3>3, <3>4 DEF Next, Arrive
  <2>2. ASSUME pc[s] = "purge"
        PROVE  dir' = NoDir
    <3>1. dir = NoDir /\ ~LoopFree
      BY <1>1, <1>2, <2>2 DEF LoopFree
    <3> QED
      BY <3>1, MarkerSteps DEF Tick
  <2> QED
    BY <2>1, <2>2
<1> QED
  BY <1>3, <1>4 DEF Covered

(* A request that is served has begun.                                     *)
LEMMA ServeBegun ==
  ASSUME NEW r, Serve(r)
  PROVE  pc[r] # "idle"
BY DEF Serve, Resume, OnThread, CheckOwner, NotFound, Admit, CreateTable,
      RecordDataset, Read, Rebuild, Upload, LoadTable, Materialize, DeriveTable,
      TakeSnapshot, TakeTable, PutTable, StartUnlist, DropTable, WriteSchemaBack,
      Register, Fail, StartDelete, ReadCatalog, DropVictim, PurgeDeleted,
      RemoveDeleted, DeleteDataset,
      Step, CreateSteps, BodySteps, TransformSteps, DeleteSteps

(* When a tick makes the owner late.                                       *)
LEMMA TickWaives ==
  ASSUME Tick
  PROVE  waived' <=> waived \/ (requests > 0 /\ quiet + 1 >= SessionTTL)
<1> DEFINE late == requests > 0 /\ quiet + 1 >= SessionTTL
<1>1. waived' = (waived \/ late)
  BY DEF Tick
<1> HIDE DEF late
<1>2. waived' <=> waived \/ late
  BY <1>1, Zenon
<1> QED
  BY <1>2 DEF late

(* Nothing happens to a session that does not exist, but its creation.     *)
LEMMA UnbornStep == IInv /\ [Next]_vars => Unborn'
<1> SUFFICES ASSUME IInv, [Next]_vars, requests' = 0
             PROVE  Unborn'
  BY DEF Unborn
<1>1. requests = 0
  <2>1. requests \in Nat
    BY DEF IInv, TypeOK
  <2>2. requests' \in {requests, requests + 1}
    BY LedgerSteps
  <2> QED
    BY <2>1, <2>2
<1>2. /\ pc \in [Actors -> RequestSteps \union SweepSteps]
      /\ Requests \subseteq Actors /\ Sweepers \subseteq Actors
      /\ Requests \intersect Sweepers = {}
  BY ActorAssumption DEF IInv, TypeOK, Actors
<1>3. /\ dir = NoDir /\ ~row /\ ~waived /\ ~torn /\ deletion = "none"
      /\ \A r \in Requests : pc[r] = "idle"
      /\ \A s \in Sweepers : pc[s] \notin {"drop", "purge"}
  BY <1>1 DEF IInv, Unborn
<1> USE DEF Unborn, session, marks, history, Step, NewRequest
<1>4. CASE Tick
  <2>1. ~waived'
    BY <1>1, <1>3, <1>4, TickWaives
  <2> QED
    BY <1>1, <1>3, <1>4, <2>1 DEF Tick
<1>5. CASE RefusedRequest \/ \E r \in Requests : CreateSession(r) \/ OwnerRequest(r)
  BY <1>1, <1>5 DEF RefusedRequest, CreateSession, OwnerRequest
<1>6. ASSUME NEW r \in Requests, Serve(r)
      PROVE  FALSE
  BY <1>3, <1>6, ServeBegun
<1>7. ASSUME NEW s \in Sweepers, Sweep(s) \/ SweepError(s)
      PROVE  Unborn'
  <2>1. CASE ReadCatalog(s, "idle", "judge") \/ Spare(s) \/ SweepError(s)
    BY <1>2, <1>3, <2>1 DEF ReadCatalog, Spare, SweepError
  <2>2. CASE Condemn(s) \/ DropVictim(s) \/ RemoveDead(s) \/ PurgeDead(s)
    BY <1>3, <2>2, TimeAssumption DEF Condemn, DropVictim, RemoveDead, PurgeDead, NoDir
  <2> QED
    BY <1>7, <2>1, <2>2 DEF Sweep
<1>8. CASE Crash
  BY <1>2, <1>3, <1>8 DEF Crash
<1>9. CASE UNCHANGED vars
  BY <1>3, <1>9 DEF vars
<1> QED
  BY <1>4, <1>5, <1>6, <1>7, <1>8, <1>9 DEF Next, Arrive

(* The creation is the first request, and the only one until it is over.   *)
LEMMA UnknownStep == IInv /\ [Next]_vars => Unknown'
<1> SUFFICES ASSUME IInv, [Next]_vars
             PROVE  Unknown'
  OBVIOUS
<1>1. /\ pc \in [Actors -> RequestSteps \union SweepSteps]
      /\ Requests \subseteq Actors /\ Sweepers \subseteq Actors
      /\ Requests \intersect Sweepers = {}
  BY ActorAssumption DEF IInv, TypeOK, Actors
<1>2. /\ ~Known => \A r \in Requests : pc[r] \in {"idle"} \union CreateSteps
      /\ \A r \in Requests : pc[r] \in CreateSteps => ~Known
      /\ \A r, q \in Requests :
           pc[r] \in CreateSteps /\ pc[q] \in CreateSteps => r = q
  BY DEF IInv, Unknown
<1> USE DEF Unknown, session, marks, history, Step, CreateSteps
<1>3. CASE Tick \/ RefusedRequest \/ UNCHANGED vars
  BY <1>2, <1>3 DEF Tick, RefusedRequest, vars, Known
<1>4. CASE Crash
  BY <1>1, <1>4 DEF Crash
<1>5. ASSUME NEW s \in Sweepers, Sweep(s) \/ SweepError(s)
      PROVE  Unknown'
  <2>1. UNCHANGED <<row, deletion>> /\ \A r \in Requests : pc'[r] = pc[r]
    BY <1>1, <1>5 DEF Sweep, SweepError, ReadCatalog, Condemn, Spare, DropVictim,
      RemoveDead, PurgeDead
  <2> QED
    BY <1>2, <2>1 DEF Known
<1>6. ASSUME NEW r \in Requests, OwnerRequest(r)
      PROVE  Unknown'
  BY <1>1, <1>2, <1>6 DEF OwnerRequest, Known
<1>7. ASSUME NEW r \in Requests, CreateSession(r)
      PROVE  Unknown'
  <2>1. ~Known /\ \A q \in Requests : pc[q] = "idle"
    BY <1>7 DEF CreateSession, IInv, Unborn, Known
  <2> QED
    BY <1>1, <1>7, <2>1 DEF CreateSession, Known
<1>8. ASSUME NEW r \in Requests, Serve(r)
      PROVE  Unknown'
  <2>1. CASE CreateTable(r) \/ RecordDataset(r)
    BY <1>1, <1>2, <2>1 DEF CreateTable, RecordDataset, Known
  <2>2. CASE pc[r] \in CreateSteps /\ Fail(r)
    BY <1>1, <1>2, <2>2 DEF Fail, Known
  <2>3. ASSUME ~(CreateTable(r) \/ RecordDataset(r)), ~(pc[r] \in CreateSteps /\ Fail(r))
        PROVE  Unknown'
    <3>1. /\ pc[r] \notin {"idle"} \union CreateSteps
          /\ \E to \in RequestSteps \ CreateSteps : pc' = [pc EXCEPT ![r] = to]
          /\ Known => Known'
      <4> USE DEF RequestSteps, BodySteps, TransformSteps, DeleteSteps
      <4>1. /\ pc[r] \notin {"idle"} \union CreateSteps
            /\ \/ UNCHANGED pc
               \/ \E to \in RequestSteps \ CreateSteps : pc' = [pc EXCEPT ![r] = to]
        BY <1>8, <2>3
        DEF Serve, Resume, OnThread, CheckOwner, NotFound, Admit, CreateTable,
      RecordDataset, Read, Rebuild, Upload, LoadTable, Materialize, DeriveTable,
      TakeSnapshot, TakeTable, PutTable, StartUnlist, DropTable, WriteSchemaBack,
      Register, Fail, StartDelete, ReadCatalog, DropVictim, PurgeDeleted,
      RemoveDeleted, DeleteDataset
      <4>2. UNCHANGED pc => pc' = [pc EXCEPT ![r] = pc[r]] /\ pc[r] \in RequestSteps \ CreateSteps
        BY <1>1, <4>1 DEF IInv, Roles
      <4>3. ASSUME Known
            PROVE  Known'
        <5>1. CASE DeleteDataset(r)
          <6>1. deletion # "none"
            BY <5>1 DEF DeleteDataset, IInv, Deleting, DeleteSteps, Step
          <6> QED
            BY <5>1, <6>1 DEF DeleteDataset, Known
        <5>2. CASE ~DeleteDataset(r)
          <6>1. \/ UNCHANGED <<row, deletion>>
                \/ UNCHANGED row /\ deletion' \in {"alone", "disturbed"}
            BY <1>8, <2>3, <5>2
            DEF Serve, Resume, OnThread, CheckOwner, NotFound, Admit, CreateTable,
      RecordDataset, Read, Rebuild, Upload, LoadTable, Materialize, DeriveTable,
      TakeSnapshot, TakeTable, PutTable, StartUnlist, DropTable, WriteSchemaBack,
      Register, Fail, StartDelete, ReadCatalog, DropVictim, PurgeDeleted,
      RemoveDeleted, DeleteDataset,
                Disturb
          <6> QED
            BY <4>3, <6>1 DEF Known
        <5> QED
          BY <5>1, <5>2
      <4> QED
        BY <4>1, <4>2, <4>3
    <3>2. Known
      BY <1>2, <3>1
    <3> QED
      BY <1>1, <1>2, <3>1, <3>2
  <2> QED
    BY <2>1, <2>2, <2>3
<1> QED
  BY <1>3, <1>4, <1>5, <1>6, <1>7, <1>8 DEF Next, Arrive

LEMMA DeletingStep == IInv /\ [Next]_vars => Deleting'
<1> SUFFICES ASSUME IInv, [Next]_vars, NEW r \in Requests, pc'[r] \in DeleteSteps
             PROVE  deletion' # "none"
  BY DEF Deleting
<1>1. /\ pc \in [Actors -> RequestSteps \union SweepSteps]
      /\ Requests \subseteq Actors /\ Sweepers \subseteq Actors
      /\ Requests \intersect Sweepers = {}
  BY ActorAssumption DEF IInv, TypeOK, Actors
<1>2. pc[r] \in DeleteSteps \/ StartDelete(r)
  <2> USE <1>1 DEF Step, DeleteSteps
  <2>1. ASSUME NEW q \in Requests, CreateSession(q) \/ OwnerRequest(q) \/ Serve(q)
        PROVE  pc[r] \in DeleteSteps \/ StartDelete(r)
    BY <2>1
    DEF CreateSession, OwnerRequest,
      Serve, Resume, OnThread, CheckOwner, NotFound, Admit, CreateTable,
      RecordDataset, Read, Rebuild, Upload, LoadTable, Materialize, DeriveTable,
      TakeSnapshot, TakeTable, PutTable, StartUnlist, DropTable, WriteSchemaBack,
      Register, Fail, StartDelete, ReadCatalog, DropVictim, PurgeDeleted,
      RemoveDeleted, DeleteDataset
  <2>2. ASSUME NEW s \in Sweepers, Sweep(s) \/ SweepError(s)
        PROVE  pc'[r] = pc[r]
    BY <2>2
    DEF Sweep, SweepError, ReadCatalog, Condemn, Spare, DropVictim,
      RemoveDead, PurgeDead
  <2> QED
    BY <2>1, <2>2 DEF Next, Arrive, vars, Tick, RefusedRequest, Crash
<1>3. CASE pc[r] \in DeleteSteps
  BY <1>3, LedgerSteps DEF IInv, Deleting
<1>4. CASE StartDelete(r)
  BY <1>4 DEF StartDelete
<1> QED
  BY <1>2, <1>3, <1>4

(* What protects the data of an owner who comes back in time.              *)
LEMMA SafeStep == IInv /\ [Next]_vars => Safe'
<1> SUFFICES ASSUME IInv, [Next]_vars, requests' > 0, ~waived'
             PROVE  Safe'
  BY DEF Safe
<1> USE TimeAssumption, ActorAssumption DEF NoDir
<1>0. /\ pc \in [Actors -> RequestSteps \union SweepSteps]
      /\ marker \in 0 .. OwnedTTL /\ quiet \in 0 .. OwnedTTL /\ requests \in Nat
      /\ Requests \subseteq Actors /\ Sweepers \subseteq Actors
      /\ Requests \intersect Sweepers = {}
  BY DEF IInv, TypeOK, Actors
<1>1. ASSUME requests > 0, ~waived
      PROVE  /\ quiet < SessionTTL
             /\ ~torn
             /\ \A r \in Requests : pc[r] \notin DeleteSteps
             /\ \A s \in Sweepers : pc[s] \notin {"drop", "purge"}
             /\ \A r \in Requests : pc[r] \in CreateSteps => dir # NoDir
             /\ \A r \in Requests : pc[r] = "create_register" => "base" \in tables
             /\ row => Intact
  BY <1>1 DEF IInv, Safe, TakenApart
<1>2. ASSUME NEW r \in Requests, pc[r] \notin {"idle"} \union CreateSteps
      PROVE  \A q \in Requests : pc[q] \notin CreateSteps
  BY <1>2 DEF IInv, Unknown
<1>3. CASE Tick
  <2>1. ~waived /\ (requests > 0 => quiet + 1 < SessionTTL)
    BY <1>0, <1>3, TickWaives
  <2>2. dir \in {NoDir} \union 0 .. Grace
    BY DEF IInv, TypeOK
  <2>3. quiet' < SessionTTL /\ (dir # NoDir => dir' # NoDir)
    BY <1>0, <1>3, <2>1, <2>2 DEF Tick
  <2>4. UNCHANGED <<row, tables, schema, pc, torn, lost, requests>>
    BY <1>3 DEF Tick, marks
  <2> QED
    BY <1>1, <2>1, <2>3, <2>4 DEF Safe, TakenApart, Intact, Replacing
<1>4. CASE RefusedRequest
  <2>1. UNCHANGED <<row, dir, tables, schema, pc, quiet, waived, torn, lost>>
    BY <1>4 DEF RefusedRequest, session, marks
  <2>2. requests > 0
    BY <1>0, <1>4 DEF RefusedRequest, IInv, Unborn, Known
  <2> QED
    BY <1>1, <2>1, <2>2 DEF Safe, TakenApart, Intact, Replacing
<1>5. ASSUME NEW r \in Requests, CreateSession(r)
      PROVE  Safe'
  <2>1. /\ ~row /\ \A q \in Requests : pc[q] = "idle"
        /\ \A s \in Sweepers : pc[s] \notin {"drop", "purge"}
    BY <1>5 DEF CreateSession, IInv, Unborn
  <2>2. /\ quiet' = 0 /\ ~torn' /\ dir' = 0 /\ ~row'
        /\ pc' = [pc EXCEPT ![r] = "create_load"]
    BY <1>5, <2>1 DEF CreateSession, Touch, Step
  <2> QED
    BY <1>0, <2>1, <2>2 DEF Safe, TakenApart, DeleteSteps, CreateSteps
<1>6. ASSUME NEW r \in Requests, OwnerRequest(r)
      PROVE  Safe'
  <2>1. UNCHANGED <<row, dir, tables, schema, quiet, waived, torn, lost>>
    BY <1>6 DEF OwnerRequest, session, marks
  <2>2. requests > 0
    BY <1>0, <1>6 DEF OwnerRequest, IInv, Unborn, Known
  <2>3. pc[r] = "idle" /\ pc' = [pc EXCEPT ![r] = "admit"]
    BY <1>6 DEF OwnerRequest, Step
  <2>4. Replacing => Replacing'
    BY <1>0, <2>3 DEF Replacing
  <2>5. row' => Intact'
    BY <1>1, <2>1, <2>2, <2>4 DEF Intact
  <2> QED
    BY <1>0, <1>1, <2>1, <2>2, <2>3, <2>5 DEF Safe, TakenApart, DeleteSteps, CreateSteps
<1>7. ASSUME NEW r \in Requests, Serve(r), pc[r] \in CreateSteps
      PROVE  Safe'
  <2>0. requests > 0
    BY <1>0, <1>7 DEF IInv, Unborn, CreateSteps
  <2>1. CreateTable(r) \/ RecordDataset(r) \/ Fail(r)
    BY <1>7
    DEF Serve, Resume, OnThread, CheckOwner, NotFound, Admit, CreateTable,
      RecordDataset, Read, Rebuild, Upload, LoadTable, Materialize, DeriveTable,
      TakeSnapshot, TakeTable, PutTable, StartUnlist, DropTable, WriteSchemaBack,
      Register, Fail, StartDelete, ReadCatalog, DropVictim, PurgeDeleted,
      RemoveDeleted, DeleteDataset,
      Step, CreateSteps
  <2>2. \A q \in Requests \ {r} : pc[q] \notin CreateSteps
    BY <1>7 DEF IInv, Unknown
  <2>3. ~row
    BY <1>7 DEF IInv, Unknown, Known
  <2>4. ~waived /\ UNCHANGED <<dir, quiet, torn>>
    BY <2>1 DEF CreateTable, RecordDataset, Fail, session, history
  <2>5. \E to \in {"idle", "create_register"} : pc' = [pc EXCEPT ![r] = to]
    BY <2>1 DEF CreateTable, RecordDataset, Fail, Step
  <2>6. pc'[r] = "create_register" => "base" \in tables'
    BY <1>0, <2>1 DEF CreateTable, RecordDataset, Fail, Step
  <2>7. row' => Intact'
    BY <1>0, <1>1, <2>0, <2>1, <2>3, <2>4
    DEF CreateTable, RecordDataset, Fail, Step, Intact, session, history, CreateSteps
  <2>8. quiet' < SessionTTL /\ ~torn' /\ ~TakenApart'
    BY <1>0, <1>1, <2>0, <2>4, <2>5 DEF TakenApart, DeleteSteps
  <2>9. \A q \in Requests : /\ pc'[q] \in CreateSteps => dir' # NoDir
                            /\ pc'[q] = "create_register" => "base" \in tables'
    BY <1>0, <1>1, <1>7, <2>0, <2>2, <2>4, <2>5, <2>6 DEF CreateSteps
  <2> QED
    BY <2>7, <2>8, <2>9 DEF Safe
<1>8. ASSUME NEW r \in Requests, Serve(r), pc[r] \notin CreateSteps
      PROVE  Safe'
  <2>0. requests > 0 /\ pc[r] # "idle"
    BY <1>0, <1>8, ServeBegun DEF IInv, Unborn
  <2>1. \A q \in Requests : pc[q] \notin CreateSteps
    BY <1>2, <1>8, <2>0
  <2>2. \A q \in Requests : pc'[q] \notin CreateSteps
    BY <1>0, <1>8, <2>1
    DEF Serve, Resume, OnThread, CheckOwner, NotFound, Admit, CreateTable,
      RecordDataset, Read, Rebuild, Upload, LoadTable, Materialize, DeriveTable,
      TakeSnapshot, TakeTable, PutTable, StartUnlist, DropTable, WriteSchemaBack,
      Register, Fail, StartDelete, ReadCatalog, DropVictim, PurgeDeleted,
      RemoveDeleted, DeleteDataset,
      Step, CreateSteps
  <2>3. CASE Admit(r)
    <3>1. ~waived \/ (Intact /\ ~TakenApart)
      <4>1. waived' = (waived /\ ~(Intact /\ ~TakenApart))
        BY <2>3 DEF Admit
      <4> HIDE DEF Intact, TakenApart
      <4> QED
        BY <4>1, Zenon
    <3>2. ~TakenApart /\ (row => Intact)
      BY <1>1, <2>0, <3>1 DEF TakenApart
    <3>3. /\ pc[r] = "checked" /\ pc' = [pc EXCEPT ![r] = "body"]
          /\ quiet' = 0 /\ ~torn' /\ UNCHANGED <<row, dir, tables, schema, lost>>
      BY <2>3 DEF Admit, Step, Touch, session
    <3>4. ~TakenApart'
      BY <1>0, <3>2, <3>3 DEF TakenApart, DeleteSteps
    <3>5. Replacing => Replacing'
      BY <1>0, <3>3 DEF Replacing
    <3>6. row' => Intact'
      BY <3>2, <3>3, <3>5 DEF Intact
    <3> QED
      BY <2>2, <3>3, <3>4, <3>6 DEF Safe, CreateSteps
  <2>4. ASSUME ~Admit(r)
        PROVE  Safe'
    <3>1. ~waived /\ ~StartDelete(r)
      BY <1>8, <2>4
      DEF Serve, Resume, OnThread, CheckOwner, NotFound, Admit, CreateTable,
      RecordDataset, Read, Rebuild, Upload, LoadTable, Materialize, DeriveTable,
      TakeSnapshot, TakeTable, PutTable, StartUnlist, DropTable, WriteSchemaBack,
      Register, Fail, StartDelete, ReadCatalog, DropVictim, PurgeDeleted,
      RemoveDeleted, DeleteDataset,
      session, history
    <3>2. /\ pc[r] \notin DeleteSteps
          /\ quiet' \in {quiet, 0} /\ torn' \in {torn, FALSE}
      BY <1>1, <1>8, <2>0, <3>1
      DEF Serve, Resume, OnThread, CheckOwner, NotFound, Admit, CreateTable,
      RecordDataset, Read, Rebuild, Upload, LoadTable, Materialize, DeriveTable,
      TakeSnapshot, TakeTable, PutTable, StartUnlist, DropTable, WriteSchemaBack,
      Register, Fail, StartDelete, ReadCatalog, DropVictim, PurgeDeleted,
      RemoveDeleted, DeleteDataset,
      session, marks, history, Touch, Step, DeleteSteps
    <3>3. pc'[r] \notin DeleteSteps /\ \A a \in Actors \ {r} : pc'[a] = pc[a]
      BY <1>0, <1>8, <3>1, <3>2
      DEF Serve, Resume, OnThread, CheckOwner, NotFound, Admit, CreateTable,
      RecordDataset, Read, Rebuild, Upload, LoadTable, Materialize, DeriveTable,
      TakeSnapshot, TakeTable, PutTable, StartUnlist, DropTable, WriteSchemaBack,
      Register, Fail, StartDelete, ReadCatalog, DropVictim, PurgeDeleted,
      RemoveDeleted, DeleteDataset,
      Step, DeleteSteps
    <3>4. ~TakenApart'
      BY <1>0, <1>1, <2>0, <3>1, <3>3 DEF TakenApart
    <3>5. row' => Intact'
      <4> SUFFICES ASSUME row'
                   PROVE  Intact'
        OBVIOUS
      <4>1. row
        BY <1>8, <2>4, <3>2
        DEF Serve, Resume, OnThread, CheckOwner, NotFound, Admit, CreateTable,
      RecordDataset, Read, Rebuild, Upload, LoadTable, Materialize, DeriveTable,
      TakeSnapshot, TakeTable, PutTable, StartUnlist, DropTable, WriteSchemaBack,
      Register, Fail, StartDelete, ReadCatalog, DropVictim, PurgeDeleted,
      RemoveDeleted, DeleteDataset,
      session, history, Step, DeleteSteps, CreateSteps
      <4>2. Intact
        BY <1>1, <2>0, <3>1, <4>1
      <4>3. dir' \in {dir, 0} /\ schema' \in {schema, TRUE}
        BY <1>8, <2>4, <3>2, <4>2
        DEF Serve, Resume, OnThread, CheckOwner, NotFound, Admit, CreateTable,
      RecordDataset, Read, Rebuild, Upload, LoadTable, Materialize, DeriveTable,
      TakeSnapshot, TakeTable, PutTable, StartUnlist, DropTable, WriteSchemaBack,
      Register, Fail, StartDelete, ReadCatalog, DropVictim, PurgeDeleted,
      RemoveDeleted, DeleteDataset,
      Intact, session, Step, DeleteSteps, CreateSteps, Upload
      <4>4. "base" \in tables' \/ Replacing' \/ lost'
        <5>1. CASE TakeTable(r)
          <6>1. pc'[r] = "swap"
            BY <1>0, <5>1 DEF TakeTable, Step
          <6> QED
            BY <6>1 DEF Replacing
        <5>2. CASE PutTable(r)
          BY <5>2 DEF PutTable
        <5>3. CASE Fail(r)
          <6>1. lost' <=> lost \/ pc[r] = "swap"
            <7>1. lost' = (lost \/ pc[r] = "swap")
              BY <5>3 DEF Fail
            <7> QED
              BY <7>1, Zenon
          <6>2. Replacing => Replacing' \/ pc[r] = "swap"
            BY <1>0, <3>3 DEF Replacing
          <6>3. UNCHANGED tables
            BY <5>3 DEF Fail, session
          <6> QED
            BY <4>2, <6>1, <6>2, <6>3 DEF Intact
        <5>4. ASSUME NEW t \in {"base", "later"}, DropTable(r, t)
              PROVE  "base" \in tables' \/ Replacing' \/ lost'
          <6>1. lost' <=> lost \/ t = "base"
            <7>1. lost' = (lost \/ t = "base")
              BY <5>4 DEF DropTable
            <7> QED
              BY <7>1, Zenon
          <6>2. tables' = tables \ {t} /\ pc[r] = "unlist"
            BY <5>4 DEF DropTable, Step
          <6>3. Replacing => Replacing'
            BY <1>0, <3>3, <6>2 DEF Replacing
          <6> QED
            BY <4>2, <6>1, <6>2, <6>3 DEF Intact
        <5>5. ASSUME ~TakeTable(r), ~PutTable(r), ~Fail(r),
                     \A t \in {"base", "later"} : ~DropTable(r, t)
              PROVE  "base" \in tables' \/ Replacing' \/ lost'
          <6>1. pc[r] # "swap" /\ tables \subseteq tables' /\ UNCHANGED lost
            BY <1>8, <2>4, <3>2, <5>5
            DEF Serve, Resume, OnThread, CheckOwner, NotFound, Admit, CreateTable,
      RecordDataset, Read, Rebuild, Upload, LoadTable, Materialize, DeriveTable,
      TakeSnapshot, TakeTable, PutTable, StartUnlist, DropTable, WriteSchemaBack,
      Register, Fail, StartDelete, ReadCatalog, DropVictim, PurgeDeleted,
      RemoveDeleted, DeleteDataset,
      session, marks, history, Step, DeleteSteps
          <6>2. Replacing => Replacing'
            BY <1>0, <3>3, <6>1 DEF Replacing
          <6> QED
            BY <4>2, <6>1, <6>2 DEF Intact
        <5> QED
          BY <5>1, <5>2, <5>3, <5>4, <5>5
      <4>5. dir' # NoDir
        BY <4>2, <4>3 DEF Intact
      <4>6. schema'
        BY <4>2, <4>3, Zenon DEF Intact
      <4> QED
        BY <4>4, <4>5, <4>6 DEF Intact
    <3>6. ~torn'
      BY <1>1, <2>0, <3>1, <3>2, Zenon
    <3>7. quiet' < SessionTTL
      BY <1>0, <1>1, <2>0, <3>1, <3>2
    <3> QED
      BY <2>2, <3>4, <3>5, <3>6, <3>7 DEF Safe, CreateSteps
  <2> QED
    BY <2>3, <2>4
<1>9. ASSUME NEW s \in Sweepers, Sweep(s) \/ SweepError(s)
      PROVE  Safe'
  <2>1. requests > 0 /\ ~waived
    BY <1>0, <1>9
    DEF Sweep, SweepError, ReadCatalog, Condemn, Spare, DropVictim,
      RemoveDead, PurgeDead, session, history
  <2>2. pc[s] \notin {"drop", "purge"} /\ ~torn
    BY <1>1, <2>1
  <2>3. ~Condemn(s)
    BY <1>0, <1>1, <2>1, <2>2 DEF Condemn, IInv, Covered
  <2>4. /\ UNCHANGED <<row, dir, tables, schema, quiet, torn, lost>>
        /\ \E to \in {"idle", "judge"} : pc' = [pc EXCEPT ![s] = to]
    BY <1>9, <2>2, <2>3
    DEF Sweep, SweepError, ReadCatalog, Condemn, Spare, DropVictim,
      RemoveDead, PurgeDead, session, marks, history, Step
  <2>5. ~TakenApart' /\ \A r \in Requests : pc'[r] = pc[r]
    BY <1>0, <1>1, <2>1, <2>4 DEF TakenApart
  <2> QED
    BY <1>1, <2>1, <2>4, <2>5 DEF Safe, Intact, Replacing
<1>10. CASE Crash
  <2>1. /\ UNCHANGED <<row, dir, tables, schema, quiet, waived, torn, requests>>
        /\ pc' = [a \in Actors |-> "idle"]
    BY <1>10 DEF Crash, session
  <2>2. lost' <=> lost \/ Replacing
    <3>1. lost' = (lost \/ Replacing)
      BY <1>10 DEF Crash
    <3> HIDE DEF Replacing
    <3> QED
      BY <3>1, Zenon
  <2>3. row' => Intact'
    BY <1>1, <2>1, <2>2 DEF Intact
  <2>4. \A a \in Requests \union Sweepers : pc'[a] = "idle"
    BY <1>0, <2>1
  <2> QED
    BY <1>1, <2>1, <2>3, <2>4 DEF Safe, TakenApart, DeleteSteps, CreateSteps
<1>11. CASE UNCHANGED vars
  BY <1>1, <1>11 DEF vars, Safe, TakenApart, Intact, Replacing
<1> QED
  BY <1>3, <1>4, <1>5, <1>6, <1>7, <1>8, <1>9, <1>10, <1>11 DEF Next, Arrive

(* Nothing a request, a sweep or time does to an emptied session undoes    *)
(* it: only a request past the guard could.                                *)
LEMMA PurgedStays ==
  ASSUME IInv, [Next]_vars, Purged, deletion # "none",
         \A r \in Requests : pc[r] \in {"idle", "admit", "rmtree", "forget"}
  PROVE  Purged' /\ (dir = NoDir => dir' = NoDir)
<1> USE DEF Purged, Victims, NoDir, session, marks, history, Step
<1>1. CASE Tick \/ RefusedRequest \/ Crash
  BY <1>1 DEF Tick, RefusedRequest, Refresh, Crash
<1>2. ASSUME NEW r \in Requests, CreateSession(r) \/ OwnerRequest(r)
      PROVE  Purged' /\ UNCHANGED dir
  <2>1. requests # 0
    BY DEF IInv, Unborn
  <2> QED
    BY <1>2, <2>1 DEF CreateSession, OwnerRequest, Refresh
<1>3. ASSUME NEW r \in Requests, Serve(r)
      PROVE  Purged' /\ dir' \in {dir, NoDir}
  <2>1. CheckOwner(r) \/ NotFound(r) \/ Fail(r) \/ RemoveDeleted(r) \/ DeleteDataset(r)
    BY <1>3
    DEF Serve, Resume, OnThread, CheckOwner, NotFound, Admit, CreateTable,
      RecordDataset, Read, Rebuild, Upload, LoadTable, Materialize, DeriveTable,
      TakeSnapshot, TakeTable, PutTable, StartUnlist, DropTable, WriteSchemaBack,
      Register, Fail, StartDelete, ReadCatalog, DropVictim, PurgeDeleted,
      RemoveDeleted, DeleteDataset
  <2> QED
    BY <2>1 DEF CheckOwner, NotFound, Fail, RemoveDeleted, RemoveDirectory, DeleteDataset
<1>4. ASSUME NEW s \in Sweepers, Sweep(s) \/ SweepError(s)
      PROVE  Purged' /\ dir' \in {dir, NoDir}
  BY <1>4
  DEF Sweep, SweepError, ReadCatalog, Condemn, Spare, DropVictim,
      RemoveDead, PurgeDead, PurgeSession, RemoveDirectory
<1>5. CASE UNCHANGED vars
  BY <1>5 DEF vars
<1> QED
  BY <1>1, <1>2, <1>3, <1>4, <1>5 DEF Next, Arrive

LEMMA DoneStep == IInv /\ [Next]_vars => Done'
<1> SUFFICES ASSUME IInv, [Next]_vars, deletion' = "done"
             PROVE  Done'
  BY DEF Done
<1>0. /\ pc \in [Actors -> RequestSteps \union SweepSteps]
      /\ Requests \subseteq Actors /\ Sweepers \subseteq Actors
      /\ Requests \intersect Sweepers = {}
  BY ActorAssumption DEF IInv, TypeOK, Actors
<1>1. CASE deletion = "done"
  <2>1. ~row /\ Gone /\ \A r \in Requests : ~Working(r)
    BY <1>1 DEF IInv, Done
  <2>2. Gone'
    BY <1>1, <2>1, PurgedStays DEF Working, Gone
  <2>3. ~row' /\ \A r \in Requests : ~Working(r)'
    <3> USE DEF Working, Step, session, history
    <3>1. ASSUME NEW r \in Requests, Serve(r)
          PROVE  NotFound(r)
      BY <2>1, <3>1
      DEF Serve, Resume, OnThread, CheckOwner, NotFound, Admit, CreateTable,
      RecordDataset, Read, Rebuild, Upload, LoadTable, Materialize, DeriveTable,
      TakeSnapshot, TakeTable, PutTable, StartUnlist, DropTable, WriteSchemaBack,
      Register, Fail, StartDelete, ReadCatalog, DropVictim, PurgeDeleted,
      RemoveDeleted, DeleteDataset,
      CreateSteps, BodySteps, TransformSteps, DeleteSteps
    <3>2. ASSUME NEW s \in Sweepers, Sweep(s) \/ SweepError(s)
          PROVE  ~row' /\ \A r \in Requests : ~Working(r)'
      BY <1>0, <2>1, <3>2
      DEF Sweep, SweepError, ReadCatalog, Condemn, Spare, DropVictim,
      RemoveDead, PurgeDead
    <3>3. ASSUME NEW r \in Requests, CreateSession(r) \/ OwnerRequest(r)
          PROVE  ~row' /\ \A q \in Requests : ~Working(q)'
      <4>1. requests # 0
        BY <1>1 DEF IInv, Unborn
      <4> QED
        BY <1>0, <2>1, <3>3, <4>1 DEF CreateSession, OwnerRequest
    <3> QED
      BY <1>0, <2>1, <3>1, <3>2, <3>3
      DEF Next, Arrive, vars, Tick, RefusedRequest, Crash, NotFound
  <2> QED
    BY <2>2, <2>3 DEF Done
<1>2. CASE deletion # "done"
  <2>1. PICK r \in Requests : DeleteDataset(r) /\ deletion = "alone"
    BY <1>2
    DEF Next, Arrive, vars, Tick, RefusedRequest, CreateSession, OwnerRequest, Crash,
      Serve, Resume, OnThread, CheckOwner, NotFound, Admit, CreateTable,
      RecordDataset, Read, Rebuild, Upload, LoadTable, Materialize, DeriveTable,
      TakeSnapshot, TakeTable, PutTable, StartUnlist, DropTable, WriteSchemaBack,
      Register, Fail, StartDelete, ReadCatalog, DropVictim, PurgeDeleted,
      RemoveDeleted, DeleteDataset,
      Sweep, SweepError, Condemn, Spare, RemoveDead, PurgeDead,
      Disturb, session, history
  <2>2. Gone /\ \A q \in Requests : q # r => ~Working(q)
    BY <2>1 DEF DeleteDataset, Step, IInv, Alone, Working
  <2>3. Gone' /\ ~row'
    BY <2>1, <2>2 DEF DeleteDataset, Gone, Purged
  <2>4. \A q \in Requests : ~Working(q)'
    BY <1>0, <2>1, <2>2 DEF DeleteDataset, Step, Working
  <2> QED
    BY <2>3, <2>4 DEF Done
<1> QED
  BY <1>1, <1>2

(* An undisturbed deletion stays alone until somebody is admitted.         *)
LEMMA AloneStep == IInv /\ [Next]_vars => Alone'
<1> SUFFICES ASSUME IInv, [Next]_vars, deletion' = "alone"
             PROVE  Alone'
  BY DEF Alone
<1>0. /\ pc \in [Actors -> RequestSteps \union SweepSteps]
      /\ seen \in [Actors -> SUBSET Tables]
      /\ Requests \subseteq Actors /\ Sweepers \subseteq Actors
      /\ Requests \intersect Sweepers = {}
  BY ActorAssumption DEF IInv, TypeOK, Actors
<1> USE DEF Step, session, history, DeleteSteps
<1>1. ASSUME NEW r \in Requests, StartDelete(r)
      PROVE  Alone'
  <2>1. \A q \in Requests \ {r} : pc[q] \in {"idle", "admit"}
    BY <1>1 DEF StartDelete
  <2>2. pc'[r] = "catalog" /\ \A q \in Requests \ {r} : pc'[q] = pc[q]
    BY <1>0, <1>1 DEF StartDelete
  <2> QED
    BY <2>1, <2>2 DEF Alone, Working
<1>2. ASSUME \A r \in Requests : ~StartDelete(r)
      PROVE  Alone'
  <2>1. deletion = "alone"
    BY <1>2
    DEF Next, Arrive, vars, Tick, RefusedRequest, CreateSession, OwnerRequest, Crash,
      Serve, Resume, OnThread, CheckOwner, NotFound, Admit, CreateTable,
      RecordDataset, Read, Rebuild, Upload, LoadTable, Materialize, DeriveTable,
      TakeSnapshot, TakeTable, PutTable, StartUnlist, DropTable, WriteSchemaBack,
      Register, Fail, StartDelete, ReadCatalog, DropVictim, PurgeDeleted,
      RemoveDeleted, DeleteDataset,
      Sweep, SweepError, Condemn, Spare, RemoveDead, PurgeDead, Disturb
  <2>2. /\ \A r, q \in Requests : Working(r) /\ Working(q) => r = q
        /\ \A r \in Requests :
             /\ Working(r) => pc[r] \in DeleteSteps
             /\ pc[r] = "drop" => Victims(tables) \subseteq seen[r]
             /\ pc[r] = "rmtree" => Purged
             /\ pc[r] = "forget" => Gone
    BY <2>1 DEF IInv, Alone
  <2>3. ASSUME NEW r \in Requests, pc[r] \in {"rmtree", "forget"}
        PROVE  Purged' /\ (pc[r] = "forget" => Gone')
    <3>1. \A q \in Requests : pc[q] \in {"idle", "admit", "rmtree", "forget"}
      BY <2>2, <2>3 DEF Working
    <3> QED
      BY <2>1, <2>2, <2>3, <3>1, PurgedStays DEF Gone
  <2>4. CASE Tick \/ RefusedRequest \/ UNCHANGED vars
    <3>1. UNCHANGED <<pc, seen, tables>>
      BY <2>4 DEF Tick, RefusedRequest, vars
    <3> QED
      BY <2>2, <2>3, <3>1 DEF Alone, Working, Victims
  <2>5. CASE Crash
    BY <1>0, <2>5 DEF Crash, Alone, Working
  <2>6. ASSUME NEW s \in Sweepers, Sweep(s) \/ SweepError(s)
        PROVE  Alone'
    <3>1. /\ tables' \subseteq tables
          /\ \A r \in Requests : pc'[r] = pc[r] /\ seen'[r] = seen[r]
      BY <1>0, <2>6 DEF Sweep, SweepError, ReadCatalog, Condemn, Spare, DropVictim,
      RemoveDead, PurgeDead
    <3> QED
      BY <2>2, <2>3, <3>1 DEF Alone, Working, Victims
  <2>7. ASSUME NEW r \in Requests, CreateSession(r) \/ OwnerRequest(r)
        PROVE  Alone'
    <3>1. OwnerRequest(r)
      BY <2>1, <2>7 DEF IInv, Unborn, CreateSession
    <3>2. /\ UNCHANGED <<tables, seen>>
          /\ pc'[r] = "admit" /\ \A q \in Requests \ {r} : pc'[q] = pc[q]
      BY <1>0, <3>1 DEF OwnerRequest
    <3> QED
      BY <2>2, <2>3, <3>2 DEF Alone, Working, Victims
  <2>8. ASSUME NEW r \in Requests, Serve(r)
        PROVE  Alone'
    <3>1. \/ NotFound(r) \/ Fail(r) \/ ReadCatalog(r, "catalog", "drop")
          \/ DropVictim(r) \/ PurgeDeleted(r) \/ RemoveDeleted(r)
      BY <1>2, <2>1, <2>2, <2>8
      DEF Serve, Resume, OnThread, CheckOwner, NotFound, Admit, CreateTable,
      RecordDataset, Read, Rebuild, Upload, LoadTable, Materialize, DeriveTable,
      TakeSnapshot, TakeTable, PutTable, StartUnlist, DropTable, WriteSchemaBack,
      Register, Fail, StartDelete, ReadCatalog, DropVictim, PurgeDeleted,
      RemoveDeleted, DeleteDataset,
      Disturb, Working
    <3>2. \A q \in Requests \ {r} : pc'[q] = pc[q] /\ seen'[q] = seen[q]
      BY <1>0, <3>1
      DEF NotFound, Fail, ReadCatalog, DropVictim, PurgeDeleted, RemoveDeleted
    <3>3. CASE NotFound(r) \/ Fail(r)
      <4>1. pc'[r] = "idle" /\ UNCHANGED tables
        BY <1>0, <3>3 DEF NotFound, Fail
      <4> QED
        BY <2>2, <2>3, <3>2, <4>1 DEF Alone, Working, Victims
    <3>4. CASE ReadCatalog(r, "catalog", "drop")
      <4>1. Working(r) /\ pc'[r] = "drop" /\ seen'[r] = tables /\ UNCHANGED tables
        BY <1>0, <3>4 DEF ReadCatalog, Working
      <4> QED
        BY <2>2, <2>3, <3>2, <4>1 DEF Alone, Working, Victims
    <3>5. CASE DropVictim(r)
      <4>1. PICK t \in Victims(seen[r]) :
              tables' = tables \ {t} /\ seen' = [seen EXCEPT ![r] = @ \ {t}]
        BY <3>5 DEF DropVictim
      <4>2. Working(r) /\ pc'[r] = "drop" /\ seen'[r] = seen[r] \ {t}
        BY <1>0, <3>5, <4>1 DEF DropVictim, Working
      <4>3. Victims(tables') \subseteq seen'[r]
        BY <2>2, <3>5, <4>1, <4>2 DEF Victims, DropVictim
      <4> QED
        BY <2>2, <2>3, <3>2, <3>5, <4>2, <4>3 DEF Alone, Working, Victims, DropVictim
    <3>6. CASE PurgeDeleted(r)
      <4>1. Working(r) /\ pc'[r] = "rmtree" /\ Victims(seen[r]) = {}
        BY <1>0, <3>6 DEF PurgeDeleted, Working
      <4>2. Purged'
        BY <2>2, <3>6, <4>1 DEF PurgeDeleted, PurgeSession, Purged, Victims
      <4> QED
        BY <2>2, <3>2, <4>1, <4>2 DEF Alone, Working
    <3>7. CASE RemoveDeleted(r)
      <4>1. Working(r) /\ pc[r] = "rmtree" /\ pc'[r] = "forget"
        BY <1>0, <3>7 DEF RemoveDeleted, Working
      <4>2. Gone'
        BY <2>3, <3>7, <4>1 DEF RemoveDeleted, RemoveDirectory, Gone
      <4> QED
        BY <2>2, <3>2, <4>1, <4>2 DEF Alone, Working
    <3> QED
      BY <3>1, <3>3, <3>4, <3>5, <3>6, <3>7
  <2> QED
    BY <2>4, <2>5, <2>6, <2>7, <2>8 DEF Next, Arrive
<1> QED
  BY <1>1, <1>2

-----------------------------------------------------------------------------
(* The results.                                                            *)

(* The invariant holds in every reachable state.                           *)
THEOREM Invariance == Spec => []IInv
<1>1. Init => IInv
  BY InitIInv
<1>2. IInv /\ [Next]_vars => IInv'
  <2> SUFFICES ASSUME IInv, [Next]_vars
               PROVE  IInv'
    OBVIOUS
  <2>1. TypeOK' /\ Roles'
    BY TypeStep, RolesStep DEF Located
  <2>2. Covered' /\ Unborn' /\ Unknown' /\ Deleting' /\ Safe'
    BY CoveredStep, UnbornStep, UnknownStep, DeletingStep, SafeStep
  <2>3. Alone' /\ Done'
    BY AloneStep, DoneStep
  <2> QED
    BY <2>1, <2>2, <2>3 DEF IInv
<1> QED
  BY <1>1, <1>2, PTL DEF Spec

(* Every variable of the session keeps its type.                           *)
THEOREM LifecycleTypeCorrect == Spec => []TypeOK
<1>1. IInv => TypeOK
  BY DEF IInv
<1> QED
  BY <1>1, Invariance, PTL

(* A directory without a marker belongs to a session whose owner has       *)
(* stayed away for SessionTTL, or whose deletion was cut short after it    *)
(* had taken the marker, however many requests, refused or not, and sweeps *)
(* there are.                                                              *)
THEOREM CondemnedAreIdle == Spec => []OnlyIdleIsCondemned
<1>1. IInv => OnlyIdleIsCondemned
  BY DEF IInv, Covered, OnlyIdleIsCondemned, TypeOK
<1> QED
  BY <1>1, Invariance, PTL

(* No sweep and no deletion takes the data of a registered session whose   *)
(* owner comes back within SessionTTL and does not delete it; the first    *)
(* table goes only between the two halves of the owner's own replacement,  *)
(* when it fails there, or when the owner deletes it.                      *)
THEOREM DataIsKept == Spec => []DataKept
<1>1. IInv => DataKept
  BY DEF IInv, Unborn, Safe, DataKept, TypeOK
<1> QED
  BY <1>1, Invariance, PTL

(* A deletion that nobody disturbed is final.                              *)
THEOREM DeletedStaysGone == Spec => []DeletedIsGone
<1>1. IInv => DeletedIsGone
  BY DEF IInv, Done, Gone, Purged, DeletedIsGone
<1> QED
  BY <1>1, Invariance, PTL

=============================================================================
