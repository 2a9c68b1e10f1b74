--------------------------- MODULE SchemaCacheProofs ---------------------------
(***************************************************************************)
(* Proofs about SchemaCache, for any tables, any number of requests and    *)
(* any number of uploads.                                                  *)
(***************************************************************************)
EXTENDS SchemaCache, TLAPS

(* What a request is doing, given its record y.                            *)
Drops(y) == y.at \in {"drop", "unlist"}
Relates(y) == y.at \in {"rels", "save"}
Turns(y) == y.at \in {"create", "change", "take", "swap", "done", "read", "write"}
Creates(y) == Turns(y) /\ y.kind = "upload"
Rebuilds(y) == Turns(y) /\ y.kind = "rebuild"
Transforming(y) == Turns(y) /\ y.kind \in Transforms
Uploaded(y) == Creates(y) /\ y.at \in {"read", "write"}
Pending(y, t) == Rebuilds(y) /\ (t = y.table \/ t \in y.todo)

(* The table of the catalog that y is about to list.                       *)
Covers(y, t) == (Uploaded(y) /\ t = y.table) \/ Pending(y, t)

(* The listed table that y has taken out of the catalog.                   *)
Takes(y, t) == y.at = "swap" /\ t = y.table
Away(y, t) == y.at \in {"swap", "unlist"} /\ t = y.table

FlagOf(t) == IF schema[t] = "primary" THEN "primary" ELSE "plain"
Related(p) == schema[p[1]] # "none" /\ schema[p[2]] # "none"

(* Only the steps of its own kind are those of a request, and it holds an  *)
(* upload from the step on that has made or looked it up.                  *)
Holds(y) ==
  /\ y.at = "create" => y.kind = "upload"
  /\ y.at \in {"change", "take", "swap", "done"} => y.kind \in Transforms
  /\ y.at \in {"take", "swap", "done"} => y.held # 0
  /\ Uploaded(y) => y.held # 0

(* What holds of a request as long as nothing is mixed.                    *)
DropFits(y) ==
  Drops(y) => /\ y.seen = schema
              /\ y.at = "unlist" => catalog[y.table] = 0
              /\ \A p \in rels : p[1] # y.table /\ p[2] # y.table
UploadFits(y) ==
  Creates(y) =>
    /\ y.flag = "plain" /\ y.todo = {}
    /\ Uploaded(y) /\ schema[y.table] = "none" =>
         catalog[y.table] # 0 /\ (answered[y.table] = 0 \/ y.table \in lost)
TransformFits(y) ==
  Transforming(y) =>
    /\ y.todo = {} /\ schema[y.table] # "none"
    /\ y.at \in {"read", "write"} => y.flag = FlagOf(y.table)
RebuildFits(y) ==
  Rebuilds(y) =>
    /\ y.at \in {"read", "write"} /\ y.table \notin y.todo
    /\ \A t \in Tables : Pending(y, t) => catalog[t] # 0 /\ schema[t] = "none"
    /\ y.flag = IF y.table = First THEN "primary" ELSE "plain"
    /\ chosen = IF catalog[First] # 0 THEN First ELSE NoTable
RelationFits(y) ==
  /\ y.at = "rels" => (y.add => Related(y.pair))
  /\ y.at = "save" => \A p \in y.seen : Related(p)
Fits(y) ==
  /\ DropFits(y) /\ UploadFits(y) /\ TransformFits(y) /\ RebuildFits(y)
  /\ RelationFits(y)

(* Two requests that go together.                                          *)
Bears(y, z) ==
  /\ Drops(y) => z.at = "idle" \/ (Transforming(z) /\ z.table # y.table)
  /\ Rebuilds(y) => z.at = "idle" \/ Relates(z)
Together(y, z) == Bears(y, z) /\ Bears(z, y)

Lists ==
  \A t \in Tables :
    /\ schema[t] # "none" =>
         catalog[t] # 0 \/ t \in lost \/ \E r \in Requests : Away(request[r], t)
    /\ catalog[t] # 0 =>
         schema[t] # "none" \/ \E r \in Requests : Covers(request[r], t)
Chosen ==
  \A t \in Tables :
    /\ schema[t] = "primary" => chosen = t
    /\ chosen = t =>
         schema[t] = "primary" \/ \E r \in Requests : Pending(request[r], t)
Relations == \A p \in rels : Related(p)

Unmixed ==
  ~ mixed =>
    /\ \A r \in Requests : Fits(request[r])
    /\ \A r \in Requests : \A o \in Requests \ {r} : Together(request[r], request[o])
    /\ Lists /\ Chosen /\ Relations

(* An answered table is there, or taken and sure to be put back or lost.   *)
Kept ==
  \A t \in Tables : answered[t] # 0 /\ t \notin lost =>
    catalog[t] = answered[t] \/ \E r \in Requests : Takes(request[r], t)

Held ==
  /\ \A r \in Requests : Holds(request[r])
  /\ \A t \in Tables : 0 \notin saved[t]

IInv == TypeOK /\ Held /\ Kept /\ Unmixed
RequestType == {Idle} \union Refreshing \union Deleting \union Relating \union Saving

-----------------------------------------------------------------------------

LEMMA Records ==
  /\ Idle.at = "idle"
  /\ \A y \in RequestType :
       /\ y.at = "idle" => y = Idle
       /\ Turns(y) => y \in Refreshing
       /\ Drops(y) => y \in Deleting
       /\ y.at = "rels" => y \in Relating
       /\ y.at = "save" => y \in Saving
       /\ y.at = "idle" \/ Turns(y) \/ Drops(y) \/ Relates(y)
BY DEF Idle, RequestType, Refreshing, Deleting, Relating, Saving, Drops, Turns, Relates

(* A request does one thing at a time.                                     *)
LEMMA Apart ==
  ASSUME NEW y
  PROVE  /\ Turns(y) => ~ Drops(y) /\ ~ Relates(y) /\ y.at # "idle"
         /\ Drops(y) => ~ Relates(y) /\ y.at # "idle"
         /\ Relates(y) => y.at # "idle"
         /\ Creates(y) \/ Rebuilds(y) \/ Transforming(y) => Turns(y)
         /\ Uploaded(y) => Creates(y)
         /\ Creates(y) => ~ Rebuilds(y) /\ ~ Transforming(y)
         /\ Rebuilds(y) => ~ Transforming(y)
         /\ \A t : Pending(y, t) => Rebuilds(y)
         /\ \A t : Takes(y, t) => Turns(y) /\ Away(y, t)
         /\ \A t : Away(y, t) => Takes(y, t) \/ Drops(y)
         /\ \A t : Covers(y, t) => Turns(y) /\ (Creates(y) \/ Rebuilds(y))
BY DEF Turns, Drops, Relates, Creates, Rebuilds, Transforming, Uploaded, Pending, Takes,
       Away, Covers, Transforms

(* A request that does nothing goes with every other.                      *)
LEMMA IdleFits ==
  /\ Fits(Idle) /\ Fits(Idle)' /\ Holds(Idle)
  /\ \A z : Together(Idle, z)
  /\ \A t : ~ Covers(Idle, t) /\ ~ Pending(Idle, t) /\ ~ Takes(Idle, t) /\ ~ Away(Idle, t)
BY DEF Idle, Fits, DropFits, UploadFits, TransformFits, RebuildFits, RelationFits, Holds,
       Together, Bears, Covers, Pending, Drops, Relates, Turns, Creates, Rebuilds,
       Transforming, Uploaded, Takes, Away

LEMMA InitIInv == ASSUME Init PROVE IInv
<1>1. TypeOK
  <2>1. 0 \in Uploads /\ 1 \in Uploads
    BY UploadAssumption DEF Uploads
  <2> QED
    BY <2>1, FirstAssumption DEF Init, TypeOK, Flags
<1>2. Kept
  BY DEF Init, Kept
<1>3. \A r \in Requests : request[r] = Idle
  BY DEF Init
<1>4. Lists /\ Relations
  BY DEF Init, Lists, Relations
<1>5. Chosen
  BY DEF Init, Chosen
<1>6. Unmixed
  BY <1>3, <1>4, <1>5, IdleFits DEF Unmixed
<1>7. Held
  BY <1>3, IdleFits DEF Init, Held
<1> QED
  BY <1>1, <1>2, <1>6, <1>7 DEF IInv

-----------------------------------------------------------------------------
(* How a step is put together: request r becomes y.                        *)

LEMMA Assemble ==
  ASSUME IInv, NEW r \in Requests, NEW y,
         request' = [request EXCEPT ![r] = y],
         Fits(y)', \A o \in Requests \ {r} : Fits(request[o]) => Fits(request[o])',
         \A o \in Requests \ {r} : Together(y, request[o]),
         ~ mixed, Lists', Chosen', Relations'
  PROVE  Unmixed'
<1>1. request'[r] = y /\ \A o \in Requests \ {r} : request'[o] = request[o]
  BY DEF IInv, TypeOK
<1>2. ASSUME NEW o \in Requests PROVE Fits(request[o])'
  <2>1. CASE o = r
    BY <1>1, <2>1 DEF Fits, DropFits, UploadFits, TransformFits, RebuildFits, RelationFits
  <2>2. CASE o # r
    BY <2>2 DEF IInv, Unmixed
  <2> QED
    BY <2>1, <2>2
<1>3. \A x \in Requests : \A o \in Requests \ {x} : Together(request'[x], request'[o])
  BY <1>1 DEF IInv, Unmixed, Together
<1> QED
  BY <1>2, <1>3 DEF Unmixed

(* The records stay those of requests that hold what they should.          *)
LEMMA HeldOn ==
  ASSUME IInv, NEW r \in Requests, NEW y \in RequestType, Holds(y),
         request' = [request EXCEPT ![r] = y],
         \A t \in Tables : 0 \notin saved'[t]
  PROVE  /\ Held'
         /\ request' \in [Requests ->
              {Idle} \union Refreshing \union Deleting \union Relating \union Saving]
<1>1. request' \in [Requests -> RequestType]
  BY DEF IInv, TypeOK, RequestType
<1>2. ASSUME NEW o \in Requests PROVE Holds(request'[o])
  BY DEF IInv, TypeOK, Held
<1>3. Held'
  BY <1>2 DEF Held, Holds, Uploaded, Creates, Turns
<1> QED
  BY <1>1, <1>3 DEF RequestType

(* What IInv says of a request.                                            *)
LEMMA RequestFacts ==
  ASSUME IInv, NEW r \in Requests
  PROVE  /\ request[r] \in RequestType /\ Holds(request[r])
         /\ Turns(request[r]) => /\ request[r] \in Refreshing
                                 /\ request[r].table \in Tables
                                 /\ request[r].todo \subseteq Tables
         /\ Drops(request[r]) => /\ request[r] \in Deleting
                                 /\ request[r].table \in Tables
<1>1. request[r] \in RequestType /\ Holds(request[r])
  BY DEF IInv, TypeOK, RequestType, Held
<1>2. /\ Turns(request[r]) => request[r] \in Refreshing
      /\ Drops(request[r]) => request[r] \in Deleting
  BY <1>1, Records
<1> QED
  BY <1>1, <1>2 DEF Refreshing, Deleting

(* Steps that change no table and no list of tables, but the record of one *)
(* request.                                                                *)
LEMMA QuietStep ==
  ASSUME IInv, NEW r \in Requests, NEW y \in RequestType, Holds(y),
         request' = [request EXCEPT ![r] = y],
         UNCHANGED <<catalog, schema, rels, uploads, answered, chosen>>,
         saved' \in [Tables -> SUBSET Uploads], \A t \in Tables : 0 \notin saved'[t],
         lost \subseteq lost', lost' \subseteq Tables,
         \A t \in Tables : Takes(request[r], t) =>
           Takes(y, t) \/ t \in lost' \/ catalog[t] = answered[t],
         \A t \in Tables : Away(request[r], t) =>
           Away(y, t) \/ t \in lost' \/ catalog[t] # 0,
         mixed' \in BOOLEAN,
         ~ mixed' =>
           /\ ~ mixed /\ Fits(y)
           /\ \A o \in Requests \ {r} : Together(y, request[o])
           /\ \A t \in Tables : (Covers(request[r], t) => Covers(y, t))
                              /\ (Pending(request[r], t) => Pending(y, t))
  PROVE  IInv'
<1>1. request'[r] = y /\ \A o \in Requests \ {r} : request'[o] = request[o]
  BY DEF IInv, TypeOK
<1>2. TypeOK' /\ Held'
  BY HeldOn DEF IInv, TypeOK
<1>3. Kept'
  <2> SUFFICES ASSUME NEW t \in Tables, answered[t] # 0, t \notin lost'
               PROVE  catalog[t] = answered[t] \/ \E o \in Requests : Takes(request'[o], t)
    BY DEF Kept, Takes
  <2>1. CASE catalog[t] = answered[t]
    BY <2>1
  <2>2. CASE catalog[t] # answered[t]
    <3>1. PICK o \in Requests : Takes(request[o], t)
      BY <2>2 DEF IInv, Kept
    <3>2. Takes(request'[o], t)
      BY <1>1, <2>2, <3>1
    <3> QED
      BY <3>2
  <2> QED
    BY <2>1, <2>2
<1>4. ASSUME ~ mixed' PROVE Unmixed'
  <2>1. Fits(y)'
    BY <1>4 DEF Fits, DropFits, UploadFits, TransformFits, RebuildFits,
                RelationFits, FlagOf, Related
  <2>2. ASSUME NEW o \in Requests \ {r}, Fits(request[o]) PROVE Fits(request[o])'
    BY <1>1, <2>2 DEF Fits, DropFits, UploadFits, TransformFits, RebuildFits,
                      RelationFits, FlagOf, Related
  <2>3. Lists /\ Chosen /\ Relations
    BY <1>4 DEF IInv, Unmixed
  <2>4. ASSUME NEW o \in Requests, NEW t \in Tables
        PROVE  /\ Covers(request[o], t) => Covers(request'[o], t)
               /\ Pending(request[o], t) => Pending(request'[o], t)
               /\ Away(request[o], t) =>
                    Away(request'[o], t) \/ t \in lost' \/ catalog[t] # 0
    BY <1>1, <1>4
  <2>5. Lists'
    <3> SUFFICES ASSUME NEW t \in Tables
                 PROVE  /\ schema[t] # "none" =>
                             \/ catalog[t] # 0 \/ t \in lost'
                             \/ \E o \in Requests : Away(request'[o], t)
                        /\ catalog[t] # 0 => \/ schema[t] # "none"
                                             \/ \E o \in Requests : Covers(request'[o], t)
      BY DEF Lists, Away, Covers, Pending, Uploaded, Creates, Rebuilds, Turns
    <3> QED
      BY <2>3, <2>4 DEF Lists
  <2>6. Chosen'
    <3> SUFFICES ASSUME NEW t \in Tables
                 PROVE  /\ schema[t] = "primary" => chosen = t
                        /\ chosen = t => \/ schema[t] = "primary"
                                         \/ \E o \in Requests : Pending(request'[o], t)
      BY DEF Chosen, Pending, Rebuilds, Turns
    <3> QED
      BY <2>3, <2>4 DEF Chosen
  <2>7. Relations'
    BY <2>3 DEF Relations, Related
  <2> QED
    BY <1>4, <2>1, <2>2, <2>5, <2>6, <2>7, Assemble
<1>5. Unmixed'
  BY <1>4 DEF Unmixed
<1> QED
  BY <1>2, <1>3, <1>5 DEF IInv

(* ... that end a request which was about to list nothing.                 *)
LEMMA GiveUpStep ==
  ASSUME IInv, NEW r \in Requests,
         request' = [request EXCEPT ![r] = Idle],
         UNCHANGED <<catalog, schema, rels, saved, uploads, answered, chosen>>,
         lost' = lost \union Cut({r}),
         mixed' \in BOOLEAN,
         ~ mixed' => ~ mixed /\ \A t \in Tables : ~ Covers(request[r], t)
  PROVE  IInv'
<1>1. Idle \in RequestType
  BY DEF RequestType
<1>2. \A t : Pending(request[r], t) => Covers(request[r], t)
  BY DEF Covers
<1>3. /\ Cut({r}) \subseteq Tables
      /\ \A t \in Tables : Takes(request[r], t) \/ Away(request[r], t) =>
           t \in Cut({r}) \/ (catalog[t] # 0 /\ catalog[t] = answered[t])
  <2>1. {r} \intersect Busy({"swap", "unlist"}) =
          IF request[r].at \in {"swap", "unlist"} THEN {r} ELSE {}
    BY DEF Busy
  <2>2. request[r].at \in {"swap", "unlist"} => Turns(request[r]) \/ Drops(request[r])
    BY DEF Turns, Drops
  <2>3. request[r].at \in {"swap", "unlist"} => request[r].table \in Tables
    BY <2>2, RequestFacts
  <2>4. ASSUME request[r].at \in {"swap", "unlist"},
               request[r].table \notin Present \/ catalog[request[r].table] # answered[request[r].table]
        PROVE  Cut({r}) = {request[r].table}
    BY <2>1, <2>4 DEF Cut
  <2>5. Cut({r}) \subseteq Tables
    BY <2>1, <2>3 DEF Cut
  <2> QED
    BY <2>3, <2>4, <2>5 DEF Takes, Away, Present
<1>4. /\ saved' \in [Tables -> SUBSET Uploads] /\ \A t \in Tables : 0 \notin saved'[t]
      /\ lost \subseteq lost' /\ lost' \subseteq Tables
  BY <1>3 DEF IInv, TypeOK, Held
<1> QED
  BY <1>1, <1>2, <1>3, <1>4, IdleFits, QuietStep

LEMMA UploadStep ==
  ASSUME IInv, NEW r \in Requests, NEW t \in Tables, Upload(r, t)
  PROVE  IInv'
<1> DEFINE y == [at |-> "create", kind |-> "upload", table |-> t,
                 flag |-> "plain", held |-> 0, todo |-> {}]
<1>1. y \in RequestType /\ y.at = "create" /\ y.kind = "upload" /\ y.table = t
      /\ y.flag = "plain" /\ y.todo = {}
  BY UploadAssumption DEF RequestType, Refreshing, Uploads
<1>2. /\ request[r] = Idle /\ request' = [request EXCEPT ![r] = y]
      /\ UNCHANGED <<catalog, schema, rels, saved, uploads, answered, lost, chosen>>
      /\ mixed' = (mixed \/ Deletions # {} \/ RefreshOf({"rebuild"}) # {})
  BY DEF Upload, Step, tables
<1>3. mixed' \in BOOLEAN
  BY <1>2 DEF IInv, TypeOK
<1> HIDE DEF y
<1>4. Fits(y) /\ Holds(y)
  BY <1>1 DEF Fits, DropFits, UploadFits, TransformFits, RebuildFits, RelationFits, Holds,
              Drops, Turns, Creates, Rebuilds, Transforming, Uploaded, Transforms
<1>5. ASSUME ~ mixed', NEW o \in Requests \ {r} PROVE Together(y, request[o])
  <2>1. ~ Drops(request[o]) /\ ~ Rebuilds(request[o])
    BY <1>2, <1>5 DEF Busy, RefreshOf, Deletions, Drops, Rebuilds, Turns
  <2>2. ~ Drops(y) /\ ~ Rebuilds(y)
    BY <1>1 DEF Drops, Rebuilds
  <2> QED
    BY <2>1, <2>2 DEF Together, Bears
<1>6. ~ mixed' => ~ mixed
  BY <1>2
<1>7. /\ saved' \in [Tables -> SUBSET Uploads] /\ \A u \in Tables : 0 \notin saved'[u]
      /\ lost \subseteq lost' /\ lost' \subseteq Tables
  BY <1>2 DEF IInv, TypeOK, Held
<1> QED
  BY <1>1, <1>2, <1>3, <1>4, <1>5, <1>6, <1>7, IdleFits, QuietStep

LEMMA TransformStep ==
  ASSUME IInv, NEW r \in Requests, NEW t \in Tables, NEW kind \in Transforms,
         Transform(r, t, kind)
  PROVE  IInv'
<1> DEFINE y == [at |-> "change", kind |-> kind, table |-> t,
                 flag |-> "plain", held |-> 0, todo |-> {}]
<1>1. y \in RequestType /\ y.at = "change" /\ y.kind \in Transforms /\ y.table = t
      /\ y.todo = {}
  BY UploadAssumption DEF RequestType, Refreshing, Uploads
<1>2. /\ request[r] = Idle /\ request' = [request EXCEPT ![r] = y]
      /\ UNCHANGED <<catalog, schema, rels, saved, uploads, answered, lost, chosen>>
      /\ mixed' = (mixed \/ RefreshOf({"rebuild"}) # {}
                         \/ \E d \in Deletions : request[d].table = t)
      /\ schema[t] # "none"
  BY DEF Transform, Step, Listed, tables
<1>3. mixed' \in BOOLEAN
  BY <1>2 DEF IInv, TypeOK
<1> HIDE DEF y
<1>4. Fits(y) /\ Holds(y)
  BY <1>1, <1>2
  DEF Fits, DropFits, UploadFits, TransformFits, RebuildFits, RelationFits, Holds,
      Drops, Turns, Creates, Rebuilds, Transforming, Uploaded, Transforms
<1>5. ASSUME ~ mixed', NEW o \in Requests \ {r} PROVE Together(y, request[o])
  <2>1. /\ Drops(request[o]) => request[o].table # t
        /\ ~ Rebuilds(request[o])
    BY <1>2, <1>5 DEF Busy, RefreshOf, Deletions, Drops, Rebuilds, Turns
  <2>2. ~ Drops(y) /\ ~ Rebuilds(y) /\ Transforming(y)
    BY <1>1 DEF Drops, Rebuilds, Transforming, Turns, Transforms
  <2> QED
    BY <1>1, <2>1, <2>2 DEF Together, Bears
<1>6. ~ mixed' => ~ mixed
  BY <1>2
<1>7. /\ saved' \in [Tables -> SUBSET Uploads] /\ \A u \in Tables : 0 \notin saved'[u]
      /\ lost \subseteq lost' /\ lost' \subseteq Tables
  BY <1>2 DEF IInv, TypeOK, Held
<1> QED
  BY <1>1, <1>2, <1>3, <1>4, <1>5, <1>6, <1>7, IdleFits, QuietStep

(* A request that stops before it has created or replaced a table.         *)
LEMMA CreateErrorStep ==
  ASSUME IInv, NEW r \in Requests, CreateError(r)
  PROVE  IInv'
<1>1. /\ request[r].at = "create"
      /\ request' = [request EXCEPT ![r] = Idle]
      /\ UNCHANGED <<catalog, schema, rels, saved, uploads, answered, lost, chosen, mixed>>
  BY DEF CreateError, Step, tables, marks
<1>2. \A t \in Tables : ~ Covers(request[r], t)
  BY <1>1, RequestFacts DEF Holds, Covers, Uploaded, Pending, Rebuilds
<1>3. Cut({r}) = {}
  BY <1>1 DEF Cut, Busy
<1> QED
  BY <1>1, <1>2, <1>3, GiveUpStep DEF IInv, TypeOK

LEMMA TransformErrorStep ==
  ASSUME IInv, NEW r \in Requests, TransformError(r)
  PROVE  IInv'
<1>1. /\ request[r].at \in {"change", "take", "swap", "done"}
      /\ request' = [request EXCEPT ![r] = Idle]
      /\ UNCHANGED <<catalog, schema, rels, saved, uploads, answered, chosen, mixed>>
      /\ lost' = lost \union Cut({r})
  BY DEF TransformError, Step, tables
<1>2. \A t \in Tables : ~ Covers(request[r], t)
  BY <1>1, RequestFacts DEF Holds, Covers, Uploaded, Pending, Rebuilds, Transforms
<1> QED
  BY <1>1, <1>2, GiveUpStep DEF IInv, TypeOK

LEMMA DeleteErrorStep ==
  ASSUME IInv, NEW r \in Requests, DeleteError(r)
  PROVE  IInv'
<1>1. /\ Drops(request[r])
      /\ request' = [request EXCEPT ![r] = Idle]
      /\ UNCHANGED <<catalog, schema, rels, saved, uploads, answered, chosen, mixed>>
      /\ lost' = lost \union Cut({r})
  BY DEF DeleteError, Step, tables, Drops
<1>2. \A t \in Tables : ~ Covers(request[r], t)
  BY <1>1, Apart
<1> QED
  BY <1>1, <1>2, GiveUpStep DEF IInv, TypeOK

LEMMA RefreshErrorStep ==
  ASSUME IInv, NEW r \in Requests, RefreshError(r)
  PROVE  IInv'
<1>1. /\ request[r].at \in {"read", "write"} /\ request' = [request EXCEPT ![r] = Idle]
      /\ UNCHANGED <<catalog, schema, rels, saved, uploads, answered, lost, chosen>>
      /\ mixed' = (mixed \/ request[r].kind \in {"upload", "rebuild"})
  BY DEF RefreshError, Step, tables
<1>2. ~ mixed' => ~ mixed /\ \A t \in Tables : ~ Covers(request[r], t)
  BY <1>1 DEF Covers, Uploaded, Creates, Rebuilds, Pending
<1>3. Cut({r}) = {}
  BY <1>1 DEF Cut, Busy
<1>4. mixed' \in BOOLEAN
  BY <1>1 DEF IInv, TypeOK
<1> QED
  BY <1>1, <1>2, <1>3, <1>4, GiveUpStep

(* What a request keeps when it goes on from one step to the next.         *)
LEMMA GoesOn ==
  ASSUME IInv, NEW r \in Requests, Turns(request[r]), request[r].at # "create",
         NEW y, Turns(y), y.at # "create", y.kind = request[r].kind,
         y.table = request[r].table, y.todo = request[r].todo
  PROVE  /\ Creates(y) <=> Creates(request[r])
         /\ Rebuilds(y) <=> Rebuilds(request[r])
         /\ Transforming(y) <=> Transforming(request[r])
         /\ \A t : Pending(y, t) <=> Pending(request[r], t)
         /\ ~ mixed => \A o \in Requests \ {r} : Together(y, request[o])
<1>1. /\ Creates(y) <=> Creates(request[r])
      /\ Rebuilds(y) <=> Rebuilds(request[r])
      /\ Transforming(y) <=> Transforming(request[r])
  BY DEF Creates, Rebuilds, Transforming
<1>2. \A t : Pending(y, t) <=> Pending(request[r], t)
  BY <1>1 DEF Pending
<1>3. ASSUME ~ mixed, NEW o \in Requests \ {r} PROVE Together(y, request[o])
  <2>1. Together(request[r], request[o])
    BY <1>3 DEF IInv, Unmixed
  <2>2. /\ ~ Drops(y) /\ ~ Drops(request[r]) /\ ~ Relates(y) /\ ~ Relates(request[r])
        /\ y.at # "idle" /\ request[r].at # "idle"
    BY Apart
  <2> QED
    BY <1>1, <2>1, <2>2 DEF Together, Bears
<1> QED
  BY <1>1, <1>2, <1>3

(* ... while no table and no entry changes.                                *)
LEMMA GoesOnStep ==
  ASSUME IInv, NEW r \in Requests, NEW y \in Refreshing, y.at # "create",
         request[r].at \in {"change", "done", "read"},
         y.kind = request[r].kind, y.table = request[r].table, y.todo = request[r].todo,
         request[r].at = "change" => y.at = "take" /\ y.held # 0,
         request[r].at = "done" => y.at = "read" /\ y.flag = FlagOf(y.table),
         request[r].at = "read" => y.at = "write" /\ y.flag = request[r].flag
                                               /\ y.held = request[r].held,
         request' = [request EXCEPT ![r] = y],
         UNCHANGED <<catalog, schema, rels, uploads, answered, lost, chosen, mixed>>,
         saved' \in [Tables -> SUBSET Uploads], \A t \in Tables : 0 \notin saved'[t]
  PROVE  IInv'
<1> DEFINE q == request[r]
<1>1. Turns(q) /\ Turns(y) /\ y.at \in {"take", "read", "write"} /\ Holds(q)
  BY RequestFacts DEF Turns
<1>2. /\ Creates(y) <=> Creates(q)
      /\ Rebuilds(y) <=> Rebuilds(q)
      /\ Transforming(y) <=> Transforming(q)
      /\ \A t : Pending(y, t) <=> Pending(q, t)
      /\ ~ mixed => \A o \in Requests \ {r} : Together(y, request[o])
  BY <1>1, GoesOn
<1>3. q.at \in {"change", "done"} => q.kind \in Transforms /\ ~ Creates(q) /\ ~ Rebuilds(q)
  BY <1>1 DEF Holds, Creates, Rebuilds, Transforms
<1>4. Uploaded(y) <=> Uploaded(q)
  BY <1>2, <1>3 DEF Uploaded
<1>5. Holds(y)
  BY <1>1, <1>3, <1>4 DEF Holds, Uploaded
<1>6. ASSUME ~ mixed PROVE Fits(y)
  <2>1. Fits(q)
    BY <1>6 DEF IInv, Unmixed
  <2>2. UploadFits(y)
    BY <1>2, <1>3, <1>4, <2>1 DEF Fits, UploadFits
  <2>3. TransformFits(y)
    BY <1>1, <1>2, <2>1 DEF Fits, TransformFits
  <2>4. RebuildFits(y)
    BY <1>2, <1>3, <2>1 DEF Fits, RebuildFits
  <2>5. DropFits(y) /\ RelationFits(y)
    BY <1>1, Apart DEF DropFits, RelationFits, Relates
  <2> QED
    BY <2>2, <2>3, <2>4, <2>5 DEF Fits
<1>7. \A t : ~ Takes(q, t) /\ ~ Away(q, t)
  BY DEF Takes, Away
<1>8. y \in RequestType
  BY DEF RequestType
<1>9. \A t : Covers(q, t) => Covers(y, t)
  BY <1>2, <1>4 DEF Covers
<1>10. lost \subseteq lost' /\ lost' \subseteq Tables /\ mixed' \in BOOLEAN
  BY DEF IInv, TypeOK
<1> QED
  BY <1>2, <1>5, <1>6, <1>7, <1>8, <1>9, <1>10, QuietStep

LEMMA PrepareStep ==
  ASSUME IInv, NEW r \in Requests, Prepare(r)
  PROVE  IInv'
<1> DEFINE q == request[r]
<1>1. q.at = "change" /\ q \in Refreshing /\ q.table \in Tables /\ q.kind \in Transforms
  BY RequestFacts DEF Prepare, Turns, Holds
<1>2. PICK u \in (IF q.kind = "apply" THEN {catalog[q.table]} \ {0} ELSE saved[q.table]) :
        request' = [request EXCEPT ![r] = [q EXCEPT !.at = "take", !.held = u]]
  BY DEF Prepare, Step
<1>3. u \in Uploads /\ u # 0
  BY <1>1, <1>2 DEF IInv, TypeOK, Held
<1>4. PICK y : y = [q EXCEPT !.at = "take", !.held = u]
  OBVIOUS
<1>5. /\ y \in Refreshing /\ y.at = "take" /\ y.held = u
      /\ y.kind = q.kind /\ y.table = q.table /\ y.todo = q.todo
  BY <1>1, <1>3, <1>4 DEF Refreshing
<1>6. /\ UNCHANGED <<catalog, schema, rels, saved, uploads, answered, lost, chosen, mixed>>
      /\ saved' \in [Tables -> SUBSET Uploads] /\ \A t \in Tables : 0 \notin saved'[t]
  BY DEF Prepare, tables, marks, IInv, TypeOK, Held
<1>7. request' = [request EXCEPT ![r] = y]
  BY <1>2, <1>4
<1> QED
  BY <1>1, <1>3, <1>5, <1>6, <1>7, GoesOnStep

LEMMA ChangedStep ==
  ASSUME IInv, NEW r \in Requests, Changed(r)
  PROVE  IInv'
<1> DEFINE q == request[r]
<1>1. q.at = "done" /\ q \in Refreshing /\ q.table \in Tables /\ q.held # 0
  BY RequestFacts DEF Changed, ChangedAs, Turns, Holds
<1>2. PICK t \in Tables : t = q.table
  BY <1>1
<1>3. /\ t \in Present
      /\ saved' = IF q.kind = "restore" THEN saved
                  ELSE [saved EXCEPT ![t] = IF @ = {} THEN {q.held, catalog[t]}
                                            ELSE @ \union {catalog[t]}]
      /\ request' = [request EXCEPT ![r] =
                       [q EXCEPT !.at = "read", !.flag = FlagOf(t), !.held = 0]]
      /\ UNCHANGED <<catalog, schema, rels, uploads, answered, lost, chosen, mixed>>
  BY <1>2 DEF Changed, ChangedAs, Step, FlagOf, marks
<1>4. PICK y : y = [q EXCEPT !.at = "read", !.flag = FlagOf(t), !.held = 0]
  OBVIOUS
<1>5. /\ y \in Refreshing /\ y.at = "read" /\ y.flag = FlagOf(y.table)
      /\ y.kind = q.kind /\ y.table = q.table /\ y.todo = q.todo
  <2>1. 0 \in Uploads /\ FlagOf(t) \in {"plain", "primary"}
    BY UploadAssumption DEF Uploads, FlagOf
  <2>2. /\ y \in Refreshing /\ y.at = "read" /\ y.flag = FlagOf(t)
        /\ y.kind = q.kind /\ y.table = t /\ y.todo = q.todo
    BY <1>1, <1>2, <1>4, <2>1 DEF Refreshing
  <2> QED
    BY <1>2, <2>2
<1>6. /\ catalog[t] \in Uploads /\ catalog[t] # 0 /\ q.held \in Uploads
      /\ saved \in [Tables -> SUBSET Uploads] /\ \A u \in Tables : 0 \notin saved[u]
  BY <1>1, <1>3 DEF IInv, TypeOK, Held, Present, Refreshing
<1>7. saved' \in [Tables -> SUBSET Uploads] /\ \A u \in Tables : 0 \notin saved'[u]
  BY <1>1, <1>3, <1>6
<1>8. request' = [request EXCEPT ![r] = y]
  BY <1>3, <1>4
<1> QED
  BY <1>1, <1>3, <1>5, <1>7, <1>8, GoesOnStep

LEMMA RefreshReadStep ==
  ASSUME IInv, NEW r \in Requests, RefreshRead(r)
  PROVE  IInv'
<1> DEFINE q == request[r]
<1>1. q.at = "read" /\ q \in Refreshing
  BY RequestFacts DEF RefreshRead, Turns
<1>2. PICK y : y = [q EXCEPT !.at = "write"]
  OBVIOUS
<1>3. /\ y \in Refreshing /\ y.at = "write" /\ y.flag = q.flag /\ y.held = q.held
      /\ y.kind = q.kind /\ y.table = q.table /\ y.todo = q.todo
  BY <1>1, <1>2 DEF Refreshing
<1>4. /\ UNCHANGED <<catalog, schema, rels, saved, uploads, answered, lost, chosen, mixed>>
      /\ saved' \in [Tables -> SUBSET Uploads] /\ \A t \in Tables : 0 \notin saved'[t]
  BY DEF RefreshRead, tables, marks, IInv, TypeOK, Held
<1>5. request' = [request EXCEPT ![r] = y]
  BY <1>2 DEF RefreshRead, Step
<1> QED
  BY <1>1, <1>3, <1>4, <1>5, GoesOnStep

(* The two steps of a relationship route that change nothing but its own   *)
(* record.                                                                 *)
LEMMA RelatingStep ==
  ASSUME IInv, NEW r \in Requests, NEW y \in RequestType, Relates(y),
         request' = [request EXCEPT ![r] = y],
         request[r].at = "idle" \/ Relates(request[r]),
         UNCHANGED <<catalog, schema, rels, saved, uploads, answered, lost, chosen>>,
         mixed' \in BOOLEAN,
         ~ mixed' => /\ ~ mixed /\ RelationFits(y)
                     /\ \A o \in Requests \ {r} : ~ Drops(request[o])
  PROVE  IInv'
<1>1. /\ ~ Drops(y) /\ ~ Turns(y) /\ ~ Creates(y) /\ ~ Rebuilds(y) /\ ~ Transforming(y)
      /\ ~ Uploaded(y)
  BY Apart
<1>2. Holds(y)
  BY <1>1 DEF Holds, Relates
<1>3. ASSUME ~ mixed'
      PROVE  Fits(y) /\ \A o \in Requests \ {r} : Together(y, request[o])
  BY <1>1, <1>3 DEF Fits, DropFits, UploadFits, TransformFits, RebuildFits, Together, Bears
<1>4. \A t : /\ ~ Takes(request[r], t) /\ ~ Away(request[r], t)
             /\ ~ Covers(request[r], t) /\ ~ Pending(request[r], t)
  BY DEF Relates, Takes, Away, Covers, Pending, Uploaded, Creates, Rebuilds, Turns
<1>5. /\ saved' \in [Tables -> SUBSET Uploads] /\ \A t \in Tables : 0 \notin saved'[t]
      /\ lost \subseteq lost' /\ lost' \subseteq Tables
  BY DEF IInv, TypeOK, Held
<1> QED
  BY <1>2, <1>3, <1>4, <1>5, QuietStep

LEMMA RelateStep ==
  ASSUME IInv, NEW r \in Requests, NEW p \in Links, Relate(r, p) \/ Unrelate(r, p)
  PROVE  IInv'
<1>1. PICK y \in Relating :
        /\ y.at = "rels" /\ (y.add => Related(p)) /\ y.pair = p
        /\ request' = [request EXCEPT ![r] = y]
  <2>1. CASE Relate(r, p)
    <3> DEFINE y == [at |-> "rels", add |-> TRUE, pair |-> p]
    <3>1. y \in Relating /\ y.at = "rels" /\ y.pair = p
      BY DEF Relating
    <3>2. Related(p) /\ request' = [request EXCEPT ![r] = y]
      BY <2>1 DEF Relate, Step, Related, Listed
    <3> QED
      BY <3>1, <3>2
  <2>2. CASE Unrelate(r, p)
    <3> DEFINE y == [at |-> "rels", add |-> FALSE, pair |-> p]
    <3>1. y \in Relating /\ y.at = "rels" /\ ~ y.add /\ y.pair = p
      BY DEF Relating
    <3>2. request' = [request EXCEPT ![r] = y]
      BY <2>2 DEF Unrelate, Step
    <3> QED
      BY <3>1, <3>2
  <2> QED
    BY <2>1, <2>2
<1>2. /\ request[r] = Idle
      /\ UNCHANGED <<catalog, schema, rels, saved, uploads, answered, lost, chosen>>
      /\ mixed' = (mixed \/ Deletions # {})
  BY DEF Relate, Unrelate, tables
<1>3. mixed' \in BOOLEAN
  BY <1>2 DEF IInv, TypeOK
<1>4. y \in RequestType /\ Relates(y) /\ RelationFits(y)
  BY <1>1 DEF RequestType, Relates, RelationFits
<1>5. ASSUME ~ mixed' PROVE ~ mixed /\ \A o \in Requests : ~ Drops(request[o])
  BY <1>2, <1>5 DEF Busy, Deletions, Drops
<1>6. request[r].at = "idle"
  BY <1>2, Records
<1> QED
  BY <1>1, <1>2, <1>3, <1>4, <1>5, <1>6, RelatingStep

LEMMA ReadRelsStep ==
  ASSUME IInv, NEW r \in Requests, ReadRels(r)
  PROVE  IInv'
<1> DEFINE q == request[r]
<1>1. /\ q.at = "rels" /\ Relates(q)
      /\ UNCHANGED <<catalog, schema, rels, saved, uploads, answered, lost, chosen, mixed>>
  BY DEF ReadRels, Relates, tables, marks
<1>2. q \in Relating /\ rels \subseteq Links /\ mixed' \in BOOLEAN
  BY <1>1, RequestFacts, Records DEF IInv, TypeOK
<1>3. CASE request' = [request EXCEPT ![r] = Idle]
  <2>1. \A t \in Tables : ~ Covers(q, t)
    BY <1>1, Apart
  <2>2. Cut({r}) = {}
    BY <1>1 DEF Cut, Busy
  <2> QED
    BY <1>1, <1>2, <1>3, <2>1, <2>2, GiveUpStep
<1>4. ASSUME NEW S \in SUBSET Links, \A p \in S : p \in rels \/ (q.add /\ p = q.pair),
             request' = [request EXCEPT ![r] = [at |-> "save", seen |-> S]]
      PROVE  IInv'
  <2>1. PICK y : y = [at |-> "save", seen |-> S]
    OBVIOUS
  <2>2. y \in RequestType /\ y.at = "save" /\ y.seen = S /\ Relates(y)
    BY <2>1 DEF RequestType, Saving, Relates
  <2>3. ASSUME ~ mixed
        PROVE  RelationFits(y) /\ \A o \in Requests \ {r} : ~ Drops(request[o])
    <3>1. /\ Fits(q) /\ Relations
          /\ \A o \in Requests \ {r} : Together(q, request[o])
      BY <2>3 DEF IInv, Unmixed
    <3>2. RelationFits(y)
      BY <1>1, <1>4, <2>2, <3>1 DEF Fits, RelationFits, Relations
    <3>3. \A o \in Requests \ {r} : ~ Drops(request[o])
      BY <1>1, <3>1, Apart DEF Together, Bears
    <3> QED
      BY <3>2, <3>3
  <2> QED
    BY <1>1, <1>2, <1>4, <2>1, <2>2, <2>3, RelatingStep
<1>5. CASE q.add
  <2>1. request' = [request EXCEPT ![r] = [at |-> "save", seen |-> rels \union {q.pair}]]
    BY <1>5 DEF ReadRels, Step
  <2>2. rels \union {q.pair} \in SUBSET Links
    BY <1>2 DEF Relating
  <2> QED
    BY <1>4, <1>5, <2>1, <2>2
<1>6. CASE ~ q.add /\ q.pair \in rels
  <2>1. request' = [request EXCEPT ![r] = [at |-> "save", seen |-> rels \ {q.pair}]]
    BY <1>6 DEF ReadRels, Step
  <2>2. rels \ {q.pair} \in SUBSET Links
    BY <1>2
  <2> QED
    BY <1>4, <2>1, <2>2
<1> QED
  BY <1>3, <1>5, <1>6 DEF ReadRels, Step

-----------------------------------------------------------------------------
(* The two steps of a transform at which its table leaves the catalog and  *)
(* comes back: what else is under way has nothing to do with that table,   *)
(* as long as nothing is mixed.                                            *)

LEMMA SwapStep ==
  ASSUME IInv, NEW r \in Requests, NEW t \in Tables, t = request[r].table,
         request[r].at \in {"take", "swap"},
         NEW y \in Refreshing, y.at \in {"swap", "done"}, y.kind = request[r].kind,
         y.table = t, y.held = request[r].held, y.todo = request[r].todo,
         request' = [request EXCEPT ![r] = y],
         NEW u \in Uploads, catalog' = [catalog EXCEPT ![t] = u],
         UNCHANGED <<schema, rels, saved, uploads, answered, chosen, mixed>>,
         lost' \subseteq Tables, \A v \in Tables \ {t} : v \in lost' <=> v \in lost,
         y.at = "done" => u # 0 /\ (answered[t] = u \/ t \in lost')
  PROVE  IInv'
<1> DEFINE q == request[r]
<1>1. /\ q \in Refreshing /\ Holds(q) /\ Turns(q) /\ Turns(y) /\ y \in RequestType
      /\ q.kind \in Transforms /\ q.held # 0
  BY RequestFacts DEF Turns, Holds, RequestType
<1>2. /\ ~ Creates(q) /\ ~ Rebuilds(q) /\ Transforming(q)
      /\ \A o \in Requests \ {r} : ~ mixed => Together(y, request[o])
      /\ ~ Creates(y) /\ ~ Rebuilds(y) /\ Transforming(y)
  <2>1. ~ Creates(q) /\ ~ Rebuilds(q) /\ Transforming(q)
    BY <1>1 DEF Creates, Rebuilds, Transforming, Transforms
  <2> QED
    BY <1>1, <2>1, GoesOn
<1>3. Holds(y)
  BY <1>1, <1>2 DEF Holds, Uploaded
<1>4. /\ request'[r] = y /\ \A o \in Requests \ {r} : request'[o] = request[o]
      /\ catalog'[t] = u /\ \A v \in Tables \ {t} : catalog'[v] = catalog[v]
  BY DEF IInv, TypeOK
<1>5. TypeOK' /\ Held'
  <2>1. \A v \in Tables : 0 \notin saved'[v]
    BY DEF IInv, Held
  <2> QED
    BY <1>1, <1>3, <2>1, HeldOn DEF IInv, TypeOK
<1>6. y.at = "swap" => Takes(y, t) /\ Away(y, t)
  BY DEF Takes, Away
<1>7. Kept'
  <2> SUFFICES ASSUME NEW v \in Tables, answered[v] # 0, v \notin lost'
               PROVE  catalog'[v] = answered[v] \/ \E o \in Requests : Takes(request'[o], v)
    BY DEF Kept, Takes
  <2>1. CASE v = t
    BY <1>4, <1>6, <2>1
  <2>2. CASE v # t
    <3>1. ~ Takes(q, v)
      BY <2>2 DEF Takes
    <3> QED
      BY <1>4, <2>2, <3>1 DEF IInv, Kept
  <2> QED
    BY <2>1, <2>2
<1>8. ASSUME ~ mixed PROVE Unmixed'
  <2>1. /\ Fits(q) /\ \A o \in Requests \ {r} : Fits(request[o]) /\ Together(q, request[o])
        /\ Lists /\ Chosen /\ Relations
    BY <1>8 DEF IInv, Unmixed
  <2>2. q.todo = {} /\ schema[t] # "none"
    BY <1>2, <2>1 DEF Fits, TransformFits
  <2>3. Fits(y)'
    <3>1. TransformFits(y)'
      BY <2>2 DEF TransformFits
    <3> QED
      BY <1>2, <3>1, Apart
      DEF Fits, DropFits, UploadFits, RebuildFits, RelationFits, Relates, Turns, Drops,
          Creates, Rebuilds
  <2>4. ASSUME NEW o \in Requests \ {r} PROVE Fits(request[o])'
    <3>1. PICK z : z = request[o] /\ z = request'[o]
      BY <1>4
    <3>2. Fits(z) /\ Bears(z, q)
      BY <2>1, <3>1 DEF Together
    <3>3. /\ ~ Rebuilds(z) /\ (Drops(z) => z.table \in Tables \ {t})
          /\ Uploaded(z) => z.table \in Tables
      <4>1. Turns(z) \/ Drops(z) => z.table \in Tables
        BY <3>1, RequestFacts
      <4>2. q.at # "idle" /\ ~ Relates(q)
        BY <1>1, Apart
      <4>3. Uploaded(z) => Turns(z)
        BY Apart
      <4> QED
        BY <3>2, <4>1, <4>2, <4>3 DEF Bears
    <3>4. DropFits(z)'
      BY <1>4, <3>2, <3>3 DEF Fits, DropFits, Drops
    <3>5. UploadFits(z)'
      BY <1>4, <2>2, <3>2, <3>3 DEF Fits, UploadFits, Uploaded, Creates, Turns
    <3>6. TransformFits(z)' /\ RelationFits(z)'
      BY <3>2 DEF Fits, TransformFits, RelationFits, FlagOf, Related, Transforming, Turns
    <3>7. RebuildFits(z)'
      BY <3>3 DEF RebuildFits
    <3>8. Fits(z)'
      BY <3>4, <3>5, <3>6, <3>7 DEF Fits
    <3> QED
      BY <3>1, <3>8 DEF Fits, DropFits, UploadFits, TransformFits, RebuildFits, RelationFits
  <2>5. Lists'
    <3> SUFFICES ASSUME NEW v \in Tables
                 PROVE  /\ schema[v] # "none" =>
                             \/ catalog'[v] # 0 \/ v \in lost'
                             \/ \E o \in Requests : Away(request'[o], v)
                        /\ catalog'[v] # 0 =>
                             \/ schema[v] # "none"
                             \/ \E o \in Requests : Covers(request'[o], v)
      BY DEF Lists, Away, Covers, Pending, Uploaded, Creates, Rebuilds, Turns
    <3>1. CASE v = t
      BY <1>4, <1>6, <2>2, <3>1
    <3>2. CASE v # t
      <4>1. ~ Covers(q, v) /\ ~ Away(q, v)
        BY <1>2, <3>2 DEF Covers, Uploaded, Pending, Away
      <4> QED
        BY <1>4, <2>1, <3>2, <4>1 DEF Lists
    <3> QED
      BY <3>1, <3>2
  <2>6. Chosen'
    <3> SUFFICES ASSUME NEW v \in Tables
                 PROVE  /\ schema[v] = "primary" => chosen = v
                        /\ chosen = v => \/ schema[v] = "primary"
                                         \/ \E o \in Requests : Pending(request'[o], v)
      BY DEF Chosen, Pending, Rebuilds, Turns
    <3>1. ~ Pending(q, v)
      BY <1>2 DEF Pending
    <3> QED
      BY <1>4, <2>1, <3>1 DEF Chosen
  <2>7. Relations'
    BY <2>1 DEF Relations, Related
  <2> QED
    BY <1>2, <1>8, <2>3, <2>4, <2>5, <2>6, <2>7, Assemble
<1> QED
  BY <1>5, <1>7, <1>8 DEF IInv, Unmixed

LEMMA TakeTableStep ==
  ASSUME IInv, NEW r \in Requests, TakeTable(r)
  PROVE  IInv'
<1> DEFINE q == request[r]
<1>1. q.at = "take" /\ q \in Refreshing /\ q.table \in Tables
  BY RequestFacts DEF TakeTable, Turns
<1>2. PICK t \in Tables : t = q.table
  BY <1>1
<1>3. PICK y : y = [q EXCEPT !.at = "swap"]
  OBVIOUS
<1>4. /\ y \in Refreshing /\ y.at = "swap" /\ y.held = q.held
      /\ y.kind = q.kind /\ y.table = t /\ y.todo = q.todo
  BY <1>1, <1>2, <1>3 DEF Refreshing
<1>5. /\ request' = [request EXCEPT ![r] = y]
      /\ catalog' = [catalog EXCEPT ![t] = 0]
      /\ UNCHANGED <<schema, rels, saved, uploads, answered, lost, chosen, mixed>>
  BY <1>2, <1>3 DEF TakeTable, Step, marks
<1>6. 0 \in Uploads /\ lost \subseteq Tables
  BY UploadAssumption DEF Uploads, IInv, TypeOK
<1> QED
  BY <1>1, <1>2, <1>4, <1>5, <1>6, SwapStep

LEMMA PutTableStep ==
  ASSUME IInv, NEW r \in Requests, PutTable(r)
  PROVE  IInv'
<1> DEFINE q == request[r]
<1>1. q.at = "swap" /\ q \in Refreshing /\ q.table \in Tables /\ q.held # 0
  BY RequestFacts DEF PutTable, Turns, Holds
<1>2. PICK t \in Tables : t = q.table
  BY <1>1
<1>3. PICK y : y = [q EXCEPT !.at = "done"]
  OBVIOUS
<1>4. /\ y \in Refreshing /\ y.at = "done" /\ y.held = q.held
      /\ y.kind = q.kind /\ y.table = t /\ y.todo = q.todo
  BY <1>1, <1>2, <1>3 DEF Refreshing
<1>5. /\ request' = [request EXCEPT ![r] = y]
      /\ catalog' = [catalog EXCEPT ![t] = q.held]
      /\ lost' = IF q.held = answered[t] THEN lost \ {t} ELSE lost \union {t}
      /\ UNCHANGED <<schema, rels, saved, uploads, answered, chosen, mixed>>
  BY <1>2, <1>3 DEF PutTable, Step
<1>6. q.held \in Uploads /\ lost \subseteq Tables
  BY <1>1 DEF Refreshing, IInv, TypeOK
<1>7. /\ lost' \subseteq Tables /\ \A v \in Tables \ {t} : v \in lost' <=> v \in lost
      /\ answered[t] = q.held \/ t \in lost'
  BY <1>5, <1>6
<1> QED
  BY <1>1, <1>2, <1>4, <1>5, <1>6, <1>7, SwapStep

(* The table that CREATE makes is one that no cache entry and no answer    *)
(* speaks of, unless the one they mean is lost or about to return.         *)
LEMMA CreateStep ==
  ASSUME IInv, NEW r \in Requests, Create(r)
  PROVE  IInv'
<1> DEFINE q == request[r]
<1>1. /\ q.at = "create" /\ q \in Refreshing /\ q.table \in Tables
      /\ Turns(q) /\ Creates(q)
  BY RequestFacts DEF Create, CreateAs, Turns, Holds, Creates
<1>2. PICK t \in Tables : t = q.table
  BY <1>1
<1>3. PICK u : u = uploads + 1
  OBVIOUS
<1>4. /\ catalog[t] = 0 /\ uploads \in 1 .. MaxUploads
      /\ uploads' = u /\ catalog' = [catalog EXCEPT ![t] = u]
      /\ request' = [request EXCEPT ![r] = [q EXCEPT !.at = "read", !.held = u]]
      /\ UNCHANGED <<schema, rels, saved, answered, lost, chosen, mixed>>
  BY <1>2, <1>3 DEF Create, CreateAs, Step, Present
<1>5. u \in Uploads /\ u # 0
  BY <1>3, <1>4, UploadAssumption DEF Uploads
<1>6. PICK y : y = [q EXCEPT !.at = "read", !.held = u]
  OBVIOUS
<1>7. /\ y \in Refreshing /\ y.at = "read" /\ y.kind = q.kind /\ y.held = u
      /\ y.table = t /\ y.todo = q.todo /\ y.flag = q.flag
      /\ y \in RequestType /\ request' = [request EXCEPT ![r] = y]
  BY <1>1, <1>2, <1>4, <1>5, <1>6 DEF Refreshing, RequestType
<1>8. /\ Turns(y) /\ Creates(y) /\ Uploaded(y) /\ Covers(y, t)
      /\ ~ Drops(y) /\ ~ Relates(y) /\ ~ Rebuilds(y) /\ ~ Transforming(y)
      /\ ~ Drops(q) /\ ~ Relates(q) /\ ~ Rebuilds(q) /\ ~ Transforming(q)
      /\ q.at # "idle" /\ ~ Uploaded(q)
  BY <1>1, <1>7, Apart DEF Turns, Creates, Uploaded, Covers
<1>9. Holds(y)
  BY <1>5, <1>7 DEF Holds
<1>10. /\ request'[r] = y /\ \A o \in Requests \ {r} : request'[o] = request[o]
       /\ catalog'[t] = u /\ catalog'[t] # 0
       /\ \A v \in Tables \ {t} : catalog'[v] = catalog[v]
       /\ \A v \in Tables : catalog[v] # 0 => catalog'[v] = catalog[v]
  BY <1>4, <1>5, <1>7 DEF IInv, TypeOK
<1>11. TypeOK' /\ Held'
  <2>1. \A v \in Tables : 0 \notin saved'[v]
    BY <1>4 DEF IInv, Held
  <2> QED
    BY <1>4, <1>5, <1>7, <1>9, <2>1, HeldOn DEF IInv, TypeOK
<1>12. \A v : ~ Takes(q, v) /\ ~ Away(q, v) /\ ~ Covers(q, v) /\ ~ Pending(q, v)
  BY <1>1, <1>8 DEF Takes, Away, Covers, Pending
<1>13. answered[t] = 0 \/ t \in lost \/ \E o \in Requests : Takes(request[o], t)
  BY <1>4 DEF IInv, Kept
<1>14. Kept'
  <2> SUFFICES ASSUME NEW v \in Tables, answered[v] # 0, v \notin lost
               PROVE  catalog'[v] = answered[v] \/ \E o \in Requests : Takes(request'[o], v)
    BY <1>4 DEF Kept, Takes
  <2>1. CASE v = t
    BY <1>10, <1>12, <1>13, <2>1
  <2>2. CASE v # t
    BY <1>10, <1>12, <2>2 DEF IInv, Kept
  <2> QED
    BY <2>1, <2>2
<1>15. ASSUME ~ mixed PROVE Unmixed'
  <2>1. /\ Fits(q) /\ \A o \in Requests \ {r} : Fits(request[o]) /\ Together(q, request[o])
        /\ Lists /\ Chosen /\ Relations
    BY <1>15 DEF IInv, Unmixed
  <2>2. ASSUME NEW o \in Requests, Takes(request[o], t) PROVE schema[t] # "none"
    <3>1. o # r
      BY <1>12, <2>2
    <3>2. Transforming(request[o]) /\ request[o].table = t
      BY <2>2, RequestFacts DEF Takes, Holds, Transforming, Turns
    <3> QED
      BY <2>1, <3>1, <3>2 DEF Fits, TransformFits
  <2>3. Fits(y)'
    <3>1. UploadFits(y)'
      <4>1. q.flag = "plain" /\ q.todo = {}
        BY <1>1, <2>1 DEF Fits, UploadFits
      <4>2. schema[t] = "none" => answered[t] = 0 \/ t \in lost
        BY <1>13, <2>2
      <4>3. schema' = schema /\ answered' = answered /\ lost' = lost
        BY <1>4
      <4> QED
        BY <1>7, <1>10, <4>1, <4>2, <4>3 DEF UploadFits
    <3>2. RelationFits(y)'
      BY <1>7 DEF RelationFits
    <3> QED
      BY <1>8, <3>1, <3>2 DEF Fits, DropFits, TransformFits, RebuildFits, Drops,
                              Transforming, Rebuilds, Turns
  <2>4. ASSUME NEW o \in Requests \ {r}
        PROVE  ~ Drops(request[o]) /\ ~ Rebuilds(request[o])
    <3>1. ~ (q.at = "idle" \/ (Transforming(q) /\ q.table # request[o].table))
      BY <1>8
    <3> QED
      BY <1>8, <2>1, <3>1 DEF Together, Bears
  <2>5. ASSUME NEW o \in Requests \ {r} PROVE Together(y, request[o])
    BY <1>8, <2>4 DEF Together, Bears
  <2>6. ASSUME NEW o \in Requests \ {r} PROVE Fits(request[o])'
    <3>1. PICK z : z = request[o] /\ z = request'[o]
      BY <1>10
    <3>2. Uploaded(z) => z.table \in Tables
      BY <3>1, RequestFacts, Apart
    <3>3. UploadFits(z)'
      <4>1. \A v \in Tables : catalog[v] # 0 => catalog'[v] # 0
        BY <1>10
      <4>2. UploadFits(z)
        BY <2>1, <3>1 DEF Fits
      <4> QED
        BY <1>4, <3>2, <4>1, <4>2 DEF UploadFits, Uploaded, Creates, Turns
    <3>4. TransformFits(z)' /\ RelationFits(z)'
      BY <1>4, <2>1, <3>1 DEF Fits, TransformFits, RelationFits, FlagOf, Related,
                              Transforming, Turns
    <3>5. DropFits(z)' /\ RebuildFits(z)'
      BY <2>4, <3>1 DEF DropFits, RebuildFits
    <3>6. Fits(z)'
      BY <3>3, <3>4, <3>5 DEF Fits
    <3> QED
      BY <3>1, <3>6 DEF Fits, DropFits, UploadFits, TransformFits, RebuildFits, RelationFits
  <2>7. Lists'
    <3> SUFFICES ASSUME NEW v \in Tables
                 PROVE  /\ schema[v] # "none" =>
                             \/ catalog'[v] # 0 \/ v \in lost
                             \/ \E o \in Requests : Away(request'[o], v)
                        /\ catalog'[v] # 0 =>
                             \/ schema[v] # "none"
                             \/ \E o \in Requests : Covers(request'[o], v)
      BY <1>4 DEF Lists, Away, Covers, Pending, Uploaded, Creates, Rebuilds, Turns
    <3>1. CASE v = t
      BY <1>8, <1>10, <3>1
    <3>2. CASE v # t
      BY <1>10, <1>12, <2>1, <3>2 DEF Lists
    <3> QED
      BY <3>1, <3>2
  <2>8. Chosen'
    <3> SUFFICES ASSUME NEW v \in Tables
                 PROVE  /\ schema[v] = "primary" => chosen = v
                        /\ chosen = v => \/ schema[v] = "primary"
                                         \/ \E o \in Requests : Pending(request'[o], v)
      BY <1>4 DEF Chosen, Pending, Rebuilds, Turns
    <3> QED
      BY <1>10, <1>12, <2>1 DEF Chosen
  <2>9. Relations'
    BY <1>4, <2>1 DEF Relations, Related
  <2> QED
    BY <1>7, <1>15, <2>3, <2>5, <2>6, <2>7, <2>8, <2>9, Assemble
<1> QED
  BY <1>4, <1>11, <1>14, <1>15 DEF IInv, Unmixed

-----------------------------------------------------------------------------
(* refresh_table_schema_cache writes its entry.                            *)

(* What the write of the cache entry is followed by.                       *)
LEMMA WriteNext ==
  ASSUME IInv, NEW r \in Requests, RefreshWrite(r)
  PROVE  \E y \in {Idle} \union Refreshing :
           /\ request' = [request EXCEPT ![r] = y]
           /\ Holds(y) /\ \A t : ~ Takes(y, t) /\ ~ Away(y, t)
           /\ request[r].todo = {} => y = Idle
           /\ request[r].todo # {} =>
                \E u \in request[r].todo :
                  /\ y.at = "read" /\ y.kind = request[r].kind /\ y.table = u
                  /\ y.todo = request[r].todo \ {u} /\ y \in Refreshing
                  /\ y.flag = IF u = First THEN "primary" ELSE "plain"
<1> DEFINE q == request[r]
<1>1. q \in Refreshing /\ q.todo \subseteq Tables /\ q.at = "write" /\ Holds(q)
  BY RequestFacts DEF RefreshWrite, Turns
<1>2. CASE q.todo = {}
  BY <1>2, IdleFits DEF RefreshWrite, Step
<1>3. CASE q.todo # {}
  <2> DEFINE w(u) == [q EXCEPT !.at = "read", !.table = u, !.todo = @ \ {u},
                         !.flag = IF u = First THEN "primary" ELSE "plain"]
  <2>1. PICK u \in q.todo : request' = [request EXCEPT ![r] = w(u)]
    BY <1>3 DEF RefreshWrite, Step
  <2>2. PICK y : y = w(u)
    OBVIOUS
  <2>3. /\ y \in Refreshing /\ y.at = "read" /\ y.kind = q.kind
        /\ y.table = u /\ y.todo = q.todo \ {u} /\ y.held = q.held
        /\ y.flag = IF u = First THEN "primary" ELSE "plain"
    BY <1>1, <2>2 DEF Refreshing
  <2>4. Holds(y) /\ \A t : ~ Takes(y, t) /\ ~ Away(y, t)
    BY <1>1, <2>3 DEF Holds, Uploaded, Creates, Turns, Takes, Away
  <2>5. request' = [request EXCEPT ![r] = y]
    BY <2>1, <2>2
  <2> QED
    BY <1>3, <2>3, <2>4, <2>5
<1> QED
  BY <1>2, <1>3

LEMMA WriteKeeps ==
  ASSUME IInv, NEW r \in Requests, RefreshWrite(r)
  PROVE  TypeOK' /\ Held' /\ Kept'
<1> DEFINE q == request[r]
<1>1. q \in Refreshing /\ q.table \in Tables /\ q.at = "write" /\ Holds(q)
  BY RequestFacts DEF RefreshWrite, Turns
<1>2. PICK t \in Tables : t = q.table
  BY <1>1
<1>3. /\ schema' = [schema EXCEPT ![t] = q.flag] /\ q.flag \in Flags /\ q.held \in Uploads
      /\ UNCHANGED <<catalog, rels, saved, uploads, chosen>>
      /\ IF q.kind = "upload"
         THEN /\ answered' = [answered EXCEPT ![t] = IF catalog[t] = q.held THEN q.held ELSE 0]
              /\ lost' = IF catalog[t] = q.held THEN lost \ {t} ELSE lost
              /\ mixed' = (mixed \/ t \in Listed)
         ELSE UNCHANGED <<answered, lost, mixed>>
  BY <1>1, <1>2 DEF RefreshWrite, Refreshing, Flags
<1>4. PICK y \in RequestType :
        /\ request' = [request EXCEPT ![r] = y]
        /\ Holds(y) /\ \A v : ~ Takes(y, v) /\ ~ Away(y, v)
  BY WriteNext DEF RequestType
<1>5. TypeOK'
  <2>1. request' \in [Requests ->
          {Idle} \union Refreshing \union Deleting \union Relating \union Saving]
    BY <1>4 DEF RequestType, IInv, TypeOK
  <2>2. schema' \in [Tables -> Flags] /\ 0 \in Uploads
    BY <1>3, UploadAssumption DEF IInv, TypeOK, Uploads
  <2>3. answered' \in [Tables -> Uploads] /\ lost' \subseteq Tables
    BY <1>3, <2>2 DEF IInv, TypeOK
  <2>4. mixed' \in BOOLEAN
    BY <1>3 DEF IInv, TypeOK
  <2> QED
    BY <1>3, <2>1, <2>2, <2>3, <2>4 DEF IInv, TypeOK
<1>6. Held'
  <2>1. \A v \in Tables : 0 \notin saved'[v]
    BY <1>3 DEF IInv, Held
  <2> QED
    BY <1>4, <2>1, HeldOn
<1>7. Kept'
  <2>1. \A o \in Requests : \A v : Takes(request[o], v) => o # r /\ Takes(request'[o], v)
    <3>1. \A v : ~ Takes(q, v)
      BY <1>1 DEF Takes
    <3> QED
      BY <1>4, <3>1 DEF IInv, TypeOK
  <2> SUFFICES ASSUME NEW v \in Tables, answered'[v] # 0, v \notin lost'
               PROVE  catalog[v] = answered'[v] \/ \E o \in Requests : Takes(request'[o], v)
    BY <1>3 DEF Kept, Takes
  <2>2. CASE q.kind = "upload" /\ v = t
    BY <1>3, <2>2 DEF IInv, TypeOK
  <2>3. CASE ~ (q.kind = "upload" /\ v = t)
    <3>1. answered'[v] = answered[v] /\ (v \in lost' <=> v \in lost)
      BY <1>3, <2>3 DEF IInv, TypeOK
    <3> QED
      BY <2>1, <3>1 DEF IInv, Kept
  <2> QED
    BY <2>2, <2>3
<1> QED
  BY <1>5, <1>6, <1>7

(* An upload lists the table it has created.                               *)
LEMMA WriteUpload ==
  ASSUME IInv, ~ mixed', NEW r \in Requests, RefreshWrite(r), request[r].kind = "upload"
  PROVE  Unmixed'
<1> DEFINE q == request[r]
<1>1. q \in Refreshing /\ q.at = "write" /\ q.table \in Tables /\ Turns(q) /\ Holds(q)
  BY RequestFacts DEF RefreshWrite, Turns
<1>2. PICK t \in Tables : t = q.table
  BY <1>1
<1>3. ~ mixed /\ schema[t] = "none"
  BY <1>2 DEF RefreshWrite, Listed
<1>4. /\ Fits(q) /\ \A o \in Requests \ {r} : Fits(request[o]) /\ Together(q, request[o])
      /\ Lists /\ Chosen /\ Relations
  BY <1>3 DEF IInv, Unmixed
<1>5. /\ Creates(q) /\ Uploaded(q) /\ ~ Rebuilds(q)
      /\ ~ Transforming(q) /\ ~ Relates(q) /\ ~ Drops(q) /\ q.at # "idle"
  BY <1>1, Apart DEF Creates, Uploaded
<1>6. q.flag = "plain" /\ q.todo = {} /\ catalog[t] # 0
  BY <1>2, <1>3, <1>4, <1>5 DEF Fits, UploadFits
<1>7. /\ schema' = [schema EXCEPT ![t] = "plain"]
      /\ answered' = [answered EXCEPT ![t] = IF catalog[t] = q.held THEN q.held ELSE 0]
      /\ lost' = IF catalog[t] = q.held THEN lost \ {t} ELSE lost
      /\ request' = [request EXCEPT ![r] = Idle]
      /\ UNCHANGED <<catalog, rels, uploads, chosen>>
  BY <1>2, <1>6 DEF RefreshWrite, Step
<1>8. /\ request'[r] = Idle /\ \A o \in Requests \ {r} : request'[o] = request[o]
      /\ schema'[t] = "plain"
      /\ \A u \in Tables \ {t} : /\ schema'[u] = schema[u] /\ answered'[u] = answered[u]
                                 /\ u \in lost' <=> u \in lost
      /\ \A u \in Tables : schema[u] # "none" => schema'[u] = schema[u]
  BY <1>3, <1>7 DEF IInv, TypeOK
<1>9. ASSUME NEW o \in Requests \ {r}
      PROVE  /\ ~ Drops(request[o]) /\ ~ Rebuilds(request[o])
             /\ Turns(request[o]) => request[o].table \in Tables
  <2>1. ~ (q.at = "idle" \/ (Transforming(q) /\ q.table # request[o].table))
    BY <1>5
  <2> QED
    BY <1>4, <1>5, <2>1, RequestFacts DEF Together, Bears
<1>10. \A p \in Links : Related(p) => schema'[p[1]] # "none" /\ schema'[p[2]] # "none"
  BY <1>8, LinkAssumption DEF Related
<1>11. ASSUME NEW o \in Requests \ {r} PROVE Fits(request[o])'
  <2>1. PICK z : z = request[o] /\ z = request'[o]
    BY <1>8
  <2>2. UploadFits(z) /\ TransformFits(z) /\ RelationFits(z) /\ (Turns(z) => z.table \in Tables)
    BY <1>4, <1>9, <2>1 DEF Fits
  <2>3. UploadFits(z)'
    BY <1>7, <1>8, <2>2 DEF UploadFits, Uploaded, Creates, Turns
  <2>4. TransformFits(z)'
    BY <1>8, <2>2 DEF TransformFits, FlagOf, Transforming, Turns
  <2>5. RelationFits(z)'
    <3>1. z \in RequestType
      BY <2>1, RequestFacts
    <3>2. /\ z.at = "rels" => z.pair \in Links
          /\ z.at = "save" => z.seen \subseteq Links
      BY <3>1, Records DEF Relating, Saving
    <3> QED
      BY <1>10, <2>2, <3>2 DEF RelationFits, Related
  <2>6. DropFits(z)' /\ RebuildFits(z)'
    BY <1>9, <2>1 DEF DropFits, RebuildFits
  <2>7. Fits(z)'
    BY <2>3, <2>4, <2>5, <2>6 DEF Fits
  <2> QED
    BY <2>1, <2>7 DEF Fits, DropFits, UploadFits, TransformFits, RebuildFits, RelationFits
<1>12. \A v : ~ Away(q, v) /\ ~ Pending(q, v) /\ (Covers(q, v) => v = t)
  BY <1>1, <1>2, <1>5 DEF Away, Pending, Covers
<1>13. Lists'
  <2> SUFFICES ASSUME NEW u \in Tables
               PROVE  /\ schema'[u] # "none" =>
                           \/ catalog[u] # 0 \/ u \in lost'
                           \/ \E o \in Requests : Away(request'[o], u)
                      /\ catalog[u] # 0 =>
                           \/ schema'[u] # "none"
                           \/ \E o \in Requests : Covers(request'[o], u)
    BY <1>7 DEF Lists, Away, Covers, Pending, Uploaded, Creates, Rebuilds, Turns
  <2>1. CASE u = t
    BY <1>6, <1>8, <2>1
  <2>2. CASE u # t
    BY <1>4, <1>8, <1>12, <2>2 DEF Lists
  <2> QED
    BY <2>1, <2>2
<1>14. Chosen'
  <2> SUFFICES ASSUME NEW u \in Tables
               PROVE  schema'[u] = "primary" <=> chosen = u
    BY <1>7 DEF Chosen
  <2>1. \A o \in Requests : \A v : ~ Pending(request[o], v)
    BY <1>9, <1>12, Apart
  <2>2. schema[u] = "primary" <=> chosen = u
    BY <1>4, <2>1 DEF Chosen
  <2> QED
    BY <1>3, <1>8, <2>2
<1>15. Relations'
  BY <1>4, <1>7, <1>10 DEF IInv, TypeOK, Relations, Related
<1> QED
  BY <1>3, <1>7, <1>11, <1>13, <1>14, <1>15, IdleFits, Assemble

(* A transform writes the entry that is there.                             *)
LEMMA WriteTransform ==
  ASSUME IInv, ~ mixed, NEW r \in Requests, RefreshWrite(r), request[r].kind \in Transforms
  PROVE  IInv'
<1> DEFINE q == request[r]
<1>1. q \in Refreshing /\ q.at = "write" /\ q.table \in Tables /\ Turns(q)
  BY RequestFacts DEF RefreshWrite, Turns
<1>2. Transforming(q) /\ \A t \in Tables : ~ Covers(q, t)
  BY <1>1, Apart DEF Transforming
<1>3. q.todo = {} /\ q.flag = FlagOf(q.table) /\ schema[q.table] # "none"
  BY <1>1, <1>2 DEF IInv, Unmixed, Fits, TransformFits
<1>4. q.flag = schema[q.table] /\ q.kind # "upload"
  BY <1>1, <1>3 DEF IInv, TypeOK, Flags, FlagOf, Transforms
<1>5. /\ request' = [request EXCEPT ![r] = Idle]
      /\ UNCHANGED <<catalog, schema, rels, saved, uploads, answered, lost, chosen, mixed>>
  BY <1>3, <1>4 DEF RefreshWrite, Step, IInv, TypeOK
<1>6. Cut({r}) = {}
  BY <1>1 DEF Cut, Busy
<1> QED
  BY <1>2, <1>5, <1>6, GiveUpStep DEF IInv, TypeOK

(* A rebuild lists one table after the other while nobody else does        *)
(* anything to them.                                                       *)
LEMMA WriteRebuild ==
  ASSUME IInv, ~ mixed, NEW r \in Requests, RefreshWrite(r), request[r].kind = "rebuild"
  PROVE  Unmixed'
<1> DEFINE q == request[r]
<1>1. q \in Refreshing /\ q.at = "write" /\ q.todo \subseteq Tables /\ q.table \in Tables
      /\ Turns(q)
  BY RequestFacts DEF RefreshWrite, Turns
<1>2. PICK t \in Tables : t = q.table
  BY <1>1
<1>3. /\ Fits(q) /\ \A o \in Requests \ {r} : Fits(request[o]) /\ Together(q, request[o])
      /\ Lists /\ Chosen /\ Relations
  BY DEF IInv, Unmixed
<1>4. /\ Rebuilds(q) /\ ~ Uploaded(q)
      /\ \A u : Pending(q, u) <=> (u = t \/ u \in q.todo)
      /\ \A u : ~ Away(q, u)
  BY <1>1, <1>2 DEF Rebuilds, Creates, Uploaded, Pending, Away
<1>5. /\ t \notin q.todo
      /\ q.flag = IF t = First THEN "primary" ELSE "plain"
      /\ chosen = IF catalog[First] # 0 THEN First ELSE NoTable
      /\ \A u \in Tables : u = t \/ u \in q.todo => catalog[u] # 0 /\ schema[u] = "none"
  BY <1>2, <1>3, <1>4 DEF Fits, RebuildFits
<1>6. /\ schema' = [schema EXCEPT ![t] = q.flag]
      /\ UNCHANGED <<catalog, rels, saved, uploads, answered, lost, chosen, mixed>>
  BY <1>2 DEF RefreshWrite
<1>7. PICK y \in {Idle} \union Refreshing :
        /\ request' = [request EXCEPT ![r] = y]
        /\ q.todo = {} => y = Idle
        /\ q.todo # {} =>
             \E u \in q.todo :
               /\ y.at = "read" /\ y.kind = q.kind /\ y.table = u
               /\ y.todo = q.todo \ {u} /\ y \in Refreshing
               /\ y.flag = IF u = First THEN "primary" ELSE "plain"
  BY WriteNext
<1>8. /\ request'[r] = y /\ \A o \in Requests \ {r} : request'[o] = request[o]
      /\ schema'[t] = q.flag
      /\ \A u \in Tables \ {t} : schema'[u] = schema[u]
      /\ \A u \in Tables : schema[u] # "none" => schema'[u] = schema[u]
  BY <1>5, <1>6, <1>7 DEF IInv, TypeOK
<1>9. ASSUME NEW o \in Requests \ {r}
      PROVE  /\ request[o].at = "idle" \/ Relates(request[o])
             /\ ~ Drops(request[o]) /\ ~ Turns(request[o])
             /\ ~ Creates(request[o]) /\ ~ Rebuilds(request[o]) /\ ~ Transforming(request[o])
  BY <1>3, <1>4, Apart DEF Together, Bears
<1>10. \A u : Pending(y, u) <=> u \in q.todo
  <2>1. CASE q.todo = {}
    BY <1>7, <2>1, IdleFits
  <2>2. CASE q.todo # {}
    BY <1>1, <1>7, <2>2, <1>4 DEF Pending, Rebuilds, Turns
  <2> QED
    BY <2>1, <2>2
<1>11. ~ Drops(y) /\ ~ Creates(y) /\ ~ Transforming(y) /\ ~ Relates(y)
  <2>1. CASE q.todo = {}
    BY <1>7, <2>1 DEF Idle, Drops, Creates, Transforming, Turns, Relates
  <2>2. CASE q.todo # {}
    BY <1>7, <2>2 DEF Drops, Creates, Transforming, Transforms, Relates
  <2> QED
    BY <2>1, <2>2
<1>12. Fits(y)'
  <2>1. RebuildFits(y)'
    <3>1. CASE q.todo = {}
      BY <1>7, <3>1 DEF Idle, RebuildFits, Rebuilds, Turns
    <3>2. CASE q.todo # {}
      <4>1. PICK u \in q.todo :
              /\ y.at = "read" /\ y.table = u /\ y.todo = q.todo \ {u}
              /\ y.flag = IF u = First THEN "primary" ELSE "plain"
        BY <1>7, <3>2
      <4>2. ASSUME NEW v \in Tables, Pending(y, v)
            PROVE  catalog[v] # 0 /\ schema'[v] = "none"
        BY <1>5, <1>8, <1>10, <4>2
      <4> QED
        BY <1>5, <1>6, <4>1, <4>2 DEF RebuildFits, Pending, Rebuilds, Turns
    <3> QED
      BY <3>1, <3>2
  <2>2. y.at \notin {"rels", "save"}
    BY <1>11 DEF Relates
  <2> QED
    BY <1>11, <2>1, <2>2
    DEF Fits, DropFits, UploadFits, TransformFits, RelationFits, Drops, Creates,
        Transforming, Turns
<1>13. ASSUME NEW o \in Requests \ {r} PROVE Together(y, request[o])
  BY <1>9, <1>11 DEF Together, Bears
<1>14. \A p \in Links : Related(p) => schema'[p[1]] # "none" /\ schema'[p[2]] # "none"
  BY <1>8, LinkAssumption DEF Related
<1>15. ASSUME NEW o \in Requests \ {r} PROVE Fits(request[o])'
  <2>1. PICK z : z = request[o] /\ z = request'[o]
    BY <1>8
  <2>2. RelationFits(z)'
    <3>1. z \in RequestType
      BY <2>1, RequestFacts
    <3>2. /\ z.at = "rels" => z.pair \in Links
          /\ z.at = "save" => z.seen \subseteq Links
      BY <3>1, Records DEF Relating, Saving
    <3> QED
      BY <1>3, <1>14, <2>1, <3>2 DEF Fits, RelationFits, Related
  <2>3. DropFits(z)' /\ RebuildFits(z)' /\ UploadFits(z)' /\ TransformFits(z)'
    BY <1>9, <2>1 DEF DropFits, RebuildFits, UploadFits, TransformFits
  <2>4. Fits(z)'
    BY <2>2, <2>3 DEF Fits
  <2> QED
    BY <2>1, <2>4 DEF Fits, DropFits, UploadFits, TransformFits, RebuildFits, RelationFits
<1>16. Lists'
  <2> SUFFICES ASSUME NEW u \in Tables
               PROVE  /\ schema'[u] # "none" =>
                           \/ catalog[u] # 0 \/ u \in lost
                           \/ \E o \in Requests : Away(request'[o], u)
                      /\ catalog[u] # 0 =>
                           \/ schema'[u] # "none"
                           \/ \E o \in Requests : Covers(request'[o], u)
    BY <1>6 DEF Lists, Away, Covers, Pending, Uploaded, Creates, Rebuilds, Turns
  <2>1. CASE u = t
    BY <1>5, <1>8, <2>1
  <2>2. CASE u # t
    <3>1. \A o \in Requests \ {r} : ~ Covers(request[o], u)
      BY <1>9, Apart
    <3>2. Covers(q, u) => Covers(y, u)
      BY <1>4, <1>10, <2>2 DEF Covers
    <3>3. \A o \in Requests : Away(request[o], u) => Away(request'[o], u)
      BY <1>4, <1>8
    <3> QED
      BY <1>3, <1>8, <2>2, <3>1, <3>2, <3>3 DEF Lists
  <2> QED
    BY <2>1, <2>2
<1>17. Chosen'
  <2> SUFFICES ASSUME NEW u \in Tables
               PROVE  /\ schema'[u] = "primary" => chosen = u
                      /\ chosen = u => schema'[u] = "primary" \/ Pending(y, u)
    BY <1>6, <1>8 DEF Chosen, Pending, Rebuilds, Turns
  <2>1. CASE u = t
    BY <1>5, <1>8, <2>1, NameAssumption
  <2>2. CASE u # t
    <3>1. schema[u] = "primary" => chosen = u
      BY <1>3 DEF Chosen
    <3>2. chosen = u => schema[u] = "primary" \/ Pending(q, u)
      BY <1>3, <1>9 DEF Chosen, Pending
    <3> QED
      BY <1>4, <1>8, <1>10, <2>2, <3>1, <3>2
  <2> QED
    BY <2>1, <2>2
<1>18. Relations'
  BY <1>3, <1>6, <1>14 DEF IInv, TypeOK, Relations, Related
<1> QED
  BY <1>7, <1>12, <1>13, <1>15, <1>16, <1>17, <1>18, Assemble

LEMMA RefreshWriteStep ==
  ASSUME IInv, NEW r \in Requests, RefreshWrite(r)
  PROVE  IInv'
<1>1. request[r].kind \in {"upload", "rebuild"} \union Transforms
  BY RequestFacts DEF RefreshWrite, Refreshing, Turns
<1>2. mixed => mixed'
  BY DEF RefreshWrite
<1>3. CASE request[r].kind \in Transforms /\ ~ mixed
  BY <1>3, WriteTransform
<1>4. CASE ~ (request[r].kind \in Transforms /\ ~ mixed)
  <2>1. ~ mixed' => Unmixed'
    BY <1>1, <1>2, <1>4, WriteUpload, WriteRebuild
  <2>2. mixed' => Unmixed'
    BY DEF Unmixed
  <2> QED
    BY <2>1, <2>2, WriteKeeps DEF IInv
<1> QED
  BY <1>3, <1>4

(* A rebuild that nothing overlaps starts afresh: what was mixed before    *)
(* does not matter any more.                                               *)
LEMMA RebuildStep ==
  ASSUME IInv, NEW r \in Requests, Rebuild(r)
  PROVE  IInv'
<1>1. PICK t \in Present :
        request' = [request EXCEPT ![r] =
          [at |-> "read", kind |-> "rebuild", table |-> t,
           flag |-> IF t = First THEN "primary" ELSE "plain",
           held |-> 0, todo |-> Present \ {t}]]
  BY DEF Rebuild, Step
<1>2. PICK y \in Refreshing :
        /\ y.at = "read" /\ y.kind = "rebuild" /\ y.table = t
        /\ y.flag = IF t = First THEN "primary" ELSE "plain"
        /\ y.todo = Present \ {t} /\ request' = [request EXCEPT ![r] = y]
  <2> DEFINE w == [at |-> "read", kind |-> "rebuild", table |-> t,
                   flag |-> IF t = First THEN "primary" ELSE "plain",
                   held |-> 0, todo |-> Present \ {t}]
  <2>1. w \in Refreshing
    BY UploadAssumption DEF Refreshing, Present, Uploads
  <2> QED
    BY <1>1, <2>1
<1>3. /\ request[r] = Idle /\ Listed = {}
      /\ mixed' = (rels # {} \/ \E o \in Requests : request[o] # Idle)
      /\ chosen' = IF First \in Present THEN First ELSE NoTable
      /\ UNCHANGED <<catalog, schema, rels, saved, uploads, answered, lost>>
  BY DEF Rebuild, tables
<1>4. y \in RequestType /\ Holds(y)
  BY <1>2 DEF RequestType, Holds, Uploaded, Creates
<1>5. TypeOK' /\ Held'
  <2>1. \A v \in Tables : 0 \notin saved'[v]
    BY <1>3 DEF IInv, Held
  <2> QED
    BY <1>2, <1>3, <1>4, <2>1, FirstAssumption, HeldOn DEF IInv, TypeOK
<1>6. Kept'
  <2>1. \A o \in Requests : \A v : Takes(request[o], v) => Takes(request'[o], v)
    BY <1>2, <1>3, IdleFits DEF IInv, TypeOK
  <2> SUFFICES ASSUME NEW v \in Tables, answered[v] # 0, v \notin lost
               PROVE  catalog[v] = answered[v] \/ \E o \in Requests : Takes(request'[o], v)
    BY <1>3 DEF Kept, Takes
  <2> QED
    BY <2>1 DEF IInv, Kept
<1>7. ASSUME ~ mixed' PROVE Unmixed'
  <2>1. rels = {} /\ \A o \in Requests : request[o] = Idle
    BY <1>3, <1>7
  <2>2. request'[r] = y /\ \A o \in Requests \ {r} : request'[o] = Idle
    BY <1>2, <2>1 DEF IInv, TypeOK
  <2>3. \A u \in Tables : schema[u] = "none"
    BY <1>3 DEF Listed
  <2>4. Rebuilds(y) /\ \A u : Pending(y, u) <=> u \in Present
    BY <1>2 DEF Rebuilds, Turns, Pending
  <2>5. RebuildFits(y)'
    <3>1. \A u \in Tables : Pending(y, u) => catalog[u] # 0 /\ schema[u] = "none"
      BY <2>3, <2>4 DEF Present
    <3>2. First \in Present <=> catalog[First] # 0
      BY FirstAssumption DEF Present
    <3> QED
      BY <1>2, <1>3, <3>1, <3>2 DEF RebuildFits, Rebuilds, Turns, Pending
  <2>6. Fits(y)'
    BY <1>2, <2>5 DEF Fits, DropFits, UploadFits, TransformFits, RelationFits,
                      Drops, Creates, Transforming, Transforms
  <2>7. ASSUME NEW o \in Requests PROVE Fits(request[o])'
    <3>1. CASE o = r
      BY <2>2, <2>6, <3>1 DEF Fits, DropFits, UploadFits, TransformFits, RebuildFits,
                              RelationFits
    <3>2. CASE o # r
      BY <2>2, <3>2, IdleFits DEF Fits, DropFits, UploadFits, TransformFits, RebuildFits,
                                  RelationFits
    <3> QED
      BY <3>1, <3>2
  <2>8. ASSUME NEW x \in Requests, NEW o \in Requests \ {x}
        PROVE  Together(request'[x], request'[o])
    <3>1. request'[x] = Idle \/ request'[o] = Idle
      BY <2>2
    <3> QED
      BY <3>1, IdleFits DEF Together
  <2>9. Lists'
    <3> SUFFICES ASSUME NEW u \in Tables, catalog[u] # 0
                 PROVE  \E o \in Requests : Covers(request'[o], u)
      BY <1>3, <2>3 DEF Lists, Covers, Pending, Uploaded, Creates, Rebuilds, Turns
    <3> QED
      BY <2>2, <2>4 DEF Covers, Present
  <2>10. Chosen'
    <3> SUFFICES ASSUME NEW u \in Tables, chosen' = u
                 PROVE  Pending(request'[r], u)
      BY <1>3, <2>3 DEF Chosen, Pending, Rebuilds, Turns
    <3> QED
      BY <1>3, <2>2, <2>4, NameAssumption
  <2>11. Relations'
    BY <1>3, <2>1 DEF Relations
  <2> QED
    BY <2>7, <2>8, <2>9, <2>10, <2>11 DEF Unmixed
<1> QED
  BY <1>5, <1>6, <1>7 DEF IInv, Unmixed

-----------------------------------------------------------------------------
(* delete_table.                                                           *)

LEMMA DeleteStep ==
  ASSUME IInv, NEW r \in Requests, NEW t \in Tables, Delete(r, t)
  PROVE  IInv'
<1>1. PICK y \in Deleting :
        /\ y.at = "drop" /\ y.table = t /\ y.seen = schema
        /\ request' = [request EXCEPT ![r] = y]
  <2> DEFINE w == [at |-> "drop", table |-> t, seen |-> schema]
  <2>1. w \in Deleting
    BY DEF Deleting, IInv, TypeOK
  <2> QED
    BY <2>1 DEF Delete, Step
<1>2. /\ request[r] = Idle /\ rels' = WithoutTable(t)
      /\ answered' = [answered EXCEPT ![t] = 0]
      /\ UNCHANGED <<catalog, schema, saved, uploads, lost, chosen>>
      /\ mixed' = (mixed \/ Deletions # {} \/ Busy({"rels", "save"}) # {}
                         \/ RefreshOf({"upload", "rebuild"}) # {}
                         \/ \E o \in RefreshOf(Transforms) : request[o].table = t)
  BY DEF Delete
<1>3. rels' \subseteq rels /\ \A p \in rels' : p[1] # t /\ p[2] # t
  BY <1>2 DEF WithoutTable
<1>4. y \in RequestType /\ Holds(y) /\ Drops(y)
  BY <1>1 DEF RequestType, Holds, Uploaded, Drops
<1>5. /\ request'[r] = y /\ \A o \in Requests \ {r} : request'[o] = request[o]
      /\ answered'[t] = 0 /\ \A u \in Tables \ {t} : answered'[u] = answered[u]
  BY <1>1, <1>2 DEF IInv, TypeOK
<1>6. TypeOK' /\ Held'
  <2>1. 0 \in Uploads /\ \A v \in Tables : 0 \notin saved'[v]
    BY <1>2, UploadAssumption DEF Uploads, IInv, Held
  <2> QED
    BY <1>1, <1>2, <1>3, <1>4, <2>1, HeldOn DEF IInv, TypeOK
<1>7. \A v : /\ ~ Takes(request[r], v) /\ ~ Away(request[r], v)
             /\ ~ Covers(request[r], v) /\ ~ Pending(request[r], v)
  BY <1>2, IdleFits
<1>8. Kept'
  <2> SUFFICES ASSUME NEW v \in Tables, answered'[v] # 0, v \notin lost
               PROVE  catalog[v] = answered'[v] \/ \E o \in Requests : Takes(request'[o], v)
    BY <1>2 DEF Kept, Takes
  <2> QED
    BY <1>5, <1>7 DEF IInv, Kept
<1>9. ASSUME ~ mixed' PROVE Unmixed'
  <2>1. /\ ~ mixed /\ \A o \in Requests : Fits(request[o])
        /\ Lists /\ Chosen /\ Relations
    BY <1>2, <1>9 DEF IInv, Unmixed
  <2>2. ASSUME NEW o \in Requests
        PROVE  /\ request[o].at = "idle" \/ Transforming(request[o])
               /\ Transforming(request[o]) => request[o].table # t
               /\ ~ Drops(request[o]) /\ ~ Relates(request[o])
               /\ ~ Creates(request[o]) /\ ~ Rebuilds(request[o])
    <3>1. ~ Drops(request[o]) /\ ~ Relates(request[o])
      BY <1>2, <1>9 DEF Busy, Deletions, Drops, Relates
    <3>2. ~ Creates(request[o]) /\ ~ Rebuilds(request[o])
      BY <1>2, <1>9 DEF RefreshOf, Busy, Creates, Rebuilds, Turns
    <3>3. Transforming(request[o]) => request[o].table # t
      BY <1>2, <1>9 DEF RefreshOf, Busy, Transforming, Turns
    <3>4. request[o].at = "idle" \/ Transforming(request[o])
      <4>1. request[o].at = "idle" \/ Turns(request[o])
        BY <3>1, RequestFacts, Records
      <4>2. Turns(request[o]) => request[o].kind \in {"upload", "rebuild"} \union Transforms
        BY RequestFacts DEF Refreshing
      <4> QED
        BY <3>2, <4>1, <4>2 DEF Creates, Rebuilds, Transforming
    <3> QED
      BY <3>1, <3>2, <3>3, <3>4
  <2>3. Fits(y)'
    <3>1. DropFits(y)'
      BY <1>1, <1>2, <1>3 DEF DropFits
    <3> QED
      BY <1>1, <3>1 DEF Fits, UploadFits, TransformFits, RebuildFits, RelationFits,
                        Creates, Rebuilds, Transforming, Turns
  <2>4. ASSUME NEW o \in Requests \ {r} PROVE Fits(request[o])'
    <3>1. PICK z : z = request[o] /\ z = request'[o]
      BY <1>5
    <3>2. TransformFits(z)'
      BY <1>2, <2>1, <3>1 DEF Fits, TransformFits, FlagOf, Transforming, Turns
    <3>3. DropFits(z)' /\ UploadFits(z)' /\ RebuildFits(z)' /\ RelationFits(z)'
      BY <2>2, <3>1 DEF DropFits, UploadFits, RebuildFits, RelationFits, Relates
    <3>4. Fits(z)'
      BY <3>2, <3>3 DEF Fits
    <3> QED
      BY <3>1, <3>4 DEF Fits, DropFits, UploadFits, TransformFits, RebuildFits, RelationFits
  <2>5. ASSUME NEW o \in Requests \ {r} PROVE Together(y, request[o])
    <3>1. ~ Rebuilds(y)
      BY <1>1 DEF Rebuilds, Turns
    <3> QED
      BY <1>1, <2>2, <3>1 DEF Together, Bears
  <2>6. Lists'
    <3> SUFFICES ASSUME NEW v \in Tables
                 PROVE  /\ schema[v] # "none" =>
                             \/ catalog[v] # 0 \/ v \in lost
                             \/ \E o \in Requests : Away(request'[o], v)
                        /\ catalog[v] # 0 =>
                             \/ schema[v] # "none"
                             \/ \E o \in Requests : Covers(request'[o], v)
      BY <1>2 DEF Lists, Away, Covers, Pending, Uploaded, Creates, Rebuilds, Turns
    <3> QED
      BY <1>5, <1>7, <2>1 DEF Lists
  <2>7. Chosen'
    <3> SUFFICES ASSUME NEW v \in Tables
                 PROVE  /\ schema[v] = "primary" => chosen = v
                        /\ chosen = v => \/ schema[v] = "primary"
                                         \/ \E o \in Requests : Pending(request'[o], v)
      BY <1>2 DEF Chosen, Pending, Rebuilds, Turns
    <3> QED
      BY <1>5, <1>7, <2>1 DEF Chosen
  <2>8. Relations'
    BY <1>2, <1>3, <2>1 DEF Relations, Related
  <2> QED
    BY <1>1, <2>1, <2>3, <2>4, <2>5, <2>6, <2>7, <2>8, Assemble
<1> QED
  BY <1>6, <1>8, <1>9 DEF IInv, Unmixed

(* While a table is being deleted, the only other requests are transforms  *)
(* of other tables, and the cache is what the deletion has read.           *)
LEMMA WhileDropping ==
  ASSUME IInv, ~ mixed, NEW r \in Requests, Drops(request[r])
  PROVE  /\ request[r].table \in Tables
         /\ request[r].seen = schema
         /\ request[r].at = "unlist" => catalog[request[r].table] = 0
         /\ \A p \in rels : p[1] # request[r].table /\ p[2] # request[r].table
         /\ \A o \in Requests \ {r} :
              /\ request[o].at = "idle" \/ Transforming(request[o])
              /\ Transforming(request[o]) => request[o].table \in Tables \ {request[r].table}
              /\ ~ Drops(request[o])
         /\ \A o \in Requests :
              /\ ~ Rebuilds(request[o]) /\ ~ Creates(request[o]) /\ ~ Relates(request[o])
              /\ \A v : ~ Covers(request[o], v) /\ ~ Pending(request[o], v)
<1> DEFINE q == request[r]
<1>1. q.table \in Tables
  BY RequestFacts
<1>2. /\ Fits(q) /\ \A o \in Requests \ {r} : Together(q, request[o])
  BY DEF IInv, Unmixed
<1>3. ASSUME NEW o \in Requests \ {r}
      PROVE  /\ request[o].at = "idle" \/ Transforming(request[o])
             /\ Transforming(request[o]) => request[o].table \in Tables \ {q.table}
             /\ ~ Drops(request[o])
             /\ ~ Rebuilds(request[o]) /\ ~ Creates(request[o]) /\ ~ Relates(request[o])
  <2>1. request[o].at = "idle" \/ (Transforming(request[o]) /\ request[o].table # q.table)
    BY <1>2 DEF Together, Bears
  <2>2. Transforming(request[o]) => request[o].table \in Tables
    BY RequestFacts, Apart
  <2> QED
    BY <2>1, <2>2, Apart
<1>4. ~ Rebuilds(q) /\ ~ Creates(q) /\ ~ Relates(q)
  BY Apart
<1>5. ASSUME NEW o \in Requests, NEW v
      PROVE  ~ Covers(request[o], v) /\ ~ Pending(request[o], v)
  BY <1>3, <1>4, Apart
<1> QED
  BY <1>1, <1>2, <1>3, <1>4, <1>5 DEF Fits, DropFits

LEMMA DropStep ==
  ASSUME IInv, NEW r \in Requests, Drop(r)
  PROVE  IInv'
<1> DEFINE q == request[r]
<1>1. Drops(q) /\ q \in Deleting /\ q.table \in Tables /\ q.at = "drop"
  BY RequestFacts DEF Drop, Drops
<1>2. PICK t \in Tables : t = q.table
  BY <1>1
<1>3. PICK y : y = [q EXCEPT !.at = "unlist"]
  OBVIOUS
<1>4. y \in Deleting /\ y.at = "unlist" /\ y.table = t /\ y.seen = q.seen
  BY <1>1, <1>2, <1>3 DEF Deleting
<1>5. /\ catalog' = [catalog EXCEPT ![t] = 0]
      /\ answered' = [answered EXCEPT ![t] = 0]
      /\ request' = [request EXCEPT ![r] = y]
      /\ UNCHANGED <<schema, rels, saved, uploads, lost, chosen, mixed>>
  BY <1>2, <1>3 DEF Drop, Step
<1>6. y \in RequestType /\ Holds(y) /\ Drops(y) /\ Away(y, t)
  BY <1>4 DEF RequestType, Holds, Uploaded, Drops, Away
<1>7. /\ request'[r] = y /\ \A o \in Requests \ {r} : request'[o] = request[o]
      /\ catalog'[t] = 0 /\ answered'[t] = 0
      /\ \A u \in Tables \ {t} : catalog'[u] = catalog[u] /\ answered'[u] = answered[u]
  BY <1>5 DEF IInv, TypeOK
<1>8. TypeOK' /\ Held'
  <2>1. 0 \in Uploads /\ \A v \in Tables : 0 \notin saved'[v]
    BY <1>5, UploadAssumption DEF Uploads, IInv, Held
  <2> QED
    BY <1>5, <1>6, <2>1, HeldOn DEF IInv, TypeOK
<1>9. \A v : ~ Takes(q, v) /\ ~ Away(q, v)
  BY <1>1 DEF Takes, Away
<1>10. Kept'
  <2> SUFFICES ASSUME NEW v \in Tables, answered'[v] # 0, v \notin lost
               PROVE  catalog'[v] = answered'[v] \/ \E o \in Requests : Takes(request'[o], v)
    BY <1>5 DEF Kept, Takes
  <2>1. v # t
    BY <1>7
  <2> QED
    BY <1>7, <1>9, <2>1 DEF IInv, Kept
<1>11. ASSUME ~ mixed PROVE Unmixed'
  <2>1. /\ q.seen = schema /\ \A p \in rels : p[1] # t /\ p[2] # t
        /\ \A o \in Requests \ {r} :
             /\ request[o].at = "idle" \/ Transforming(request[o])
             /\ Transforming(request[o]) => request[o].table \in Tables \ {t}
             /\ ~ Drops(request[o])
        /\ \A o \in Requests :
             /\ ~ Rebuilds(request[o]) /\ ~ Creates(request[o]) /\ ~ Relates(request[o])
             /\ \A v : ~ Covers(request[o], v) /\ ~ Pending(request[o], v)
    BY <1>1, <1>2, <1>11, WhileDropping
  <2>2. /\ \A o \in Requests : Fits(request[o])
        /\ Lists /\ Chosen /\ Relations
    BY <1>11 DEF IInv, Unmixed
  <2>3. Fits(y)'
    <3>1. DropFits(y)'
      BY <1>4, <1>5, <1>7, <2>1 DEF DropFits
    <3> QED
      BY <1>4, <3>1 DEF Fits, UploadFits, TransformFits, RebuildFits, RelationFits,
                        Creates, Rebuilds, Transforming, Turns
  <2>4. ASSUME NEW o \in Requests \ {r} PROVE Fits(request[o])'
    <3>1. PICK z : z = request[o] /\ z = request'[o]
      BY <1>7
    <3>2. TransformFits(z)'
      BY <1>5, <2>2, <3>1 DEF Fits, TransformFits, FlagOf, Transforming, Turns
    <3>3. DropFits(z)' /\ UploadFits(z)' /\ RebuildFits(z)' /\ RelationFits(z)'
      BY <2>1, <3>1 DEF DropFits, UploadFits, RebuildFits, RelationFits, Relates
    <3>4. Fits(z)'
      BY <3>2, <3>3 DEF Fits
    <3> QED
      BY <3>1, <3>4 DEF Fits, DropFits, UploadFits, TransformFits, RebuildFits, RelationFits
  <2>5. ASSUME NEW o \in Requests \ {r} PROVE Together(y, request[o])
    <3>1. ~ Rebuilds(y)
      BY <1>4 DEF Rebuilds, Turns
    <3> QED
      BY <1>4, <2>1, <3>1 DEF Together, Bears
  <2>6. Lists'
    <3> SUFFICES ASSUME NEW v \in Tables
                 PROVE  /\ schema[v] # "none" =>
                             \/ catalog'[v] # 0 \/ v \in lost
                             \/ \E o \in Requests : Away(request'[o], v)
                        /\ catalog'[v] # 0 => schema[v] # "none"
      BY <1>5 DEF Lists, Away
    <3>1. CASE v = t
      BY <1>6, <1>7, <3>1
    <3>2. CASE v # t
      BY <1>7, <1>9, <2>1, <2>2, <3>2 DEF Lists
    <3> QED
      BY <3>1, <3>2
  <2>7. Chosen'
    <3> SUFFICES ASSUME NEW v \in Tables PROVE schema[v] = "primary" <=> chosen = v
      BY <1>5 DEF Chosen
    <3> QED
      BY <2>1, <2>2 DEF Chosen
  <2>8. Relations'
    BY <1>5, <2>2 DEF Relations, Related
  <2> QED
    BY <1>5, <1>11, <2>2, <2>3, <2>4, <2>5, <2>6, <2>7, <2>8, Assemble
<1> QED
  BY <1>5, <1>8, <1>10, <1>11 DEF IInv, Unmixed

LEMMA UnlistStep ==
  ASSUME IInv, NEW r \in Requests, Unlist(r)
  PROVE  IInv'
<1> DEFINE q == request[r]
<1>1. Drops(q) /\ q \in Deleting /\ q.table \in Tables /\ q.at = "unlist"
  BY RequestFacts DEF Unlist, Drops
<1>2. PICK t \in Tables : t = q.table
  BY <1>1
<1>3. /\ schema' = [q.seen EXCEPT ![t] = "none"]
      /\ chosen' = IF chosen = t THEN NoTable ELSE chosen
      /\ request' = [request EXCEPT ![r] = Idle]
      /\ UNCHANGED <<catalog, rels, saved, uploads, answered, lost, mixed>>
  BY <1>2 DEF Unlist, Step
<1>4. TypeOK' /\ Held'
  <2>1. "none" \in Flags /\ q.seen \in [Tables -> Flags] /\ Idle \in RequestType
        /\ \A v \in Tables : 0 \notin saved'[v]
    BY <1>1, <1>3 DEF Flags, Deleting, RequestType, IInv, Held
  <2> QED
    BY <1>3, <2>1, IdleFits, HeldOn DEF IInv, TypeOK
<1>5. /\ request'[r] = Idle /\ \A o \in Requests \ {r} : request'[o] = request[o]
  BY <1>3 DEF IInv, TypeOK
<1>6. \A v : ~ Takes(q, v) /\ (Away(q, v) => v = t)
  BY <1>1, <1>2 DEF Takes, Away
<1>7. Kept'
  <2> SUFFICES ASSUME NEW v \in Tables, answered[v] # 0, v \notin lost
               PROVE  catalog[v] = answered[v] \/ \E o \in Requests : Takes(request'[o], v)
    BY <1>3 DEF Kept, Takes
  <2> QED
    BY <1>5, <1>6 DEF IInv, Kept
<1>8. ASSUME ~ mixed PROVE Unmixed'
  <2>1. /\ q.seen = schema /\ catalog[t] = 0 /\ \A p \in rels : p[1] # t /\ p[2] # t
        /\ \A o \in Requests \ {r} :
             /\ request[o].at = "idle" \/ Transforming(request[o])
             /\ Transforming(request[o]) => request[o].table \in Tables \ {t}
             /\ ~ Drops(request[o])
        /\ \A o \in Requests :
             /\ ~ Rebuilds(request[o]) /\ ~ Creates(request[o]) /\ ~ Relates(request[o])
             /\ \A v : ~ Covers(request[o], v) /\ ~ Pending(request[o], v)
    BY <1>1, <1>2, <1>8, WhileDropping
  <2>2. /\ \A o \in Requests : Fits(request[o])
        /\ Lists /\ Chosen /\ Relations
    BY <1>8 DEF IInv, Unmixed
  <2>3. /\ schema'[t] = "none"
        /\ \A u \in Tables \ {t} : schema'[u] = schema[u]
    BY <1>3, <2>1 DEF IInv, TypeOK
  <2>4. ASSUME NEW o \in Requests \ {r} PROVE Fits(request[o])'
    <3>1. PICK z : z = request[o] /\ z = request'[o]
      BY <1>5
    <3>2. Transforming(z) => z.table \in Tables \ {t}
      BY <2>1, <3>1
    <3>3. TransformFits(z)'
      BY <2>2, <2>3, <3>1, <3>2 DEF Fits, TransformFits, FlagOf, Transforming, Turns
    <3>4. DropFits(z)' /\ UploadFits(z)' /\ RebuildFits(z)' /\ RelationFits(z)'
      BY <2>1, <3>1 DEF DropFits, UploadFits, RebuildFits, RelationFits, Relates
    <3>5. Fits(z)'
      BY <3>3, <3>4 DEF Fits
    <3> QED
      BY <3>1, <3>5 DEF Fits, DropFits, UploadFits, TransformFits, RebuildFits, RelationFits
  <2>5. Lists'
    <3> SUFFICES ASSUME NEW v \in Tables
                 PROVE  /\ schema'[v] # "none" =>
                             \/ catalog[v] # 0 \/ v \in lost
                             \/ \E o \in Requests : Away(request'[o], v)
                        /\ catalog[v] # 0 => schema'[v] # "none"
      BY <1>3 DEF Lists, Away
    <3>1. CASE v = t
      BY <2>1, <2>3, <3>1
    <3>2. CASE v # t
      BY <1>5, <1>6, <2>1, <2>2, <2>3, <3>2 DEF Lists
    <3> QED
      BY <3>1, <3>2
  <2>6. Chosen'
    <3> SUFFICES ASSUME NEW v \in Tables PROVE schema'[v] = "primary" <=> chosen' = v
      BY DEF Chosen
    <3>1. schema[v] = "primary" <=> chosen = v
      BY <2>1, <2>2 DEF Chosen
    <3>2. CASE v = t
      BY <1>3, <2>3, <3>2, NameAssumption
    <3>3. CASE v # t
      BY <1>3, <2>3, <3>1, <3>3, NameAssumption
    <3> QED
      BY <3>2, <3>3
  <2>7. Relations'
    <3> SUFFICES ASSUME NEW p \in rels
                 PROVE  schema'[p[1]] # "none" /\ schema'[p[2]] # "none"
      BY <1>3 DEF Relations, Related
    <3>1. p[1] \in Tables \ {t} /\ p[2] \in Tables \ {t}
      BY <2>1, LinkAssumption DEF IInv, TypeOK
    <3> QED
      BY <2>2, <2>3, <3>1 DEF Relations, Related
  <2> QED
    BY <1>3, <1>8, <2>2, <2>4, <2>5, <2>6, <2>7, IdleFits, Assemble
<1> QED
  BY <1>3, <1>4, <1>7, <1>8 DEF IInv, Unmixed

-----------------------------------------------------------------------------

LEMMA MakePrimaryStep ==
  ASSUME IInv, NEW r \in Requests, NEW t \in Tables, MakePrimary(r, t)
  PROVE  IInv'
<1>1. /\ request[r] = Idle /\ t \in Listed
      /\ schema' = [u \in Tables |-> IF u = t THEN "primary"
                                     ELSE IF u \in Listed THEN "plain" ELSE "none"]
      /\ mixed' = (mixed \/ Deletions # {}
                         \/ RefreshOf({"rebuild"} \union Transforms) # {})
      /\ chosen' = t
      /\ UNCHANGED <<catalog, rels, saved, request, uploads, answered, lost>>
  BY DEF MakePrimary
<1>2. TypeOK'
  BY <1>1 DEF IInv, TypeOK, Flags
<1>3. Kept' /\ Held'
  BY <1>1 DEF IInv, Kept, Held, Takes, Holds, Uploaded, Creates, Turns
<1>4. ASSUME ~ mixed' PROVE Unmixed'
  <2>1. /\ ~ mixed /\ \A o \in Requests : Fits(request[o])
        /\ \A x \in Requests : \A o \in Requests \ {x} : Together(request[x], request[o])
        /\ Lists /\ Chosen /\ Relations
    BY <1>1, <1>4 DEF IInv, Unmixed
  <2>2. \A u \in Tables : /\ schema'[u] # "none" <=> schema[u] # "none"
                          /\ schema'[u] = "primary" <=> u = t
    BY <1>1 DEF Listed
  <2>3. \A o \in Requests : /\ ~ Drops(request[o]) /\ ~ Transforming(request[o])
                            /\ ~ Rebuilds(request[o])
    BY <1>1, <1>4 DEF Busy, Deletions, RefreshOf, Drops, Transforming, Rebuilds, Turns
  <2>4. \A p \in Links : Related(p) => schema'[p[1]] # "none" /\ schema'[p[2]] # "none"
    BY <2>2, LinkAssumption DEF Related
  <2>5. ASSUME NEW o \in Requests PROVE Fits(request[o])'
    <3>1. PICK z : z = request[o] /\ z = request'[o]
      BY <1>1
    <3>2. z \in RequestType /\ UploadFits(z) /\ RelationFits(z)
      BY <2>1, <3>1, RequestFacts DEF Fits
    <3>3. UploadFits(z)'
      <4>1. Uploaded(z) => z.table \in Tables
        BY <3>1, RequestFacts, Apart
      <4> QED
        BY <1>1, <2>2, <3>2, <4>1 DEF UploadFits, Uploaded, Creates, Turns
    <3>4. RelationFits(z)'
      <4>1. /\ z.at = "rels" => z.pair \in Links
            /\ z.at = "save" => z.seen \subseteq Links
        BY <3>2, Records DEF Relating, Saving
      <4> QED
        BY <2>4, <3>2, <4>1 DEF RelationFits, Related
    <3>5. Fits(z)'
      BY <2>3, <3>1, <3>3, <3>4 DEF Fits, DropFits, TransformFits, RebuildFits
    <3> QED
      BY <3>1, <3>5 DEF Fits, DropFits, UploadFits, TransformFits, RebuildFits, RelationFits
  <2>6. Lists'
    BY <1>1, <2>1, <2>2
    DEF Lists, Away, Covers, Pending, Uploaded, Creates, Rebuilds, Turns
  <2>7. Chosen'
    BY <1>1, <2>2 DEF Chosen
  <2>8. Relations'
    BY <1>1, <2>1, <2>4 DEF IInv, TypeOK, Relations, Related
  <2> QED
    BY <1>1, <2>1, <2>5, <2>6, <2>7, <2>8 DEF Unmixed
<1> QED
  BY <1>2, <1>3, <1>4 DEF IInv, Unmixed

LEMMA SaveRelsStep ==
  ASSUME IInv, NEW r \in Requests, SaveRels(r)
  PROVE  IInv'
<1>1. /\ request[r].at = "save" /\ rels' = request[r].seen /\ Relates(request[r])
      /\ request' = [request EXCEPT ![r] = Idle]
      /\ UNCHANGED <<catalog, schema, saved, uploads, answered, lost, chosen, mixed>>
  BY DEF SaveRels, marks, Step, Relates
<1>2. request[r].seen \subseteq Links
  BY <1>1, RequestFacts, Records DEF Saving
<1>3. TypeOK' /\ Held'
  <2>1. Idle \in RequestType /\ \A v \in Tables : 0 \notin saved'[v]
    BY <1>1 DEF RequestType, IInv, Held
  <2> QED
    BY <1>1, <1>2, <2>1, IdleFits, HeldOn DEF IInv, TypeOK
<1>4. /\ request'[r] = Idle /\ \A o \in Requests \ {r} : request'[o] = request[o]
      /\ \A v : /\ ~ Takes(request[r], v) /\ ~ Away(request[r], v)
                /\ ~ Covers(request[r], v) /\ ~ Pending(request[r], v)
  BY <1>1, Apart DEF IInv, TypeOK
<1>5. Kept'
  <2> SUFFICES ASSUME NEW v \in Tables, answered[v] # 0, v \notin lost
               PROVE  catalog[v] = answered[v] \/ \E o \in Requests : Takes(request'[o], v)
    BY <1>1 DEF Kept, Takes
  <2> QED
    BY <1>4 DEF IInv, Kept
<1>6. ASSUME ~ mixed PROVE Unmixed'
  <2>1. /\ \A o \in Requests : Fits(request[o])
        /\ \A o \in Requests \ {r} : Together(request[r], request[o])
        /\ Lists /\ Chosen
    BY <1>6 DEF IInv, Unmixed
  <2>2. \A o \in Requests \ {r} : ~ Drops(request[o])
    BY <1>1, <2>1, Apart DEF Together, Bears
  <2>3. ASSUME NEW o \in Requests \ {r} PROVE Fits(request[o])'
    <3>1. PICK z : z = request[o] /\ z = request'[o]
      BY <1>4
    <3>2. Fits(z)'
      BY <1>1, <2>1, <2>2, <3>1
      DEF Fits, DropFits, UploadFits, TransformFits, RebuildFits, RelationFits,
          FlagOf, Related
    <3> QED
      BY <3>1, <3>2 DEF Fits, DropFits, UploadFits, TransformFits, RebuildFits, RelationFits
  <2>4. Lists'
    <3> SUFFICES ASSUME NEW v \in Tables
                 PROVE  /\ schema[v] # "none" =>
                             \/ catalog[v] # 0 \/ v \in lost
                             \/ \E o \in Requests : Away(request'[o], v)
                        /\ catalog[v] # 0 =>
                             \/ schema[v] # "none"
                             \/ \E o \in Requests : Covers(request'[o], v)
      BY <1>1 DEF Lists, Away, Covers, Pending, Uploaded, Creates, Rebuilds, Turns
    <3> QED
      BY <1>4, <2>1 DEF Lists
  <2>5. Chosen'
    <3> SUFFICES ASSUME NEW v \in Tables
                 PROVE  /\ schema[v] = "primary" => chosen = v
                        /\ chosen = v => \/ schema[v] = "primary"
                                         \/ \E o \in Requests : Pending(request'[o], v)
      BY <1>1 DEF Chosen, Pending, Rebuilds, Turns
    <3> QED
      BY <1>4, <2>1 DEF Chosen
  <2>6. Relations'
    BY <1>1, <2>1 DEF Relations, Related, Fits, RelationFits
  <2> QED
    BY <1>1, <1>6, <2>3, <2>4, <2>5, <2>6, IdleFits, Assemble
<1> QED
  BY <1>1, <1>3, <1>5, <1>6 DEF IInv, Unmixed

-----------------------------------------------------------------------------

(* After a crash, what was taken and not put back is lost, and an upload   *)
(* or a rebuild that was listing tables has been cut off.                  *)
LEMMA CrashStep == ASSUME IInv, Crash PROVE IInv'
<1>1. /\ \A o \in Requests : request'[o] = Idle
      /\ request' = [r \in Requests |-> Idle]
      /\ lost' = lost \union Cut(Requests)
      /\ mixed' = (mixed \/ \E r \in Busy({"read", "write"}) :
                              request[r].kind \in {"upload", "rebuild"})
      /\ UNCHANGED <<catalog, schema, rels, saved, uploads, answered, chosen>>
  BY DEF Crash, AllStop, tables
<1>2. ASSUME NEW o \in Requests, NEW t \in Tables, Away(request[o], t)
      PROVE  t \in Cut(Requests) \/ (catalog[t] # 0 /\ catalog[t] = answered[t])
  BY <1>2 DEF Away, Cut, Busy, Present
<1>3. Cut(Requests) \subseteq Tables
  <2>1. \A o \in Busy({"swap", "unlist"}) : request[o].table \in Tables
    <3> SUFFICES ASSUME NEW o \in Requests, request[o].at \in {"swap", "unlist"}
                 PROVE  request[o].table \in Tables
      BY DEF Busy
    <3> QED
      BY RequestFacts DEF Turns, Drops
  <2> QED
    BY <2>1 DEF Cut
<1>4. TypeOK'
  BY <1>1, <1>3 DEF IInv, TypeOK
<1>5. Held'
  BY <1>1, IdleFits DEF IInv, Held, Holds, Uploaded, Creates, Turns
<1>6. Kept'
  <2> SUFFICES ASSUME NEW t \in Tables, answered[t] # 0, t \notin lost'
               PROVE  catalog[t] = answered[t]
    BY <1>1 DEF Kept
  <2>1. CASE \E o \in Requests : Takes(request[o], t)
    BY <1>1, <1>2, <2>1, Apart
  <2>2. CASE ~ \E o \in Requests : Takes(request[o], t)
    BY <1>1, <2>2 DEF IInv, Kept
  <2> QED
    BY <2>1, <2>2
<1>7. ASSUME ~ mixed' PROVE Unmixed'
  <2>1. /\ ~ mixed /\ \A o \in Requests : Fits(request[o])
        /\ Lists /\ Chosen /\ Relations
    BY <1>1, <1>7 DEF IInv, Unmixed
  <2>2. ASSUME NEW o \in Requests, NEW t PROVE ~ Covers(request[o], t) /\ ~ Pending(request[o], t)
    <3>1. ~ (request[o].at \in {"read", "write"} /\ request[o].kind \in {"upload", "rebuild"})
      BY <1>1, <1>7 DEF Busy
    <3>2. ~ Uploaded(request[o])
      BY <3>1 DEF Uploaded, Creates
    <3>3. ~ Rebuilds(request[o])
      BY <2>1, <3>1 DEF Fits, RebuildFits, Rebuilds
    <3> QED
      BY <3>2, <3>3, Apart DEF Covers
  <2>3. ASSUME NEW o \in Requests PROVE Fits(request[o])'
    BY <1>1, IdleFits DEF Fits, DropFits, UploadFits, TransformFits, RebuildFits, RelationFits
  <2>4. \A x \in Requests : \A o \in Requests \ {x} : Together(request'[x], request'[o])
    BY <1>1, IdleFits
  <2>5. Lists'
    <3> SUFFICES ASSUME NEW t \in Tables
                 PROVE  /\ schema[t] # "none" => catalog[t] # 0 \/ t \in lost'
                        /\ catalog[t] # 0 => schema[t] # "none"
      BY <1>1 DEF Lists
    <3> QED
      BY <1>1, <1>2, <2>1, <2>2 DEF Lists
  <2>6. Chosen'
    <3> SUFFICES ASSUME NEW t \in Tables PROVE schema[t] = "primary" <=> chosen = t
      BY <1>1 DEF Chosen
    <3> QED
      BY <2>1, <2>2 DEF Chosen
  <2>7. Relations'
    BY <1>1, <2>1 DEF Relations, Related
  <2> QED
    BY <2>3, <2>4, <2>5, <2>6, <2>7 DEF Unmixed
<1> QED
  BY <1>4, <1>5, <1>6, <1>7 DEF IInv, Unmixed

LEMMA ForgetStep == ASSUME IInv, Forget PROVE IInv'
<1>1. 0 \in Uploads
  BY UploadAssumption DEF Uploads
<1>2. /\ request' = [r \in Requests |-> Idle]
      /\ saved' = [t \in Tables |-> {}]
      /\ answered' = [t \in Tables |-> 0]
  BY DEF Forget, AllStop
<1>3. TypeOK'
  BY <1>1, <1>2 DEF Forget, IInv, TypeOK, Flags
<1>4. Held' /\ Kept'
  BY <1>2, IdleFits DEF Held, Kept, Holds, Uploaded, Creates, Turns
<1> QED
  BY <1>3, <1>4 DEF Forget, IInv, Unmixed

LEMMA RequestStep ==
  ASSUME IInv, NEW r \in Requests,
         \/ \E t \in Tables :
              \/ Upload(r, t)
              \/ \E kind \in Transforms : Transform(r, t, kind)
              \/ Delete(r, t)
              \/ MakePrimary(r, t)
         \/ \E p \in Links : Relate(r, p) \/ Unrelate(r, p)
         \/ Create(r) \/ CreateError(r)
         \/ Prepare(r) \/ TakeTable(r) \/ PutTable(r)
         \/ Changed(r) \/ TransformError(r)
         \/ RefreshRead(r) \/ RefreshError(r) \/ RefreshWrite(r)
         \/ Rebuild(r)
         \/ Drop(r) \/ Unlist(r) \/ DeleteError(r)
         \/ ReadRels(r) \/ SaveRels(r)
  PROVE  IInv'
<1>1. CASE \E t \in Tables : Upload(r, t) \/ Delete(r, t) \/ MakePrimary(r, t)
                               \/ \E kind \in Transforms : Transform(r, t, kind)
  BY <1>1, UploadStep, TransformStep, DeleteStep, MakePrimaryStep
<1>2. CASE \E p \in Links : Relate(r, p) \/ Unrelate(r, p)
  BY <1>2, RelateStep
<1>3. CASE Create(r) \/ CreateError(r) \/ Prepare(r) \/ TakeTable(r) \/ PutTable(r)
             \/ Changed(r) \/ TransformError(r)
  BY <1>3, CreateStep, CreateErrorStep, PrepareStep, TakeTableStep, PutTableStep,
     ChangedStep, TransformErrorStep
<1>4. CASE RefreshRead(r) \/ RefreshError(r) \/ RefreshWrite(r) \/ Rebuild(r)
  BY <1>4, RefreshReadStep, RefreshErrorStep, RefreshWriteStep, RebuildStep
<1>5. CASE Drop(r) \/ Unlist(r) \/ DeleteError(r) \/ ReadRels(r) \/ SaveRels(r)
  BY <1>5, DropStep, UnlistStep, DeleteErrorStep, ReadRelsStep, SaveRelsStep
<1> QED
  BY <1>1, <1>2, <1>3, <1>4, <1>5

LEMMA NextIInv == ASSUME IInv, [Next]_vars PROVE IInv'
<1>1. CASE \E r \in Requests :
             \/ \E t \in Tables :
                  \/ Upload(r, t)
                  \/ \E kind \in Transforms : Transform(r, t, kind)
                  \/ Delete(r, t)
                  \/ MakePrimary(r, t)
             \/ \E p \in Links : Relate(r, p) \/ Unrelate(r, p)
             \/ Create(r) \/ CreateError(r)
             \/ Prepare(r) \/ TakeTable(r) \/ PutTable(r)
             \/ Changed(r) \/ TransformError(r)
             \/ RefreshRead(r) \/ RefreshError(r) \/ RefreshWrite(r)
             \/ Rebuild(r)
             \/ Drop(r) \/ Unlist(r) \/ DeleteError(r)
             \/ ReadRels(r) \/ SaveRels(r)
  BY <1>1, RequestStep
<1>2. CASE Crash \/ Forget
  BY <1>2, CrashStep, ForgetStep
<1>3. CASE UNCHANGED vars
  <2>1. UNCHANGED <<catalog, schema, rels, saved, request, uploads, answered, lost,
                    chosen, mixed>>
    BY <1>3 DEF vars, tables, marks
  <2>2. TypeOK' /\ Held' /\ Kept'
    BY <2>1 DEF IInv, TypeOK, Held, Kept, Holds, Takes, Uploaded, Creates, Turns
  <2>3. Unmixed => Unmixed'
    BY <2>1 DEF Unmixed, Fits, DropFits, UploadFits, TransformFits, RebuildFits,
                RelationFits, Related, FlagOf, Together, Bears, Lists, Chosen, Relations,
                Covers, Pending, Away, Uploaded, Creates, Rebuilds, Transforming, Turns,
                Relates, Drops
  <2> QED
    BY <2>2, <2>3 DEF IInv
<1> QED
  BY <1>1, <1>2, <1>3 DEF Next

LEMMA Inductive == Spec => []IInv
<1>1. Init => IInv
  BY InitIInv
<1>2. IInv /\ [Next]_vars => IInv'
  BY NextIInv
<1> QED
  BY <1>1, <1>2, PTL DEF Spec

-----------------------------------------------------------------------------

(* The catalog, the cache, the relationships, the snapshots and every      *)
(* request are always of the shapes that the routes of routers/session.py  *)
(* and the transforms give them.                                           *)
THEOREM SchemaTypeCorrect == Spec => []TypeOK
<1>1. IInv => TypeOK
  BY DEF IInv
<1> QED
  BY <1>1, Inductive, PTL

(* What upload_table or materialize_query was answered with 200 for is in  *)
(* the catalog, going back to that upload, or taken by a transform that is *)
(* under way, whatever requests, failures and crashes there are, unless it *)
(* was deleted, the keys of the session were lost, or a transform of it    *)
(* was cut between DROP and the return of the table or restored a snapshot *)
(* of an earlier upload.  And it is listed, or about to be, unless         *)
(* requests overlap that do not go together.                               *)
THEOREM AcknowledgedIsKept == Spec => []Acknowledged
<1>1. IInv => Acknowledged
  <2> SUFFICES ASSUME IInv, NEW t \in Tables, answered[t] # 0, t \notin lost
               PROVE  /\ catalog[t] = answered[t] \/ t \in Taken
                      /\ mixed \/ RefreshOf({"rebuild"}) # {} \/ t \in Listed
    BY DEF Acknowledged
  <2>1. catalog[t] = answered[t] \/ \E o \in Requests : Takes(request[o], t)
    BY DEF IInv, Kept
  <2>2. (\E o \in Requests : Takes(request[o], t)) => t \in Taken
    BY DEF Takes, Taken, Busy
  <2>3. ASSUME ~ mixed, t \notin Listed PROVE RefreshOf({"rebuild"}) # {}
    <3>1. schema[t] = "none" /\ Lists /\ \A o \in Requests : Fits(request[o])
      BY <2>3 DEF Listed, IInv, Unmixed
    <3>2. ~ \E o \in Requests : Takes(request[o], t)
      <4> SUFFICES ASSUME NEW o \in Requests, Takes(request[o], t) PROVE FALSE
        OBVIOUS
      <4>1. Transforming(request[o]) /\ request[o].table = t
        BY RequestFacts DEF Takes, Holds, Transforming, Turns
      <4> QED
        BY <3>1, <4>1 DEF Fits, TransformFits
    <3>3. PICK o \in Requests : Covers(request[o], t)
      BY <2>1, <3>1, <3>2 DEF Lists
    <3>4. ~ (Uploaded(request[o]) /\ t = request[o].table)
      BY <3>1, Apart DEF Fits, UploadFits
    <3>5. Rebuilds(request[o])
      BY <3>3, <3>4 DEF Covers, Pending
    <3> QED
      BY <3>5 DEF Rebuilds, Turns, RefreshOf, Busy
  <2> QED
    BY <2>1, <2>2, <2>3
<1> QED
  BY <1>1, Inductive, PTL

(* When nothing is under way, schema:{s} lists what DuckDB's catalog       *)
(* holds, and beyond that only tables that a cut transform or deletion has *)
(* lost; its primary table is the one that was chosen, unless requests     *)
(* that do not go together have overlapped.                                *)
THEOREM CacheListsTheCatalog == Spec => []ListsTheCatalog
<1>1. IInv => ListsTheCatalog
  <2> SUFFICES ASSUME IInv, ~ mixed, Busy({"idle"}) = Requests
               PROVE  /\ Present \subseteq Listed /\ Listed \subseteq Present \union lost
                      /\ {t \in Tables : schema[t] = "primary"} = {chosen} \ {NoTable}
    BY DEF ListsTheCatalog
  <2>1. \A o \in Requests : request[o] = Idle
    BY RequestFacts, Records DEF Busy
  <2>2. \A o \in Requests : \A t : /\ ~ Covers(request[o], t) /\ ~ Pending(request[o], t)
                                   /\ ~ Away(request[o], t)
    BY <2>1, IdleFits
  <2>3. \A t \in Tables : /\ catalog[t] # 0 => schema[t] # "none"
                          /\ schema[t] # "none" => catalog[t] # 0 \/ t \in lost
                          /\ schema[t] = "primary" <=> chosen = t
    BY <2>2 DEF IInv, Unmixed, Lists, Chosen
  <2>4. Present \subseteq Listed /\ Listed \subseteq Present \union lost
    BY <2>3 DEF Listed, Present
  <2>5. {t \in Tables : schema[t] = "primary"} = {chosen} \ {NoTable}
    BY <2>3, NameAssumption DEF IInv, TypeOK
  <2> QED
    BY <2>4, <2>5
<1> QED
  BY <1>1, Inductive, PTL

(* No relationship names a table that is not listed: the threads of the    *)
(* relationship routes lose or revive relationships, but only a deletion   *)
(* that overlaps with them leaves one dangling.                            *)
THEOREM RelationsStayHeld == Spec => []RelationsHold
<1>1. IInv => RelationsHold
  BY LinkAssumption DEF IInv, Unmixed, Relations, Related, RelationsHold, Listed, TypeOK
<1> QED
  BY <1>1, Inductive, PTL
=============================================================================
