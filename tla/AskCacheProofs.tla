----------------------------- MODULE AskCacheProofs -----------------------------
(***************************************************************************)
(* Proofs about AskCache, for any number of sessions, requests and changes *)
(* and any number of attempts.                                             *)
(***************************************************************************)
EXTENDS AskCache, TLAPS

(* Of an answer that has outlived a purge of its session nothing is said.  *)
(* Any other shows its schema to a session under version v ...             *)
Shows(e, v) ==
  ~ e.purged =>
    /\ v <= version[e.session]
    /\ v = version[e.session] /\ announced[e.session] =>
         e.schema \in {shape[e.session], NoShape}

(* ... was made under version b of the dictionary ...                      *)
Uses(e, b) ==
  ~ e.purged =>
    /\ b <= termVersion[e.session]
    /\ b = termVersion[e.session] /\ told[e.session] => e.term = term[e.session]

(* ... and has been run under version v.                                   *)
Ran(e, v) ==
  ~ e.purged =>
    (v = version[e.session] /\ announced[e.session] => e.ran = shape[e.session])

Stored ==
  \A v \in 0 .. MaxShape, b \in 0 .. MaxEdits :
    LET e == query[<<v, b>>]
    IN e # NoAnswer => Shows(e, v) /\ Uses(e, b) /\ Ran(e, v)

Noted ==
  \A s \in Sessions, kind \in {"eda", "story"}, v \in 0 .. MaxShape :
    LET e == notes[<<s, kind, v>>]
    IN e # NoAnswer => e.session = s /\ Shows(e, v)

Waiting(r) ==
  r # Idle => /\ Shows(r.answer, r.sv)
              /\ ~ r.answer.purged => r.bv <= termVersion[r.answer.session]
              /\ r.kind \in {"ask", "assist", "advice"} => Uses(r.answer, r.bv)

Pending == \A c \in Askers : Waiting(request[c])

Committed(w, s) == change[w].at = "committed" /\ change[w].session = s

(* The version counts the announced changes: there is room for a bump as   *)
(* long as a transform holds the lock, and one transform at a time does.   *)
Counted ==
  \A s \in Sessions :
    /\ version[s] <= shape[s]
    /\ \A w \in Writers : Committed(w, s) =>
         /\ version[s] < shape[s]
         /\ change[w].transform
         /\ \A v \in Writers : Committed(v, s) => v = w

Alone(w) ==
  \A v \in Writers \ {w} :
    change[v].at # "idle" => change[v].session # change[w].session

(* A change that has been alone so far has read the table as it is.        *)
Calm ==
  /\ \A s \in Sessions : AtRest(s) => known[s] = shape[s]
  /\ \A w \in Writers : change[w].at # "idle" /\ change[w].alone =>
       /\ Alone(w)
       /\ change[w].at = "read" => change[w].seen = shape[change[w].session]

IInv == TypeOK /\ Counted /\ Calm /\ Stored /\ Noted /\ Pending

-----------------------------------------------------------------------------

LEMMA Bounds ==
  /\ MaxShape \in Nat /\ MaxEdits \in Nat /\ MaxAttempts \in Nat
  /\ 1 \in 1 .. MaxAttempts /\ 0 \in 0 .. MaxShape /\ 0 \in 0 .. MaxEdits
  /\ NoShape \in Nat /\ NoShape \notin Shapes
BY AttemptAssumption, BoundAssumption DEF NoShape, Shapes

LEMMA Records ==
  /\ NoAnswer \notin Answers /\ Idle \notin Requests /\ Idle \notin Changes
  /\ \A e \in Answers : e # NoAnswer /\ e.session \in Sessions
  /\ \A r \in Requests : r # Idle /\ r.at # "idle" /\ r.answer \in Answers
  /\ \A x \in Changes : x # Idle /\ x.at # "idle" /\ x.session \in Sessions
                         /\ x.seen \in Shapes
BY DEF NoAnswer, Answers, Idle, Requests, Changes

LEMMA InitIInv == ASSUME Init PROVE IInv
<1>1. TypeOK
  <2>1. \A k \in Sessions \X {"eda", "story"} \X (0 .. MaxShape) : notes[k] = NoAnswer
    BY DEF Init
  <2> QED
    BY <2>1, Bounds DEF Init, TypeOK, Shapes
<1>2. Counted
  <2>1. \A w \in Writers : change[w].at = "idle"
    BY DEF Init, Idle
  <2>2. ASSUME NEW s \in Sessions PROVE version[s] <= shape[s]
    <3>1. version[s] = 0 /\ shape[s] = 0
      BY DEF Init
    <3> QED
      BY <3>1
  <2>3. \A w \in Writers, s \in Sessions : ~ Committed(w, s)
    BY <2>1 DEF Committed
  <2> QED
    BY <2>2, <2>3 DEF Counted
<1>3. Calm
  BY DEF Init, Calm, Idle
<1>4. Stored
  BY DEF Init, Stored, Versions
<1>5. Noted
  BY DEF Init, Noted
<1>6. Pending
  BY DEF Init, Pending, Waiting
<1> QED
  BY <1>1, <1>2, <1>3, <1>4, <1>5, <1>6 DEF IInv

-----------------------------------------------------------------------------
(* Steps of the requests to the model: request c becomes r.                *)

LEMMA AskerStep ==
  ASSUME IInv, NEW c \in Askers, NEW r \in Requests \union {Idle},
         request' = [request EXCEPT ![c] = r], Waiting(r),
         fail' \in SUBSET Versions,
         UNCHANGED query \/ \E v \in 0 .. MaxShape, b \in 0 .. MaxEdits, e \in Answers :
           /\ query' = [query EXCEPT ![<<v, b>>] = e]
           /\ Shows(e, v) /\ Uses(e, b) /\ Ran(e, v),
         UNCHANGED notes \/ \E s \in Sessions, kind \in {"eda", "story"},
                               v \in 0 .. MaxShape, e \in Answers :
           /\ notes' = [notes EXCEPT ![<<s, kind, v>>] = e]
           /\ e.session = s /\ Shows(e, v),
         UNCHANGED <<tables, words, change>>
  PROVE  IInv'
<1> USE DEF tables, words
<1>1. TypeOK'
  <2>1. query' \in [Versions -> Answers \union {NoAnswer}]
    BY DEF IInv, TypeOK, Versions
  <2>2. notes' \in [Sessions \X {"eda", "story"} \X (0 .. MaxShape)
                       -> Answers \union {NoAnswer}]
    BY DEF IInv, TypeOK
  <2> QED
    BY <2>1, <2>2 DEF IInv, TypeOK
<1>2. Counted'
  BY DEF IInv, Counted, Committed
<1>3. Calm'
  BY DEF IInv, Calm, AtRest, Alone
<1>4. Stored'
  <2> SUFFICES ASSUME NEW v \in 0 .. MaxShape, NEW b \in 0 .. MaxEdits,
                      query'[<<v, b>>] # NoAnswer
               PROVE  /\ Shows(query'[<<v, b>>], v) /\ Uses(query'[<<v, b>>], b)
                      /\ Ran(query'[<<v, b>>], v)
    BY DEF Stored, Shows, Uses, Ran
  <2>1. CASE query'[<<v, b>>] = query[<<v, b>>]
    BY <2>1 DEF IInv, Stored
  <2>2. CASE query'[<<v, b>>] # query[<<v, b>>]
    BY <2>2 DEF IInv, TypeOK, Versions
  <2> QED
    BY <2>1, <2>2
<1>5. Noted'
  <2> SUFFICES ASSUME NEW s \in Sessions, NEW kind \in {"eda", "story"},
                      NEW v \in 0 .. MaxShape, notes'[<<s, kind, v>>] # NoAnswer
               PROVE  /\ notes'[<<s, kind, v>>].session = s
                      /\ Shows(notes'[<<s, kind, v>>], v)
    BY DEF Noted, Shows
  <2>1. CASE notes'[<<s, kind, v>>] = notes[<<s, kind, v>>]
    BY <2>1 DEF IInv, Noted
  <2>2. CASE notes'[<<s, kind, v>>] # notes[<<s, kind, v>>]
    BY <2>2 DEF IInv, TypeOK
  <2> QED
    BY <2>1, <2>2
<1>6. Pending'
  <2>1. \A d \in Askers : Waiting(request'[d])
    BY DEF IInv, TypeOK, Pending
  <2> QED
    BY <2>1 DEF Pending, Waiting, Shows, Uses
<1> QED
  BY <1>1, <1>2, <1>3, <1>4, <1>5, <1>6 DEF IInv

LEMMA AskStep ==
  ASSUME IInv, NEW c \in Askers, NEW s \in Sessions, NEW kind \in Kinds,
         Ask(c, s, kind)
  PROVE  IInv'
<1> DEFINE e == [session |-> s,
                 schema |-> IF AtRest(s) THEN known[s] ELSE NoShape,
                 term |-> IF kind \in {"eda", "story"} THEN 0 ELSE term[s],
                 ran |-> NoShape, purged |-> FALSE]
           r == [at |-> "model", kind |-> kind, sv |-> version[s],
                 bv |-> termVersion[s], attempt |-> 1, answer |-> e]
<1>1. request' = [request EXCEPT ![c] = r] /\ UNCHANGED <<tables, words, caches, change>>
  BY DEF Ask
<1>2. e \in Answers
  BY Bounds DEF IInv, TypeOK, Answers
<1>3. e.session = s /\ e.schema = (IF AtRest(s) THEN known[s] ELSE NoShape)
      /\ e.term = (IF kind \in {"eda", "story"} THEN 0 ELSE term[s])
      /\ e.purged = FALSE
  OBVIOUS
<1> HIDE DEF e
<1>4. r \in Requests
  BY <1>2, Bounds, KindAssumption DEF IInv, TypeOK, Requests
<1>5. r.answer = e /\ r.sv = version[s] /\ r.bv = termVersion[s] /\ r.kind = kind
  OBVIOUS
<1> HIDE DEF r
<1>6. Waiting(r)
  <2>1. version[s] \in Nat /\ termVersion[s] \in Nat
    BY DEF IInv, TypeOK
  <2>2. Shows(e, version[s])
    <3>1. AtRest(s) => known[s] = shape[s]
      BY DEF IInv, Calm
    <3> QED
      BY <1>3, <2>1, <3>1 DEF Shows
  <2>3. kind \in {"ask", "assist", "advice"} => Uses(e, termVersion[s])
    BY <1>3, <2>1 DEF Uses
  <2> QED
    BY <1>3, <1>5, <2>1, <2>2, <2>3 DEF Waiting
<1>7. fail' \in SUBSET Versions
  BY <1>1 DEF caches, IInv, TypeOK
<1> QED
  BY <1>1, <1>4, <1>6, <1>7, AskerStep DEF caches

(* The request goes on with the answer and the versions it has.            *)
LEMMA GoesOn ==
  ASSUME IInv, NEW c \in Askers, request[c].at # "idle",
         NEW at \in {"model", "dry"}, NEW n \in 1 .. MaxAttempts, NEW r,
         r = [request[c] EXCEPT !.at = at, !.attempt = n]
  PROVE  /\ request[c] \in Requests
         /\ r \in Requests /\ Waiting(r)
<1>1. request[c] \in Requests
  BY DEF IInv, TypeOK, Idle
<1>2. /\ r \in Requests /\ r.answer = request[c].answer /\ r.sv = request[c].sv
      /\ r.bv = request[c].bv /\ r.kind = request[c].kind
  BY <1>1 DEF Requests
<1>3. Waiting(request[c]) /\ request[c] # Idle
  BY <1>1, Records DEF IInv, Pending
<1> QED
  BY <1>1, <1>2, <1>3 DEF Waiting

LEMMA RetryStep ==
  ASSUME IInv, NEW c \in Askers, request[c].at # "idle", Retry(c),
         UNCHANGED <<tables, words, query, notes, change>>
  PROVE  IInv'
<1>1. request[c] \in Requests
  BY DEF IInv, TypeOK, Idle
<1>2. request[c].attempt \in 1 .. MaxAttempts /\ Key(request[c]) \in Versions
  BY <1>1 DEF Requests, Key, Versions
<1>3. CASE request[c].attempt < MaxAttempts
  <2>1. request[c].attempt + 1 \in 1 .. MaxAttempts
    BY <1>2, <1>3, Bounds
  <2> DEFINE r == [request[c] EXCEPT !.at = "model", !.attempt = request[c].attempt + 1]
  <2>2. request' = [request EXCEPT ![c] = r] /\ fail' = fail
    BY <1>3 DEF Retry, IInv, TypeOK
  <2>3. r \in Requests /\ Waiting(r)
    BY <2>1, GoesOn
  <2> HIDE DEF r
  <2>4. fail' \in SUBSET Versions
    BY <2>2 DEF IInv, TypeOK
  <2> QED
    BY <2>2, <2>3, <2>4, AskerStep
<1>4. CASE ~ (request[c].attempt < MaxAttempts)
  <2>1. request' = [request EXCEPT ![c] = Idle] /\ fail' \in SUBSET Versions
    BY <1>2, <1>4 DEF Retry, End, IInv, TypeOK
  <2>2. Waiting(Idle)
    BY DEF Waiting
  <2> QED
    BY <2>1, <2>2, AskerStep
<1> QED
  BY <1>3, <1>4
(* The request ends without an answer.                                     *)
LEMMA EndStep ==
  ASSUME IInv, NEW c \in Askers, End(c),
         UNCHANGED <<tables, words, caches, change>>
  PROVE  IInv'
<1>1. request' = [request EXCEPT ![c] = Idle] /\ Waiting(Idle)
  BY DEF End, Waiting
<1>2. fail' \in SUBSET Versions
  BY DEF caches, IInv, TypeOK
<1> QED
  BY <1>1, <1>2, AskerStep DEF caches

LEMMA ProposeStep ==
  ASSUME IInv, NEW c \in Askers, Propose(c)
  PROVE  IInv'
<1> DEFINE n == request[c].attempt
           r == [request[c] EXCEPT !.at = "dry", !.attempt = n]
<1>1. request[c].at # "idle" /\ UNCHANGED <<tables, words, caches, change>>
  BY DEF Propose
<1>2. request[c] \in Requests
  BY <1>1 DEF IInv, TypeOK, Idle
<1>3. n \in 1 .. MaxAttempts
  BY <1>2 DEF Requests
<1>4. request' = [request EXCEPT ![c] = r]
  <2>1. [request[c] EXCEPT !.at = "dry"] = r
    BY <1>2 DEF Requests
  <2> QED
    BY <2>1 DEF Propose
<1>5. r \in Requests /\ Waiting(r)
  BY <1>1, <1>3, GoesOn
<1>6. fail' \in SUBSET Versions
  BY <1>1 DEF caches, IInv, TypeOK
<1> HIDE DEF r, n
<1> QED
  BY <1>1, <1>4, <1>5, <1>6, AskerStep DEF caches

(* What is known of a request that is under way.                           *)
LEMMA UnderWay ==
  ASSUME IInv, NEW c \in Askers, request[c].at # "idle"
  PROVE  LET r == request[c]
         IN /\ r \in Requests /\ r.answer \in Answers
            /\ r.sv \in 0 .. MaxShape /\ r.bv \in 0 .. MaxEdits
            /\ Shows(r.answer, r.sv)
            /\ r.kind \in {"ask", "assist", "advice"} => Uses(r.answer, r.bv)
<1>1. request[c] \in Requests
  BY DEF IInv, TypeOK, Idle
<1>2. Waiting(request[c]) /\ request[c] # Idle
  BY <1>1, Records DEF IInv, Pending
<1> QED
  BY <1>1, <1>2 DEF Waiting, Requests

LEMMA DryRunStep ==
  ASSUME IInv, NEW c \in Askers, DryRun(c)
  PROVE  IInv'
<1> DEFINE r == request[c]
           e == [r.answer EXCEPT !.ran = shape[r.answer.session]]
<1>1. /\ r.at # "idle" /\ request' = [request EXCEPT ![c] = Idle]
      /\ query' = IF r.kind # "ask" THEN query ELSE [query EXCEPT ![Key(r)] = e]
      /\ UNCHANGED <<tables, words, fail, notes, change>>
  BY DEF DryRun, End
<1>2. /\ r \in Requests /\ r.answer \in Answers
      /\ r.sv \in 0 .. MaxShape /\ r.bv \in 0 .. MaxEdits
      /\ Shows(r.answer, r.sv)
      /\ r.kind \in {"ask", "assist", "advice"} => Uses(r.answer, r.bv)
  BY <1>1, UnderWay
<1>3. r.answer.session \in Sessions
  BY <1>2, Records
<1>4. shape[r.answer.session] \in Shapes
  BY <1>3 DEF IInv, TypeOK
<1>5. /\ e \in Answers /\ e.session = r.answer.session
      /\ e.schema = r.answer.schema /\ e.term = r.answer.term
      /\ e.ran = shape[e.session] /\ e.purged = r.answer.purged
  BY <1>2, <1>4 DEF Answers
<1>6. Waiting(Idle) /\ fail' \in SUBSET Versions
  BY <1>1 DEF Waiting, IInv, TypeOK
<1> HIDE DEF r, e
<1>7. CASE r.kind # "ask"
  BY <1>1, <1>6, <1>7, AskerStep
<1>8. CASE r.kind = "ask"
  <2>1. Shows(e, r.sv) /\ Uses(e, r.bv) /\ Ran(e, r.sv)
    BY <1>2, <1>5, <1>8 DEF Shows, Uses, Ran
  <2>2. query' = [query EXCEPT ![<<r.sv, r.bv>>] = e]
    BY <1>1, <1>8 DEF Key
  <2> QED
    BY <1>1, <1>2, <1>5, <1>6, <2>1, <2>2, AskerStep
<1> QED
  BY <1>7, <1>8

LEMMA TellStep ==
  ASSUME IInv, NEW c \in Askers, Tell(c)
  PROVE  IInv'
<1> DEFINE r == request[c]
<1>1. /\ r.at # "idle" /\ request' = [request EXCEPT ![c] = Idle]
      /\ r.kind \in {"eda", "story", "advice"}
      /\ notes' = IF r.kind = "advice" THEN notes
                  ELSE [notes EXCEPT ![<<r.answer.session, r.kind, r.sv>>] = r.answer]
      /\ UNCHANGED <<tables, words, query, fail, change>>
  BY DEF Tell, End
<1>2. /\ r.answer \in Answers /\ r.sv \in 0 .. MaxShape
      /\ Shows(r.answer, r.sv)
  BY <1>1, UnderWay
<1>3. r.answer.session \in Sessions
  BY <1>2, Records
<1>4. Waiting(Idle) /\ fail' \in SUBSET Versions
  BY <1>1 DEF Waiting, IInv, TypeOK
<1> HIDE DEF r
<1>5. CASE r.kind = "advice"
  BY <1>1, <1>4, <1>5, AskerStep
<1>6. CASE r.kind \in {"eda", "story"}
  <2> DEFINE e == r.answer
             s == e.session
             kind == r.kind
             v == r.sv
  <2>1. notes' = [notes EXCEPT ![<<s, kind, v>>] = e]
    BY <1>1, <1>6
  <2>2. /\ e \in Answers /\ s \in Sessions /\ kind \in {"eda", "story"}
        /\ v \in 0 .. MaxShape /\ e.session = s /\ Shows(e, v)
    BY <1>2, <1>3, <1>6
  <2> HIDE DEF e, s, kind, v
  <2> QED
    BY <1>1, <1>4, <2>1, <2>2, AskerStep
<1> QED
  BY <1>1, <1>5, <1>6

LEMMA AskersStep ==
  ASSUME IInv, NEW c \in Askers,
         \/ \E s \in Sessions, kind \in Kinds : Ask(c, s, kind)
         \/ ModelError(c) \/ Reject(c) \/ Propose(c)
         \/ DryRun(c) \/ DryRunError(c) \/ Tell(c)
  PROVE  IInv'
<1>1. CASE ModelError(c)
  BY <1>1, EndStep DEF ModelError
<1>2. CASE Reject(c)
  BY <1>2, RetryStep DEF Reject
<1>3. CASE DryRunError(c)
  <2>1. CASE request[c].kind = "ask"
    BY <1>3, <2>1, EndStep DEF DryRunError, caches
  <2>2. CASE request[c].kind # "ask"
    BY <1>3, <2>2, RetryStep DEF DryRunError
  <2> QED
    BY <2>1, <2>2
<1> QED
  BY <1>1, <1>2, <1>3, AskStep, ProposeStep, DryRunStep, TellStep

LEMMA ExpireStep ==
  ASSUME IInv, NEW k \in Versions, Expire(k)
  PROVE  IInv'
<1>1. fail' \in SUBSET Versions /\ UNCHANGED <<tables, words, query, notes, request, change>>
  BY DEF Expire, IInv, TypeOK
<1>2. TypeOK'
  BY <1>1 DEF tables, words, IInv, TypeOK
<1>3. Counted' /\ Calm'
  BY <1>1 DEF tables, IInv, Counted, Committed, Calm, AtRest, Alone
<1>4. Stored' /\ Noted' /\ Pending'
  BY <1>1 DEF tables, words, IInv, Stored, Noted, Pending, Waiting, Shows, Uses, Ran
<1> QED
  BY <1>2, <1>3, <1>4 DEF IInv

-----------------------------------------------------------------------------
(* Edits of the dictionary: no stored or pending answer was made under the *)
(* version that begins.                                                    *)

LEMMA InstructStep ==
  ASSUME IInv, NEW s \in Sessions, NEW t \in 0 .. MaxEdits,
         Instruct(s, t) \/ InstructCut(s, t)
  PROVE  IInv'
<1>1. /\ \/ /\ termVersion[s] < MaxEdits
            /\ termVersion' = [termVersion EXCEPT ![s] = @ + 1]
            /\ told' = [told EXCEPT ![s] = TRUE]
         \/ /\ termVersion' = termVersion
            /\ told' = [told EXCEPT ![s] = FALSE]
      /\ term' = [term EXCEPT ![s] = t]
      /\ UNCHANGED <<tables, caches, request, change>>
  BY DEF Instruct, InstructCut, Define
<1>2. /\ \A z \in Sessions : termVersion[z] \in Nat /\ termVersion'[z] \in 0 .. MaxEdits
      /\ \/ termVersion'[s] = termVersion[s] + 1
         \/ termVersion'[s] = termVersion[s] /\ told'[s] = FALSE
      /\ \A z \in Sessions \ {s} :
           termVersion'[z] = termVersion[z] /\ term'[z] = term[z] /\ told'[z] = told[z]
  BY <1>1, Bounds DEF IInv, TypeOK
<1>3. TypeOK'
  <2>1. termVersion' \in [Sessions -> 0 .. MaxEdits]
    BY <1>1, <1>2 DEF IInv, TypeOK
  <2>2. told' \in [Sessions -> BOOLEAN]
    BY <1>1 DEF IInv, TypeOK
  <2> QED
    BY <1>1, <2>1, <2>2 DEF tables, caches, IInv, TypeOK
<1>4. Counted' /\ Calm'
  BY <1>1 DEF tables, IInv, Counted, Committed, Calm, AtRest, Alone
<1>5. ASSUME NEW e \in Answers, NEW b \in 0 .. MaxEdits, b <= termVersion[e.session],
             ~ e.purged
      PROVE  /\ b <= termVersion'[e.session]
             /\ Uses(e, b) => Uses(e, b)'
  <2>1. e.session \in Sessions /\ b \in Nat
    BY Records
  <2>2. CASE e.session = s
    <3>1. b <= termVersion'[s] /\ (b # termVersion'[s] \/ told'[s] = FALSE)
      BY <1>2, <1>5, <2>1, <2>2
    <3> QED
      BY <2>2, <3>1 DEF Uses
  <2>3. CASE e.session # s
    BY <1>2, <1>5, <2>1, <2>3 DEF Uses
  <2> QED
    BY <2>2, <2>3
<1>6. Stored'
  <2> SUFFICES ASSUME NEW v \in 0 .. MaxShape, NEW b \in 0 .. MaxEdits,
                      query[<<v, b>>] # NoAnswer
               PROVE  /\ Shows(query[<<v, b>>], v) /\ Uses(query[<<v, b>>], b)'
                      /\ Ran(query[<<v, b>>], v)
    BY <1>1 DEF tables, caches, Stored, Shows, Uses, Ran
  <2>1. query[<<v, b>>] \in Answers
    BY DEF IInv, TypeOK, Versions
  <2>2. /\ Shows(query[<<v, b>>], v) /\ Uses(query[<<v, b>>], b)
        /\ Ran(query[<<v, b>>], v)
    BY DEF IInv, Stored
  <2>3. Uses(query[<<v, b>>], b)'
    <3>1. /\ query' = query
          /\ ~ query[<<v, b>>].purged => b <= termVersion[query[<<v, b>>].session]
      BY <1>1, <2>2 DEF caches, Uses
    <3> QED
      BY <1>5, <2>1, <2>2, <3>1 DEF Uses
  <2> QED
    BY <2>2, <2>3
<1>7. Noted'
  BY <1>1 DEF tables, caches, IInv, Noted, Shows
<1>8. Pending'
  <2> SUFFICES ASSUME NEW c \in Askers, request[c] # Idle
               PROVE  Waiting(request[c])'
    BY <1>1 DEF Pending, Waiting
  <2>1. /\ request[c] \in Requests /\ request[c].answer \in Answers
        /\ request[c].bv \in 0 .. MaxEdits
    BY Records DEF IInv, TypeOK, Requests
  <2>2. Waiting(request[c])
    BY DEF IInv, Pending
  <2>3. request' = request
    BY <1>1
  <2>4. Shows(request[c].answer, request[c].sv)'
    BY <1>1, <2>2 DEF Waiting, Shows, tables
  <2>5. /\ ~ request[c].answer.purged =>
             request[c].bv <= termVersion'[request[c].answer.session]
        /\ request[c].kind \in {"ask", "assist", "advice"} =>
             Uses(request[c].answer, request[c].bv)'
    BY <1>5, <2>1, <2>2, <2>3 DEF Waiting, Uses
  <2> QED
    BY <2>3, <2>4, <2>5 DEF Waiting
<1> QED
  BY <1>3, <1>4, <1>6, <1>7, <1>8 DEF IInv

-----------------------------------------------------------------------------
(* Changes of a table: what a change does to the answers of its session.   *)

(* A commit withdraws the announcement, a bump begins a version under      *)
(* which there is no answer; the other steps touch neither.                *)
LEMMA AnswersStay ==
  ASSUME IInv, NEW s \in Sessions,
         \/ UNCHANGED <<shape, version, announced>>
         \/ /\ shape' = [shape EXCEPT ![s] = @ + 1] /\ version' = version
            /\ announced' = [announced EXCEPT ![s] = FALSE]
         \/ /\ version' = [version EXCEPT ![s] = @ + 1] /\ shape' = shape
            /\ announced' = [announced EXCEPT ![s] = TRUE],
         UNCHANGED <<words, caches, request>>
  PROVE  Stored' /\ Noted' /\ Pending'
<1>1. /\ \A z \in Sessions : version[z] \in Nat
      /\ \A z \in Sessions : version[z] <= version'[z]
      /\ \A z \in Sessions : version'[z] = version[z] /\ announced'[z] =>
           announced[z] /\ shape'[z] = shape[z]
  BY Bounds DEF IInv, TypeOK
<1>2. ASSUME NEW e \in Answers, NEW v \in 0 .. MaxShape, Shows(e, v)
      PROVE  /\ Shows(e, v)'
             /\ Ran(e, v) => Ran(e, v)'
  <2>1. e.session \in Sessions /\ v \in Nat
    BY Records
  <2>2. ~ e.purged => v <= version'[e.session]
    BY <1>1, <1>2, <2>1, Bounds DEF Shows, IInv, TypeOK
  <2>3. ~ e.purged /\ v = version'[e.session] => v = version[e.session]
    BY <1>1, <1>2, <2>1 DEF Shows
  <2> QED
    BY <1>1, <1>2, <2>1, <2>2, <2>3 DEF Shows, Ran
<1>3. Stored'
  <2> SUFFICES ASSUME NEW v \in 0 .. MaxShape, NEW b \in 0 .. MaxEdits,
                      query[<<v, b>>] # NoAnswer
               PROVE  /\ Shows(query[<<v, b>>], v)' /\ Uses(query[<<v, b>>], b)
                      /\ Ran(query[<<v, b>>], v)'
    BY DEF words, caches, Stored, Shows, Uses, Ran
  <2>1. query[<<v, b>>] \in Answers /\ query' = query
    BY DEF IInv, TypeOK, Versions, caches
  <2>2. /\ Shows(query[<<v, b>>], v) /\ Uses(query[<<v, b>>], b)
        /\ Ran(query[<<v, b>>], v)
    BY DEF IInv, Stored
  <2> QED
    BY <1>2, <2>1, <2>2 DEF Shows, Ran
<1>4. Noted'
  <2> SUFFICES ASSUME NEW z \in Sessions, NEW kind \in {"eda", "story"},
                      NEW v \in 0 .. MaxShape, notes[<<z, kind, v>>] # NoAnswer
               PROVE  notes[<<z, kind, v>>].session = z /\ Shows(notes[<<z, kind, v>>], v)'
    BY DEF caches, Noted, Shows
  <2>1. notes[<<z, kind, v>>] \in Answers /\ notes' = notes
    BY DEF IInv, TypeOK, caches
  <2>2. notes[<<z, kind, v>>].session = z /\ Shows(notes[<<z, kind, v>>], v)
    BY DEF IInv, Noted
  <2> QED
    BY <1>2, <2>1, <2>2 DEF Shows
<1>5. Pending'
  <2> SUFFICES ASSUME NEW c \in Askers, request[c] # Idle
               PROVE  Waiting(request[c])'
    BY DEF Pending, Waiting
  <2>1. /\ request[c].answer \in Answers /\ request[c].sv \in 0 .. MaxShape
        /\ request' = request
    BY Records DEF IInv, TypeOK, Requests
  <2>2. Waiting(request[c])
    BY DEF IInv, Pending
  <2>3. Shows(request[c].answer, request[c].sv)'
    BY <1>2, <2>1, <2>2 DEF Waiting, Shows
  <2> QED
    BY <2>1, <2>2, <2>3 DEF Waiting, Uses, words
<1> QED
  BY <1>3, <1>4, <1>5
LEMMA CommitStep ==
  ASSUME IInv, NEW w \in Writers, NEW s \in Sessions, NEW transform \in BOOLEAN,
         Commit(w, s, transform)
  PROVE  IInv'
<1> DEFINE x == [at |-> IF transform THEN "committed" ELSE "bumped",
                 session |-> s, transform |-> transform,
                 alone |-> Others(w, s) = {}, seen |-> 0]
<1>1. /\ change[w].at = "idle" /\ shape[s] < MaxShape
      /\ transform => \A v \in Others(w, s) : change[v].transform => change[v].at # "committed"
      /\ shape' = [shape EXCEPT ![s] = @ + 1] /\ version' = version
      /\ announced' = [announced EXCEPT ![s] = FALSE]
      /\ UNCHANGED <<known, settled, words, caches, request>>
  BY DEF Commit
<1>2. change' = [v \in Writers |->
         IF v = w THEN x
         ELSE IF v \in Others(w, s) THEN [change[v] EXCEPT !.alone = FALSE]
         ELSE change[v]]
  BY DEF Commit
<1>3. x \in Changes /\ x.at \in {"committed", "bumped"} /\ x.session = s
      /\ (x.at = "committed" <=> transform) /\ x.transform = transform
      /\ x.alone = (Others(w, s) = {})
  BY Bounds DEF Changes, Shapes
<1> HIDE DEF x
<1>4. ASSUME NEW v \in Writers, v # w
      PROVE  /\ change'[v].at = change[v].at
             /\ change[v].at # "idle" =>
                  /\ change'[v] \in Changes
                  /\ change'[v].session = change[v].session
                  /\ change'[v].transform = change[v].transform
                  /\ change'[v].seen = change[v].seen
                  /\ change'[v].alone => change[v].alone /\ change[v].session # s
             /\ change[v].at = "idle" => change'[v] = change[v]
  <2>1. change[v] \in Changes \union {Idle}
    BY DEF IInv, TypeOK
  <2>2. CASE change[v].at = "idle"
    BY <1>2, <1>4, <2>2 DEF Others
  <2>3. CASE change[v].at # "idle"
    <3>1. change[v] \in Changes
      BY <2>1, <2>3 DEF Idle
    <3>2. CASE v \in Others(w, s)
      <4>1. change'[v] = [change[v] EXCEPT !.alone = FALSE]
        BY <1>2, <1>4, <3>2
      <4> QED
        BY <2>3, <3>1, <4>1 DEF Changes
    <3>3. CASE v \notin Others(w, s)
      <4>1. change'[v] = change[v] /\ change[v].session # s
        BY <1>2, <1>4, <2>3, <3>3 DEF Others
      <4> QED
        BY <2>3, <3>1, <4>1
    <3> QED
      BY <3>2, <3>3
  <2> QED
    BY <2>2, <2>3
<1>5. change'[w] = x
  BY <1>2
<1>6. TypeOK'
  <2>1. change' \in [Writers -> Changes \union {Idle}]
    <3>1. \A v \in Writers : change'[v] \in Changes \union {Idle}
      BY <1>3, <1>4, <1>5 DEF IInv, TypeOK
    <3> QED
      BY <1>2, <3>1
  <2>2. shape' \in [Sessions -> Shapes]
    <3>1. shape[s] \in Shapes
      BY DEF IInv, TypeOK
    <3>2. shape[s] + 1 \in Shapes
      BY <1>1, <3>1, Bounds DEF Shapes
    <3> QED
      BY <1>1, <3>2 DEF IInv, TypeOK
  <2> QED
    BY <1>1, <2>1, <2>2 DEF words, caches, IInv, TypeOK
<1>7. Counted'
  <2>1. \A z \in Sessions : version[z] <= shape[z] /\ version[z] \in Nat /\ shape[z] \in Nat
    BY Bounds DEF IInv, TypeOK, Counted, Shapes
  <2>2. /\ shape'[s] = shape[s] + 1
        /\ \A z \in Sessions \ {s} : shape'[z] = shape[z]
    BY <1>1 DEF IInv, TypeOK
  <2>3. \A v \in Writers \ {w}, z \in Sessions : Committed(v, z)' => Committed(v, z)
    BY <1>4 DEF Committed
  <2>4. \A z \in Sessions : Committed(w, z)' => z = s /\ transform
    BY <1>3, <1>5 DEF Committed
  <2>5. transform => \A v \in Writers \ {w} : ~ Committed(v, s)
    BY <1>1 DEF IInv, Counted, Committed, Others
  <2>6. ASSUME NEW z \in Sessions, NEW v \in Writers, Committed(v, z)'
        PROVE  /\ version'[z] < shape'[z] /\ change'[v].transform
               /\ \A u \in Writers : Committed(u, z)' => u = v
    <3>1. CASE v = w
      <4>1. z = s /\ transform
        BY <2>4, <2>6, <3>1
      <4>2. version'[s] < shape'[s]
        BY <1>1, <2>1, <2>2
      <4>3. change'[w].transform
        BY <1>3, <1>5, <4>1
      <4>4. \A u \in Writers \ {w} : ~ Committed(u, s)'
        BY <2>3, <2>5, <4>1
      <4> QED
        BY <3>1, <4>1, <4>2, <4>3, <4>4
    <3>2. CASE v # w
      <4>1. Committed(v, z)
        BY <2>3, <2>6, <3>2
      <4>2. /\ version[z] < shape[z] /\ change[v].transform
            /\ \A u \in Writers : Committed(u, z) => u = v
        BY <4>1 DEF IInv, Counted
      <4>3. version'[z] < shape'[z]
        BY <1>1, <2>1, <2>2, <4>2
      <4>4. change'[v].transform
        BY <1>4, <3>2, <4>1, <4>2 DEF Committed
      <4>5. ~ Committed(w, z)'
        BY <2>4, <2>5, <3>2, <4>1
      <4> QED
        BY <2>3, <4>2, <4>3, <4>4, <4>5
    <3> QED
      BY <3>1, <3>2
  <2>7. \A z \in Sessions : version'[z] <= shape'[z]
    BY <1>1, <2>1, <2>2
  <2> QED
    BY <2>6, <2>7 DEF Counted, Committed
<1>8. Calm'
  <2>1. ASSUME NEW z \in Sessions, AtRest(z)' PROVE known'[z] = shape'[z]
    <3>1. z # s
      BY <1>3, <1>5, <2>1 DEF AtRest
    <3>2. AtRest(z)
      <4>1. \A v \in Writers : change[v].at # "idle" => change[v].session # z
        BY <1>1, <1>4, <2>1 DEF AtRest
      <4> QED
        BY <1>1, <2>1, <4>1 DEF AtRest
    <3> QED
      BY <1>1, <3>1, <3>2 DEF IInv, TypeOK, Calm
  <2>2. ASSUME NEW v \in Writers, change'[v].at # "idle", change'[v].alone
        PROVE  /\ Alone(v)'
               /\ change'[v].at = "read" =>
                    change'[v].seen = shape'[change'[v].session]
    <3>1. CASE v = w
      <4>1. Others(w, s) = {}
        BY <1>3, <1>5, <2>2, <3>1
      <4>2. \A u \in Writers \ {w} : change'[u].at # "idle" => change'[u].session # s
        BY <1>4, <4>1 DEF Others
      <4> QED
        BY <1>3, <1>5, <3>1, <4>2 DEF Alone
    <3>2. CASE v # w
      <4>1. /\ change[v].at = change'[v].at /\ change[v].alone /\ change[v].session # s
            /\ change'[v].session = change[v].session /\ change'[v].seen = change[v].seen
        BY <1>4, <2>2, <3>2
      <4>2. /\ Alone(v)
            /\ change[v].at = "read" => change[v].seen = shape[change[v].session]
        BY <2>2, <4>1 DEF IInv, Calm
      <4>3. \A u \in Writers \ {v} :
              change'[u].at # "idle" => change'[u].session # change'[v].session
        <5>1. \A u \in Writers \ {v, w} :
                change'[u].at # "idle" => change'[u].session # change'[v].session
          BY <1>4, <4>1, <4>2 DEF Alone
        <5> QED
          BY <1>3, <1>5, <4>1, <5>1
      <4>4. change[v].session \in Sessions
        BY <2>2, <4>1, Records DEF IInv, TypeOK, Idle
      <4>5. shape'[change[v].session] = shape[change[v].session]
        BY <1>1, <4>1, <4>4 DEF IInv, TypeOK
      <4> QED
        BY <4>1, <4>2, <4>3, <4>5 DEF Alone
    <3> QED
      BY <3>1, <3>2
  <2> QED
    BY <2>1, <2>2 DEF Calm, AtRest, Alone
<1>9. Stored' /\ Noted' /\ Pending'
  BY <1>1, AnswersStay
<1> QED
  BY <1>6, <1>7, <1>8, <1>9 DEF IInv

(* A step of a change after its commit: w goes on as y, or ends.           *)
LEMMA WriterStep ==
  ASSUME IInv, NEW w \in Writers, change[w].at # "idle",
         NEW s \in Sessions, s = change[w].session,
         NEW y \in Changes \union {Idle}, change' = [change EXCEPT ![w] = y],
         \/ y = Idle
         \/ /\ y.at \in {"bumped", "read"} /\ y.session = s
            /\ y.alone = change[w].alone
            /\ y.at = "read" => y.seen = shape[s],
         \/ UNCHANGED <<version, announced>>
         \/ /\ version' = [version EXCEPT ![s] = @ + 1]
            /\ announced' = [announced EXCEPT ![s] = TRUE]
            /\ change[w].at = "committed",
         \/ UNCHANGED <<known, settled>> /\ y # Idle
         \/ /\ y = Idle
            /\ \E b \in BOOLEAN, k \in Shapes \union {NoShape} :
                 /\ settled' = [settled EXCEPT ![s] = b]
                 /\ known' = [known EXCEPT ![s] = k]
                 /\ b => k = shape[s],
         UNCHANGED <<shape, words, caches, request>>
  PROVE  IInv'
<1>1. change'[w] = y /\ \A v \in Writers \ {w} : change'[v] = change[v]
  BY DEF IInv, TypeOK
<1>2. y # Idle => y.at \in {"bumped", "read"} /\ y.session = s
  OBVIOUS
<1>3. Idle.at = "idle"
  BY DEF Idle
<1>4. Counted'
  <2>1. \A z \in Sessions : version[z] <= shape[z] /\ version[z] \in Nat /\ shape[z] \in Nat
    BY Bounds DEF IInv, TypeOK, Counted, Shapes
  <2>2. \A z \in Sessions : ~ Committed(w, z)'
    BY <1>1, <1>2, <1>3 DEF Committed
  <2>3. \A v \in Writers \ {w}, z \in Sessions : Committed(v, z)' <=> Committed(v, z)
    BY <1>1 DEF Committed
  <2>4. CASE UNCHANGED version
    BY <1>1, <2>1, <2>2, <2>3, <2>4 DEF IInv, Counted
  <2>5. CASE change[w].at = "committed" /\ version' = [version EXCEPT ![s] = @ + 1]
    <3>1. Committed(w, s)
      BY <2>5 DEF Committed
    <3>2. version[s] < shape[s] /\ \A v \in Writers \ {w} : ~ Committed(v, s)
      BY <3>1 DEF IInv, Counted
    <3>3. version'[s] = version[s] + 1 /\ \A z \in Sessions \ {s} : version'[z] = version[z]
      BY <2>5 DEF IInv, TypeOK
    <3>4. \A z \in Sessions : version'[z] <= shape'[z]
      BY <2>1, <3>2, <3>3
    <3>5. ASSUME NEW z \in Sessions, NEW v \in Writers, Committed(v, z)'
          PROVE  /\ version'[z] < shape'[z] /\ change'[v].transform
                 /\ \A u \in Writers : Committed(u, z)' => u = v
      <4>1. v # w /\ Committed(v, z)
        BY <2>2, <2>3, <3>5
      <4>2. z # s
        BY <3>2, <4>1
      <4> QED
        BY <1>1, <2>2, <2>3, <3>3, <4>1, <4>2 DEF IInv, Counted
    <3> QED
      BY <3>4, <3>5 DEF Counted, Committed
  <2> QED
    BY <2>4, <2>5
<1>5. TypeOK'
  <2>1. change' \in [Writers -> Changes \union {Idle}]
    BY DEF IInv, TypeOK
  <2>2. version' \in [Sessions -> 0 .. MaxShape]
    <3>1. \A z \in Sessions : version'[z] \in Nat /\ version'[z] <= shape[z] /\ shape[z] \in 0 .. MaxShape
      BY <1>4, Bounds DEF IInv, TypeOK, Counted, Shapes
    <3>2. \A z \in Sessions : version'[z] \in 0 .. MaxShape
      BY <3>1, Bounds
    <3>3. version' = [z \in Sessions |-> version'[z]]
      BY DEF IInv, TypeOK
    <3> QED
      BY <3>2, <3>3
  <2>3. known' \in [Sessions -> Shapes \union {NoShape}] /\ settled' \in [Sessions -> BOOLEAN]
    BY DEF IInv, TypeOK
  <2>4. announced' \in [Sessions -> BOOLEAN]
    BY DEF IInv, TypeOK
  <2> QED
    BY <2>1, <2>2, <2>3, <2>4 DEF words, caches, IInv, TypeOK
<1>6. Calm'
  <2>1. ASSUME NEW z \in Sessions, AtRest(z)' PROVE known'[z] = shape'[z]
    <3>1. CASE z = s
      <4>1. y = Idle
        BY <1>1, <1>2, <2>1, <3>1 DEF AtRest
      <4>2. settled'[s]
        BY <2>1, <3>1 DEF AtRest
      <4> QED
        BY <3>1, <4>1, <4>2 DEF IInv, TypeOK
    <3>2. CASE z # s
      <4>1. settled'[z] = settled[z] /\ known'[z] = known[z]
        BY <3>2 DEF IInv, TypeOK
      <4>2. AtRest(z)
        BY <1>1, <2>1, <3>2, <4>1 DEF AtRest
      <4> QED
        BY <4>1, <4>2 DEF IInv, Calm
    <3> QED
      BY <3>1, <3>2
  <2>2. ASSUME NEW v \in Writers, change'[v].at # "idle", change'[v].alone
        PROVE  /\ Alone(v)'
               /\ change'[v].at = "read" =>
                    change'[v].seen = shape'[change'[v].session]
    <3>1. CASE v = w
      <4>1. y # Idle /\ change[w].alone
        BY <1>1, <1>3, <2>2, <3>1
      <4>2. Alone(w)
        BY <4>1 DEF IInv, Calm
      <4>3. Alone(w)'
        BY <1>1, <1>2, <4>1, <4>2 DEF Alone
      <4>4. y.at = "read" => y.seen = shape[s]
        BY <4>1
      <4>5. change'[v] = y /\ y.session = s
        BY <1>1, <1>2, <3>1, <4>1
      <4> QED
        BY <3>1, <4>3, <4>4, <4>5
    <3>2. CASE v # w
      <4>1. change'[v] = change[v]
        BY <1>1, <3>2
      <4>2. /\ Alone(v)
            /\ change[v].at = "read" => change[v].seen = shape[change[v].session]
        BY <2>2, <4>1 DEF IInv, Calm
      <4>3. change[v].session # s
        BY <3>2, <4>2 DEF Alone
      <4> QED
        BY <1>1, <1>2, <1>3, <4>1, <4>2, <4>3 DEF Alone
    <3> QED
      BY <3>1, <3>2
  <2> QED
    BY <2>1, <2>2 DEF Calm, AtRest, Alone
<1>7. Stored' /\ Noted' /\ Pending'
  BY AnswersStay
<1> QED
  BY <1>4, <1>5, <1>6, <1>7 DEF IInv

LEMMA BumpStep ==
  ASSUME IInv, NEW w \in Writers,
         Bump(w) \/ RefreshRead(w) \/ RefreshWrite(w) \/ Unlist(w) \/ WriterError(w)
  PROVE  IInv'
<1> DEFINE s == change[w].session
<1>1. change[w].at # "idle"
  BY DEF Bump, RefreshRead, RefreshWrite, Unlist, WriterError
<1>2. change[w] \in Changes
  BY <1>1 DEF IInv, TypeOK, Idle
<1>3. s \in Sessions /\ shape[s] \in Shapes
  BY <1>2, Records DEF IInv, TypeOK
<1>4. CASE Bump(w)
  <2> DEFINE y == [change[w] EXCEPT !.at = "bumped"]
  <2>1. y \in Changes /\ y.at = "bumped" /\ y.session = s /\ y.alone = change[w].alone
        /\ y # Idle
    BY <1>2 DEF Changes, Idle
  <2>2. /\ change[w].at = "committed" /\ change' = [change EXCEPT ![w] = y]
        /\ version' = [version EXCEPT ![s] = @ + 1]
        /\ announced' = [announced EXCEPT ![s] = TRUE]
        /\ UNCHANGED <<shape, known, settled, words, caches, request>>
    BY <1>4 DEF Bump
  <2> HIDE DEF y, s
  <2>3. s = change[w].session
    BY DEF s
  <2> QED
    BY <1>1, <1>3, <2>1, <2>2, <2>3, WriterStep
<1>5. CASE RefreshRead(w)
  <2> DEFINE y == [change[w] EXCEPT !.at = "read", !.seen = shape[s]]
  <2>1. y \in Changes /\ y.at = "read" /\ y.session = s /\ y.alone = change[w].alone
        /\ y.seen = shape[s] /\ y # Idle
    BY <1>2, <1>3 DEF Changes, Idle
  <2>2. change' = [change EXCEPT ![w] = y] /\ UNCHANGED <<tables, words, caches, request>>
    BY <1>5 DEF RefreshRead, IInv, TypeOK
  <2> HIDE DEF y, s
  <2>3. s = change[w].session
    BY DEF s
  <2> QED
    BY <1>1, <1>3, <2>1, <2>2, <2>3, WriterStep DEF tables
<1>6. CASE RefreshWrite(w) \/ Unlist(w) \/ WriterError(w)
  <2>1. /\ change' = [change EXCEPT ![w] = Idle]
        /\ UNCHANGED <<shape, version, announced, words, caches, request>>
    BY <1>6 DEF RefreshWrite, Unlist, WriterError
  <2>2. \E b \in BOOLEAN, k \in Shapes \union {NoShape} :
          /\ settled' = [settled EXCEPT ![s] = b]
          /\ known' = [known EXCEPT ![s] = k]
          /\ b => k = shape[s]
    <3>1. CASE RefreshWrite(w)
      <4>1. change[w].at = "read" /\ change[w].alone \in BOOLEAN /\ change[w].seen \in Shapes
        BY <1>2, <3>1 DEF RefreshWrite, Changes
      <4>2. change[w].alone => change[w].seen = shape[s]
        BY <4>1 DEF IInv, Calm
      <4>3. /\ settled' = [settled EXCEPT ![s] = change[w].alone]
            /\ known' = [known EXCEPT ![s] = change[w].seen]
        BY <3>1 DEF RefreshWrite
      <4> QED
        BY <4>1, <4>2, <4>3
    <3>2. CASE Unlist(w)
      <4>1. /\ settled' = [settled EXCEPT ![s] = FALSE]
            /\ known' = [known EXCEPT ![s] = NoShape]
        BY <3>2 DEF Unlist
      <4> QED
        BY <4>1
    <3>3. CASE WriterError(w)
      <4>1. known[s] \in Shapes \union {NoShape} /\ known' = [known EXCEPT ![s] = known[s]]
        BY <1>3, <3>3 DEF WriterError, IInv, TypeOK
      <4>2. settled' = [settled EXCEPT ![s] = FALSE]
        BY <3>3 DEF WriterError
      <4> QED
        BY <4>1, <4>2
    <3> QED
      BY <1>6, <3>1, <3>2, <3>3
  <2> HIDE DEF s
  <2>3. s = change[w].session
    BY DEF s
  <2> QED
    BY <1>1, <1>3, <2>1, <2>2, <2>3, WriterStep
<1> QED
  BY <1>4, <1>5, <1>6

(* A purge: the versions of the session begin again, and every answer made *)
(* for it is an old one from now on.                                       *)
LEMMA PurgeStep ==
  ASSUME IInv, NEW w \in Writers, Purge(w), NEW s, s = change[w].session
  PROVE  IInv'
<1> DEFINE Keys == Sessions \X {"eda", "story"} \X (0 .. MaxShape)
           R(c) == IF request[c].at = "idle" THEN Idle
                   ELSE [request[c] EXCEPT !.answer = Aged(request[c].answer, s)]
<1>1. /\ change[w].at = "bumped"
      /\ known' = [known EXCEPT ![s] = NoShape]
      /\ version' = [version EXCEPT ![s] = 0]
      /\ term' = [term EXCEPT ![s] = 0]
      /\ termVersion' = [termVersion EXCEPT ![s] = 0]
      /\ told' = [told EXCEPT ![s] = TRUE]
      /\ announced' = [announced EXCEPT ![s] = TRUE]
      /\ settled' = [settled EXCEPT ![s] = FALSE]
      /\ query' = [k \in Versions |-> Aged(query[k], s)]
      /\ notes' = [k \in Keys |-> Aged(notes[k], s)]
      /\ request' = [c \in Askers |-> R(c)]
      /\ change' = [change EXCEPT ![w] = Idle]
      /\ UNCHANGED <<shape, fail>>
  BY DEF Purge
<1>2. change[w] \in Changes
  BY <1>1 DEF IInv, TypeOK, Idle
<1>3. s \in Sessions
  BY <1>2, Records
<1>4. ASSUME NEW e \in Answers \union {NoAnswer}
      PROVE  /\ Aged(e, s) \in Answers \union {NoAnswer}
             /\ e \in Answers => Aged(e, s) \in Answers /\ Aged(e, s).session = e.session
             /\ Aged(e, s) # NoAnswer =>
                  /\ e \in Answers /\ Aged(e, s).session = e.session
                  /\ e.session = s => Aged(e, s).purged
                  /\ e.session # s => Aged(e, s) = e
  <2>1. /\ Old(s) \in Answers /\ Old(s).session = s /\ Old(s).purged = TRUE
    BY <1>3, Bounds DEF Old, Answers
  <2> QED
    BY <2>1, Records DEF Aged
<1>5. ASSUME NEW c \in Askers, request[c].at # "idle"
      PROVE  /\ request[c] \in Requests /\ request[c] # Idle /\ R(c) \in Requests
             /\ R(c).answer = Aged(request[c].answer, s)
             /\ R(c).sv = request[c].sv /\ R(c).bv = request[c].bv
             /\ R(c).kind = request[c].kind
  <2>1. request[c] \in Requests
    BY <1>5 DEF IInv, TypeOK, Idle
  <2>2. Aged(request[c].answer, s) \in Answers
    BY <1>4, <2>1, Records
  <2> DEFINE a == Aged(request[c].answer, s)
  <2>3. R(c) = [request[c] EXCEPT !.answer = a]
    BY <1>5
  <2> HIDE DEF a, R
  <2> QED
    BY <2>1, <2>2, <2>3, Records DEF Requests, a
<1>6. ASSUME NEW z \in Sessions, z # s
      PROVE  /\ version'[z] = version[z] /\ termVersion'[z] = termVersion[z]
             /\ term'[z] = term[z] /\ told'[z] = told[z]
             /\ announced'[z] = announced[z] /\ shape'[z] = shape[z]
             /\ known'[z] = known[z] /\ settled'[z] = settled[z]
  BY <1>1, <1>6 DEF IInv, TypeOK
<1>7. version'[s] = 0 /\ settled'[s] = FALSE
  BY <1>1, <1>3 DEF IInv, TypeOK
<1>8. change'[w] = Idle /\ \A v \in Writers \ {w} : change'[v] = change[v]
  BY <1>1 DEF IInv, TypeOK
<1>9. Idle.at = "idle"
  BY DEF Idle
<1>10. TypeOK'
  <2>1. query' \in [Versions -> Answers \union {NoAnswer}]
    BY <1>1, <1>4 DEF IInv, TypeOK
  <2>2. notes' \in [Keys -> Answers \union {NoAnswer}]
    <3>1. \A k \in Keys : Aged(notes[k], s) \in Answers \union {NoAnswer}
      BY <1>4 DEF IInv, TypeOK
    <3> HIDE DEF Keys
    <3> QED
      BY <1>1, <3>1
  <2>3. request' \in [Askers -> Requests \union {Idle}]
    <3>1. \A c \in Askers : R(c) \in Requests \union {Idle}
      BY <1>5
    <3> HIDE DEF R
    <3> QED
      BY <1>1, <3>1
  <2>4. /\ version' \in [Sessions -> 0 .. MaxShape] /\ term' \in [Sessions -> 0 .. MaxEdits]
        /\ termVersion' \in [Sessions -> 0 .. MaxEdits]
        /\ known' \in [Sessions -> Shapes \union {NoShape}]
    BY <1>1, Bounds DEF IInv, TypeOK
  <2>5. /\ told' \in [Sessions -> BOOLEAN] /\ announced' \in [Sessions -> BOOLEAN]
        /\ settled' \in [Sessions -> BOOLEAN]
    BY <1>1 DEF IInv, TypeOK
  <2>6. change' \in [Writers -> Changes \union {Idle}]
    BY <1>1 DEF IInv, TypeOK
  <2>7. shape' \in [Sessions -> Shapes] /\ fail' \subseteq Versions
    BY <1>1 DEF IInv, TypeOK
  <2> QED
    BY <2>1, <2>2, <2>3, <2>4, <2>5, <2>6, <2>7 DEF TypeOK
<1>11. Counted'
  <2>1. \A z \in Sessions : version[z] \in Nat /\ shape[z] \in Nat
    BY Bounds DEF IInv, TypeOK, Shapes
  <2>2. \A z \in Sessions : version'[z] \in Nat /\ version'[z] <= version[z] /\ shape'[z] = shape[z]
    BY <1>1, <1>6, <1>7, <2>1
  <2>3. \A v \in Writers, z \in Sessions :
          Committed(v, z)' => Committed(v, z) /\ change'[v] = change[v]
    BY <1>8, <1>9 DEF Committed
  <2>4. ASSUME NEW z \in Sessions PROVE version'[z] <= shape'[z]
    BY <2>1, <2>2 DEF IInv, Counted
  <2>5. ASSUME NEW z \in Sessions, NEW v \in Writers, Committed(v, z)'
        PROVE  /\ version'[z] < shape'[z] /\ change'[v].transform
               /\ \A u \in Writers : Committed(u, z)' => u = v
    <3>1. /\ version[z] < shape[z] /\ change[v].transform
          /\ \A u \in Writers : Committed(u, z) => u = v
      BY <2>3, <2>5 DEF IInv, Counted
    <3> QED
      BY <2>1, <2>2, <2>3, <2>5, <3>1
  <2> QED
    BY <2>4, <2>5 DEF Counted, Committed
<1>12. Calm'
  <2>1. ASSUME NEW z \in Sessions, AtRest(z)' PROVE known'[z] = shape'[z]
    <3>1. z # s
      BY <1>7, <2>1 DEF AtRest
    <3>2. AtRest(z)
      BY <1>6, <1>8, <2>1, <3>1 DEF AtRest
    <3> QED
      BY <1>6, <3>1, <3>2 DEF IInv, Calm
  <2>2. ASSUME NEW v \in Writers, change'[v].at # "idle", change'[v].alone
        PROVE  /\ Alone(v)'
               /\ change'[v].at = "read" =>
                    change'[v].seen = shape'[change'[v].session]
    <3>1. v # w /\ change'[v] = change[v]
      BY <1>8, <1>9, <2>2
    <3>2. /\ Alone(v)
          /\ change[v].at = "read" => change[v].seen = shape[change[v].session]
      BY <2>2, <3>1 DEF IInv, Calm
    <3> QED
      BY <1>1, <1>8, <1>9, <3>1, <3>2 DEF Alone
  <2> QED
    BY <2>1, <2>2 DEF Calm, AtRest, Alone
<1>13. ASSUME NEW e \in Answers \union {NoAnswer}, NEW a, a = Aged(e, s), a # NoAnswer
       PROVE  /\ a.session = e.session /\ e # NoAnswer
              /\ \A v \in 0 .. MaxShape : Shows(e, v) => Shows(a, v)'
              /\ \A b \in 0 .. MaxEdits : Uses(e, b) => Uses(a, b)'
              /\ \A v \in 0 .. MaxShape : Ran(e, v) => Ran(a, v)'
  <2>1. /\ e \in Answers /\ e # NoAnswer /\ e.session \in Sessions
        /\ a.session = e.session
    BY <1>4, <1>13, Records
  <2>2. CASE e.session = s
    <3>1. a.purged
      BY <1>4, <1>13, <2>2
    <3> QED
      BY <2>1, <3>1 DEF Shows, Uses, Ran
  <2>3. CASE e.session # s
    <3>1. a = e
      BY <1>4, <1>13, <2>3
    <3>2. /\ version'[e.session] = version[e.session]
          /\ termVersion'[e.session] = termVersion[e.session]
          /\ term'[e.session] = term[e.session] /\ told'[e.session] = told[e.session]
          /\ announced'[e.session] = announced[e.session]
          /\ shape'[e.session] = shape[e.session]
      BY <1>6, <2>1, <2>3
    <3> QED
      BY <2>1, <3>1, <3>2 DEF Shows, Uses, Ran
  <2> QED
    BY <2>2, <2>3
<1>14. Stored'
  <2> SUFFICES ASSUME NEW v \in 0 .. MaxShape, NEW b \in 0 .. MaxEdits,
                      NEW a, a = query'[<<v, b>>], a # NoAnswer
               PROVE  Shows(a, v)' /\ Uses(a, b)' /\ Ran(a, v)'
    BY DEF Stored, Shows, Uses, Ran
  <2>1. /\ query[<<v, b>>] \in Answers \union {NoAnswer}
        /\ a = Aged(query[<<v, b>>], s)
    BY <1>1 DEF IInv, TypeOK, Versions
  <2>2. query[<<v, b>>] # NoAnswer
    BY <1>13, <2>1
  <2>3. /\ Shows(query[<<v, b>>], v) /\ Uses(query[<<v, b>>], b)
        /\ Ran(query[<<v, b>>], v)
    BY <2>2 DEF IInv, Stored
  <2> QED
    BY <1>13, <2>1, <2>3
<1>15. Noted'
  <2> SUFFICES ASSUME NEW z \in Sessions, NEW kind \in {"eda", "story"},
                      NEW v \in 0 .. MaxShape,
                      NEW a, a = notes'[<<z, kind, v>>], a # NoAnswer
               PROVE  a.session = z /\ Shows(a, v)'
    BY DEF Noted, Shows
  <2>1. /\ notes[<<z, kind, v>>] \in Answers \union {NoAnswer}
        /\ a = Aged(notes[<<z, kind, v>>], s)
    BY <1>1 DEF IInv, TypeOK
  <2>2. notes[<<z, kind, v>>] # NoAnswer
    BY <1>13, <2>1
  <2>3. notes[<<z, kind, v>>].session = z /\ Shows(notes[<<z, kind, v>>], v)
    BY <2>2 DEF IInv, Noted
  <2> QED
    BY <1>13, <2>1, <2>3
<1>16. Pending'
  <2> SUFFICES ASSUME NEW c \in Askers, request'[c] # Idle, NEW x, x = request'[c]
               PROVE  Waiting(x)'
    BY DEF Pending, Waiting
  <2>1. request[c].at # "idle" /\ x = R(c)
    BY <1>1
  <2>2. /\ request[c] \in Requests /\ request[c] # Idle /\ R(c) \in Requests
        /\ x.answer = Aged(request[c].answer, s)
        /\ x.sv = request[c].sv /\ x.bv = request[c].bv
        /\ x.kind = request[c].kind
    BY <1>5, <2>1
  <2> HIDE DEF R
  <2> DEFINE e == request[c].answer
  <2>3. /\ e \in Answers /\ request[c].sv \in 0 .. MaxShape
        /\ request[c].bv \in 0 .. MaxEdits
    BY <2>2, Records DEF Requests
  <2>4. x.answer # NoAnswer
    BY <1>4, <2>2, <2>3, Records
  <2>5. /\ Shows(e, request[c].sv)
        /\ ~ e.purged => request[c].bv <= termVersion[e.session]
        /\ request[c].kind \in {"ask", "assist", "advice"} => Uses(e, request[c].bv)
    BY <2>2 DEF IInv, Pending, Waiting
  <2>6. /\ Shows(x.answer, x.sv)'
        /\ x.kind \in {"ask", "assist", "advice"} => Uses(x.answer, x.bv)'
    BY <1>13, <2>2, <2>3, <2>4, <2>5
  <2>7. ~ x.answer.purged => x.bv <= termVersion'[x.answer.session]
    <3>1. ~ x.answer.purged => e.session # s /\ x.answer = e /\ e.session \in Sessions
      BY <1>4, <2>2, <2>3, <2>4, Records
    <3> QED
      BY <1>6, <2>2, <2>5, <3>1
  <2> QED
    BY <2>6, <2>7 DEF Waiting
<1> QED
  BY <1>10, <1>11, <1>12, <1>14, <1>15, <1>16 DEF IInv

LEMMA NextIInv == ASSUME IInv, [Next]_vars PROVE IInv'
<1>1. CASE UNCHANGED vars
  <2> USE DEF vars, tables, words, caches
  <2>1. TypeOK'
    BY <1>1 DEF IInv, TypeOK
  <2>2. Counted' /\ Calm'
    BY <1>1 DEF IInv, Counted, Committed, Calm, AtRest, Alone
  <2>3. Stored' /\ Noted' /\ Pending'
    BY <1>1 DEF IInv, Stored, Noted, Pending, Waiting, Shows, Uses, Ran
  <2> QED
    BY <2>1, <2>2, <2>3 DEF IInv
<1> QED
  BY <1>1, AskersStep, ExpireStep, InstructStep, CommitStep, BumpStep, PurgeStep
     DEF Next

LEMMA Inductive == Spec => []IInv
<1>1. Init => IInv
  BY InitIInv
<1>2. IInv /\ [Next]_vars => IInv'
  BY NextIInv
<1> QED
  BY <1>1, <1>2, PTL DEF Spec

-----------------------------------------------------------------------------

(* Everything has its type; above all the version of a session never runs  *)
(* ahead of the changes of its table.                                      *)
THEOREM AskTypeCorrect == Spec => []TypeOK
<1>1. IInv => TypeOK
  BY DEF IInv
<1> QED
  BY <1>1, Inductive, PTL

(* What a session has been given so far and can still be given.            *)
LEMMA FreshAnswers ==
  ASSUME IInv, NEW s \in Sessions, NEW e \in Fresh(s)
  PROVE  /\ e.session = s /\ ~ e.purged
         /\ Shows(e, version[s]) /\ Uses(e, termVersion[s]) /\ Ran(e, version[s])
<1>1. /\ version[s] \in 0 .. MaxShape /\ termVersion[s] \in 0 .. MaxEdits
      /\ e = query[<<version[s], termVersion[s]>>] /\ e # NoAnswer /\ e.session = s
      /\ ~ e.purged
  BY DEF IInv, TypeOK, Fresh, Live, Current
<1> QED
  BY <1>1 DEF IInv, Stored

(* For any number of sessions, requests and edits: no answer that is made  *)
(* with an older definition is given once the dictionary has been edited,  *)
(* also when the edit comes while ask_question waits for the model.        *)
THEOREM DictionaryStaysCurrent == Spec => []DictionaryIsCurrent
<1>1. ASSUME IInv PROVE DictionaryIsCurrent
  <2> SUFFICES ASSUME NEW s \in Sessions, told[s], NEW e \in Fresh(s)
               PROVE  e.term = term[s]
    BY DEF DictionaryIsCurrent
  <2>1. e.session = s /\ ~ e.purged /\ Uses(e, termVersion[s])
    BY <1>1, FreshAnswers
  <2> QED
    BY <2>1 DEF Uses
<1> QED
  BY <1>1, Inductive, PTL

(* An answer of ask_question that a session may still be given has passed  *)
(* its dry run on the table as it is, if every change has been announced.  *)
THEOREM AnswersRanOnCurrent == Spec => []RanOnCurrent
<1>1. ASSUME IInv PROVE RanOnCurrent
  <2> SUFFICES ASSUME NEW s \in Sessions, announced[s], NEW e \in Fresh(s)
               PROVE  e.ran = shape[s]
    BY DEF RanOnCurrent
  <2>1. e.session = s /\ ~ e.purged /\ Ran(e, version[s])
    BY <1>1, FreshAnswers
  <2> QED
    BY <2>1 DEF Ran
<1> QED
  BY <1>1, Inductive, PTL

(* Answers, suggestions and stories asked for at rest show the table as it *)
(* is for as long as they may be given.                                    *)
THEOREM SchemasFit == Spec => []SchemaFits
<1>1. ASSUME IInv PROVE SchemaFits
  <2> SUFFICES ASSUME NEW s \in Sessions, announced[s], NEW e, e # NoAnswer, ~ e.purged,
                      \/ e \in Fresh(s)
                      \/ \E kind \in {"eda", "story"} : e = notes[<<s, kind, version[s]>>]
               PROVE  e.schema \in {shape[s], NoShape}
    BY DEF SchemaFits, Fresh, Live
  <2>1. version[s] \in 0 .. MaxShape
    BY <1>1 DEF IInv, TypeOK
  <2>2. e.session = s /\ Shows(e, version[s])
    BY <1>1, <2>1, FreshAnswers DEF IInv, Noted
  <2> QED
    BY <2>2 DEF Shows
<1> QED
  BY <1>1, Inductive, PTL

=============================================================================
