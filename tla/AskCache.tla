------------------------------- MODULE AskCache --------------------------------
(***************************************************************************)
(* Questions to the language model and the caches of its answers:          *)
(* routers/ai.py, the loops of services/ai_service.py and the versioned    *)
(* keys of services/redis_manager.py, while the sessions' tables and       *)
(* dictionaries are changed by other requests.                             *)
(*                                                                         *)
(* A session has one table, and of a table only the SHAPE is kept: a       *)
(* number that every change of the data makes larger (a table that has     *)
(* been dropped has a shape too).  All requests ask the same question, so  *)
(* the key query:{hash}:{sv}:{bv} is the pair <<sv, bv>>; it does not name *)
(* the session.  The handlers read Redis without giving up the event loop: *)
(* what happens between two awaits (the model, the dry run) is one step,   *)
(* unless Redis fails or the process dies in its middle.                   *)
(*                                                                         *)
(* When a session is deleted or swept, purge_session removes its versions  *)
(* but none of the answers stored under them.  The versions start again    *)
(* when the owner of a swept session comes back.                           *)
(***************************************************************************)
EXTENDS Naturals, FiniteSets

CONSTANTS
  Sessions,     (* sessions                                                *)
  Askers,       (* requests to the model that may be under way             *)
  Writers,      (* requests that change tables                             *)
  Kinds,        (* what is asked: see AllKinds                             *)
  MaxAttempts,  (* MAX_ATTEMPTS                                            *)
  MaxShape,     (* bound: changes of a table                               *)
  MaxEdits,     (* bound: announced edits of a session's dictionary        *)
  MaxFailures   (* bound: failures that are stored at a time               *)

(* "ask" is cached per question, "eda" (suggest-questions) and "story"     *)
(* (narrate) per session; "assist" (fix, optimize) and "advice" (explain,  *)
(* recommend-chart, explain-chart) are not cached.                         *)
AllKinds == {"ask", "eda", "story", "assist", "advice"}

ASSUME KindAssumption == Kinds \subseteq AllKinds
ASSUME AttemptAssumption == MaxAttempts \in Nat \ {0}
ASSUME BoundAssumption == MaxShape \in Nat /\ MaxEdits \in Nat
                          /\ MaxFailures \in Nat

VARIABLES
  shape,       (* the table of a session as it is in DuckDB                *)
  known,       (* schema:{s}: the table as the cache describes it          *)
  version,     (* schema_version:{s}                                       *)
  term,        (* bizdict:{s}: the definition of the one term              *)
  termVersion, (* bizdict_version:{s}                                      *)
  query,       (* query:{hash}:{sv}:{bv}, without TTL                      *)
  fail,        (* the keys fail:{hash}:{sv}:{bv} that exist; they have a TTL *)
  notes,       (* eda:{s}:{sv} and story:{s}:{sv}                          *)
  request,     (* the requests to the model                                *)
  change,      (* the requests that change tables                          *)
  told,        (* history variable: the last edit of the dictionary has    *)
               (* been followed by its bump of bizdict_version             *)
  announced,   (* history variable: the last change of the table has been  *)
               (* followed by a bump of schema_version                     *)
  settled      (* history variable: the last refresh of schema:{s} was by  *)
               (* a change that overlapped no other and did not fail       *)

tables == <<shape, known, version, announced, settled>>
words == <<term, termVersion, told>>
caches == <<query, fail, notes>>
vars == <<tables, words, caches, request, change>>

-----------------------------------------------------------------------------

NoShape == MaxShape + 1     (* no entry in schema:{s}                       *)
Shapes == 0 .. MaxShape
NoAnswer == [session |-> "none"]

(* An answer remembers what it was made from: the schema in the prompt     *)
(* (NoShape: the session was not at rest when the request read it), the    *)
(* definition, and the shape its dry run met (NoShape: none).  When its    *)
(* session is purged all that is forgotten.                                *)
Answers == [session : Sessions, schema : Shapes \union {NoShape},
            term : 0 .. MaxEdits, ran : Shapes \union {NoShape},
            purged : BOOLEAN]

Versions == (0 .. MaxShape) \X (0 .. MaxEdits)

Idle == [at |-> "idle"]

Requests ==
  [at : {"model", "dry"}, kind : AllKinds, sv : 0 .. MaxShape,
   bv : 0 .. MaxEdits, attempt : 1 .. MaxAttempts, answer : Answers]

Changes ==
  [at : {"committed", "bumped", "read"}, session : Sessions,
   transform : BOOLEAN, alone : BOOLEAN, seen : Shapes]

Current(s) == <<version[s], termVersion[s]>>

TypeOK ==
  /\ shape \in [Sessions -> Shapes]
  /\ known \in [Sessions -> Shapes \union {NoShape}]
  /\ version \in [Sessions -> 0 .. MaxShape]
  /\ term \in [Sessions -> 0 .. MaxEdits]
  /\ termVersion \in [Sessions -> 0 .. MaxEdits]
  /\ query \in [Versions -> Answers \union {NoAnswer}]
  /\ fail \subseteq Versions
  /\ notes \in [Sessions \X {"eda", "story"} \X (0 .. MaxShape)
                  -> Answers \union {NoAnswer}]
  /\ request \in [Askers -> Requests \union {Idle}]
  /\ change \in [Writers -> Changes \union {Idle}]
  /\ told \in [Sessions -> BOOLEAN]
  /\ announced \in [Sessions -> BOOLEAN]
  /\ settled \in [Sessions -> BOOLEAN]

Init ==
  /\ shape = [s \in Sessions |-> 0]
  /\ known = [s \in Sessions |-> 0]
  /\ version = [s \in Sessions |-> 0]
  /\ term = [s \in Sessions |-> 0]
  /\ termVersion = [s \in Sessions |-> 0]
  /\ query = [k \in Versions |-> NoAnswer]
  /\ fail = {}
  /\ notes = [k \in Sessions \X {"eda", "story"} \X (0 .. MaxShape)
                |-> NoAnswer]
  /\ request = [c \in Askers |-> Idle]
  /\ change = [w \in Writers |-> Idle]
  /\ told = [s \in Sessions |-> TRUE]
  /\ announced = [s \in Sessions |-> TRUE]
  /\ settled = [s \in Sessions |-> TRUE]

-----------------------------------------------------------------------------
(* Requests to the model.                                                  *)

AtRest(s) ==
  /\ settled[s]
  /\ \A w \in Writers : change[w].at # "idle" => change[w].session # s

(* What the caches answer: a stored query or failure for a question, the   *)
(* stored list or text for the two overviews.  The rest always goes to     *)
(* the model.                                                              *)
Cached(s, kind) ==
  CASE kind = "ask" -> \/ query[Current(s)] # NoAnswer
                       \/ Current(s) \in fail
    [] kind \in {"eda", "story"} -> notes[<<s, kind, version[s]>>] # NoAnswer
    [] OTHER -> FALSE

(* (Variant: the versions of an answer are read when it is stored.)        *)
KeyWhenStored(r) == Current(r.answer.session)

(* The key an answer is stored under: the versions read with the schema.   *)
Key(r) == <<r.sv, r.bv>>

End(c) == request' = [request EXCEPT ![c] = Idle]

(* The handler: schema, dictionary and versions are read together; a hit   *)
(* ends the request here.                                                  *)
Ask(c, s, kind) ==
  /\ request[c].at = "idle"
  /\ known[s] # NoShape
  /\ ~ Cached(s, kind)
  /\ request' = [request EXCEPT ![c] =
       [at |-> "model", kind |-> kind, sv |-> version[s], bv |-> termVersion[s],
        attempt |-> 1,
        answer |-> [session |-> s,
                    schema |-> IF AtRest(s) THEN known[s] ELSE NoShape,
                    term |-> IF kind \in {"eda", "story"} THEN 0 ELSE term[s],
                    ran |-> NoShape, purged |-> FALSE]]]
  /\ UNCHANGED <<tables, words, caches, change>>

(* An LLMError ends the request: 503, 429 or 502, and 422 for what is not  *)
(* asked again; nothing is cached.                                         *)
ModelError(c) ==
  /\ request[c].at = "model"
  /\ End(c)
  /\ UNCHANGED <<tables, words, caches, change>>

(* (Variant: the loop makes one attempt too many.)                         *)
RetryOnceMore(c) ==
  IF request[c].attempt <= MaxAttempts
  THEN /\ request' = [request EXCEPT ![c].at = "model", ![c].attempt = @ + 1]
       /\ fail' = fail
  ELSE /\ End(c)
       /\ fail' = IF request[c].kind # "ask" THEN fail
                  ELSE fail \union {Key(request[c])}
       /\ Cardinality(fail') <= MaxFailures

(* The next attempt of the loop, or LLMResolveError: for a question the    *)
(* failure is stored.                                                      *)
Retry(c) ==
  IF request[c].attempt < MaxAttempts
  THEN /\ request' = [request EXCEPT ![c].at = "model", ![c].attempt = @ + 1]
       /\ fail' = fail
  ELSE /\ End(c)
       /\ fail' = IF request[c].kind # "ask" THEN fail
                  ELSE fail \union {Key(request[c])}
       /\ Cardinality(fail') <= MaxFailures

(* The model's SQL is refused by the validator, or it is no JSON object.   *)
Reject(c) ==
  /\ request[c].at = "model"
  /\ request[c].kind \in {"ask", "assist"}
  /\ Retry(c)
  /\ UNCHANGED <<tables, words, query, notes, change>>

(* The model's SQL is valid: it goes to the sandbox.                       *)
Propose(c) ==
  /\ request[c].at = "model"
  /\ request[c].kind \in {"ask", "assist"}
  /\ request' = [request EXCEPT ![c].at = "dry"]
  /\ UNCHANGED <<tables, words, caches, change>>

(* The sandbox has run the SQL on the table as it is now: the SQL is       *)
(* returned and, for a question, stored.                                   *)
DryRun(c) ==
  LET r == request[c]
  IN /\ r.at = "dry"
     /\ End(c)
     /\ query' = IF r.kind # "ask" THEN query
                 ELSE [query EXCEPT ![Key(r)] =
                        [r.answer EXCEPT !.ran = shape[r.answer.session]]]
     /\ UNCHANGED <<tables, words, fail, notes, change>>

(* The sandbox refuses the SQL.  A rewrite tries again; a question calls   *)
(* _classify_db_error, which is defined nowhere: the NameError passes      *)
(* every handler and nothing is stored.                                    *)
DryRunError(c) ==
  /\ request[c].at = "dry"
  /\ IF request[c].kind = "ask" THEN End(c) /\ fail' = fail ELSE Retry(c)
  /\ UNCHANGED <<tables, words, query, notes, change>>

(* The overviews are stored under the session and the version read; an     *)
(* advice goes straight to the client.                                     *)
Tell(c) ==
  LET r == request[c]
  IN /\ r.at = "model"
     /\ r.kind \in {"eda", "story", "advice"}
     /\ End(c)
     /\ notes' = IF r.kind = "advice" THEN notes
                 ELSE [notes EXCEPT ![<<r.answer.session, r.kind, r.sv>>] =
                         r.answer]
     /\ UNCHANGED <<tables, words, query, fail, change>>

(* The TTL of a stored failure.                                            *)
Expire(k) ==
  /\ k \in fail
  /\ fail' = fail \ {k}
  /\ UNCHANGED <<tables, words, query, notes, request, change>>

-----------------------------------------------------------------------------
(* The dictionary: read, changed, written and announced without an await.  *)

(* bizdict:{s} is written; no definition is 0.                             *)
Define(s, t) ==
  /\ t = 0 => term[s] # 0
  /\ term' = [term EXCEPT ![s] = t]

(* (Variant: an edit of the dictionary is not announced.)                  *)
InstructSilently(s, t) ==
  /\ termVersion[s] < MaxEdits
  /\ Define(s, t)
  /\ told' = [told EXCEPT ![s] = TRUE]
  /\ UNCHANGED <<termVersion, tables, caches, request, change>>

(* add_instruction and delete_instruction.                                 *)
Instruct(s, t) ==
  /\ termVersion[s] < MaxEdits
  /\ Define(s, t)
  /\ termVersion' = [termVersion EXCEPT ![s] = @ + 1]
  /\ told' = [told EXCEPT ![s] = TRUE]
  /\ UNCHANGED <<tables, caches, request, change>>

(* Redis fails, or the process dies, between the write and the bump.       *)
InstructCut(s, t) ==
  /\ Define(s, t)
  /\ told' = [told EXCEPT ![s] = FALSE]
  /\ UNCHANGED <<termVersion, tables, caches, request, change>>

-----------------------------------------------------------------------------
(* Changes of a table.                                                     *)

Others(w, s) == {v \in Writers \ {w} : change[v].at # "idle"
                                       /\ change[v].session = s}

(* A change reaches the database.  A transform, undo, redo or goto holds   *)
(* the table's lock until its bump; what uploads, materializes or deletes  *)
(* a table knows neither lock nor version.                                 *)
Commit(w, s, transform) ==
  /\ change[w].at = "idle"
  /\ shape[s] < MaxShape
  /\ transform => \A v \in Others(w, s) : change[v].transform
                                            => change[v].at # "committed"
  /\ shape' = [shape EXCEPT ![s] = @ + 1]
  /\ announced' = [announced EXCEPT ![s] = FALSE]
  /\ change' = [v \in Writers |->
       IF v = w THEN [at |-> IF transform THEN "committed" ELSE "bumped",
                      session |-> s, transform |-> transform,
                      alone |-> Others(w, s) = {}, seen |-> 0]
       ELSE IF v \in Others(w, s) THEN [change[v] EXCEPT !.alone = FALSE]
       ELSE change[v]]
  /\ UNCHANGED <<known, version, settled, words, caches, request>>

(* (Variant: the version is not raised.)                                   *)
BumpNothing(w) ==
  LET s == change[w].session
  IN /\ change[w].at = "committed"
     /\ version' = version
     /\ announced' = [announced EXCEPT ![s] = TRUE]
     /\ change' = [change EXCEPT ![w].at = "bumped"]
     /\ UNCHANGED <<shape, known, settled, words, caches, request>>

(* incr_version, still under the lock.                                     *)
Bump(w) ==
  LET s == change[w].session
  IN /\ change[w].at = "committed"
     /\ version' = [version EXCEPT ![s] = @ + 1]
     /\ announced' = [announced EXCEPT ![s] = TRUE]
     /\ change' = [change EXCEPT ![w].at = "bumped"]
     /\ UNCHANGED <<shape, known, settled, words, caches, request>>

(* refresh_table_schema_cache: the table is read by awaited statements ... *)
RefreshRead(w) ==
  /\ change[w].at = "bumped"
  /\ change' = [change EXCEPT ![w].at = "read",
                              ![w].seen = shape[change[w].session]]
  /\ UNCHANGED <<tables, words, caches, request>>

(* ... and the entry is written.                                           *)
RefreshWrite(w) ==
  LET s == change[w].session
  IN /\ change[w].at = "read"
     /\ known' = [known EXCEPT ![s] = change[w].seen]
     /\ settled' = [settled EXCEPT ![s] = change[w].alone]
     /\ change' = [change EXCEPT ![w] = Idle]
     /\ UNCHANGED <<shape, version, announced, words, caches, request>>

(* delete_table drops the table and takes its entry from the cache.        *)
Unlist(w) ==
  LET s == change[w].session
  IN /\ change[w].at = "bumped"
     /\ ~ change[w].transform
     /\ known' = [known EXCEPT ![s] = NoShape]
     /\ settled' = [settled EXCEPT ![s] = FALSE]
     /\ change' = [change EXCEPT ![w] = Idle]
     /\ UNCHANGED <<shape, version, announced, words, caches, request>>

(* purge_session, after a sweep or DELETE /sessions/{s} has dropped the    *)
(* tables: schema:{s}, bizdict:{s} and both versions go, the stored        *)
(* answers and failures stay, and so do the requests under way.            *)
Old(s) == [session |-> s, schema |-> NoShape, term |-> 0, ran |-> NoShape,
           purged |-> TRUE]

Aged(e, s) == IF e # NoAnswer /\ e.session = s THEN Old(s) ELSE e

Purge(w) ==
  LET s == change[w].session
  IN /\ change[w].at = "bumped"
     /\ ~ change[w].transform
     /\ known' = [known EXCEPT ![s] = NoShape]
     /\ version' = [version EXCEPT ![s] = 0]
     /\ term' = [term EXCEPT ![s] = 0]
     /\ termVersion' = [termVersion EXCEPT ![s] = 0]
     /\ told' = [told EXCEPT ![s] = TRUE]
     /\ announced' = [announced EXCEPT ![s] = TRUE]
     /\ settled' = [settled EXCEPT ![s] = FALSE]
     /\ query' = [k \in Versions |-> Aged(query[k], s)]
     /\ notes' = [k \in Sessions \X {"eda", "story"} \X (0 .. MaxShape)
                    |-> Aged(notes[k], s)]
     /\ request' = [c \in Askers |->
          IF request[c].at = "idle" THEN Idle
          ELSE [request[c] EXCEPT !.answer = Aged(request[c].answer, s)]]
     /\ change' = [change EXCEPT ![w] = Idle]
     /\ UNCHANGED <<shape, fail>>

(* A statement or Redis fails after the commit: the rest does not happen.  *)
WriterError(w) ==
  /\ change[w].at # "idle"
  /\ settled' = [settled EXCEPT ![change[w].session] = FALSE]
  /\ change' = [change EXCEPT ![w] = Idle]
  /\ UNCHANGED <<shape, known, version, announced, words, caches, request>>

-----------------------------------------------------------------------------

Next ==
  \/ \E c \in Askers :
       \/ \E s \in Sessions, kind \in Kinds : Ask(c, s, kind)
       \/ ModelError(c)
       \/ Reject(c)
       \/ Propose(c)
       \/ DryRun(c)
       \/ DryRunError(c)
       \/ Tell(c)
  \/ \E k \in Versions : Expire(k)
  \/ \E s \in Sessions, t \in 0 .. MaxEdits : Instruct(s, t) \/ InstructCut(s, t)
  \/ \E w \in Writers :
       \/ \E s \in Sessions, transform \in BOOLEAN : Commit(w, s, transform)
       \/ Bump(w)
       \/ RefreshRead(w)
       \/ RefreshWrite(w)
       \/ Unlist(w)
       \/ Purge(w)
       \/ WriterError(w)

Spec == Init /\ [][Next]_vars

-----------------------------------------------------------------------------

(* The stored answer that the session may still be given, and the          *)
(* overviews, as far as they were asked for since the session was purged   *)
(* last.  (What was stored before is given too when the versions come to   *)
(* the same numbers again, and nothing can be said of it.)                 *)
Live(s, E) == {e \in E : e # NoAnswer /\ e.session = s /\ ~ e.purged}

Fresh(s) == Live(s, {query[Current(s)]})

(* An answer the session may still be given was made with the definition   *)
(* the dictionary holds now, however long the model took (get_sql_cache    *)
(* under the versions that ask_question read before it called the model)   *)
(* and whatever was purged meanwhile, unless the last edit was cut off     *)
(* before its bump.                                                        *)
DictionaryIsCurrent ==
  \A s \in Sessions : told[s] => \A e \in Fresh(s) : e.term = term[s]

(* As long as every change of the table has been announced, an answer the  *)
(* session may still be given has been run on the table as it is.  Holds   *)
(* because the versions are read before the dry run, transforms raise the  *)
(* version after the data has changed, and a change that overlaps a purge  *)
(* raises the version that has started again.                              *)
RanOnCurrent ==
  \A s \in Sessions :
    announced[s] => \A e \in Fresh(s) : e.ran = shape[s]

(* An answer that was asked for while the session was at rest was made     *)
(* from the schema of the table as it is, as long as every change has been *)
(* announced: suggestions and stories too.  An answer asked for while a    *)
(* transform is between its bump and the end of its refresh is stored      *)
(* under the new version although its prompt shows the old table: that is  *)
(* why the property is restricted to calm requests.                        *)
SchemaFits ==
  \A s \in Sessions :
    LET overviews == {notes[<<s, kind, version[s]>>] : kind \in {"eda", "story"}}
    IN announced[s] => \A e \in Fresh(s) \union Live(s, overviews) :
                         e.schema \in {shape[s], NoShape}

=============================================================================
