-------------------------------- MODULE KeyPool --------------------------------
(***************************************************************************)
(* Rotation of LLM keys: services/llm_key_pool.py and its one client, the  *)
(* chain of models of AIService._call_llm (services/ai_service.py), for    *)
(* several completions at the same time.                                   *)
(*                                                                         *)
(* A completion works through a chain of models.  A model of a provider    *)
(* with a pool ("pool") makes one lap over the pool's keys, a model of     *)
(* another provider ("bare") makes one call with no key.  Only the call    *)
(* of the provider is awaited; what happens between two answers is one     *)
(* step.  The models marked "pool" share one pool: pools of different      *)
(* providers have nothing in common.  Time passes in ticks.                *)
(***************************************************************************)
EXTENDS Integers, Sequences, FiniteSets

CONSTANTS
  Callers,   (* completions that may be under way at the same time         *)
  N,         (* number of keys of the pool                                 *)
  Cap,       (* LLM_DAILY_LIMIT_PER_KEY; 0: no cap                         *)
  Delays,    (* seconds a rate-limited answer may ask for, in ticks        *)
  Chain,     (* the model and its fallbacks: "pool" or "bare"              *)
  MaxFaults  (* bound: how often Redis or the process fails                *)

ASSUME PoolAssumption == N \in Nat \ {0} /\ Cap \in Nat
ASSUME CallerAssumption == IsFiniteSet(Callers) /\ Callers # {}
ASSUME DelayAssumption == Delays \subseteq Nat
ASSUME ChainAssumption == Chain \in Seq({"pool", "bare"}) /\ Chain # <<>>
ASSUME BoundAssumption == MaxFaults \in Nat

VARIABLES
  cursor,    (* _cursor[provider]                                          *)
  cooldown,  (* what is left of the TTL of llmkey:cooldown:{keyid}         *)
  used,      (* llmkey:calls:{keyid}:{today}                               *)
  call,      (* what each completion is waiting for                        *)
  tried,     (* history variable: keys that have been benched for this     *)
             (* completion in its lap and have rested ever since           *)
  passed,    (* history variable: how often another key was handed out     *)
             (* since this one was last handed out or became available     *)
  faults     (* history variable: faults so far                            *)

pool == <<cursor, cooldown, used>>
history == <<tried, passed, faults>>
vars == <<pool, call, history>>

-----------------------------------------------------------------------------

Keys == 0 .. N - 1

(* last is last_err: "none", LLMRateLimitError or LLMAPIError.  When the   *)
(* completion is over it is what it raised: "none" if it was answered,     *)
(* "escaped" for a _RateLimitSignal that nothing has caught.               *)
Outcomes == {"none", "limited", "api", "escaped"}
Calls == [at : {"idle", "pool", "bare"}, model : 0 .. Len(Chain),
          key : Keys, attempts : 0 .. N, last : Outcomes]

Over(last) ==
  [at |-> "idle", model |-> 0, key |-> 0, attempts |-> 0, last |-> last]

TypeOK ==
  /\ cursor \in Keys
  /\ cooldown \in [Keys -> Nat]
  /\ used \in [Keys -> Nat]
  /\ call \in [Callers -> Calls]
  /\ tried \in [Callers -> SUBSET Keys]
  /\ passed \in [Keys -> Nat]
  /\ faults \in 0 .. MaxFaults

Init ==
  /\ cursor = 0
  /\ cooldown = [k \in Keys |-> 0]
  /\ used = [k \in Keys |-> 0]
  /\ call = [c \in Callers |-> Over("none")]
  /\ tried = [c \in Callers |-> {}]
  /\ passed = [k \in Keys |-> 0]
  /\ faults = 0

-----------------------------------------------------------------------------

(* (Variant: the cap allows one call too many.)                            *)
FreeUpToCap(resting, spent) ==
  {k \in Keys : resting[k] = 0 /\ (Cap > 0 => spent[k] <= Cap)}

(* The keys that are neither cooling down nor over the daily cap.          *)
Free(resting, spent) ==
  {k \in Keys : resting[k] = 0 /\ (Cap > 0 => spent[k] < Cap)}

(* How many keys acquire looks at before k when it starts at i.            *)
Dist(i, k) == IF i <= k THEN k - i ELSE k - i + N

(* (Variant: the cursor does not wrap.)                                    *)
AfterLast(k) == k + 1

After(k) == IF k = N - 1 THEN 0 ELSE k + 1

Passing(handed) ==
  LET waiting == Free(cooldown', used') \ handed
  IN passed' = [k \in Keys |->
                  IF k \notin waiting THEN 0
                  ELSE IF handed = {} THEN passed[k] ELSE passed[k] + 1]

(* (Variant: the attempts of a lap are not counted.)                       *)
HandOutUncounted(c, m, n, last) ==
  \E k \in Free(cooldown', used') :
    /\ \A j \in Free(cooldown', used') : Dist(cursor, k) <= Dist(cursor, j)
    /\ cursor' = After(k)
    /\ call' = [call EXCEPT ![c] =
         [at |-> "pool", model |-> m, key |-> k, attempts |-> 1,
          last |-> last]]
    /\ Passing({k})

(* (Variant: the search starts at the first key, not at the cursor.)       *)
HandOutFirst(c, m, n, last) ==
  \E k \in Free(cooldown', used') :
    /\ \A j \in Free(cooldown', used') : k <= j
    /\ cursor' = After(k)
    /\ call' = [call EXCEPT ![c] =
         [at |-> "pool", model |-> m, key |-> k, attempts |-> n,
          last |-> last]]
    /\ Passing({k})

(* The key is the first free one, counted from the cursor.                 *)
HandOut(c, m, n, last) ==
  LET free == Free(cooldown', used')
  IN \E k \in free :
       /\ \A j \in free : Dist(cursor, k) <= Dist(cursor, j)
       /\ cursor' = After(k)
       /\ call' = [call EXCEPT ![c] =
            [at |-> "pool", model |-> m, key |-> k, attempts |-> n,
             last |-> last]]
       /\ Passing({k})

End(c, last) ==
  /\ call' = [call EXCEPT ![c] = Over(last)]
  /\ Passing({})
  /\ UNCHANGED cursor

(* The completion goes on with model i.  A model whose keys are all spent  *)
(* raises LLMRateLimitError at once, and the next one has its turn.        *)
MoveOn(c, i, last) ==
  LET turns == {j \in i .. Len(Chain) :
                  Chain[j] = "bare" \/ Free(cooldown', used') # {}}
      Error(j) == IF i < j THEN "limited" ELSE last
  IN /\ tried' = [tried EXCEPT ![c] = {}]
     /\ \/ turns = {} /\ End(c, Error(Len(Chain) + 1))
        \/ \E j \in turns :
             /\ \A l \in turns : j <= l
             /\ \/ Chain[j] = "pool" /\ HandOut(c, j, 1, Error(j))
                \/ /\ Chain[j] = "bare"
                   /\ call' = [call EXCEPT ![c] =
                        [at |-> "bare", model |-> j, key |-> 0,
                         attempts |-> 1, last |-> Error(j)]]
                   /\ Passing({})
                   /\ UNCHANGED cursor

Ask(c) ==
  /\ call[c].at = "idle"
  /\ UNCHANGED <<cooldown, used, faults>>
  /\ MoveOn(c, 1, "none")

(* record_success may fail, and then the call is not counted.              *)
CountCall(k) ==
  \/ used' = [used EXCEPT ![k] = @ + 1] /\ UNCHANGED faults
  \/ faults < MaxFaults /\ faults' = faults + 1 /\ UNCHANGED used

Answer(c) ==
  /\ \/ call[c].at = "pool" /\ CountCall(call[c].key)
     \/ call[c].at = "bare" /\ UNCHANGED <<used, faults>>
  /\ UNCHANGED cooldown
  /\ tried' = [tried EXCEPT ![c] = {}]
  /\ End(c, "none")

(* An error that is no rate limit ends the lap; no key is benched.         *)
APIError(c) ==
  /\ call[c].at \in {"pool", "bare"}
  /\ UNCHANGED <<cooldown, used, faults>>
  /\ MoveOn(c, call[c].model + 1, "api")

(* (Variant: a retryDelay of 0 seconds is taken as it is.)                 *)
BenchAsAsked(k, d) == cooldown' = [cooldown EXCEPT ![k] = d]

(* SETEX replaces what was left of an earlier cooldown, a longer one too.  *)
Bench(k, d) ==
  cooldown' = [cooldown EXCEPT ![k] = IF d = 0 THEN 1 ELSE d]

(* (Variant: the lap is one key short.)                                    *)
RotateShort(c, benched) ==
  IF call[c].attempts + 1 < N /\ Free(cooldown', used') # {}
  THEN /\ tried' = [tried EXCEPT ![c] = @ \union benched]
       /\ HandOut(c, call[c].model, call[c].attempts + 1, call[c].last)
  ELSE MoveOn(c, call[c].model + 1, "limited")

(* The next key of the lap, if there is one, or the next model.            *)
Rotate(c, benched) ==
  IF call[c].attempts < N /\ Free(cooldown', used') # {}
  THEN /\ tried' = [tried EXCEPT ![c] = @ \union benched]
       /\ HandOut(c, call[c].model, call[c].attempts + 1, call[c].last)
  ELSE MoveOn(c, call[c].model + 1, "limited")

RateLimited(c) ==
  /\ call[c].at = "pool"
  /\ UNCHANGED used
  /\ \/ /\ \E d \in Delays : Bench(call[c].key, d)
        /\ UNCHANGED faults
        /\ Rotate(c, {call[c].key})
     \/ /\ faults < MaxFaults              (* the bench is not written     *)
        /\ faults' = faults + 1
        /\ UNCHANGED cooldown
        /\ Rotate(c, {})

(* Without a pool nothing turns the signal into an error of the chain.     *)
BareRateLimited(c) ==
  /\ call[c].at = "bare"
  /\ UNCHANGED <<cooldown, used, faults, tried>>
  /\ End(c, "escaped")

Tick ==
  LET rested == {k \in Keys : cooldown[k] = 1}
  IN /\ \E k \in Keys : cooldown[k] > 0
     /\ cooldown' = [k \in Keys |->
                       IF cooldown[k] = 0 THEN 0 ELSE cooldown[k] - 1]
     /\ tried' = [c \in Callers |-> tried[c] \ rested]
     /\ UNCHANGED <<cursor, used, call, faults>>
     /\ Passing({})

(* The counters are kept by day.                                           *)
Midnight ==
  /\ \E k \in Keys : used[k] > 0
  /\ used' = [k \in Keys |-> 0]
  /\ UNCHANGED <<cursor, cooldown, call, tried, faults>>
  /\ Passing({})

(* The process dies and starts again; Redis keeps its keys.                *)
Restart ==
  /\ faults < MaxFaults
  /\ faults' = faults + 1
  /\ cursor' = 0
  /\ call' = [c \in Callers |-> Over("none")]
  /\ tried' = [c \in Callers |-> {}]
  /\ passed' = [k \in Keys |-> 0]
  /\ UNCHANGED <<cooldown, used>>

Proceed(c) == Answer(c) \/ APIError(c) \/ RateLimited(c) \/ BareRateLimited(c)

Next ==
  \/ \E c \in Callers : Ask(c) \/ Proceed(c)
  \/ Tick
  \/ Midnight
  \/ Restart

Spec == Init /\ [][Next]_vars

-----------------------------------------------------------------------------

(* The daily cap is checked when a key is handed out and counted when the  *)
(* answer is there: calls that overlap can exceed it, by one less than     *)
(* there are callers.                                                      *)
CapOvershoot ==
  Cap > 0 => \A k \in Keys :
    used[k] + Cardinality({c \in Callers : /\ call[c].at = "pool"
                                           /\ call[c].key = k})
      <= Cap + Cardinality(Callers) - 1

(* A lap never calls with a key that was rate-limited earlier in it and    *)
(* has been resting since, whatever other completions do to the cursor     *)
(* and to the cooldowns in between.                                        *)
NoKeyTwice ==
  \A c \in Callers :
    call[c].at = "pool" => /\ call[c].key \notin tried[c]
                           /\ \A k \in tried[c] : cooldown[k] > 0

(* A free key is handed out at the latest when every other key has been:   *)
(* the cursor never leaves it behind.                                      *)
NoKeyStarves ==
  \A k \in Free(cooldown, used) : passed[k] < N

(* "Only when every key is spent is LLMRateLimitError raised": a model     *)
(* gives up for want of keys only when none is free, unless a key that was *)
(* benched in its lap did not rest until the end of it.                    *)
GivesUp(c) ==
  /\ call'[c].last = "limited"
  /\ \/ call'[c].at # call[c].at
     \/ call'[c].model # call[c].model

SpentMeansSpent ==
  [][\A c \in Callers :
       GivesUp(c) => \/ Free(cooldown', used') = {}
                     \/ Cardinality(tried[c]) < call[c].attempts - 1
                     \/ faults' # faults]_vars

(* A completion ends, although keys come back while it runs: every answer  *)
(* that does not end it takes it to a further attempt of its lap, and a    *)
(* lap has N of them, or to a further model of the chain.                  *)
Later(new, old) ==
  \/ new.model > old.model
  \/ new.model = old.model /\ new.attempts > old.attempts

GoesForward ==
  [][\A c \in Callers :
       \/ call'[c] = call[c]
       \/ call[c].at = "idle"
       \/ call'[c].at = "idle"
       \/ Later(call'[c], call[c])]_vars

=============================================================================
