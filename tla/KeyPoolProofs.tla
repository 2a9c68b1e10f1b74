----------------------------- MODULE KeyPoolProofs -----------------------------
(***************************************************************************)
(* Proofs about KeyPool, for any number of completions and keys, any chain *)
(* of models, any cap and any delays.                                      *)
(***************************************************************************)
EXTENDS KeyPool, FiniteSetTheorems, TLAPS

(* A key has been passed over no more often than it is far from the end of *)
(* a round that began at the cursor; the count runs for free keys only.    *)
Near ==
  \A k \in Keys : /\ passed[k] + Dist(cursor, k) <= N - 1
                  /\ k \notin Free(cooldown, used) => passed[k] = 0

Errors == {"none", "limited", "api"}

Sound(r) ==
  r.at # "idle" => r.model >= 1 /\ r.attempts >= 1 /\ r.last \in Errors

Running == \A c \in Callers : Sound(call[c])

IInv == TypeOK /\ Running /\ Near /\ CapOvershoot /\ NoKeyTwice

(* The two ways in which a completion goes on: it gets a key, or it does   *)
(* not.                                                                    *)
Handed(c, k) ==
  /\ k \in Free(cooldown', used')
  /\ \A j \in Free(cooldown', used') : Dist(cursor, k) <= Dist(cursor, j)
  /\ cursor' = After(k)
  /\ \E r \in Calls : /\ Sound(r) /\ r.at = "pool" /\ r.key = k
                      /\ call' = [call EXCEPT ![c] = r]
  /\ Passing({k})

NotHanded(c) ==
  /\ \E r \in Calls : Sound(r) /\ r.at # "pool" /\ call' = [call EXCEPT ![c] = r]
  /\ Passing({})
  /\ cursor' = cursor

GoesOn(c) == NotHanded(c) \/ \E k \in Keys : Handed(c, k)

-----------------------------------------------------------------------------

LEMMA Arithmetic ==
  /\ N \in Nat /\ N >= 1 /\ 0 \in Keys
  /\ Len(Chain) \in Nat /\ Len(Chain) >= 1
  /\ \A k \in Keys : k \in Nat /\ k < N /\ After(k) \in Keys
  /\ \A i, k \in Keys : Dist(i, k) \in Nat /\ Dist(i, k) <= N - 1
BY PoolAssumption, ChainAssumption DEF Keys, After, Dist

LEMMA SomeCaller == Cardinality(Callers) \in Nat /\ Cardinality(Callers) >= 1
<1>1. Cardinality(Callers) \in Nat /\ (Cardinality(Callers) = 0 <=> Callers = {})
  BY CallerAssumption, FS_EmptySet, FS_CardinalityType
<1> QED
  BY <1>1, CallerAssumption

LEMMA OverIsCall == \A last \in Outcomes : Over(last) \in Calls /\ Over(last).at = "idle"
<1> SUFFICES ASSUME NEW last \in Outcomes
             PROVE  Over(last) \in Calls /\ Over(last).at = "idle"
  OBVIOUS
<1>1. 0 \in 0 .. N /\ 0 \in 0 .. Len(Chain) /\ 0 \in Keys
  BY Arithmetic
<1> QED
  BY <1>1 DEF Over, Calls

LEMMA HandOutShape ==
  ASSUME TypeOK, NEW c \in Callers, NEW m \in 1 .. Len(Chain), NEW n \in 1 .. N,
         NEW last \in Errors, HandOut(c, m, n, last)
  PROVE  /\ \E k \in Keys : Handed(c, k)
         /\ call'[c].at = "pool" /\ call'[c].model = m
         /\ call'[c].attempts = n /\ call'[c].last = last
<1>1. PICK k \in Free(cooldown', used') :
        /\ \A j \in Free(cooldown', used') : Dist(cursor, k) <= Dist(cursor, j)
        /\ cursor' = After(k)
        /\ call' = [call EXCEPT ![c] =
             [at |-> "pool", model |-> m, key |-> k, attempts |-> n,
              last |-> last]]
        /\ Passing({k})
  BY DEF HandOut
<1>2. k \in Keys
  BY DEF Free
<1> DEFINE r == [at |-> "pool", model |-> m, key |-> k, attempts |-> n,
                 last |-> last]
<1>3. r \in Calls /\ r.at = "pool" /\ r.key = k /\ Sound(r)
  BY <1>2, Arithmetic DEF Calls, Outcomes, Errors, Sound
<1>4. Handed(c, k)
  BY <1>1, <1>3 DEF Handed
<1>5. call'[c] = r
  BY <1>1 DEF TypeOK
<1> QED
  BY <1>2, <1>4, <1>5

LEMMA EndShape ==
  ASSUME TypeOK, NEW c \in Callers, NEW last \in Outcomes, End(c, last)
  PROVE  NotHanded(c) /\ call'[c].at = "idle" /\ call'[c].last = last
<1>1. call' = [call EXCEPT ![c] = Over(last)] /\ call'[c] = Over(last)
  BY DEF End, TypeOK
<1>2. Over(last) \in Calls /\ Over(last).at = "idle" /\ Over(last).last = last
  BY OverIsCall DEF Over
<1>3. Sound(Over(last))
  BY <1>2 DEF Sound
<1>4. Passing({}) /\ cursor' = cursor
  BY DEF End
<1>5. NotHanded(c)
  BY <1>1, <1>2, <1>3, <1>4 DEF NotHanded
<1> QED
  BY <1>1, <1>2, <1>5

(* What MoveOn does with the completion that makes it.                     *)
LEMMA MoveOnShape ==
  ASSUME TypeOK, NEW c \in Callers, NEW i \in Nat, i >= 1, NEW last \in Errors,
         MoveOn(c, i, last)
  PROVE  /\ GoesOn(c)
         /\ tried' = [tried EXCEPT ![c] = {}]
         /\ call'[c].at = "idle" \/ call'[c].model >= i
         /\ call'[c].last = last \/ Free(cooldown', used') = {}
<1> DEFINE turns == {j \in i .. Len(Chain) :
                       Chain[j] = "bare" \/ Free(cooldown', used') # {}}
           Error(j) == IF i < j THEN "limited" ELSE last
<1>1. tried' = [tried EXCEPT ![c] = {}]
  BY DEF MoveOn
<1>2. \A j : Error(j) \in Errors /\ Error(j) \in Outcomes
  BY DEF Errors, Outcomes
<1>3. \A j \in turns : j \in 1 .. Len(Chain) /\ j >= i
  BY Arithmetic
<1>4. CASE turns = {} /\ End(c, Error(Len(Chain) + 1))
  <2>1. NotHanded(c) /\ call'[c].at = "idle"
             /\ call'[c].last = Error(Len(Chain) + 1)
    BY <1>2, <1>4, EndShape
  <2>2. CASE i < Len(Chain) + 1
    <3>1. i \in i .. Len(Chain)
      BY <2>2, Arithmetic
    <3> QED
      BY <3>1, <1>1, <1>4, <2>1 DEF GoesOn
  <2>3. CASE ~ (i < Len(Chain) + 1)
    BY <2>3, <1>1, <2>1 DEF GoesOn
  <2> QED
    BY <2>2, <2>3
<1>5. ASSUME NEW j \in turns, \A l \in turns : j <= l,
             \/ Chain[j] = "pool" /\ HandOut(c, j, 1, Error(j))
             \/ /\ Chain[j] = "bare"
                /\ call' = [call EXCEPT ![c] =
                     [at |-> "bare", model |-> j, key |-> 0,
                      attempts |-> 1, last |-> Error(j)]]
                /\ Passing({})
                /\ UNCHANGED cursor
      PROVE  /\ GoesOn(c)
             /\ call'[c].model >= i
             /\ call'[c].last = Error(j)
  <2>1. j \in 1 .. Len(Chain) /\ j >= i /\ 1 \in 1 .. N
    BY <1>3, Arithmetic
  <2>2. CASE HandOut(c, j, 1, Error(j))
    BY <2>1, <2>2, <1>2, HandOutShape DEF GoesOn
  <2>3. CASE /\ call' = [call EXCEPT ![c] =
                  [at |-> "bare", model |-> j, key |-> 0,
                   attempts |-> 1, last |-> Error(j)]]
             /\ Passing({})
             /\ UNCHANGED cursor
    <3> DEFINE r == [at |-> "bare", model |-> j, key |-> 0,
                     attempts |-> 1, last |-> Error(j)]
    <3>0. 0 \in Keys /\ 1 \in 0 .. N /\ j \in 0 .. Len(Chain) /\ j >= 1
      BY <2>1, Arithmetic
    <3> HIDE DEF Error
    <3>5. Error(j) \in Outcomes /\ Error(j) \in Errors
      BY <1>2
    <3>1. r \in Calls /\ r.at # "pool" /\ r.model = j /\ r.last = Error(j)
      BY <3>0, <3>5 DEF Calls
    <3>4. Sound(r)
      BY <3>0, <3>5 DEF Sound
    <3>2. call'[c] = r
      BY <2>3 DEF TypeOK
    <3>3. NotHanded(c)
      BY <2>3, <3>1, <3>4 DEF NotHanded
    <3> QED
      BY <2>1, <3>1, <3>2, <3>3 DEF GoesOn
  <2> QED
    BY <1>5, <2>2, <2>3
<1>6. ASSUME NEW j \in turns, \A l \in turns : j <= l, i < j
      PROVE  Free(cooldown', used') = {}
  <2>1. i \in i .. Len(Chain) /\ i \notin turns
    BY <1>6, <1>3, Arithmetic
  <2> QED
    BY <2>1
<1>7. \/ turns = {} /\ End(c, Error(Len(Chain) + 1))
      \/ \E j \in turns :
           /\ \A l \in turns : j <= l
           /\ \/ Chain[j] = "pool" /\ HandOut(c, j, 1, Error(j))
              \/ /\ Chain[j] = "bare"
                 /\ call' = [call EXCEPT ![c] =
                      [at |-> "bare", model |-> j, key |-> 0,
                       attempts |-> 1, last |-> Error(j)]]
                 /\ Passing({})
                 /\ UNCHANGED cursor
  BY DEF MoveOn
<1>8. CASE \E j \in turns :
             /\ \A l \in turns : j <= l
             /\ \/ Chain[j] = "pool" /\ HandOut(c, j, 1, Error(j))
                \/ /\ Chain[j] = "bare"
                   /\ call' = [call EXCEPT ![c] =
                        [at |-> "bare", model |-> j, key |-> 0,
                         attempts |-> 1, last |-> Error(j)]]
                   /\ Passing({})
                   /\ UNCHANGED cursor
  <2>1. PICK j \in turns :
          /\ \A l \in turns : j <= l
          /\ \/ Chain[j] = "pool" /\ HandOut(c, j, 1, Error(j))
             \/ /\ Chain[j] = "bare"
                /\ call' = [call EXCEPT ![c] =
                     [at |-> "bare", model |-> j, key |-> 0,
                      attempts |-> 1, last |-> Error(j)]]
                /\ Passing({})
                /\ UNCHANGED cursor
    BY <1>8
  <2>2. GoesOn(c) /\ call'[c].model >= i /\ call'[c].last = Error(j)
    BY <2>1, <1>5
  <2>3. CASE i < j
    BY <2>1, <2>2, <2>3, <1>1, <1>6
  <2>4. CASE ~ (i < j)
    BY <2>2, <2>4, <1>1
  <2> QED
    BY <2>3, <2>4
<1> QED
  BY <1>4, <1>7, <1>8

(* What an answer or a new question does to the completion it is for.      *)
LEMMA RotateShape ==
  ASSUME TypeOK, Running, NEW c \in Callers, call[c].at = "pool",
         NEW benched \in SUBSET Keys, Rotate(c, benched)
  PROVE  /\ GoesOn(c)
         /\ \/ tried' = [tried EXCEPT ![c] = {}]
            \/ tried' = [tried EXCEPT ![c] = @ \union benched]
         /\ call'[c].at = "idle" \/ Later(call'[c], call[c])
<1>1. /\ call[c].model \in 1 .. Len(Chain) /\ call[c].attempts \in 1 .. N
      /\ call[c].last \in Errors
  <2>1. call[c] \in Calls /\ Sound(call[c])
    BY DEF TypeOK, Running
  <2>2. /\ call[c].model \in 0 .. Len(Chain) /\ call[c].attempts \in 0 .. N
    BY <2>1 DEF Calls
  <2>3. call[c].model >= 1 /\ call[c].attempts >= 1 /\ call[c].last \in Errors
    BY <2>1 DEF Sound
  <2> QED
    BY <2>2, <2>3, Arithmetic
<1>2. CASE call[c].attempts < N /\ Free(cooldown', used') # {}
  <2>1. /\ tried' = [tried EXCEPT ![c] = @ \union benched]
        /\ HandOut(c, call[c].model, call[c].attempts + 1, call[c].last)
    BY <1>2 DEF Rotate
  <2>2. call[c].attempts + 1 \in 1 .. N
    BY <1>1, <1>2, Arithmetic
  <2>3. /\ \E k \in Keys : Handed(c, k)
        /\ call'[c].model = call[c].model
        /\ call'[c].attempts = call[c].attempts + 1
    BY <1>1, <2>1, <2>2, HandOutShape
  <2>4. call'[c].attempts > call[c].attempts
    BY <2>3, <1>1
  <2> QED
    BY <2>1, <2>3, <2>4 DEF GoesOn, Later
<1>3. CASE ~ (call[c].attempts < N /\ Free(cooldown', used') # {})
  <2>1. MoveOn(c, call[c].model + 1, "limited")
    BY <1>3 DEF Rotate
  <2>2. call[c].model + 1 \in Nat /\ call[c].model + 1 >= 1
    BY <1>1, Arithmetic
  <2>3. /\ GoesOn(c)
        /\ tried' = [tried EXCEPT ![c] = {}]
        /\ call'[c].at = "idle" \/ call'[c].model >= call[c].model + 1
    BY <2>1, <2>2, MoveOnShape DEF Errors
  <2>4. call' \in [Callers -> Calls]
    BY <2>3 DEF GoesOn, NotHanded, Handed, TypeOK
  <2>5. call'[c].model \in Nat
    BY <2>4, Arithmetic DEF Calls
  <2>6. call'[c].model >= call[c].model + 1 => call'[c].model > call[c].model
    BY <2>5, <1>1, Arithmetic
  <2> QED
    BY <2>3, <2>6 DEF Later
<1> QED
  BY <1>2, <1>3

(* The steps of a completion, by what they do to the pool.                 *)
Counts(c) ==
  /\ call[c].at = "pool"
  /\ used' = [used EXCEPT ![call[c].key] = @ + 1]
  /\ cooldown' = cooldown
  /\ tried' = [tried EXCEPT ![c] = {}]
  /\ NotHanded(c)

Leaves(c) ==
  /\ used' = used /\ cooldown' = cooldown
  /\ \/ tried' = [tried EXCEPT ![c] = {}]
     \/ tried' = tried /\ (call[c].at = "pool" \/ call'[c].at = "idle")
  /\ GoesOn(c)

Benches(c) ==
  /\ call[c].at = "pool"
  /\ used' = used
  /\ \E d \in Nat \ {0} : cooldown' = [cooldown EXCEPT ![call[c].key] = d]
  /\ \/ tried' = [tried EXCEPT ![c] = {}]
     \/ tried' = [tried EXCEPT ![c] = @ \union {call[c].key}]
  /\ GoesOn(c)

LEMMA CallerStep ==
  ASSUME TypeOK, Running, NEW c \in Callers, Ask(c) \/ Proceed(c)
  PROVE  /\ Counts(c) \/ Leaves(c) \/ Benches(c)
         /\ faults' \in 0 .. MaxFaults
         /\ \/ call[c].at = "idle"
            \/ call'[c].at = "idle"
            \/ Later(call'[c], call[c])
<1>0. faults \in 0 .. MaxFaults /\ call[c] \in Calls /\ MaxFaults \in Nat
  BY BoundAssumption DEF TypeOK
<1>1. CASE Ask(c)
  <2>1. /\ call[c].at = "idle" /\ used' = used /\ cooldown' = cooldown
        /\ faults' = faults /\ MoveOn(c, 1, "none")
    BY <1>1 DEF Ask
  <2>2. GoesOn(c) /\ tried' = [tried EXCEPT ![c] = {}]
    BY <2>1, MoveOnShape DEF Errors
  <2> QED
    BY <1>0, <2>1, <2>2 DEF Leaves
<1>2. CASE Answer(c)
  <2>1. /\ cooldown' = cooldown /\ tried' = [tried EXCEPT ![c] = {}]
        /\ End(c, "none")
        /\ \/ call[c].at = "pool" /\ CountCall(call[c].key)
           \/ call[c].at = "bare" /\ UNCHANGED <<used, faults>>
    BY <1>2 DEF Answer
  <2>2. NotHanded(c) /\ call'[c].at = "idle"
    BY <2>1, EndShape DEF Outcomes
  <2>3. CASE call[c].at = "pool" /\ CountCall(call[c].key)
    <3>1. CASE used' = [used EXCEPT ![call[c].key] = @ + 1] /\ UNCHANGED faults
      BY <1>0, <2>1, <2>2, <2>3, <3>1 DEF Counts
    <3>2. CASE faults < MaxFaults /\ faults' = faults + 1 /\ UNCHANGED used
      <4>1. faults' \in 0 .. MaxFaults
        BY <1>0, <3>2
      <4> QED
        BY <4>1, <2>1, <2>2, <3>2 DEF Leaves, GoesOn
    <3> QED
      BY <2>3, <3>1, <3>2 DEF CountCall
  <2>4. CASE call[c].at = "bare" /\ UNCHANGED <<used, faults>>
    BY <1>0, <2>1, <2>2, <2>4 DEF Leaves, GoesOn
  <2> QED
    BY <2>1, <2>3, <2>4
<1>3. CASE APIError(c)
  <2>1. /\ call[c].at # "idle" /\ used' = used /\ cooldown' = cooldown
        /\ faults' = faults /\ MoveOn(c, call[c].model + 1, "api")
    BY <1>3 DEF APIError
  <2>2. call[c].model \in Nat
    BY <1>0, Arithmetic DEF Calls
  <2>3. call[c].model + 1 \in Nat /\ call[c].model + 1 >= 1
    BY <2>2
  <2>4. /\ GoesOn(c) /\ tried' = [tried EXCEPT ![c] = {}]
        /\ call'[c].at = "idle" \/ call'[c].model >= call[c].model + 1
    BY <2>1, <2>3, MoveOnShape DEF Errors
  <2>5. call' \in [Callers -> Calls]
    BY <2>4 DEF GoesOn, NotHanded, Handed, TypeOK
  <2>6. call'[c].model \in Nat
    BY <2>5, Arithmetic DEF Calls
  <2>7. call'[c].model >= call[c].model + 1 => call'[c].model > call[c].model
    BY <2>2, <2>6
  <2> QED
    BY <1>0, <2>1, <2>4, <2>7 DEF Leaves, Later
<1>4. CASE RateLimited(c)
  <2>0. call[c].at = "pool" /\ used' = used /\ call[c].key \in Keys
    BY <1>0, <1>4 DEF RateLimited, Calls
  <2>1. CASE /\ \E d \in Delays : Bench(call[c].key, d)
             /\ UNCHANGED faults
             /\ Rotate(c, {call[c].key})
    <3>1. PICK d \in Delays : Bench(call[c].key, d)
      BY <2>1
    <3>2. \E e \in Nat \ {0} : cooldown' = [cooldown EXCEPT ![call[c].key] = e]
      <4>1. (IF d = 0 THEN 1 ELSE d) \in Nat \ {0}
        BY DelayAssumption
      <4> QED
        BY <3>1, <4>1 DEF Bench
    <3>3. /\ GoesOn(c)
          /\ \/ tried' = [tried EXCEPT ![c] = {}]
             \/ tried' = [tried EXCEPT ![c] = @ \union {call[c].key}]
          /\ call'[c].at = "idle" \/ Later(call'[c], call[c])
      BY <2>0, <2>1, RotateShape
    <3> QED
      BY <1>0, <2>0, <2>1, <3>2, <3>3 DEF Benches
  <2>2. CASE /\ faults < MaxFaults
             /\ faults' = faults + 1
             /\ UNCHANGED cooldown
             /\ Rotate(c, {})
    <3>1. faults' \in 0 .. MaxFaults
      BY <1>0, <2>2
    <3>2. /\ GoesOn(c)
          /\ \/ tried' = [tried EXCEPT ![c] = {}]
             \/ tried' = [tried EXCEPT ![c] = @ \union {}]
          /\ call'[c].at = "idle" \/ Later(call'[c], call[c])
      BY <2>0, <2>2, RotateShape
    <3>3. [tried EXCEPT ![c] = @ \union {}] = tried
      BY DEF TypeOK
    <3> QED
      BY <2>0, <2>2, <3>1, <3>2, <3>3 DEF Leaves
  <2> QED
    BY <1>4, <2>1, <2>2 DEF RateLimited
<1>5. CASE BareRateLimited(c)
  <2>1. /\ cooldown' = cooldown /\ used' = used /\ faults' = faults
        /\ tried' = tried /\ End(c, "escaped")
    BY <1>5 DEF BareRateLimited
  <2>2. NotHanded(c) /\ call'[c].at = "idle"
    BY <2>1, EndShape DEF Outcomes
  <2> QED
    BY <1>0, <2>1, <2>2 DEF Leaves, GoesOn
<1> QED
  BY <1>1, <1>2, <1>3, <1>4, <1>5 DEF Proceed

-----------------------------------------------------------------------------
(* The conjuncts of the invariant.                                         *)

LEMMA InitIInv == Init => IInv
<1> SUFFICES ASSUME Init
             PROVE  IInv
  OBVIOUS
<1>1. Over("none") \in Calls /\ Over("none").at = "idle"
  BY OverIsCall DEF Outcomes
<1>2. TypeOK
  BY <1>1, Arithmetic, BoundAssumption DEF Init, TypeOK
<1>3. Running
  BY <1>1 DEF Init, Running, Sound
<1>4. Near
  BY Arithmetic DEF Init, Near
<1>5. CapOvershoot
  <2> SUFFICES ASSUME Cap > 0, NEW k \in Keys
               PROVE  used[k] + Cardinality({c \in Callers : /\ call[c].at = "pool"
                                                              /\ call[c].key = k})
                        <= Cap + Cardinality(Callers) - 1
    BY DEF CapOvershoot
  <2>1. {c \in Callers : call[c].at = "pool" /\ call[c].key = k} = {}
    BY <1>1 DEF Init
  <2>2. Cardinality({}) = 0
    BY FS_EmptySet
  <2>3. used[k] = 0
    BY DEF Init
  <2>4. 0 + 0 <= Cap + Cardinality(Callers) - 1
    BY SomeCaller, PoolAssumption
  <2> QED
    BY <2>1, <2>2, <2>3, <2>4
<1>6. NoKeyTwice
  BY DEF Init, NoKeyTwice
<1> QED
  BY <1>2, <1>3, <1>4, <1>5, <1>6 DEF IInv

LEMMA PassingType == ASSUME TypeOK, NEW handed, Passing(handed)
                     PROVE  passed' \in [Keys -> Nat]
<1>1. \A k \in Keys : passed[k] \in Nat /\ passed[k] + 1 \in Nat
  BY DEF TypeOK
<1> QED
  BY <1>1 DEF Passing

LEMMA GoesOnType ==
  ASSUME TypeOK, Running, NEW c \in Callers, GoesOn(c)
  PROVE  /\ cursor' \in Keys
         /\ call' \in [Callers -> Calls]
         /\ passed' \in [Keys -> Nat]
         /\ Running'
<1>1. CASE NotHanded(c)
  <2>1. PICK r \in Calls : Sound(r) /\ call' = [call EXCEPT ![c] = r]
    BY <1>1 DEF NotHanded
  <2>2. call' \in [Callers -> Calls] /\ \A b \in Callers : call'[b] = IF b = c THEN r ELSE call[b]
    BY <2>1 DEF TypeOK
  <2>3. Running'
    BY <2>1, <2>2 DEF Running, Sound
  <2> QED
    BY <1>1, <2>2, <2>3, PassingType DEF NotHanded, TypeOK
<1>2. ASSUME NEW k \in Keys, Handed(c, k)
      PROVE  /\ cursor' \in Keys
             /\ call' \in [Callers -> Calls]
             /\ passed' \in [Keys -> Nat]
             /\ Running'
  <2>1. PICK r \in Calls : Sound(r) /\ call' = [call EXCEPT ![c] = r]
    BY <1>2 DEF Handed
  <2>2. call' \in [Callers -> Calls] /\ \A b \in Callers : call'[b] = IF b = c THEN r ELSE call[b]
    BY <2>1 DEF TypeOK
  <2>3. Running'
    BY <2>1, <2>2 DEF Running, Sound
  <2> QED
    BY <1>2, <2>2, <2>3, PassingType, Arithmetic DEF Handed
<1> QED
  BY <1>1, <1>2 DEF GoesOn

LEMMA TypeStep == TypeOK /\ Running /\ [Next]_vars => TypeOK' /\ Running'
<1> SUFFICES ASSUME TypeOK, Running, [Next]_vars
             PROVE  TypeOK' /\ Running'
  OBVIOUS
<1>1. ASSUME NEW c \in Callers, Ask(c) \/ Proceed(c)
      PROVE  TypeOK' /\ Running'
  <2>1. Counts(c) \/ Leaves(c) \/ Benches(c)
    BY <1>1, CallerStep
  <2>2. faults' \in 0 .. MaxFaults
    BY <1>1, CallerStep
  <2>3. GoesOn(c)
    BY <2>1 DEF Counts, Leaves, Benches, GoesOn
  <2>4. /\ cursor' \in Keys /\ call' \in [Callers -> Calls]
        /\ passed' \in [Keys -> Nat] /\ Running'
    BY <2>3, GoesOnType
  <2>5. call[c].key \in Keys
    BY DEF TypeOK, Calls
  <2>6. used' \in [Keys -> Nat]
    BY <2>1, <2>5 DEF Counts, Leaves, Benches, TypeOK
  <2>7. cooldown' \in [Keys -> Nat]
    BY <2>1, <2>5 DEF Counts, Leaves, Benches, TypeOK
  <2>8. tried' \in [Callers -> SUBSET Keys]
    BY <2>1, <2>5 DEF Counts, Leaves, Benches, TypeOK
  <2> QED
    BY <2>2, <2>4, <2>6, <2>7, <2>8 DEF TypeOK
<1>2. CASE Tick
  <2>1. /\ cursor' = cursor /\ used' = used /\ call' = call /\ faults' = faults
        /\ Passing({})
        /\ cooldown' = [k \in Keys |-> IF cooldown[k] = 0 THEN 0 ELSE cooldown[k] - 1]
        /\ tried' = [c \in Callers |-> tried[c] \ {k \in Keys : cooldown[k] = 1}]
    BY <1>2 DEF Tick
  <2>2. \A k \in Keys : (IF cooldown[k] = 0 THEN 0 ELSE cooldown[k] - 1) \in Nat
    BY DEF TypeOK
  <2>3. cooldown' \in [Keys -> Nat]
    BY <2>1, <2>2
  <2>4. tried' \in [Callers -> SUBSET Keys]
    BY <2>1 DEF TypeOK
  <2> QED
    BY <2>1, <2>3, <2>4, PassingType DEF TypeOK, Running, Sound
<1>3. CASE Midnight
  BY <1>3, PassingType DEF Midnight, TypeOK, Running, Sound
<1>4. CASE Restart
  <2>1. Over("none") \in Calls /\ Over("none").at = "idle"
    BY OverIsCall DEF Outcomes
  <2>2. faults' \in 0 .. MaxFaults
    BY <1>4, BoundAssumption DEF Restart, TypeOK
  <2> QED
    BY <1>4, <2>1, <2>2, Arithmetic DEF Restart, TypeOK, Running, Sound
<1>5. CASE UNCHANGED vars
  BY <1>5 DEF vars, pool, history, TypeOK, Running, Sound
<1> QED
  BY <1>1, <1>2, <1>3, <1>4, <1>5 DEF Next

(* The round-robin argument: an acquire that passes a key over moves the   *)
(* cursor closer to it.                                                    *)
LEMMA Closer ==
  ASSUME NEW i \in Keys, NEW j \in Keys, NEW k \in Keys, j # k,
         Dist(i, j) <= Dist(i, k)
  PROVE  Dist(After(j), k) + 1 <= Dist(i, k)
<1>1. /\ i \in Int /\ 0 <= i /\ i <= N - 1
      /\ j \in Int /\ 0 <= j /\ j <= N - 1
      /\ k \in Int /\ 0 <= k /\ k <= N - 1 /\ N \in Int
  BY PoolAssumption DEF Keys
<1> QED
  BY <1>1 DEF Dist, After

LEMMA NearStep == TypeOK /\ Running /\ Near /\ [Next]_vars => Near'
<1> SUFFICES ASSUME TypeOK, Running, Near, [Next]_vars
             PROVE  Near'
  OBVIOUS
<1>0. \A k \in Keys : /\ passed[k] \in Nat /\ Dist(cursor, k) \in Nat
                       /\ Dist(cursor, k) <= N - 1
                       /\ passed[k] + Dist(cursor, k) <= N - 1
  BY Arithmetic DEF Near, TypeOK
<1>1. ASSUME Passing({}), cursor' = cursor
      PROVE  Near'
  <2> SUFFICES ASSUME NEW k \in Keys
               PROVE  /\ passed'[k] + Dist(cursor', k) <= N - 1
                      /\ k \notin Free(cooldown', used') => passed'[k] = 0
    BY DEF Near
  <2>1. passed'[k] = IF k \notin Free(cooldown', used') THEN 0 ELSE passed[k]
    BY <1>1 DEF Passing
  <2>2. Dist(cursor', k) = Dist(cursor, k)
    BY <1>1
  <2> QED
    BY <1>0, <2>1, <2>2, Arithmetic
<1>2. ASSUME NEW c \in Callers, NEW j \in Keys, Handed(c, j)
      PROVE  Near'
  <2> SUFFICES ASSUME NEW k \in Keys
               PROVE  /\ passed'[k] + Dist(cursor', k) <= N - 1
                      /\ k \notin Free(cooldown', used') => passed'[k] = 0
    BY DEF Near
  <2>1. passed'[k] = IF k \notin Free(cooldown', used') \ {j} THEN 0 ELSE passed[k] + 1
    BY <1>2 DEF Handed, Passing
  <2>2. cursor' \in Keys /\ cursor' = After(j)
    BY <1>2, Arithmetic DEF Handed
  <2>3. Dist(cursor', k) \in Nat /\ Dist(cursor', k) <= N - 1
    BY <2>2, Arithmetic
  <2>4. CASE k \in Free(cooldown', used') /\ k # j
    <3>1. Dist(cursor, j) <= Dist(cursor, k) /\ cursor \in Keys
      BY <1>2, <2>4 DEF Handed, TypeOK
    <3>2. Dist(cursor', k) + 1 <= Dist(cursor, k)
      BY <2>2, <2>4, <3>1, Closer
    <3>3. passed'[k] = passed[k] + 1
      BY <2>1, <2>4
    <3>4. /\ passed[k] \in Nat /\ Dist(cursor, k) \in Nat /\ N \in Nat
          /\ passed[k] + Dist(cursor, k) <= N - 1
      BY <1>0, Arithmetic
    <3> HIDE DEF Dist
    <3>5. passed[k] + 1 + Dist(cursor', k) <= N - 1
      BY <2>3, <3>2, <3>4
    <3> QED
      BY <2>4, <3>3, <3>5
  <2>5. CASE ~ (k \in Free(cooldown', used') /\ k # j)
    <3>1. passed'[k] = 0
      BY <2>1, <2>5
    <3> QED
      BY <2>3, <3>1, Arithmetic
  <2> QED
    BY <2>4, <2>5
<1>3. ASSUME NEW c \in Callers, Ask(c) \/ Proceed(c)
      PROVE  Near'
  <2>1. GoesOn(c)
    BY <1>3, CallerStep DEF Counts, Leaves, Benches, GoesOn
  <2> QED
    BY <1>1, <1>2, <2>1 DEF GoesOn, NotHanded
<1>4. CASE Tick \/ Midnight
  BY <1>1, <1>4 DEF Tick, Midnight
<1>5. CASE Restart
  <2>1. cursor' = 0 /\ passed' = [k \in Keys |-> 0]
    BY <1>5 DEF Restart
  <2>2. \A k \in Keys : Dist(0, k) \in Nat /\ Dist(0, k) <= N - 1
    BY Arithmetic
  <2> QED
    BY <2>1, <2>2, Arithmetic DEF Near
<1>6. CASE UNCHANGED vars
  BY <1>6 DEF vars, pool, history, Near
<1> QED
  BY <1>3, <1>4, <1>5, <1>6 DEF Next

(* The completions that call with a key.                                   *)
Using(k) == {c \in Callers : call[c].at = "pool" /\ call[c].key = k}

LEMMA UsingFinite ==
  \A k : /\ IsFiniteSet(Using(k))
         /\ Cardinality(Using(k)) \in Nat
         /\ Cardinality(Using(k)) <= Cardinality(Callers)
<1> SUFFICES ASSUME NEW k
             PROVE  /\ IsFiniteSet(Using(k))
                    /\ Cardinality(Using(k)) \in Nat
                    /\ Cardinality(Using(k)) <= Cardinality(Callers)
  OBVIOUS
<1>1. Using(k) \in SUBSET Callers
  BY DEF Using
<1> QED
  BY <1>1, CallerAssumption, FS_Subset, FS_CardinalityType

LEMMA UsingFiniteNext ==
  \A k : /\ IsFiniteSet(Using(k)')
         /\ Cardinality(Using(k)') \in Nat
         /\ Cardinality(Using(k)') <= Cardinality(Callers)
<1> SUFFICES ASSUME NEW k
             PROVE  /\ IsFiniteSet(Using(k)')
                    /\ Cardinality(Using(k)') \in Nat
                    /\ Cardinality(Using(k)') <= Cardinality(Callers)
  OBVIOUS
<1>1. Using(k)' \in SUBSET Callers
  BY DEF Using
<1> QED
  BY <1>1, CallerAssumption, FS_Subset, FS_CardinalityType

LEMMA FewerUse ==
  ASSUME NEW k, Using(k)' \subseteq Using(k)
  PROVE  Cardinality(Using(k)') <= Cardinality(Using(k))
BY UsingFinite, FS_Subset

LEMMA CapStep == TypeOK /\ Running /\ CapOvershoot /\ [Next]_vars => CapOvershoot'
<1> SUFFICES ASSUME TypeOK, Running, CapOvershoot, [Next]_vars, Cap > 0, NEW k \in Keys
             PROVE  used'[k] + Cardinality(Using(k)') <= Cap + Cardinality(Callers) - 1
  BY DEF CapOvershoot, Using
<1> DEFINE old == Cardinality(Using(k))
           new == Cardinality(Using(k)')
           all == Cardinality(Callers)
<1>0. /\ used[k] \in Nat /\ old \in Nat /\ new \in Nat /\ new <= all /\ all \in Nat
      /\ Cap \in Nat /\ used[k] + old <= Cap + all - 1
  <2>1. used[k] + old <= Cap + all - 1
    BY DEF CapOvershoot, Using
  <2> QED
    BY <2>1, UsingFinite, UsingFiniteNext, SomeCaller, PoolAssumption DEF TypeOK
<1>1. ASSUME used'[k] = used[k], Using(k)' \subseteq Using(k)
      PROVE  used'[k] + new <= Cap + all - 1
  <2>1. new <= old
    BY <1>1, FewerUse
  <2> HIDE DEF old, new, all
  <2> QED
    BY <1>0, <1>1, <2>1
<1>2. ASSUME NEW c \in Callers, NotHanded(c)
      PROVE  Using(k)' \subseteq Using(k) \ {c}
  BY <1>2 DEF NotHanded, Using, TypeOK
<1>3. ASSUME NEW c \in Callers, NEW j \in Keys, Handed(c, j), k # j
      PROVE  Using(k)' \subseteq Using(k)
  BY <1>3 DEF Handed, Using, TypeOK
<1>4. ASSUME NEW c \in Callers, Handed(c, k)
      PROVE  used'[k] + new <= Cap + all - 1
  <2>1. used'[k] < Cap
    BY <1>4 DEF Handed, Free
  <2>2. used'[k] \in Nat
    BY TypeStep DEF TypeOK
  <2> HIDE DEF old, new, all
  <2> QED
    BY <1>0, <2>1, <2>2
<1>5. ASSUME NEW c \in Callers, Ask(c) \/ Proceed(c)
      PROVE  used'[k] + new <= Cap + all - 1
  <2>1. CASE Counts(c)
    <3>1. Using(k)' \subseteq Using(k) \ {c}
      BY <1>2, <2>1 DEF Counts
    <3>2. CASE call[c].key = k
      <4>1. c \in Using(k)
        BY <2>1, <3>2 DEF Counts, Using
      <4>2. /\ IsFiniteSet(Using(k) \ {c})
            /\ Cardinality(Using(k) \ {c}) = old - 1
        BY <4>1, UsingFinite, FS_RemoveElement
      <4>3. new <= Cardinality(Using(k) \ {c})
        BY <3>1, <4>2, FS_Subset
      <4>4. used'[k] = used[k] + 1
        BY <2>1, <3>2 DEF Counts, TypeOK
      <4> HIDE DEF old, new, all
      <4> QED
        BY <1>0, <4>2, <4>3, <4>4
    <3>3. CASE call[c].key # k
      <4>1. used'[k] = used[k]
        BY <2>1, <3>3 DEF Counts, TypeOK
      <4> QED
        BY <1>1, <3>1, <4>1
    <3> QED
      BY <3>2, <3>3
  <2>2. CASE Leaves(c) \/ Benches(c)
    <3>1. used' = used /\ GoesOn(c)
      BY <2>2 DEF Leaves, Benches
    <3>2. CASE NotHanded(c)
      BY <1>1, <1>2, <3>1, <3>2
    <3>3. CASE \E j \in Keys : Handed(c, j)
      BY <1>1, <1>3, <1>4, <3>1, <3>3
    <3> QED
      BY <3>1, <3>2, <3>3 DEF GoesOn
  <2> QED
    BY <1>5, <2>1, <2>2, CallerStep
<1>6. CASE Tick \/ UNCHANGED vars
  <2>1. used' = used /\ call' = call
    BY <1>6 DEF Tick, vars, pool
  <2> QED
    BY <1>1, <2>1 DEF Using
<1>7. ASSUME Midnight
      PROVE  used'[k] + new <= Cap + all - 1
  <2>1. used'[k] = 0
    BY <1>7 DEF Midnight
  <2> HIDE DEF old, new, all
  <2> QED
    BY <1>0, <2>1
<1>8. CASE Restart
  <2>1. used' = used /\ call' = [c \in Callers |-> Over("none")]
    BY <1>8 DEF Restart
  <2>2. Using(k)' = {}
    BY <2>1, OverIsCall DEF Using, Outcomes
  <2> QED
    BY <1>1, <2>1, <2>2
<1> QED
  BY <1>5, <1>6, <1>7, <1>8 DEF Next

LEMMA TwiceStep == TypeOK /\ Running /\ NoKeyTwice /\ [Next]_vars => NoKeyTwice'
<1> SUFFICES ASSUME TypeOK, Running, NoKeyTwice, [Next]_vars
             PROVE  NoKeyTwice'
  OBVIOUS
<1>1. ASSUME NEW c \in Callers, Ask(c) \/ Proceed(c)
      PROVE  NoKeyTwice'
  <2> SUFFICES ASSUME NEW b \in Callers, call'[b].at = "pool"
               PROVE  /\ call'[b].key \notin tried'[b]
                      /\ \A k \in tried'[b] : cooldown'[k] > 0
    BY DEF NoKeyTwice
  <2>0. Counts(c) \/ Leaves(c) \/ Benches(c)
    BY <1>1, CallerStep
  <2>1. GoesOn(c)
    BY <2>0 DEF Counts, Leaves, Benches, GoesOn
  <2>2. call[c].key \in Keys /\ tried[b] \subseteq Keys
    BY DEF TypeOK, Calls
  <2>3. \A k \in Keys : cooldown[k] > 0 => cooldown'[k] > 0
    BY <2>0, <2>2 DEF Counts, Leaves, Benches, TypeOK
  <2>4. CASE b # c
    <3>1. call'[b] = call[b] /\ tried'[b] = tried[b]
      BY <2>0, <2>1, <2>4
      DEF Counts, Leaves, Benches, GoesOn, NotHanded, Handed, TypeOK
    <3> QED
      BY <2>2, <2>3, <3>1 DEF NoKeyTwice
  <2>5. CASE b = c
    <3>1. PICK j \in Keys : Handed(c, j)
      BY <2>1, <2>5 DEF GoesOn, NotHanded, TypeOK
    <3>2. call'[c].key = j /\ cooldown'[j] = 0
      BY <3>1 DEF Handed, Free, TypeOK
    <3>3. \A k \in tried'[c] : cooldown'[k] > 0
      <4>1. CASE tried'[c] = {}
        BY <4>1
      <4>2. CASE Leaves(c) /\ tried' = tried
        <5>1. call[c].at = "pool" \/ tried[c] = {}
          <6>1. call'[c].at = "pool"
            BY <2>5
          <6> QED
            BY <4>2, <6>1 DEF Leaves, TypeOK
        <5> QED
          BY <2>2, <2>3, <2>5, <4>2, <5>1 DEF NoKeyTwice
      <4>3. CASE Benches(c) /\ tried' = [tried EXCEPT ![c] = @ \union {call[c].key}]
        <5>1. cooldown'[call[c].key] > 0
          BY <2>2, <4>3 DEF Benches, TypeOK
        <5>2. tried'[c] = tried[c] \union {call[c].key}
          BY <4>3 DEF TypeOK
        <5> QED
          BY <2>2, <2>3, <2>5, <4>3, <5>1, <5>2 DEF NoKeyTwice, Benches
      <4> QED
        BY <2>0, <4>1, <4>2, <4>3 DEF Counts, Leaves, Benches, TypeOK
    <3> QED
      BY <2>5, <3>2, <3>3
  <2> QED
    BY <2>4, <2>5
<1>2. CASE Tick
  <2>1. /\ call' = call
        /\ cooldown' = [k \in Keys |-> IF cooldown[k] = 0 THEN 0 ELSE cooldown[k] - 1]
        /\ tried' = [c \in Callers |-> tried[c] \ {k \in Keys : cooldown[k] = 1}]
    BY <1>2 DEF Tick
  <2>2. \A k \in Keys : cooldown[k] > 0 /\ cooldown[k] # 1 => cooldown'[k] > 0
    BY <2>1 DEF TypeOK
  <2> QED
    BY <2>1, <2>2 DEF NoKeyTwice, TypeOK
<1>3. CASE Midnight \/ UNCHANGED vars
  BY <1>3 DEF Midnight, vars, pool, history, NoKeyTwice
<1>4. CASE Restart
  BY <1>4 DEF Restart, NoKeyTwice
<1> QED
  BY <1>1, <1>2, <1>3, <1>4 DEF Next

LEMMA Inductive == Spec => []IInv
<1>1. IInv /\ [Next]_vars => IInv'
  BY TypeStep, NearStep, CapStep, TwiceStep DEF IInv
<1> QED
  BY InitIInv, <1>1, PTL DEF Spec

-----------------------------------------------------------------------------
(* The action properties.                                                  *)

(* The pigeonhole: a lap that has benched a key in each of its N attempts, *)
(* all of which still rest, has benched all of them.                       *)
LEMMA AllBenched ==
  ASSUME NEW S \in SUBSET Keys, NEW k \in Keys, k \notin S,
         Cardinality(S) >= N - 1
  PROVE  S \union {k} = Keys
<1>1. IsFiniteSet(Keys) /\ Cardinality(Keys) = N
  BY FS_Interval, PoolAssumption DEF Keys
<1>2. IsFiniteSet(S) /\ Cardinality(S) \in Nat
  BY <1>1, FS_Subset, FS_CardinalityType
<1>3. /\ IsFiniteSet(S \union {k})
      /\ Cardinality(S \union {k}) = Cardinality(S) + 1
  BY <1>2, FS_AddElement
<1>4. S \union {k} \in SUBSET Keys
  OBVIOUS
<1>5. Cardinality(S \union {k}) <= Cardinality(Keys)
  BY <1>1, <1>4, FS_Subset
<1>6. Cardinality(Keys) = Cardinality(S \union {k})
  BY <1>1, <1>2, <1>3, <1>5, PoolAssumption
<1> QED
  BY <1>1, <1>4, <1>6, FS_Subset

LEMMA LastAttempt ==
  ASSUME TypeOK, Running, NoKeyTwice, NEW c \in Callers, call[c].at = "pool",
         NEW d \in Delays, Bench(call[c].key, d), used' = used,
         Rotate(c, {call[c].key})
  PROVE  \/ call'[c].at = call[c].at /\ call'[c].model = call[c].model
         \/ Free(cooldown', used') = {}
         \/ Cardinality(tried[c]) < call[c].attempts - 1
<1>1. /\ call[c] \in Calls /\ Sound(call[c]) /\ tried[c] \in SUBSET Keys
      /\ call[c].key \in Keys
  BY DEF TypeOK, Running, Calls
<1>2. call[c].attempts \in 0 .. N /\ call[c].model \in 0 .. Len(Chain)
  BY <1>1 DEF Calls
<1>3. call[c].attempts >= 1 /\ call[c].model >= 1 /\ call[c].last \in Errors
  BY <1>1 DEF Sound
<1>4. CASE call[c].attempts < N /\ Free(cooldown', used') # {}
  <2>1. HandOut(c, call[c].model, call[c].attempts + 1, call[c].last)
    BY <1>4 DEF Rotate
  <2>2. call[c].attempts + 1 \in 1 .. N /\ call[c].model \in 1 .. Len(Chain)
    BY <1>2, <1>3, <1>4, Arithmetic
  <2> QED
    BY <1>3, <2>1, <2>2, HandOutShape
<1>5. CASE call[c].attempts = N /\ ~ (Cardinality(tried[c]) < call[c].attempts - 1)
  <2>1. Cardinality(tried[c]) >= N - 1
    <3>1. IsFiniteSet(Keys)
      BY FS_Interval, PoolAssumption DEF Keys
    <3>2. Cardinality(tried[c]) \in Nat
      BY <1>1, <3>1, FS_Subset, FS_CardinalityType
    <3> QED
      BY <1>5, <3>2, Arithmetic
  <2>2. tried[c] \union {call[c].key} = Keys
    BY <1>1, <2>1, AllBenched DEF NoKeyTwice
  <2>3. /\ \A k \in tried[c] : cooldown[k] > 0
        /\ cooldown' = [cooldown EXCEPT ![call[c].key] = IF d = 0 THEN 1 ELSE d]
    BY DEF NoKeyTwice, Bench
  <2>4. (IF d = 0 THEN 1 ELSE d) > 0
    BY DelayAssumption
  <2>5. \A k \in Keys : cooldown'[k] > 0
    BY <1>1, <2>2, <2>3, <2>4 DEF TypeOK
  <2> QED
    BY <2>5 DEF Free
<1> QED
  BY <1>2, <1>4, <1>5, Arithmetic

LEMMA SpentStep ==
  ASSUME IInv, Next, NEW c \in Callers, GivesUp(c)
  PROVE  \/ Free(cooldown', used') = {}
         \/ Cardinality(tried[c]) < call[c].attempts - 1
         \/ faults' # faults
<1> USE DEF IInv
<1>1. ASSUME NEW b \in Callers, Ask(b) \/ Proceed(b), b # c
      PROVE  FALSE
  <2>1. GoesOn(b)
    BY <1>1, CallerStep DEF Counts, Leaves, Benches, GoesOn
  <2>2. call'[c] = call[c]
    BY <1>1, <2>1 DEF GoesOn, NotHanded, Handed, TypeOK
  <2> QED
    BY <2>2 DEF GivesUp
<1>2. CASE Ask(c)
  <2>1. MoveOn(c, 1, "none")
    BY <1>2 DEF Ask
  <2>2. call'[c].last = "none" \/ Free(cooldown', used') = {}
    BY <2>1, MoveOnShape DEF Errors
  <2> QED
    BY <2>2 DEF GivesUp
<1>3. CASE Answer(c)
  <2>1. End(c, "none")
    BY <1>3 DEF Answer
  <2> QED
    BY <2>1, EndShape DEF GivesUp, Outcomes
<1>4. CASE APIError(c)
  <2>1. MoveOn(c, call[c].model + 1, "api")
    BY <1>4 DEF APIError
  <2>2. call[c].model + 1 \in Nat /\ call[c].model + 1 >= 1
    <3>1. call[c].model \in 0 .. Len(Chain)
      BY DEF TypeOK, Calls
    <3>2. \A n \in 0 .. Len(Chain) : n + 1 \in Nat /\ n + 1 >= 1
      BY Arithmetic
    <3> QED
      BY <3>1, <3>2
  <2>3. call'[c].last = "api" \/ Free(cooldown', used') = {}
    BY <2>1, <2>2, MoveOnShape DEF Errors
  <2> QED
    BY <2>3 DEF GivesUp
<1>5. CASE RateLimited(c)
  <2>1. CASE faults' = faults + 1
    BY <2>1 DEF TypeOK
  <2>2. CASE /\ \E d \in Delays : Bench(call[c].key, d)
             /\ Rotate(c, {call[c].key})
    <3>1. call[c].at = "pool" /\ used' = used
      BY <1>5 DEF RateLimited
    <3> QED
      BY <2>2, <3>1, LastAttempt DEF GivesUp
  <2> QED
    BY <1>5, <2>1, <2>2 DEF RateLimited
<1>6. CASE BareRateLimited(c)
  <2>1. End(c, "escaped")
    BY <1>6 DEF BareRateLimited
  <2> QED
    BY <2>1, EndShape DEF GivesUp, Outcomes
<1>7. CASE Tick \/ Midnight
  BY <1>7 DEF Tick, Midnight, GivesUp
<1>8. CASE Restart
  BY <1>8 DEF Restart, GivesUp, Over
<1> QED
  BY <1>1, <1>2, <1>3, <1>4, <1>5, <1>6, <1>7, <1>8 DEF Next, Proceed

LEMMA ForwardStep ==
  ASSUME IInv, Next, NEW c \in Callers
  PROVE  \/ call'[c] = call[c]
         \/ call[c].at = "idle"
         \/ call'[c].at = "idle"
         \/ Later(call'[c], call[c])
<1> USE DEF IInv
<1>1. ASSUME NEW b \in Callers, Ask(b) \/ Proceed(b), b # c
      PROVE  call'[c] = call[c]
  <2>1. GoesOn(b)
    BY <1>1, CallerStep DEF Counts, Leaves, Benches, GoesOn
  <2> QED
    BY <1>1, <2>1 DEF GoesOn, NotHanded, Handed, TypeOK
<1>2. CASE Ask(c) \/ Proceed(c)
  BY <1>2, CallerStep
<1>3. CASE Tick \/ Midnight
  BY <1>3 DEF Tick, Midnight
<1>4. CASE Restart
  BY <1>4 DEF Restart, Over
<1> QED
  BY <1>1, <1>2, <1>3, <1>4 DEF Next

-----------------------------------------------------------------------------

(* The variables of the pool keep their types.                             *)
THEOREM KeyPoolTypeCorrect == Spec => []TypeOK
BY Inductive, PTL DEF IInv

(* Overlapping calls exceed the daily cap of a key by at most one less     *)
(* than there are callers.                                                 *)
THEOREM CapIsNearlyKept == Spec => []CapOvershoot
BY Inductive, PTL DEF IInv

(* No lap calls with a key that it has benched and that is still resting.  *)
THEOREM NoKeyIsTriedTwice == Spec => []NoKeyTwice
BY Inductive, PTL DEF IInv

(* Fewer than N keys are handed out while a free key waits for its turn.   *)
THEOREM RotationIsFair == Spec => []NoKeyStarves
<1>1. IInv => NoKeyStarves
  <2> SUFFICES ASSUME IInv, NEW k \in Free(cooldown, used)
               PROVE  passed[k] < N
    BY DEF NoKeyStarves
  <2>1. k \in Keys /\ cursor \in Keys
    BY DEF Free, IInv, TypeOK
  <2>2. /\ passed[k] \in Nat /\ Dist(cursor, k) \in Nat /\ N \in Nat
        /\ passed[k] + Dist(cursor, k) <= N - 1
    BY <2>1, Arithmetic DEF IInv, TypeOK, Near
  <2> HIDE DEF Dist
  <2> QED
    BY <2>2
<1> QED
  BY <1>1, Inductive, PTL

(* A model that gives up for want of keys has none left, unless a key that *)
(* it had benched came back before the lap was over.                       *)
THEOREM SpentIsSpent == Spec => SpentMeansSpent
<1>1. IInv /\ [Next]_vars =>
        [\A c \in Callers :
           GivesUp(c) => \/ Free(cooldown', used') = {}
                         \/ Cardinality(tried[c]) < call[c].attempts - 1
                         \/ faults' # faults]_vars
  BY SpentStep
<1> QED
  BY <1>1, Inductive, PTL DEF Spec, SpentMeansSpent

(* Every answer ends a completion or takes it a step further.              *)
THEOREM CompletionsEnd == Spec => GoesForward
<1>1. IInv /\ [Next]_vars =>
        [\A c \in Callers :
           \/ call'[c] = call[c]
           \/ call[c].at = "idle"
           \/ call'[c].at = "idle"
           \/ Later(call'[c], call[c])]_vars
  BY ForwardStep
<1> QED
  BY <1>1, Inductive, PTL DEF Spec, GoesForward

=============================================================================
