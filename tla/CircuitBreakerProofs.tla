------------------------ MODULE CircuitBreakerProofs ------------------------
(***************************************************************************)
(* Theorems about CircuitBreaker, for any number of callers, any           *)
(* configuration, and calls that end in any order and at any time.         *)
(*                                                                         *)
(* The invariant relates the counts of the breaker to the calls in flight, *)
(* the probes to the history, and the time it has been open to its timer.  *)
(* It is stated of a breaker b and calls f, as it holds of the ones that   *)
(* are stored and of the ones that the next call finds when the time of    *)
(* their generation is over.  Limited adds what the half-open breaker needs*)
(* in order not to be stuck.                                               *)
(***************************************************************************)
EXTENDS CircuitBreaker, FiniteSetTheorems, TLAPS

Breakers == [state : States, requests : Nat, successes : Nat, failures : Nat, left : Int]

\* The callers whose call is of the present generation.
Flying(f) == {c \in Callers : f[c] = "current"}

\* Every request has succeeded, failed, or is in flight.
Accounted(b, f) == b.requests = b.successes + b.failures + Cardinality(Flying(f))

\* As long as the breaker is closed, failures are few or outnumbered.
Tolerant(b) ==
  b.state = "closed" => b.failures < MinRequests \/ 2 * b.failures < b.requests

\* Probes began after the breaker opened, and those that succeeded are counted.
Probing(b, f) ==
  b.state = "halfOpen" =>
    Flying(f) \subseteq recent /\ b.successes <= good /\ b.successes < MaxRequests

\* The timer of an open breaker, and the calls it cuts off.
Resting(b, f) ==
  /\ b.state = "open" => Flying(f) = {} /\ rest = Timeout - b.left
  /\ b.state # "open" => rest = Timeout + 1

Sound(b, f) ==
  /\ b \in Breakers /\ f \in [Callers -> Generations]
  /\ Accounted(b, f) /\ Tolerant(b) /\ Probing(b, f) /\ Resting(b, f)

Inv == TypeOK /\ Sound(cb, calls)

USE CallersAssumption, ConfigAssumption
USE DEF States, Generations

-----------------------------------------------------------------------------
(* Sets of calls, and new generations.                                     *)

LEMMA FlyingFinite ==
  ASSUME NEW f
  PROVE  IsFiniteSet(Flying(f)) /\ Cardinality(Flying(f)) \in Nat
<1>1. IsFiniteSet(Flying(f))
  BY FS_Subset DEF Flying
<1> QED
  BY <1>1, FS_CardinalityType

LEMMA FlyingMore ==
  ASSUME NEW f \in [Callers -> Generations], NEW c \in Callers, f[c] # "current"
  PROVE  /\ Flying([f EXCEPT ![c] = "current"]) = Flying(f) \cup {c}
         /\ Cardinality(Flying([f EXCEPT ![c] = "current"])) = Cardinality(Flying(f)) + 1
<1>1. Flying([f EXCEPT ![c] = "current"]) = Flying(f) \cup {c} /\ c \notin Flying(f)
  BY DEF Flying
<1> QED
  BY <1>1, FlyingFinite, FS_AddElement

LEMMA FlyingFewer ==
  ASSUME NEW f \in [Callers -> Generations], NEW c \in Callers
  PROVE  /\ Flying([f EXCEPT ![c] = "none"]) = Flying(f) \ {c}
         /\ f[c] = "current" =>
              Cardinality(Flying([f EXCEPT ![c] = "none"])) = Cardinality(Flying(f)) - 1
<1>1. Flying([f EXCEPT ![c] = "none"]) = Flying(f) \ {c}
  BY DEF Flying
<1>2. f[c] = "current" => c \in Flying(f)
  BY DEF Flying
<1> QED
  BY <1>1, <1>2, FlyingFinite, FS_RemoveElement

LEMMA NoneFlying ==
  ASSUME NEW f \in [Callers -> Generations]
  PROVE  /\ Outdated(f) \in [Callers -> Generations]
         /\ \A c \in Callers : Outdated(f)[c] # "current"
         /\ Flying(Outdated(f)) = {}
         /\ \A c \in Callers : Flying([Outdated(f) EXCEPT ![c] = "none"]) = {}
  BY DEF Outdated, Flying

LEMMA GenerationIs ==
  ASSUME NEW s \in States
  PROVE  /\ Generation(s) \in Breakers /\ Generation(s).state = s
         /\ Generation(s).requests = 0 /\ Generation(s).successes = 0
         /\ Generation(s).failures = 0
         /\ s = "open" => Generation(s).left = Timeout
         /\ Generation(s).left >= 0
  BY DEF Generation, Breakers

\* A generation begins with nothing to account for.
LEMMA NewGeneration ==
  ASSUME NEW s \in States, NEW f \in [Callers -> Generations], Flying(f) = {},
         good \in Nat,
         s = "open" => rest = 0, s # "open" => rest = Timeout + 1
  PROVE  Sound(Generation(s), f)
<1>1. Cardinality(Flying(f)) = 0
  BY FS_EmptySet
<1> QED
  BY <1>1, GenerationIs DEF Sound, Accounted, Tolerant, Probing, Resting

LEMMA NewGenerationNext ==
  ASSUME NEW s \in States, NEW f \in [Callers -> Generations], Flying(f) = {},
         good' \in Nat, cb' = Generation(s), calls' = f,
         s = "open" => rest' = 0, s # "open" => rest' = Timeout + 1
  PROVE  Sound(cb, calls)'
<1>1. Cardinality(Flying(f)) = 0
  BY FS_EmptySet
<1>2. /\ cb' \in Breakers /\ cb'.state = s
      /\ cb'.requests = 0 /\ cb'.successes = 0 /\ cb'.failures = 0
      /\ s = "open" => cb'.left = Timeout
  BY GenerationIs
<1>3. Flying(calls)' = {} /\ Cardinality(Flying(calls)') = 0
  BY <1>1 DEF Flying
<1>4. Accounted(cb, calls)' /\ Tolerant(cb)'
  BY <1>2, <1>3 DEF Accounted, Tolerant
<1>5. Probing(cb, calls)' /\ Resting(cb, calls)'
  BY <1>2, <1>3 DEF Probing, Resting
<1> QED
  BY <1>2, <1>4, <1>5 DEF Sound

\* What the next call finds.
LEMMA FoundSound ==
  ASSUME Inv
  PROVE  /\ Sound(CurrentState, CurrentCalls)
         /\ CurrentState.state = "open" => cb.state = "open" /\ ~Over
         /\ CurrentState.state # "open" => rest = Timeout + 1
         /\ \A c \in Callers : /\ CurrentCalls[c] = "none" <=> calls[c] = "none"
                               /\ CurrentCalls[c] = "current" => CurrentState = cb
<1>1. TypeOK /\ Sound(cb, calls)
  BY DEF Inv
<1>2. CASE ~Over
  BY <1>1, <1>2 DEF CurrentState, CurrentCalls, Sound, Resting
<1>3. CASE Over
  <2> DEFINE s == IF cb.state = "closed" THEN "closed" ELSE "halfOpen"
  <2>1. CurrentState = Generation(s) /\ CurrentCalls = Outdated(calls) /\ s \in States \ {"open"}
    BY <1>3 DEF CurrentState, CurrentCalls
  <2>2. rest = Timeout + 1
    <3>1. CASE cb.state = "open"
      BY <1>1, <1>3, <3>1 DEF Sound, Resting, TypeOK, Over, Breakers
    <3>2. CASE cb.state # "open"
      BY <1>1, <3>2 DEF Sound, Resting
    <3> QED
      BY <3>1, <3>2
  <2>3. CurrentCalls \in [Callers -> Generations] /\ Flying(CurrentCalls) = {}
    BY <1>1, <2>1, NoneFlying DEF Sound
  <2>4. Sound(CurrentState, CurrentCalls)
    BY <1>1, <2>1, <2>2, <2>3, NewGeneration DEF TypeOK
  <2>5. \A c \in Callers : /\ CurrentCalls[c] = "none" <=> calls[c] = "none"
                           /\ CurrentCalls[c] # "current"
    BY <1>1, <2>1, NoneFlying DEF Sound, Outdated
  <2> QED
    BY <2>1, <2>2, <2>4, <2>5, GenerationIs
<1> QED
  BY <1>2, <1>3

\* Counting a request, a success or a failure changes nothing else.
LEMMA Counting ==
  ASSUME NEW b \in Breakers
  PROVE  /\ [b EXCEPT !.requests = @ + 1] =
              [state |-> b.state, requests |-> b.requests + 1, successes |-> b.successes,
               failures |-> b.failures, left |-> b.left]
         /\ [b EXCEPT !.successes = @ + 1] =
              [state |-> b.state, requests |-> b.requests, successes |-> b.successes + 1,
               failures |-> b.failures, left |-> b.left]
         /\ [b EXCEPT !.failures = @ + 1] =
              [state |-> b.state, requests |-> b.requests, successes |-> b.successes,
               failures |-> b.failures + 1, left |-> b.left]
         /\ [b EXCEPT !.left = @ - 1] =
              [state |-> b.state, requests |-> b.requests, successes |-> b.successes,
               failures |-> b.failures, left |-> b.left - 1]
  BY DEF Breakers

-----------------------------------------------------------------------------
(* Each step keeps the invariant.                                          *)

LEMMA InitInv == Init => Inv
<1> SUFFICES ASSUME Init PROVE Inv
  OBVIOUS
<1>1. TypeOK
  BY GenerationIs DEF Init, TypeOK, Breakers
<1>2. calls \in [Callers -> Generations] /\ Flying(calls) = {}
  BY DEF Init, Flying
<1>3. Sound(cb, calls)
  BY <1>1, <1>2, NewGeneration DEF Init, TypeOK
<1> QED
  BY <1>1, <1>3 DEF Inv

LEMMA ExecuteInv ==
  ASSUME Inv, NEW c \in Callers, Execute(c)
  PROVE  Inv'
<1> DEFINE b == CurrentState
           f == CurrentCalls
<1>1. /\ TypeOK /\ Sound(b, f) /\ f[c] = "none" /\ b.state # "open" /\ rest = Timeout + 1
      /\ cb' = [b EXCEPT !.requests = @ + 1] /\ calls' = [f EXCEPT ![c] = "current"]
      /\ recent' = recent \cup {c} /\ UNCHANGED <<healthy, good, rest>>
  BY FoundSound DEF Inv, Execute, Admits
<1> HIDE DEF b, f
<1>2. /\ cb' \in Breakers /\ cb'.state = b.state /\ cb'.requests = b.requests + 1
      /\ cb'.successes = b.successes /\ cb'.failures = b.failures
  <2>1. b \in Breakers
    BY <1>1 DEF Sound
  <2>2. cb' = [state |-> b.state, requests |-> b.requests + 1, successes |-> b.successes,
               failures |-> b.failures, left |-> b.left]
    BY <1>1, <2>1, Counting
  <2> QED
    BY <2>1, <2>2 DEF Breakers
<1>3. /\ calls' \in [Callers -> Generations]
      /\ Flying(calls)' = Flying(f) \cup {c}
      /\ Cardinality(Flying(calls)') = Cardinality(Flying(f)) + 1
  <2>1. calls' \in [Callers -> Generations]
    BY <1>1 DEF Sound
  <2>2. Flying(calls)' = Flying([f EXCEPT ![c] = "current"])
    BY <1>1 DEF Flying
  <2> QED
    BY <1>1, <2>1, <2>2, FlyingMore DEF Sound
<1>4. TypeOK'
  BY <1>1, <1>2, <1>3 DEF TypeOK, Breakers
<1>5. Accounted(cb, calls)'
  <2>1. b.requests = b.successes + b.failures + Cardinality(Flying(f))
    BY <1>1 DEF Sound, Accounted
  <2>2. /\ b.requests \in Nat /\ b.successes \in Nat /\ b.failures \in Nat
        /\ Cardinality(Flying(f)) \in Nat
    BY <1>1, FlyingFinite DEF Sound, Breakers
  <2> QED
    BY <1>2, <1>3, <2>1, <2>2 DEF Accounted
<1>6. Tolerant(cb)'
  BY <1>1, <1>2 DEF Sound, Tolerant, Breakers
<1>7. Probing(cb, calls)' /\ Resting(cb, calls)'
  BY <1>1, <1>2, <1>3 DEF Sound, Probing, Resting
<1> QED
  BY <1>2, <1>3, <1>4, <1>5, <1>6, <1>7 DEF Inv, Sound

\* What is recorded when a call returns.
LEMMA ReturnRecords ==
  ASSUME Inv, NEW c \in Callers, Return(c)
  PROVE  /\ recent' \subseteq Callers /\ good' \in 0..MaxRequests
         /\ rest' \in 0..(Timeout + 1) /\ UNCHANGED healthy
         /\ ~(cb'.state = "open" /\ cb.state # "open") =>
              /\ recent' = recent \ {c} /\ rest' = rest /\ good' >= good
              /\ healthy /\ c \in recent /\ good < MaxRequests => good' = good + 1
         /\ cb'.state = "open" /\ cb.state # "open" => rest' = 0
  BY DEF Inv, TypeOK, Return

LEMMA IgnoredInv ==
  ASSUME Inv, NEW c \in Callers, Return(c), ~Counts(c)
  PROVE  Inv' /\ cb'.state = CurrentState.state
<1> DEFINE b == CurrentState
           f == CurrentCalls
<1>1. /\ Sound(b, f) /\ f[c] # "current" /\ cb' = b /\ calls' = [f EXCEPT ![c] = "none"]
      /\ b.state = "open" => cb.state = "open"
      /\ TypeOK
  BY FoundSound DEF Inv, Return, Counts
<1>2. recent' = recent \ {c} /\ rest' = rest /\ good' >= good /\ good' \in 0..MaxRequests
  BY <1>1, ReturnRecords
<1> HIDE DEF b, f
<1>3. calls' \in [Callers -> Generations] /\ Flying(calls)' = Flying(f) /\ c \notin Flying(f)
  <2>1. Flying(calls)' = Flying([f EXCEPT ![c] = "none"]) /\ c \notin Flying(f)
    BY <1>1 DEF Flying
  <2>2. f \in [Callers -> Generations]
    BY <1>1 DEF Sound
  <2>3. Flying([f EXCEPT ![c] = "none"]) = Flying(f) \ {c}
    BY <2>2, FlyingFewer
  <2> QED
    BY <1>1, <2>1, <2>2, <2>3
<1>4. TypeOK'
  BY <1>1, <1>3, ReturnRecords DEF TypeOK, Sound, Breakers
<1>5. Accounted(cb, calls)' /\ Tolerant(cb)'
  BY <1>1, <1>3 DEF Sound, Accounted, Tolerant
<1>6. Probing(cb, calls)'
  <2> SUFFICES ASSUME b.state = "halfOpen"
               PROVE  /\ Flying(calls)' \subseteq recent'
                      /\ b.successes <= good' /\ b.successes < MaxRequests
    BY <1>1 DEF Probing
  <2>1. Flying(f) \subseteq recent /\ b.successes <= good /\ b.successes < MaxRequests
    BY <1>1 DEF Sound, Probing
  <2>2. b.successes \in Nat /\ good \in Nat /\ good' \in Nat
    BY <1>1, <1>2 DEF Sound, Breakers, TypeOK
  <2>3. b.successes <= good'
    BY <1>2, <2>1, <2>2
  <2> QED
    BY <1>2, <1>3, <2>1, <2>3
<1>7. Resting(cb, calls)'
  BY <1>1, <1>2, <1>3 DEF Sound, Resting
<1> QED
  BY <1>1, <1>3, <1>4, <1>5, <1>6, <1>7 DEF Inv, Sound, b

\* A counted call is the breaker's own: its generation is not over.
LEMMA CountedIs ==
  ASSUME Inv, NEW c \in Callers, Return(c), Counts(c)
  PROVE  /\ CurrentState = cb /\ CurrentCalls = calls /\ calls[c] = "current"
         /\ c \in Flying(calls) /\ cb.state # "open" /\ rest = Timeout + 1
         /\ cb' = IF healthy THEN Succeeded(cb) ELSE Failed(cb)
         /\ calls' = [(IF cb'.state # cb.state THEN Outdated(calls) ELSE calls)
                        EXCEPT ![c] = "none"]
<1>1. TypeOK /\ Sound(cb, calls)
  BY DEF Inv
<1>2. ~Over
  BY <1>1, NoneFlying DEF Counts, CurrentCalls, Sound
<1>3. CurrentState = cb /\ CurrentCalls = calls /\ calls[c] = "current" /\ c \in Flying(calls)
  BY <1>2 DEF Counts, CurrentCalls, CurrentState, Flying
<1>4. cb.state # "open" /\ rest = Timeout + 1
  BY <1>1, <1>3 DEF Sound, Resting
<1> QED
  BY <1>3, <1>4 DEF Return, Result

\* A counted call that changes the state of the breaker begins a generation.
LEMMA TurnInv ==
  ASSUME Inv, NEW c \in Callers, Return(c), Counts(c), NEW s \in States, s # cb.state,
         cb' = Generation(s)
  PROVE  Inv'
<1>1. /\ TypeOK /\ Sound(cb, calls) /\ cb.state # "open" /\ rest = Timeout + 1
      /\ calls' = [(IF cb'.state # cb.state THEN Outdated(calls) ELSE calls) EXCEPT ![c] = "none"]
  BY CountedIs DEF Inv
<1>2. cb'.state = s /\ cb' \in Breakers
  BY GenerationIs
<1> DEFINE f == [Outdated(calls) EXCEPT ![c] = "none"]
<1>3. calls' = f /\ f \in [Callers -> Generations] /\ Flying(f) = {}
  BY <1>1, <1>2, NoneFlying DEF Sound
<1>4. /\ s = "open" => rest' = 0
      /\ s # "open" => rest' = Timeout + 1
      /\ good' \in Nat
  BY <1>1, <1>2, ReturnRecords
<1> HIDE DEF f
<1>5. Sound(cb, calls)'
  BY <1>3, <1>4, NewGenerationNext
<1>6. TypeOK'
  BY <1>1, <1>2, <1>3, ReturnRecords DEF TypeOK, Breakers
<1> QED
  BY <1>5, <1>6 DEF Inv

\* One that does not is added to the counts.
LEMMA CountedInv ==
  ASSUME Inv, NEW c \in Callers, Return(c), Counts(c), cb' \in Breakers,
         cb'.state = cb.state, cb'.requests = cb.requests,
         cb'.successes + cb'.failures = cb.successes + cb.failures + 1,
         Tolerant(cb)',
         cb.state = "halfOpen" =>
           healthy /\ cb'.successes = cb.successes + 1 /\ cb'.successes < MaxRequests
  PROVE  Inv'
<1>1. /\ TypeOK /\ Sound(cb, calls) /\ cb.state # "open" /\ rest = Timeout + 1
      /\ calls[c] = "current" /\ c \in Flying(calls)
      /\ calls' = [calls EXCEPT ![c] = "none"]
  BY CountedIs DEF Inv
<1>2. /\ recent' = recent \ {c} /\ rest' = rest /\ good' >= good /\ good' \in 0..MaxRequests
      /\ healthy /\ c \in recent /\ good < MaxRequests => good' = good + 1
  BY <1>1, ReturnRecords
<1>3. /\ calls' \in [Callers -> Generations] /\ Flying(calls)' = Flying(calls) \ {c}
      /\ Cardinality(Flying(calls)') = Cardinality(Flying(calls)) - 1
  <2>1. Flying(calls)' = Flying([calls EXCEPT ![c] = "none"])
    BY <1>1 DEF Flying
  <2> QED
    BY <1>1, <2>1, FlyingFewer DEF Sound
<1>4. TypeOK'
  BY <1>1, <1>3, ReturnRecords DEF TypeOK, Breakers
<1>5. Accounted(cb, calls)'
  BY <1>1, <1>3, FlyingFinite DEF Sound, Accounted, Breakers
<1>6. Probing(cb, calls)'
  <2> SUFFICES ASSUME cb.state = "halfOpen"
               PROVE  /\ Flying(calls)' \subseteq recent'
                      /\ cb'.successes <= good' /\ cb'.successes < MaxRequests
    BY DEF Probing
  <2>1. Flying(calls) \subseteq recent /\ cb.successes <= good /\ cb.successes < MaxRequests
    BY <1>1 DEF Sound, Probing
  <2>2. cb.successes \in Nat /\ good \in 0..MaxRequests /\ c \in recent
    BY <1>1, <2>1 DEF Breakers, TypeOK
  <2>3. healthy /\ cb'.successes = cb.successes + 1 /\ cb'.successes < MaxRequests
    OBVIOUS
  <2>4. cb'.successes <= good'
    <3>1. CASE good < MaxRequests
      BY <1>2, <2>1, <2>2, <2>3, <3>1
    <3>2. CASE good = MaxRequests
      BY <1>2, <2>2, <2>3, <3>2
    <3> QED
      BY <2>2, <3>1, <3>2
  <2> QED
    BY <1>2, <1>3, <2>1, <2>3, <2>4
<1>7. Resting(cb, calls)'
  BY <1>1, <1>2 DEF Resting
<1> QED
  BY <1>3, <1>4, <1>5, <1>6, <1>7 DEF Inv, Sound

\* A success closes a half-open breaker, if it is the last one needed.
LEMMA SuccessInv ==
  ASSUME Inv, NEW c \in Callers, Return(c), Counts(c), healthy
  PROVE  /\ Inv'
         /\ cb.state # "closed" /\ cb'.state = "closed" => good' >= MaxRequests
<1> DEFINE n == [cb EXCEPT !.successes = @ + 1]
<1>1. /\ TypeOK /\ Sound(cb, calls) /\ cb \in Breakers /\ cb.state # "open"
      /\ c \in Flying(calls) /\ rest = Timeout + 1
  BY CountedIs DEF Inv, Sound
<1>2. cb' = IF cb.state = "halfOpen" /\ n.successes >= MaxRequests THEN Generation("closed") ELSE n
  BY CountedIs DEF Succeeded
<1>3. n = [state |-> cb.state, requests |-> cb.requests, successes |-> cb.successes + 1,
           failures |-> cb.failures, left |-> cb.left]
  BY <1>1, Counting
<1> HIDE DEF n
<1>4. /\ n \in Breakers /\ n.state = cb.state /\ n.requests = cb.requests
      /\ n.successes = cb.successes + 1 /\ n.failures = cb.failures
      /\ cb.successes \in Nat /\ cb.failures \in Nat
  BY <1>1, <1>3 DEF Breakers
<1>5. CASE cb.state = "halfOpen" /\ n.successes >= MaxRequests
  <2>1. cb' = Generation("closed") /\ cb'.state = "closed"
    BY <1>2, <1>5, GenerationIs
  <2>2. Inv'
    BY <1>5, <2>1, TurnInv
  <2>3. c \in recent /\ cb.successes <= good /\ good \in 0..MaxRequests
    BY <1>1, <1>5 DEF Sound, Probing, TypeOK
  <2>4. /\ good' \in 0..MaxRequests /\ good' >= good
        /\ good < MaxRequests => good' = good + 1
    BY <2>1, <2>3, ReturnRecords
  <2>5. good' >= MaxRequests
    BY <1>4, <1>5, <2>3, <2>4
  <2> QED
    BY <2>2, <2>5
<1>6. CASE ~(cb.state = "halfOpen" /\ n.successes >= MaxRequests)
  <2>1. cb' = n
    BY <1>2, <1>6
  <2>2. Tolerant(cb)'
    BY <1>1, <1>4, <2>1 DEF Sound, Tolerant
  <2>3. cb.state = "halfOpen" => cb'.successes < MaxRequests
    BY <1>4, <1>6, <2>1
  <2>4. cb'.successes + cb'.failures = cb.successes + cb.failures + 1
    BY <1>4, <2>1
  <2>5. cb' \in Breakers /\ cb'.state = cb.state /\ cb'.requests = cb.requests
        /\ cb'.successes = cb.successes + 1
    BY <1>4, <2>1
  <2>6. Inv'
    BY <2>2, <2>3, <2>4, <2>5, CountedInv
  <2> QED
    BY <2>5, <2>6
<1> QED
  BY <1>5, <1>6

\* A failure opens a half-open breaker, and a closed one that is ready to trip.
LEMMA FailureInv ==
  ASSUME Inv, NEW c \in Callers, Return(c), Counts(c), ~healthy
  PROVE  /\ Inv'
         /\ cb.state # "closed" => cb'.state # "closed"
<1> DEFINE n == [cb EXCEPT !.failures = @ + 1]
<1>1. Sound(cb, calls) /\ cb \in Breakers /\ cb.state # "open"
  BY CountedIs DEF Inv, Sound
<1>2. cb' = IF cb.state = "halfOpen" \/ ReadyToTrip(n) THEN Generation("open") ELSE n
  BY CountedIs DEF Failed
<1>3. n = [state |-> cb.state, requests |-> cb.requests, successes |-> cb.successes,
           failures |-> cb.failures + 1, left |-> cb.left]
  BY <1>1, Counting
<1> HIDE DEF n
<1>4. /\ n \in Breakers /\ n.state = cb.state /\ n.requests = cb.requests
      /\ n.successes = cb.successes /\ n.failures = cb.failures + 1
      /\ cb.successes \in Nat /\ cb.failures \in Nat /\ cb.requests \in Nat
  BY <1>1, <1>3 DEF Breakers
<1>5. CASE cb.state = "halfOpen" \/ ReadyToTrip(n)
  <2>1. cb' = Generation("open") /\ cb'.state = "open"
    BY <1>2, <1>5, GenerationIs
  <2>2. Inv'
    BY <1>1, <2>1, TurnInv
  <2> QED
    BY <2>1, <2>2
<1>6. CASE ~(cb.state = "halfOpen" \/ ReadyToTrip(n))
  <2>1. cb' = n
    BY <1>2, <1>6
  <2>2. \/ cb.requests < MinRequests
        \/ 2 * n.failures < cb.requests
    BY <1>4, <1>6 DEF ReadyToTrip
  <2>3. cb.failures + 1 <= cb.requests
    <3>1. cb.requests = cb.successes + cb.failures + Cardinality(Flying(calls))
      BY <1>1 DEF Sound, Accounted
    <3>2. Cardinality(Flying(calls)) \in Nat \ {0}
      <4>1. Flying(calls) # {}
        BY CountedIs
      <4> QED
        BY <4>1, FlyingFinite, FS_EmptySet
    <3> QED
      BY <1>4, <3>1, <3>2
  <2>4. Tolerant(cb)'
    BY <1>4, <2>1, <2>2, <2>3 DEF Tolerant
  <2>5. /\ cb' \in Breakers /\ cb'.state = cb.state /\ cb'.requests = cb.requests
        /\ cb'.successes + cb'.failures = cb.successes + cb.failures + 1
    BY <1>4, <2>1
  <2>6. Inv'
    BY <1>6, <2>4, <2>5, CountedInv
  <2> QED
    BY <2>5, <2>6
<1> QED
  BY <1>5, <1>6

LEMMA TickInv ==
  ASSUME Inv, Tick
  PROVE  Inv' /\ cb'.state = cb.state
<1>1. TypeOK /\ Sound(cb, calls) /\ cb \in Breakers
  BY DEF Inv, Sound
<1>2. /\ cb' \in Breakers /\ cb'.state = cb.state /\ cb'.requests = cb.requests
      /\ cb'.successes = cb.successes /\ cb'.failures = cb.failures
      /\ cb'.left = IF cb.state # "halfOpen" /\ ~Over THEN cb.left - 1 ELSE cb.left
  <2>1. CASE cb.state # "halfOpen" /\ ~Over
    <3>1. cb' = [state |-> cb.state, requests |-> cb.requests, successes |-> cb.successes,
                 failures |-> cb.failures, left |-> cb.left - 1]
      BY <1>1, <2>1, Counting DEF Tick
    <3> QED
      BY <1>1, <2>1, <3>1 DEF Breakers
  <2>2. CASE ~(cb.state # "halfOpen" /\ ~Over)
    BY <1>1, <2>2 DEF Tick
  <2> QED
    BY <2>1, <2>2
<1>3. /\ UNCHANGED <<calls, healthy, recent, good>>
      /\ rest' = IF rest <= Timeout THEN rest + 1 ELSE rest
  BY DEF Tick
<1>4. Flying(calls)' = Flying(calls)
  BY <1>3 DEF Flying
<1>5. TypeOK'
  BY <1>1, <1>2, <1>3 DEF TypeOK, Breakers
<1>6. Accounted(cb, calls)' /\ Tolerant(cb)' /\ Probing(cb, calls)'
  BY <1>1, <1>2, <1>3, <1>4 DEF Sound, Accounted, Tolerant, Probing
<1>7. Resting(cb, calls)'
  <2>1. CASE cb.state = "open"
    <3>1. rest = Timeout - cb.left /\ Flying(calls) = {} /\ cb.left \in Int /\ rest \in 0..(Timeout + 1)
      BY <1>1, <2>1 DEF Sound, Resting, Breakers, TypeOK
    <3>2. rest' = Timeout - cb'.left
      BY <1>2, <1>3, <2>1, <3>1 DEF Over
    <3> QED
      BY <1>2, <1>4, <2>1, <3>1, <3>2 DEF Resting
  <2>2. CASE cb.state # "open"
    <3>1. rest = Timeout + 1 /\ rest' = rest
      BY <1>1, <1>3, <2>2 DEF Sound, Resting
    <3> QED
      BY <1>2, <2>2, <3>1 DEF Resting
  <2> QED
    BY <2>1, <2>2
<1> QED
  BY <1>1, <1>2, <1>3, <1>5, <1>6, <1>7 DEF Inv, Sound

LEMMA QuietInv ==
  ASSUME Inv, UNCHANGED <<cb, calls, history>>, healthy' \in BOOLEAN
  PROVE  Inv'
<1>1. TypeOK'
  BY DEF Inv, TypeOK, history
<1>2. Flying(calls)' = Flying(calls)
  BY DEF Flying
<1>3. Sound(cb, calls)'
  BY <1>2 DEF Inv, Sound, Accounted, Tolerant, Probing, Resting, history
<1> QED
  BY <1>1, <1>3 DEF Inv

LEMMA NextInv == Inv /\ [Next]_vars => Inv'
<1> SUFFICES ASSUME Inv, [Next]_vars PROVE Inv'
  OBVIOUS
<1>1. ASSUME NEW c \in Callers, Return(c) PROVE Inv'
  BY <1>1, IgnoredInv, SuccessInv, FailureInv
<1>2. CASE ServiceChanges
  BY <1>2, QuietInv DEF ServiceChanges
<1>3. CASE UNCHANGED vars
  <2>1. healthy' \in BOOLEAN
    BY <1>3 DEF vars, Inv, TypeOK
  <2> QED
    BY <1>3, <2>1, QuietInv DEF vars
<1> QED
  BY <1>1, <1>2, <1>3, ExecuteInv, TickInv DEF Next

-----------------------------------------------------------------------------
(* Theorems.                                                               *)

\* Every variable keeps its type, counts of the breaker included.
THEOREM TypeCorrect == Spec => []TypeOK
<1>1. Inv => TypeOK
  BY DEF Inv
<1> QED
  BY <1>1, InitInv, NextInv, PTL DEF Spec

\* ReadyToTrip is asked only when a call fails, and counts calls in flight as
\* requests: still, whatever is late, failures of a closed breaker stay below
\* successes and calls in flight once they are too many to ignore.
THEOREM FailuresBounded == Spec => []FailuresTolerated
<1>1. Inv => FailuresTolerated
  <2> SUFFICES ASSUME Inv, cb.state = "closed"
               PROVE  \/ cb.failures < MinRequests
                      \/ cb.failures < cb.successes + Cardinality(InFlight)
    BY DEF FailuresTolerated
  <2>1. InFlight = Flying(calls)
    BY DEF InFlight, Flying
  <2>2. /\ cb.requests = cb.successes + cb.failures + Cardinality(Flying(calls))
        /\ cb.failures < MinRequests \/ 2 * cb.failures < cb.requests
    BY DEF Inv, Sound, Accounted, Tolerant
  <2>3. /\ cb.successes \in Nat /\ cb.failures \in Nat
        /\ Cardinality(Flying(calls)) \in Nat
    BY FlyingFinite DEF Inv, Sound, Breakers
  <2> QED
    BY <2>1, <2>2, <2>3
<1> QED
  BY <1>1, InitInv, NextInv, PTL DEF Spec

\* An open or half-open breaker is closed by MaxRequests successful calls that began
\* after it opened, never by the late answer of an earlier one.
THEOREM ProbesClose == Spec => ClosedByProbes
<1>1. Inv /\ [Next]_vars => [cb.state # "closed" /\ cb'.state = "closed" => good' >= MaxRequests]_vars
  <2> SUFFICES ASSUME Inv, Next, cb.state # "closed", cb'.state = "closed"
               PROVE  good' >= MaxRequests
    OBVIOUS
  <2>1. CurrentState.state # "closed"
    <3>1. cb \in Breakers
      BY DEF Inv, Sound
    <3> QED
      BY <3>1, GenerationIs DEF CurrentState
  <2>2. ASSUME NEW c \in Callers, Execute(c) PROVE FALSE
    <3>1. CurrentState \in Breakers
      BY FoundSound DEF Sound
    <3>2. [CurrentState EXCEPT !.requests = @ + 1].state = CurrentState.state
      BY <3>1, Counting
    <3> QED
      BY <2>1, <2>2, <3>2 DEF Execute
  <2>3. ASSUME NEW c \in Callers, Return(c) PROVE good' >= MaxRequests
    <3>1. CASE ~Counts(c)
      BY <2>1, <2>3, <3>1, IgnoredInv
    <3>2. CASE Counts(c)
      BY <2>3, <3>2, SuccessInv, FailureInv
    <3> QED
      BY <3>1, <3>2
  <2>4. CASE Tick
    BY <2>4, TickInv
  <2>5. CASE ServiceChanges
    BY <2>5 DEF ServiceChanges
  <2> QED
    BY <2>2, <2>3, <2>4, <2>5 DEF Next
<1> QED
  BY <1>1, InitInv, NextInv, PTL DEF Spec, ClosedByProbes

\* A service that has tripped the breaker gets no call until Timeout is exceeded.
THEOREM OpenRests == Spec => RestsAfterTrip
<1>1. Inv /\ [Next]_vars =>
        [(\E c \in Callers : calls[c] = "none" /\ calls'[c] # "none") => rest > Timeout]_vars
  <2> SUFFICES ASSUME Inv, Next, NEW c \in Callers, calls[c] = "none", calls'[c] # "none"
               PROVE  rest > Timeout
    OBVIOUS
  <2>1. TypeOK
    BY DEF Inv
  <2>2. ASSUME NEW d \in Callers, Execute(d) PROVE rest > Timeout
    <3>1. rest = Timeout + 1
      BY <2>2, FoundSound DEF Execute, Admits
    <3> QED
      BY <3>1
  <2>3. ASSUME NEW d \in Callers, Return(d) PROVE FALSE
    BY <2>1, <2>3 DEF Return, CurrentCalls, Outdated, TypeOK
  <2>4. CASE Tick \/ ServiceChanges
    BY <2>4 DEF Tick, ServiceChanges
  <2> QED
    BY <2>2, <2>3, <2>4 DEF Next
<1> QED
  BY <1>1, InitInv, NextInv, PTL DEF Spec, RestsAfterTrip

-----------------------------------------------------------------------------
(* A half-open breaker goes on.                                            *)

\* None of its calls has failed, and it has let MaxRequests through at most.
Limited(b) == b.state = "halfOpen" => b.failures = 0 /\ b.requests <= MaxRequests

LEMMA NextLimited == Inv /\ Limited(cb) /\ [Next]_vars => Limited(cb)'
<1> SUFFICES ASSUME Inv, Limited(cb), [Next]_vars PROVE Limited(cb)'
  OBVIOUS
<1> DEFINE b == CurrentState
<1>1. cb \in Breakers
  BY DEF Inv, TypeOK, Breakers
<1>2. b \in Breakers /\ Limited(b)
  <2>1. \A s \in States : Limited(Generation(s))
    BY GenerationIs DEF Limited
  <2> QED
    BY <1>1, <2>1, FoundSound DEF CurrentState, Sound
<1> HIDE DEF b
<1>3. ASSUME NEW c \in Callers, Execute(c) PROVE Limited(cb)'
  <2>1. Admits(b) /\ cb' = [b EXCEPT !.requests = @ + 1]
    BY <1>3 DEF Execute, b
  <2>2. cb'.state = b.state /\ cb'.requests = b.requests + 1 /\ cb'.failures = b.failures
    BY <1>2, <2>1, Counting
  <2> QED
    BY <1>2, <2>1, <2>2 DEF Limited, Admits, Breakers
<1>4. ASSUME NEW c \in Callers, Return(c) PROVE Limited(cb)'
  <2>1. cb' = b \/ cb' = Succeeded(b) \/ cb' = Failed(b)
    BY <1>4 DEF Return, Result, b
  <2>2. Limited(Succeeded(b))
    <3> DEFINE n == [b EXCEPT !.successes = @ + 1]
    <3>1. n.state = b.state /\ n.requests = b.requests /\ n.failures = b.failures
      BY <1>2, Counting
    <3>2. Succeeded(b) = n \/ Succeeded(b) = Generation("closed")
      BY DEF Succeeded
    <3> HIDE DEF n
    <3> QED
      BY <1>2, <3>1, <3>2, GenerationIs DEF Limited
  <2>3. Limited(Failed(b))
    <3> DEFINE n == [b EXCEPT !.failures = @ + 1]
    <3>1. n.state = b.state
      BY <1>2, Counting
    <3>2. (b.state # "halfOpen" /\ Failed(b) = n) \/ Failed(b) = Generation("open")
      BY DEF Failed
    <3> HIDE DEF n
    <3> QED
      BY <3>1, <3>2, GenerationIs DEF Limited
  <2> QED
    BY <1>2, <2>1, <2>2, <2>3 DEF Limited
<1>5. CASE Tick
  <2>1. cb' = cb \/ cb' = [cb EXCEPT !.left = @ - 1]
    BY <1>5 DEF Tick
  <2> QED
    BY <1>1, <2>1, Counting DEF Limited
<1>6. CASE ServiceChanges \/ UNCHANGED vars
  BY <1>6 DEF ServiceChanges, vars, Limited
<1> QED
  BY <1>3, <1>4, <1>5, <1>6 DEF Next

\* A half-open breaker never has more than MaxRequests calls in flight, and is never
\* stuck, though its generation does not expire: it admits a call, or waits for one of
\* its own, whose result either opens it or leads on to closing it.
HalfOpenServes ==
  cb.state = "halfOpen" =>
    /\ Cardinality(InFlight) <= MaxRequests
    /\ cb.requests < MaxRequests \/ InFlight # {}

LEMMA LimitedServes == Inv /\ Limited(cb) => HalfOpenServes
<1> SUFFICES ASSUME Inv, Limited(cb), cb.state = "halfOpen"
             PROVE  /\ Cardinality(InFlight) <= MaxRequests
                    /\ cb.requests < MaxRequests \/ InFlight # {}
  BY DEF HalfOpenServes
<1>1. cb \in Breakers /\ cb.successes < MaxRequests /\ cb.failures = 0 /\ cb.requests <= MaxRequests
  BY DEF Inv, Sound, Probing, Limited
<1>2. /\ cb.requests = cb.successes + cb.failures + Cardinality(InFlight)
      /\ Cardinality(InFlight) \in Nat
  <2>1. InFlight = Flying(calls)
    BY DEF InFlight, Flying
  <2> QED
    BY <2>1, FlyingFinite DEF Inv, Sound, Accounted
<1>3. Cardinality(InFlight) = 0 => cb.requests < MaxRequests
  BY <1>1, <1>2 DEF Breakers
<1>4. InFlight = {} => Cardinality(InFlight) = 0
  BY FS_EmptySet
<1> QED
  BY <1>1, <1>2, <1>3, <1>4 DEF Breakers

\* The safety behind Recovers: no half-open breaker is ever out of moves.
THEOREM HalfOpenNeverStuck == Spec => []HalfOpenServes
<1>1. Init => Inv /\ Limited(cb)
  BY InitInv, GenerationIs DEF Init, Limited
<1>2. Inv /\ Limited(cb) /\ [Next]_vars => (Inv /\ Limited(cb))'
  BY NextInv, NextLimited
<1> QED
  BY <1>1, <1>2, LimitedServes, PTL DEF Spec
=============================================================================
