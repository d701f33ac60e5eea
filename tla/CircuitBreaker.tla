--------------------------- MODULE CircuitBreaker ---------------------------
(***************************************************************************)
(* The circuit breaker between the gateway and one of its services: the    *)
(* interceptor that wraps every unary call (gateway/cmd/main.go), the      *)
(* configuration (pkg/circuitbreaker), and the state machine of the        *)
(* library gobreaker they drive.                                           *)
(*                                                                         *)
(* The library holds its mutex before and after a call, never during it,   *)
(* so each call is two steps, and any number of calls are in flight.  Each *)
(* change of state, and each interval while closed, begins a generation    *)
(* with counts of zero; results of calls of earlier generations are        *)
(* ignored.  A generation that is over is noticed at the next call only.   *)
(***************************************************************************)
EXTENDS Integers, FiniteSets

CONSTANTS
  Callers,      \* requests of the gateway that call the service
  MaxRequests,  \* probes let through while half-open
  MinRequests,  \* requests before the failure ratio counts
  Interval,     \* length of a generation while closed
  Timeout,      \* time the breaker stays open
  MaxCount      \* bound on the requests of one generation

ASSUME CallersAssumption == IsFiniteSet(Callers)
ASSUME ConfigAssumption ==
  /\ MaxRequests \in Nat \ {0} /\ MinRequests \in Nat \ {0}
  /\ Interval \in Nat \ {0} /\ Timeout \in Nat \ {0}
  /\ MaxCount \in Nat

VARIABLES
  cb,       \* the breaker: its state, its counts, the time left of its generation
  calls,    \* for each caller, whether it has a call in flight, and of which generation
  healthy,  \* whether the service answers without error
  recent,   \* history: the callers whose call began after the breaker last opened
  good,     \* history: how many of their calls have succeeded since
  rest      \* history: the time since the breaker last opened, up to Timeout + 1

history == <<recent, good, rest>>
vars    == <<cb, calls, healthy, history>>

States      == {"closed", "open", "halfOpen"}
Generations == {"none", "current", "stale"}

\* Faulty variant: the time to stay open is not set.
GenerationAtOnce(s) ==
  [state |-> s, requests |-> 0, successes |-> 0, failures |-> 0,
   left |-> IF s = "closed" THEN Interval ELSE 0]

\* toNewGeneration.  A half-open generation does not expire.
Generation(s) ==
  [state |-> s, requests |-> 0, successes |-> 0, failures |-> 0,
   left |-> IF s = "closed" THEN Interval ELSE IF s = "open" THEN Timeout ELSE 0]

Init ==
  /\ cb = Generation("closed")
  /\ calls = [c \in Callers |-> "none"]
  /\ healthy = TRUE
  /\ recent = {} /\ good = 0 /\ rest = Timeout + 1

-----------------------------------------------------------------------------

\* currentState: what a call that begins or ends now finds.
Over == cb.left < 0

CurrentState ==
  IF ~Over THEN cb ELSE Generation(IF cb.state = "closed" THEN "closed" ELSE "halfOpen")

\* Faulty variant: the other callers are forgotten.
OutdatedOnly(f) == [c \in {d \in Callers : f[d] = "current"} |-> "stale"]

\* The calls in flight when a generation begins belong to an earlier one.
Outdated(f) == [c \in Callers |-> IF f[c] = "current" THEN "stale" ELSE f[c]]

CurrentCalls == IF Over THEN Outdated(calls) ELSE calls

InFlight == {c \in Callers : calls[c] = "current"}

Admits(b) ==
  \/ b.state = "closed"
  \/ b.state = "halfOpen" /\ b.requests < MaxRequests

\* beforeRequest.  A call that is not admitted fails at once, and changes nothing.
Execute(c) ==
  /\ calls[c] = "none"
  /\ Admits(CurrentState) /\ CurrentState.requests < MaxCount
  /\ cb' = [CurrentState EXCEPT !.requests = @ + 1]
  /\ calls' = [CurrentCalls EXCEPT ![c] = "current"]
  /\ recent' = recent \cup {c}
  /\ UNCHANGED <<healthy, good, rest>>

\* Faulty variant: the ratio is looked at only once there are more requests.
ReadyToTripLate(b) == b.requests > MinRequests /\ 2 * b.failures >= b.requests

\* Half of the requests have failed, those still in flight included.
ReadyToTrip(b) == b.requests >= MinRequests /\ 2 * b.failures >= b.requests

\* Faulty variant: off by one.
SucceededOften(b) ==
  LET n == [b EXCEPT !.successes = @ + 1] IN
  IF b.state = "halfOpen" /\ n.successes > MaxRequests THEN Generation("closed") ELSE n

Succeeded(b) ==
  LET n == [b EXCEPT !.successes = @ + 1] IN
  IF b.state = "halfOpen" /\ n.successes >= MaxRequests THEN Generation("closed") ELSE n

Failed(b) ==
  LET n == [b EXCEPT !.failures = @ + 1] IN
  IF b.state = "halfOpen" \/ ReadyToTrip(n) THEN Generation("open") ELSE n

\* Faulty variant: a result counts, whenever its call began.
CountsAlways(c) == CurrentState.state # "open"

\* The call is of the present generation.
Counts(c) == CurrentCalls[c] = "current"

Result == IF healthy THEN Succeeded(CurrentState) ELSE Failed(CurrentState)

\* afterRequest.
Return(c) ==
  /\ calls[c] # "none"
  /\ cb' = IF Counts(c) THEN Result ELSE CurrentState
  /\ calls' = [(IF cb'.state # CurrentState.state THEN Outdated(calls) ELSE CurrentCalls)
                 EXCEPT ![c] = "none"]
  /\ IF cb'.state = "open" /\ cb.state # "open"
     THEN recent' = {} /\ good' = 0 /\ rest' = 0
     ELSE /\ recent' = recent \ {c}
          /\ good' = IF healthy /\ c \in recent /\ good < MaxRequests THEN good + 1 ELSE good
          /\ UNCHANGED rest
  /\ UNCHANGED healthy

\* Time goes on.  The generation is over when its time is exceeded.
Tick ==
  /\ cb' = IF cb.state # "halfOpen" /\ ~Over THEN [cb EXCEPT !.left = @ - 1] ELSE cb
  /\ rest' = IF rest <= Timeout THEN rest + 1 ELSE rest
  /\ UNCHANGED <<calls, healthy, recent, good>>

\* The service stops, recovers, or is sent requests that it refuses: the breaker
\* takes every error for a failure.
ServiceChanges ==
  /\ healthy' = ~healthy
  /\ UNCHANGED <<cb, calls, history>>

Next ==
  \/ \E c \in Callers : Execute(c) \/ Return(c)
  \/ Tick \/ ServiceChanges

Spec == Init /\ [][Next]_vars

\* Time goes on; calls return, at the latest when their client has gone away, as
\* the gateway sets no deadline; and there are always clients that call.
Fairness ==
  /\ WF_vars(Tick)
  /\ \A c \in Callers : WF_vars(Return(c))
  /\ WF_vars(\E c \in Callers : Execute(c))

FairSpec == Spec /\ Fairness

-----------------------------------------------------------------------------
(* Properties.                                                              *)

TypeOK ==
  /\ cb \in [state : States, requests : Nat, successes : Nat, failures : Nat, left : Int]
  /\ calls \in [Callers -> Generations]
  /\ healthy \in BOOLEAN
  /\ recent \subseteq Callers
  /\ good \in 0..MaxRequests
  /\ rest \in 0..(Timeout + 1)

\* README.md:274, more than half of failures trip the breaker, as far as the code
\* keeps it: while it is closed, failures are outnumbered by successes and calls
\* in flight, or too few to judge.  Calls that hang are as good as successes.
FailuresTolerated ==
  cb.state = "closed" =>
    \/ cb.failures < MinRequests
    \/ cb.failures < cb.successes + Cardinality(InFlight)

\* The breaker closes only when MaxRequests calls that began after it opened have
\* succeeded: late answers of calls from before do not close it.
ClosedByProbes ==
  [][cb.state # "closed" /\ cb'.state = "closed" => good' >= MaxRequests]_vars

\* A service that has tripped the breaker gets no call until Timeout is exceeded.
RestsAfterTrip ==
  [][(\E c \in Callers : calls[c] = "none" /\ calls'[c] # "none") => rest > Timeout]_vars

\* When the service has recovered for good, so does the breaker, whatever calls are
\* still in flight.
Recovers == <>[]healthy => <>[](cb.state = "closed")

=============================================================================
