----------------------------- MODULE RateLimiter -----------------------------
(***************************************************************************)
(* The gateway's sliding-window rate limiter: a map from a key to the      *)
(* times of its admitted requests.  A mutex makes every call, and every    *)
(* round of the cleanup goroutine, a single step.  The key is what         *)
(* Middleware makes of a request: its RemoteAddr, which has the port of    *)
(* the connection, or what the client has put into X-Forwarded-For.  So a  *)
(* key is not a client: the limit holds for what comes under one key.      *)
(* A key that is not in the map reads as an empty list.  The entries of a  *)
(* list are numbered here, so that a set stands for the slice: nothing     *)
(* depends on the order, and two requests may have the same time.          *)
(***************************************************************************)
EXTENDS Naturals, FiniteSets

CONSTANTS
  Keys,     \* the keys of the map: connections, or values of X-Forwarded-For
  Limit,    \* how many requests may come under one key
  Window,   \* in how much time
  MaxTime   \* bound on the clock

ASSUME LimiterAssumption == Limit \in Nat /\ Window \in Nat /\ MaxTime \in Nat

VARIABLES
  now,       \* the (monotonic) clock
  requests,  \* rateLimiter.requests
  admitted   \* history: every request that was let through

vars == <<now, requests, admitted>>

Init ==
  /\ now = 0
  /\ requests = [c \in Keys |-> {}]
  /\ admitted = [c \in Keys |-> {}]

\* The entries of E that are after the cutoff, now - Window.
After(E) == {e \in E : e.at + Window > now}

\* Faulty variant: the entry holds the time it stops counting.
NewEntryWithDeadline(c) == [no |-> Cardinality(admitted[c]) + 1, at |-> now + Window]

\* One more admitted request of c, made now.
NewEntry(c) == [no |-> Cardinality(admitted[c]) + 1, at |-> now]

\* Faulty variant: > where the code has >=.
FullTooLate(c) == Cardinality(After(requests[c])) > Limit

\* len(valid) >= limit
Full(c) == Cardinality(After(requests[c])) >= Limit

\* Allow(c) answers true.
Admit(c) ==
  /\ ~Full(c)
  /\ requests' = [requests EXCEPT ![c] = After(@) \cup {NewEntry(c)}]
  /\ admitted' = [admitted EXCEPT ![c] = @ \cup {NewEntry(c)}]
  /\ UNCHANGED now

\* Faulty variant: the refused request is recorded as well.
RefuseAndRecord(c) ==
  /\ Full(c)
  /\ requests' = [requests EXCEPT ![c] = After(@) \cup {NewEntry(c)}]
  /\ UNCHANGED <<now, admitted>>

\* Allow(c) answers false.
Refuse(c) ==
  /\ Full(c)
  /\ requests' = [requests EXCEPT ![c] = After(@)]
  /\ UNCHANGED <<now, admitted>>

Cleanup ==
  /\ requests' = [c \in Keys |-> After(requests[c])]
  /\ UNCHANGED <<now, admitted>>

Tick ==
  /\ now < MaxTime
  /\ now' = now + 1
  /\ UNCHANGED <<requests, admitted>>

Next == (\E c \in Keys : Admit(c) \/ Refuse(c)) \/ Cleanup \/ Tick

Spec == Init /\ [][Next]_vars

-----------------------------------------------------------------------------

Entries == [no : Nat, at : 0..now]

TypeOK ==
  /\ now \in 0..MaxTime
  /\ requests \in [Keys -> SUBSET Entries]
  /\ admitted \in [Keys -> SUBSET Entries]

\* What was let through under c in the Window that ends at t.
Passed(c, t) == {e \in admitted[c] : e.at <= t /\ t < e.at + Window}

\* No window of time, wherever it ends, has let through more than Limit
\* requests under one key, whenever the cleanup runs in between (ratelimit.go:26).
WithinLimit ==
  \A c \in Keys, t \in 0..now : Cardinality(Passed(c, t)) <= Limit

\* A request is refused only if Limit others were let through under its key in the
\* window that ends now: refused and forgotten requests do not count
\* (ratelimit.go:41).
RefusedOnlyAtLimit ==
  \A c \in Keys : Full(c) => Cardinality(Passed(c, now)) = Limit
=============================================================================
