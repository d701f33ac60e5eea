----------------------------- MODULE Reservation -----------------------------
(***************************************************************************)
(* The reservation service (services/reservation) together with the two    *)
(* gateway handlers that write its table and its Redis locks directly      *)
(* (ConfirmBookingPayment and ReservationHistory in services/gateway).     *)
(*                                                                         *)
(* Requests are served by concurrent handlers.  A handler is a sequence of *)
(* calls to PostgreSQL, Redis and the message broker; each call is one     *)
(* action, so other handlers, the expiry job and the clock run between any *)
(* two calls.  pc[p] names the call that p makes next, and job[p] holds    *)
(* the local variables that p uses in the calls still to come.  Requests   *)
(* that the code refuses without writing anything are guards here.         *)
(***************************************************************************)
EXTENDS Naturals, FiniteSets

CONSTANTS
  Ids,             \* reservation ids (uuids)
  Drivers,
  Keys,            \* idempotency keys clients choose, for either operation
  Workers,         \* request handlers in flight at the same time
  Cron,            \* the goroutine of the expiry job
  NumSpots,        \* parking spots of the requested vehicle type
  PaymentTimeout,  \* domain.PaymentTimeout: lock TTL and time left to pay
  HoldDuration,    \* domain.HoldDuration: time left to check in
  MaxTime,         \* bound on the clock
  ConfirmPaths,    \* which confirmation runs: "gateway", "usecase" or both
  Faults,          \* which faults occur: "crash", "drop", "lostReply"
  MaxFaults,       \* bound on their number
  None             \* no id, no driver, no key

Procs == Workers \cup {Cron}
Spots == 1..NumSpots      \* in the order (floor, number)

ASSUME SpotsAssumption == NumSpots \in Nat
ASSUME BoundsAssumption ==
  /\ PaymentTimeout \in Nat \ {0}
  /\ HoldDuration \in Nat \ {0}
  /\ PaymentTimeout <= HoldDuration
  /\ MaxTime \in Nat
  /\ MaxFaults \in Nat
ASSUME NamesAssumption ==
  /\ Cron \notin Workers
  /\ None \notin Ids \cup Drivers \cup Keys

VARIABLES
  now,        \* the clock all services and Redis share
  status,     \* reservations.status, "none" when there is no row
  row,        \* the columns of a row that are written once, on insertion
  expiresAt,  \* reservations.expires_at
  sessions,   \* how many times session_id has been (over)written, 0 for NULL
  lock,       \* Redis key spot:<id>:lock, a value with an expiry
  idem,       \* Redis key idempotency:<key>, the reservation id saved there
  pc,         \* the next call of each handler
  job,        \* the local variables of each handler
  due,        \* the rows the expiry job has still to expire in this round
  reached,    \* history: every status each row has been given
  lapsed,     \* history: the reservations whose lock Redis has dropped by its TTL
  extended,   \* history: those whose lock has been extended since they were confirmed
  disowned,   \* history: those inserted by an INSERT that was reported as failed
  sent,       \* history: what each key was sent with: None for a creation, or
              \* the reservation to check out
  faults      \* how many faults have occurred

db     == <<status, row, expiresAt, sessions, reached>>
redis  == <<lock, lapsed, idem>>
local  == <<pc, job, due, sent>>
holds  == <<extended, disowned>>
vars   == <<now, db, redis, local, holds, faults>>

Statuses == {"pending", "confirmed", "active", "completed", "cancelled", "expired"}
Calls    == {"idle", "Acquire", "Insert", "Undo", "Save", "Read", "Update", "Extend",
             "Relock", "Release", "loop"}

\* The status an operation leads to.
Target == [create |-> "pending", pay |-> "confirmed", confirm |-> "confirmed",
           cancel |-> "cancelled", checkIn |-> "active", checkOut |-> "completed",
           expire |-> "expired"]
Ops    == DOMAIN Target

NoRow   == [driver |-> None, key |-> None, spot |-> 0]
Rows    == [driver : Drivers, key : Keys, spot : Spots]
Free    == [holder |-> None, until |-> 0]
IdleJob == [op |-> "none", id |-> None, driver |-> None, key |-> None, spot |-> 0, since |-> 0]
Jobs    == [op : Ops \cup {"none"}, id : Ids \cup {None}, driver : Drivers \cup {None},
            key : Keys \cup {None}, spot : 0..NumSpots, since : Nat]

Init ==
  /\ now = 0
  /\ status = [r \in Ids |-> "none"]
  /\ row = [r \in Ids |-> NoRow]
  /\ expiresAt = [r \in Ids |-> 0]
  /\ sessions = [r \in Ids |-> 0]
  /\ lock = [s \in Spots |-> Free]
  /\ idem = [k \in Keys |-> None]
  /\ pc = [p \in Procs |-> "idle"]
  /\ job = [p \in Procs |-> IdleJob]
  /\ due = {}
  /\ reached = [r \in Ids |-> {}]
  /\ lapsed = {}
  /\ extended = {}
  /\ disowned = {}
  /\ sent = [k \in Keys |-> {}]
  /\ faults = 0

-----------------------------------------------------------------------------
(* Building blocks: control of a handler, and the calls it makes.          *)

\* A key sent with something else before counts as sent with everything.
Uses(old, new) == IF old \subseteq {new} THEN {new} ELSE Ids \cup {None}

Begin(w, call, j) ==
  /\ w \in Workers /\ pc[w] = "idle"
  /\ pc' = [pc EXCEPT ![w] = call]
  /\ job' = [job EXCEPT ![w] = j]
  /\ sent' = IF j.key = None THEN sent ELSE [sent EXCEPT ![j.key] = Uses(@, j.id)]
  /\ UNCHANGED due

\* f occurs, as one of the faults there is room for.
Fault(f) ==
  /\ f \in Faults /\ faults < MaxFaults
  /\ faults' = faults + 1

Goto(p, call) ==
  /\ pc' = [pc EXCEPT ![p] = call]
  /\ job' = IF call \in {"idle", "loop"} THEN [job EXCEPT ![p] = IdleJob]
                                         ELSE [job EXCEPT ![p].since = 0]
  /\ UNCHANGED <<due, sent>>

\* The call that follows the one p is about to make, when that one returns.
After(p) ==
  IF pc[p] = "Release" /\ job[p].op = "checkOut" THEN "Save"
  ELSE IF p = Cron /\ due # {} THEN "loop" ELSE "idle"

SetStatus(r, s) ==
  /\ status' = [status EXCEPT ![r] = s]
  /\ reached' = [reached EXCEPT ![r] = @ \cup {s}]

\* SET key value NX EX ttl on the spot's key.
SetNX(s, r, ttl) ==
  /\ lock[s] = Free
  /\ lock' = [lock EXCEPT ![s] = [holder |-> r, until |-> now + ttl]]
  /\ lapsed' = lapsed \ {r}

\* Faulty variant: a plain DEL, which does not look at the value.
ReleaseLockOfAnyone(s, r) ==
  lock' = [lock EXCEPT ![s] = Free]

\* The release script: delete the key if it still holds the caller's value.
ReleaseLock(s, r) ==
  lock' = [lock EXCEPT ![s] = IF @.holder = r THEN Free ELSE @]

\* Reservation ids that nothing refers to: what uuid.New() may return.
Fresh == {r \in Ids : /\ status[r] = "none"
                      /\ \A p \in Procs : job[p].id # r
                      /\ \A s \in Spots : lock[s].holder # r}

-----------------------------------------------------------------------------
(* CreateReservation.  spot = 0 asks the system to assign one.             *)

CreateRequest(w, d, k, s) ==
  /\ idem[k] = None     \* a hit returns the row with this key, and writes nothing
  /\ Begin(w, "Acquire", [op |-> "create", id |-> None, driver |-> d, key |-> k,
                          spot |-> s, since |-> 0])
  /\ UNCHANGED <<now, db, redis, holds, faults>>

\* The spot is found when the lock is asked for, as the code never writes the
\* spots table.  SELECT ... ORDER BY floor, number LIMIT 1 FOR UPDATE SKIP LOCKED
\* returns the first row, whether the spot is taken or not, unless statements
\* of the same kind hold that row, and those after it, for the time they run.
Finders == {p \in Procs : pc[p] = "Acquire" /\ job[p].spot = 0}

Findable(w) ==
  IF job[w].spot # 0 THEN {job[w].spot}
  ELSE {s \in Spots : s <= Cardinality(Finders)}

Acquire(w) ==
  /\ pc[w] = "Acquire"
  /\ \E s \in Findable(w), r \in Fresh :
       /\ SetNX(s, r, PaymentTimeout)
       /\ job' = [job EXCEPT ![w] = [op |-> "create", id |-> r, driver |-> @.driver,
                                     key |-> @.key, spot |-> s, since |-> now]]
  /\ pc' = [pc EXCEPT ![w] = "Insert"]
  /\ UNCHANGED <<now, db, idem, due, sent, holds, faults>>

\* The lock is taken, or the other statements hold every row.
SpotUnavailable(w) ==
  /\ pc[w] = "Acquire"
  /\ \/ \E s \in Findable(w) : lock[s] # Free
     \/ job[w].spot = 0 /\ NumSpots < Cardinality(Finders)
  /\ Goto(w, "idle")
  /\ UNCHANGED <<now, db, redis, holds, faults>>

KeyTaken(k) == \E r \in Ids : row[r].key = k

\* expires_at is counted from a clock reading taken between the two calls.
InsertRow(w) ==
  LET j == job[w] IN
  /\ ~KeyTaken(j.key)
  /\ row' = [row EXCEPT ![j.id] = [driver |-> j.driver, key |-> j.key, spot |-> j.spot]]
  /\ \E t \in j.since..now : expiresAt' = [expiresAt EXCEPT ![j.id] = t + PaymentTimeout]
  /\ SetStatus(j.id, "pending")
  /\ UNCHANGED sessions

Insert(w) ==
  /\ pc[w] = "Insert"
  /\ InsertRow(w)
  /\ Goto(w, "Save")
  /\ UNCHANGED <<now, redis, holds, faults>>

\* Faulty variant: the handler goes on after the error.
InsertFailsAndSaves(w) ==
  /\ pc[w] = "Insert"
  /\ KeyTaken(job[w].key)
  /\ Goto(w, "Save")
  /\ UNCHANGED <<now, db, redis, holds, faults>>

\* Faulty variant: the handler returns the error at once.
InsertFailsForGood(w) ==
  /\ pc[w] = "Insert"
  /\ KeyTaken(job[w].key)
  /\ Goto(w, "idle")
  /\ UNCHANGED <<now, db, redis, holds, faults>>

\* The statement fails (the key is taken, or the call does), or it commits and
\* its reply is lost.  The handler cannot tell, and gives the lock back.
InsertFails(w) ==
  /\ pc[w] = "Insert"
  /\ \/ KeyTaken(job[w].key) /\ UNCHANGED <<db, disowned, faults>>
     \/ Fault("drop") /\ UNCHANGED <<db, disowned>>
     \/ Fault("lostReply") /\ InsertRow(w) /\ disowned' = disowned \cup {job[w].id}
  /\ Goto(w, "Undo")
  /\ UNCHANGED <<now, redis, extended>>

Undo(w) ==
  /\ pc[w] = "Undo"
  /\ ReleaseLock(job[w].spot, job[w].id)
  /\ Goto(w, "idle")
  /\ UNCHANGED <<now, db, lapsed, idem, holds, faults>>

Save(p) ==
  /\ pc[p] = "Save"
  /\ idem' = [idem EXCEPT ![job[p].key] = job[p].id]
  /\ Goto(p, After(p))
  /\ UNCHANGED <<now, db, lock, lapsed, holds, faults>>

-----------------------------------------------------------------------------
(* Confirmation.  "pay" is the gateway's ConfirmBookingPayment, which needs *)
(* some settled transaction, of any reservation; "confirm" is the use case  *)
(* ConfirmReservation.                                                      *)

JobFor(op, r, k, t) ==
  [op |-> op, id |-> r, driver |-> None, key |-> k, spot |-> row[r].spot, since |-> t]

PayRequest(w, r) ==
  /\ "gateway" \in ConfirmPaths
  /\ status[r] # "none"
  /\ Begin(w, "Update", JobFor("pay", r, None, now))
  /\ UNCHANGED <<now, db, redis, holds, faults>>

\* Faulty variant: UPDATE ... WHERE id = $3.
PayAnyStatus(w) ==
  /\ pc[w] = "Update" /\ job[w].op = "pay"
  /\ SetStatus(job[w].id, "confirmed")
  /\ \E t \in job[w].since..now :
       expiresAt' = [expiresAt EXCEPT ![job[w].id] = t + HoldDuration]
  /\ extended' = extended \ {job[w].id}
  /\ Goto(w, "Extend")
  /\ UNCHANGED <<now, row, sessions, redis, disowned, faults>>

\* UPDATE ... WHERE id = $3 AND status = 'pending'; the row count is ignored.
Pay(w) ==
  /\ pc[w] = "Update" /\ job[w].op = "pay"
  /\ IF status[job[w].id] = "pending"
     THEN /\ SetStatus(job[w].id, "confirmed")
          /\ \E t \in job[w].since..now :
               expiresAt' = [expiresAt EXCEPT ![job[w].id] = t + HoldDuration]
          /\ extended' = extended \ {job[w].id}
     ELSE UNCHANGED <<status, reached, expiresAt, extended>>
  /\ Goto(w, "Extend")
  /\ UNCHANGED <<now, row, sessions, redis, disowned, faults>>

\* Faulty variants: SET instead of EXPIRE, and EXPIRE with the wrong duration.
ExtendByWriting(w) ==
  /\ pc[w] = "Extend"
  /\ lock' = [lock EXCEPT ![job[w].spot].until = now + HoldDuration]
  /\ extended' = extended \cup {job[w].id}
  /\ Goto(w, "idle")
  /\ UNCHANGED <<now, db, lapsed, idem, disowned, faults>>

ExtendTooShort(w) ==
  /\ pc[w] = "Extend"
  /\ lock' = [lock EXCEPT ![job[w].spot] =
                IF @ = Free THEN Free ELSE [@ EXCEPT !.until = now + PaymentTimeout]]
  /\ extended' = extended \cup {job[w].id}
  /\ Goto(w, "idle")
  /\ UNCHANGED <<now, db, lapsed, idem, disowned, faults>>

\* EXPIRE on the spot's key, whoever holds it; nothing when there is no key.
Extend(w) ==
  /\ pc[w] = "Extend"
  /\ lock' = [lock EXCEPT ![job[w].spot] =
                IF @ = Free THEN Free ELSE [@ EXCEPT !.until = now + HoldDuration]]
  /\ extended' = extended \cup {job[w].id}
  /\ Goto(w, "idle")
  /\ UNCHANGED <<now, db, lapsed, idem, disowned, faults>>

ConfirmRequest(w, r) ==
  /\ "usecase" \in ConfirmPaths
  /\ status[r] = "pending"
  /\ Begin(w, "Update", JobFor("confirm", r, None, now))
  /\ UNCHANGED <<now, db, redis, holds, faults>>

Confirm(w) ==
  /\ pc[w] = "Update" /\ job[w].op = "confirm"
  /\ SetStatus(job[w].id, "confirmed")
  /\ \E t \in job[w].since..now :
       expiresAt' = [expiresAt EXCEPT ![job[w].id] = t + HoldDuration]
  /\ extended' = extended \ {job[w].id}
  /\ Goto(w, "Relock")
  /\ UNCHANGED <<now, row, sessions, redis, disowned, faults>>

Relock(w) ==
  /\ pc[w] = "Relock"
  /\ \/ SetNX(job[w].spot, job[w].id, HoldDuration) /\ extended' = extended \cup {job[w].id}
     \/ lock[job[w].spot] # Free /\ UNCHANGED <<lock, lapsed, extended>>
  /\ Goto(w, "idle")
  /\ UNCHANGED <<now, db, idem, disowned, faults>>

-----------------------------------------------------------------------------
(* Cancellation, check-in and check-out: the row is read and judged first,  *)
(* and written later by an UPDATE whose only condition is the id.           *)

Owns(d, r) == row[r].driver = d

CancelRequest(w, r, d) ==
  /\ Owns(d, r) /\ status[r] \in {"pending", "confirmed"}
  /\ Begin(w, "Update", JobFor("cancel", r, None, 0))
  /\ UNCHANGED <<now, db, redis, holds, faults>>

Cancel(w) ==
  /\ pc[w] = "Update" /\ job[w].op = "cancel"
  /\ SetStatus(job[w].id, "cancelled")
  /\ Goto(w, "Release")
  /\ UNCHANGED <<now, row, expiresAt, sessions, redis, holds, faults>>

\* Faulty variants: any reservation in time is good enough, or one checked in already.
CheckInUnpaidRequest(w, r, d) ==
  /\ Owns(d, r) /\ now <= expiresAt[r]
  /\ Begin(w, "Update", JobFor("checkIn", r, None, 0))
  /\ UNCHANGED <<now, db, redis, holds, faults>>

CheckInAgainRequest(w, r, d) ==
  /\ Owns(d, r) /\ status[r] \in {"confirmed", "active"} /\ now <= expiresAt[r]
  /\ Begin(w, "Update", JobFor("checkIn", r, None, 0))
  /\ UNCHANGED <<now, db, redis, holds, faults>>

CheckInRequest(w, r, d) ==
  /\ Owns(d, r) /\ status[r] = "confirmed" /\ now <= expiresAt[r]
  /\ Begin(w, "Update", JobFor("checkIn", r, None, 0))
  /\ UNCHANGED <<now, db, redis, holds, faults>>

CheckIn(w) ==
  /\ pc[w] = "Update" /\ job[w].op = "checkIn"
  /\ SetStatus(job[w].id, "active")
  /\ sessions' = [sessions EXCEPT ![job[w].id] = @ + 1]
  /\ Goto(w, "idle")
  /\ UNCHANGED <<now, row, expiresAt, redis, holds, faults>>

CheckOutRequest(w, r, d, k) ==
  /\ Owns(d, r)
  /\ idem[k] = None     \* a hit returns r as it is, whatever the record names
  /\ Begin(w, "Read", JobFor("checkOut", r, k, 0))
  /\ UNCHANGED <<now, db, redis, holds, faults>>

CheckOutRead(w) ==
  /\ pc[w] = "Read"
  /\ Goto(w, IF status[job[w].id] = "active" THEN "Update" ELSE "idle")
  /\ UNCHANGED <<now, db, redis, holds, faults>>

CheckOut(w) ==
  /\ pc[w] = "Update" /\ job[w].op = "checkOut"
  /\ SetStatus(job[w].id, "completed")
  /\ Goto(w, "Release")
  /\ UNCHANGED <<now, row, expiresAt, sessions, redis, holds, faults>>

\* Shared by cancellation, check-out and expiry.  Its errors are ignored.
Release(p) ==
  /\ pc[p] = "Release"
  /\ ReleaseLock(job[p].spot, job[p].id)
  /\ Goto(p, After(p))
  /\ UNCHANGED <<now, db, lapsed, idem, holds, faults>>

-----------------------------------------------------------------------------
(* Expiry: the job of the service lists the overdue rows, then expires them *)
(* one by one; the gateway's history page expires overdue rows on its own.  *)

Overdue(r) == status[r] \in {"pending", "confirmed"} /\ expiresAt[r] < now

\* Faulty variant: only unpaid reservations are listed.
ExpireListPending ==
  /\ pc[Cron] = "idle"
  /\ due' = {r \in Ids : Overdue(r) /\ status[r] = "pending"}
  /\ due' # {}
  /\ pc' = [pc EXCEPT ![Cron] = "loop"]
  /\ UNCHANGED <<now, db, redis, job, sent, holds, faults>>

ExpireList ==
  /\ pc[Cron] = "idle"
  /\ due' = {r \in Ids : Overdue(r)}
  /\ due' # {}
  /\ pc' = [pc EXCEPT ![Cron] = "loop"]
  /\ UNCHANGED <<now, db, redis, job, sent, holds, faults>>

Expire(r) ==
  /\ pc[Cron] = "loop" /\ r \in due
  /\ SetStatus(r, "expired")
  /\ due' = due \ {r}
  /\ pc' = [pc EXCEPT ![Cron] = "Release"]
  /\ job' = [job EXCEPT ![Cron] = JobFor("expire", r, None, 0)]
  /\ UNCHANGED <<now, row, expiresAt, sessions, redis, sent, holds, faults>>

\* The UPDATE fails: the job logs the error and goes on with the next row.
ExpireFails(r) ==
  /\ Fault("drop")
  /\ pc[Cron] = "loop" /\ r \in due
  /\ due' = due \ {r}
  /\ pc' = [pc EXCEPT ![Cron] = IF due' = {} THEN "idle" ELSE "loop"]
  /\ UNCHANGED <<now, db, redis, job, sent, holds>>

\* ReservationHistory: the row was pending and overdue when it was read, the
\* UPDATE repeats the test on pending, and a pending row stays overdue.
HistoryExpire(r) ==
  /\ status[r] = "pending" /\ Overdue(r)
  /\ SetStatus(r, "expired")
  /\ UNCHANGED <<now, row, expiresAt, sessions, redis, local, holds, faults>>

-----------------------------------------------------------------------------
(* Time and faults.                                                         *)

Lapses(s) == lock[s] # Free /\ lock[s].until <= now'

\* Redis drops every key whose time to live is over.
Tick ==
  /\ now < MaxTime
  /\ now' = now + 1
  /\ lock' = [s \in Spots |-> IF Lapses(s) THEN Free ELSE lock[s]]
  /\ lapsed' = lapsed \cup {lock[s].holder : s \in {s \in Spots : Lapses(s)}}
  /\ UNCHANGED <<db, idem, local, holds, faults>>

\* A call whose error the code ignores fails, without effect.
Dropped(p) ==
  /\ Fault("drop")
  /\ pc[p] \in {"Undo", "Save", "Extend", "Relock", "Release"}
  /\ Goto(p, After(p))
  /\ UNCHANGED <<now, db, redis, holds>>

\* The handler makes none of its remaining calls: the process stops, the
\* client goes away and its context is cancelled, or a call whose error the
\* code does return fails (after its effect when only the reply was lost).
Crash(p) ==
  /\ Fault("crash")
  /\ pc[p] # "idle"
  /\ pc' = [pc EXCEPT ![p] = "idle"]
  /\ job' = [job EXCEPT ![p] = IdleJob]
  /\ due' = IF p = Cron THEN {} ELSE due
  /\ UNCHANGED <<now, db, redis, sent, holds>>

-----------------------------------------------------------------------------

Request(w) ==
  \/ \E d \in Drivers, k \in Keys, s \in 0..NumSpots : CreateRequest(w, d, k, s)
  \/ \E r \in Ids : PayRequest(w, r) \/ ConfirmRequest(w, r)
  \/ \E r \in Ids, d \in Drivers :
       \/ CancelRequest(w, r, d)
       \/ CheckInRequest(w, r, d)
       \/ \E k \in Keys : CheckOutRequest(w, r, d, k)

Step(p) ==
  \/ Acquire(p) \/ SpotUnavailable(p)
  \/ Insert(p) \/ InsertFails(p) \/ Undo(p) \/ Save(p)
  \/ Pay(p) \/ Extend(p) \/ Confirm(p) \/ Relock(p)
  \/ Cancel(p) \/ CheckIn(p) \/ CheckOutRead(p) \/ CheckOut(p)
  \/ Release(p) \/ Dropped(p) \/ Crash(p)

ExpiryJob == ExpireList \/ \E r \in Ids : Expire(r) \/ ExpireFails(r)

Next ==
  \/ \E w \in Workers : Request(w)
  \/ \E p \in Procs : Step(p)
  \/ ExpiryJob
  \/ \E r \in Ids : HistoryExpire(r)
  \/ Tick

Spec == Init /\ [][Next]_vars

\* The job's goroutine keeps running and its ticker keeps firing, so a step of
\* it that stays possible is taken.  Its UPDATE may fail, or the service stop,
\* any number of times in a row, but not for ever each time it is tried.
Fairness ==
  /\ WF_vars(ExpireList) /\ WF_vars(Release(Cron))
  /\ \A r \in Ids : SF_vars(Expire(r))

FairSpec == Spec /\ Fairness

-----------------------------------------------------------------------------
(* Properties.                                                              *)

TypeOK ==
  /\ now \in 0..MaxTime
  /\ status \in [Ids -> Statuses \cup {"none"}]
  /\ row \in [Ids -> Rows \cup {NoRow}]
  /\ expiresAt \in [Ids -> Nat]
  /\ sessions \in [Ids -> Nat]
  /\ lock \in [Spots -> [holder : Ids, until : Nat] \cup {Free}]
  /\ idem \in [Keys -> Ids \cup {None}]
  /\ pc \in [Procs -> Calls]
  /\ job \in [Procs -> Jobs]
  /\ due \subseteq Ids
  /\ reached \in [Ids -> SUBSET Statuses]
  /\ lapsed \subseteq Ids
  /\ extended \subseteq Ids
  /\ disowned \subseteq Ids
  /\ sent \in [Keys -> SUBSET (Ids \cup {None})]
  /\ faults \in 0..MaxFaults

Live(r) == status[r] \in {"pending", "confirmed", "active"}
Ended(r) == reached[r] \cap {"completed", "cancelled", "expired"} # {}

\* README.md:35, the Redis lock prevents double booking, as far as the code
\* keeps it: two reservations live on one spot only after the lock of one of
\* them has lapsed, or after one of them has come back from a final status, or
\* was inserted though the handler was told it was not, and gave its lock back.
\* Every other lock is the owner's, whatever handlers release, extend and acquire
\* at the same time, and whatever they leave undone.
NoDoubleBooking ==
  \A r1, r2 \in Ids :
    /\ r1 # r2 /\ row[r1].spot = row[r2].spot
    /\ \A r \in {r1, r2} : Live(r) /\ ~Ended(r)
    => \E r \in {r1, r2} : r \in lapsed \cup disowned

\* p is inserting the reservation that holds the lock on s, or about to release it.
GivesBack(p, s) ==
  pc[p] \in {"Insert", "Undo", "Release"} /\ job[p].id = lock[s].holder /\ job[p].spot = s

\* The holder of the lock on s is entitled to it, or a handler is still at work on it.
\* The history page ends unpaid reservations without a look at Redis, and the SETNX
\* of ConfirmReservation may lock the spot of a reservation that has ended since.
AccountedFor(s) ==
  LET r == lock[s].holder IN
  \/ /\ row[r].spot = s
     /\ \/ Live(r)
        \/ status[r] = "expired" /\ "confirmed" \notin reached[r]
        \/ "usecase" \in ConfirmPaths /\ r \in extended
  \/ \E p \in Procs : GivesBack(p, s)

Abandoned == {s \in Spots : lock[s] # Free /\ ~AccountedFor(s)}

\* No spot is kept from others without need: a reservation that ends gives its lock
\* back, whichever operations overlap, and so does a creation that fails.  Releases
\* are not repeated, but a fault costs at most one spot, until its lock's TTL.
LocksReturned == Cardinality(Abandoned) <= faults

\* A request is only ever answered as a repetition when its work has been done:
\* once there is a record of a key that has been sent with nothing but creations,
\* the row looked up by that key is there, and it is the one recorded; once there
\* is a record of a key sent only to check out r, r has been checked out.  (The
\* code keeps one record for both uses of a key, and reads no reservation from it:
\* a key that has been used for two things may be answered for the one not done.)
IdemTruthful ==
  \A k \in Keys : idem[k] # None =>
    /\ sent[k] = {None} => row[idem[k]].key = k
    /\ \A r \in Ids : sent[k] = {r} => idem[k] = r /\ "completed" \in reached[r]

\* Whatever overlaps and whatever fails, nobody parks on a reservation that was
\* never paid for, leaves one he never parked on, or ends one never inserted.
P == INSTANCE ReservationProgress WITH Ids <- Ids, reached <- reached
Progress == P!Spec

\* The state machine of README.md:199-219.  Only runs without overlapping
\* handlers satisfy it.
L == INSTANCE ReservationLifecycle WITH Ids <- Ids, status <- status
Lifecycle == L!Spec

\* A reservation has at most one parking session to be billed for.
OneSession == \A r \in Ids : sessions[r] <= 1

\* The lock outlives the hold it protects: once the lock of a confirmed reservation
\* has been extended in time, by EXPIRE or by a SETNX that found no key, Redis keeps
\* it for as long as the driver may check in, whatever others confirm, release and
\* acquire, and whatever fails.  (The use case may confirm what has ended, while
\* somebody is still about to release its lock.)
HoldLocked ==
  \A r \in extended \ (lapsed \cup disowned) :
    status[r] = "confirmed" /\ ("usecase" \in ConfirmPaths => ~Ended(r))
    => /\ lock[row[r].spot].holder = r
       /\ lock[row[r].spot].until >= expiresAt[r]

\* The expiry job ends every reservation that outstays its time to pay or to
\* check in (unless something else moves it on first).
OverdueResolved == \A r \in Ids : Overdue(r) ~> ~Overdue(r)

\* README.md:35 taken at its word, for a driver who is parked: nobody else has a
\* reservation for the spot his car is on.
NoSharedSpot ==
  \A r1, r2 \in Ids :
    status[r1] = "active" /\ Live(r2) /\ row[r1].spot = row[r2].spot => r1 = r2

=============================================================================
