-------------------------- MODULE ReservationProofs --------------------------
(***************************************************************************)
(* Theorems about Reservation, for any number of reservations, spots,      *)
(* handlers and keys, any timeouts, and any of the modelled faults.        *)
(*                                                                         *)
(* The invariant Inv says what a handler knows between two of its calls:   *)
(* what it read has been true, and whatever the others did since, the row  *)
(* it read is still there with the columns that never change, and has      *)
(* still been through the statuses it has been through.                    *)
(***************************************************************************)
EXTENDS ReservationSchedules, FiniteSetTheorems, TLAPS

\* Rows are inserted whole, and their history starts with "pending".
RowsOK ==
  \A r \in Ids :
    IF status[r] = "none" THEN row[r] = NoRow /\ reached[r] = {}
    ELSE row[r] \in Rows /\ "pending" \in reached[r] /\ status[r] \in reached[r]

\* p is creating a reservation whose row does not exist yet.
Creating(p) ==
  /\ pc[p] \in {"Acquire", "Insert", "Undo"} =>
       /\ job[p].op = "create"
       /\ job[p].driver \in Drivers /\ job[p].key \in Keys
  /\ pc[p] \in {"Insert", "Undo"} => job[p].id \in Ids /\ job[p].spot \in Spots

\* p works on an existing row.
Working(p) ==
  /\ pc[p] \in {"Read", "Update", "Extend", "Relock", "Release"} =>
       /\ job[p].id \in Ids /\ status[job[p].id] # "none"
       /\ job[p].spot = row[job[p].id].spot
  /\ pc[p] = "Read" => job[p].op = "checkOut"
  /\ pc[p] = "Update" => /\ job[p].op \in {"pay", "confirm", "cancel", "checkIn", "checkOut"}
                         /\ P!Presupposes[Target[job[p].op]] \subseteq reached[job[p].id]
  /\ pc[p] = "Release" => /\ job[p].op \in {"cancel", "checkOut", "expire"}
                          /\ Target[job[p].op] \in reached[job[p].id]
  /\ pc[p] \in {"Read", "Update", "Release"} /\ job[p].op = "checkOut" =>
       job[p].key \in Keys

\* p is about to save what it has done under its idempotency key.
Saving(p) ==
  pc[p] = "Save" =>
    job[p].id \in Ids /\ status[job[p].id] # "none" /\ job[p].key \in Keys

Handlers == \A p \in Procs : Creating(p) /\ Working(p) /\ Saving(p)

\* The id of a row to be inserted is known to one handler only.
OwnId ==
  \A p \in Procs : pc[p] = "Insert" =>
    /\ status[job[p].id] = "none"
    /\ \A q \in Procs \ {p} : job[q].id # job[p].id

\* The expiry job only ever holds rows that exist.
Listed == \A r \in due : status[r] # "none"

Inv == TypeOK /\ RowsOK /\ Handlers /\ OwnId /\ Listed

USE BoundsAssumption, SpotsAssumption, NamesAssumption DEF holds

LEMMA InitInv == Init => Inv
<1> SUFFICES ASSUME Init PROVE Inv
  OBVIOUS
<1>1. TypeOK
  BY DEF Init, TypeOK, Rows, NoRow, Free, Jobs, IdleJob, Calls, Procs
<1>2. RowsOK /\ OwnId /\ Listed
  BY DEF Init, RowsOK, OwnId, Listed
<1>3. Handlers
  BY DEF Init, Handlers, Creating, Working, Saving
<1> QED
  BY <1>1, <1>2, <1>3 DEF Inv

-----------------------------------------------------------------------------
(* What every step leaves alone.                                           *)

\* A row that exists stays, with its fixed columns and its history.
Grows ==
  \A r \in Ids : status[r] # "none" =>
    row'[r] = row[r] /\ status'[r] # "none" /\ reached[r] \subseteq reached'[r]

\* Only p's program counter and local variables change.
Alone(p) == \A q \in Procs \ {p} : pc'[q] = pc[q] /\ job'[q] = job[q]

Handler(p) == Creating(p) /\ Working(p) /\ Saving(p)

\* What the other handlers know stays true whatever p does to rows that exist.
LEMMA OthersStay ==
  ASSUME Inv, Grows, NEW p, Alone(p), NEW q \in Procs \ {p}
  PROVE  Handler(q)'
<1>1. Handler(q) /\ pc'[q] = pc[q] /\ job'[q] = job[q]
  BY DEF Inv, Handlers, Handler, Alone
<1>2. Creating(q)'
  BY <1>1 DEF Handler, Creating
<1>3. Working(q)'
  BY <1>1 DEF Handler, Working, Grows, P!Presupposes
<1>4. Saving(q)'
  BY <1>1 DEF Handler, Saving, Grows
<1> QED
  BY <1>2, <1>3, <1>4 DEF Handler

\* A step of p that writes neither the table nor an idempotency record keeps
\* Inv when it keeps p's own part of it.
LEMMA QuietStep ==
  ASSUME Inv, NEW p \in Procs, Alone(p), UNCHANGED <<db, idem>>,
         TypeOK', Handler(p)', Listed',
         job'[p].id = job[p].id \/ job'[p].id = None \/ status[job'[p].id] # "none",
         pc'[p] # "Insert"
  PROVE  Inv'
<1> USE DEF db
<1>1. Grows
  BY DEF Grows
<1>2. Handlers'
  BY <1>1, OthersStay DEF Handlers, Handler
<1>3. RowsOK'
  BY DEF Inv, RowsOK
<1>4. OwnId'
  <2> SUFFICES ASSUME NEW p1 \in Procs, pc'[p1] = "Insert"
               PROVE  /\ status[job'[p1].id] = "none"
                      /\ \A q \in Procs \ {p1} : job'[q].id # job'[p1].id
    BY DEF OwnId
  <2>1. p1 # p /\ pc[p1] = "Insert" /\ job'[p1] = job[p1]
    BY DEF Alone
  <2>2. job[p1].id \in Ids
    BY <2>1 DEF Inv, Handlers, Creating
  <2> QED
    BY <2>1, <2>2 DEF Inv, OwnId, Alone
<1> QED
  BY <1>2, <1>3, <1>4 DEF Inv

-----------------------------------------------------------------------------
(* The steps of a handler up to its first write, and those that only touch *)
(* Redis.                                                                  *)

USE DEF Procs, Spots, Free, Calls

LEMMA TypesOfNames ==
  /\ IdleJob \in Jobs /\ IdleJob.op = "none" /\ IdleJob.id = None /\ IdleJob.spot = 0
  /\ Ops = {"create", "pay", "confirm", "cancel", "checkIn", "checkOut", "expire"}
  BY DEF IdleJob, Jobs, Ops, Target

\* A handler that starts with local variables j and the first call c.
LEMMA BeginInv ==
  ASSUME Inv, NEW w \in Workers, NEW c \in {"Acquire", "Read", "Update"}, NEW j \in Jobs,
         Begin(w, c, j), UNCHANGED <<now, db, redis, holds, faults>>,
         c = "Acquire" => /\ j.op = "create" /\ j.id = None
                          /\ j.driver \in Drivers /\ j.key \in Keys,
         c # "Acquire" => /\ j.id \in Ids /\ status[j.id] # "none"
                          /\ j.spot = row[j.id].spot,
         c = "Read" => j.op = "checkOut" /\ j.key \in Keys,
         c = "Update" => /\ j.op \in {"pay", "confirm", "cancel", "checkIn"}
                         /\ P!Presupposes[Target[j.op]] \subseteq reached[j.id]
  PROVE  Inv'
<1> USE DEF Begin
<1>1. pc'[w] = c /\ job'[w] = j /\ Alone(w)
  BY DEF Inv, TypeOK, Alone
<1>2. TypeOK'
  <2>1. sent' \in [Keys -> SUBSET (Ids \cup {None})]
    BY DEF Uses, Jobs, Inv, TypeOK
  <2> QED
    BY <2>1 DEF Inv, TypeOK, db, redis
<1>3. Handler(w)'
  BY <1>1 DEF Handler, Creating, Working, Saving, db
<1> QED
  BY <1>1, <1>2, <1>3, QuietStep DEF db, redis, Inv, Listed

LEMMA RequestInv ==
  ASSUME Inv, NEW w \in Workers, Request(w)
  PROVE  Inv'
<1>1. ASSUME NEW d \in Drivers, NEW k \in Keys, NEW s \in 0..NumSpots,
             CreateRequest(w, d, k, s)
      PROVE  Inv'
  BY <1>1, BeginInv, TypesOfNames DEF CreateRequest, Jobs
<1>2. ASSUME NEW r \in Ids, status[r] # "none"
      PROVE  /\ row[r] \in Rows /\ "pending" \in reached[r] /\ status[r] \in reached[r]
             /\ \A op \in Ops, k \in Keys \cup {None}, t \in Nat :
                  JobFor(op, r, k, t) \in Jobs
  BY <1>2 DEF Inv, RowsOK, JobFor, Jobs, Rows
<1>3. ASSUME NEW r \in Ids, PayRequest(w, r) \/ ConfirmRequest(w, r)
      PROVE  Inv'
  <2>1. now \in Nat
    BY DEF Inv, TypeOK
  <2> QED
    BY <1>2, <1>3, <2>1, BeginInv, TypesOfNames
    DEF PayRequest, ConfirmRequest, JobFor, P!Presupposes, Target
<1>4. ASSUME NEW r \in Ids, NEW d \in Drivers, CancelRequest(w, r, d)
      PROVE  Inv'
  BY <1>2, <1>4, BeginInv, TypesOfNames DEF CancelRequest, JobFor, P!Presupposes, Target
<1>5. ASSUME NEW r \in Ids, NEW d \in Drivers, CheckInRequest(w, r, d)
      PROVE  Inv'
  BY <1>2, <1>5, BeginInv, TypesOfNames DEF CheckInRequest, JobFor, P!Presupposes, Target
<1>6. ASSUME NEW r \in Ids, NEW d \in Drivers, NEW k \in Keys,
             CheckOutRequest(w, r, d, k)
      PROVE  Inv'
  <2>1. status[r] # "none"
    BY <1>6 DEF CheckOutRequest, Owns, Inv, RowsOK, NoRow
  <2> QED
    BY <1>2, <1>6, <2>1, BeginInv, TypesOfNames DEF CheckOutRequest, JobFor
<1> QED
  BY <1>1, <1>3, <1>4, <1>5, <1>6 DEF Request

\* What p's next call and local variables become.
LEMMA GotoIs ==
  ASSUME Inv, NEW p \in Procs, NEW c \in Calls, Goto(p, c)
  PROVE  /\ pc'[p] = c /\ Alone(p) /\ due' = due /\ sent' = sent
         /\ pc' \in [Procs -> Calls] /\ job' \in [Procs -> Jobs]
         /\ c \in {"idle", "loop"} => job'[p] = IdleJob
         /\ c \notin {"idle", "loop"} =>
              /\ job'[p].op = job[p].op /\ job'[p].id = job[p].id
              /\ job'[p].key = job[p].key /\ job'[p].spot = job[p].spot
              /\ job'[p].driver = job[p].driver
<1>1. pc \in [Procs -> Calls] /\ job \in [Procs -> Jobs]
  BY DEF Inv, TypeOK
<1>2. CASE c \in {"idle", "loop"}
  BY <1>1, <1>2, TypesOfNames DEF Goto, Alone
<1>3. CASE c \notin {"idle", "loop"}
  <2>1. job' = [job EXCEPT ![p].since = 0]
    BY <1>3 DEF Goto
  <2>2. [job[p] EXCEPT !.since = 0] \in Jobs
    BY <1>1 DEF Jobs
  <2> QED
    BY <1>1, <1>3, <2>1, <2>2 DEF Goto, Alone, Jobs
<1> QED
  BY <1>2, <1>3

\* A step of p that touches Redis only.
LEMMA GotoInv ==
  ASSUME Inv, NEW p \in Procs, NEW c \in Calls \ {"Insert"}, Goto(p, c),
         UNCHANGED <<now, db, idem>>,
         lock' \in [Spots -> [holder : Ids, until : Nat] \cup {Free}],
         lapsed' \subseteq Ids, faults' \in 0..MaxFaults,
         extended' \subseteq Ids, disowned' \subseteq Ids,
         c \notin {"idle", "loop"} => Handler(p)'
  PROVE  Inv'
<1>1. Handler(p)'
  BY GotoIs DEF Handler, Creating, Working, Saving
<1>2. /\ pc' \in [Procs -> Calls] /\ job' \in [Procs -> Jobs]
      /\ due' \subseteq Ids /\ sent' = sent
  <2>1. /\ pc' \in [Procs -> Calls] /\ job' \in [Procs -> Jobs]
        /\ due' = due /\ sent' = sent
    BY GotoIs
  <2> QED
    BY <2>1 DEF Inv, TypeOK
<1>3. TypeOK'
  BY <1>2 DEF Inv, TypeOK, db
<1> QED
  BY <1>1, <1>3, GotoIs, TypesOfNames, QuietStep DEF db, Inv, Listed

\* After a call that ends the work on a reservation, or all but its last part.
LEMMA AfterInv ==
  ASSUME Inv, NEW p \in Procs, Goto(p, After(p)), UNCHANGED <<now, db, idem>>,
         pc[p] \in {"Undo", "Save", "Extend", "Relock", "Release"},
         lock' \in [Spots -> [holder : Ids, until : Nat] \cup {Free}],
         lapsed' \subseteq Ids, faults' \in 0..MaxFaults,
         extended' \subseteq Ids, disowned' \subseteq Ids
  PROVE  Inv'
<1>1. CASE After(p) = "Save"
  <2>1. /\ job[p].op = "checkOut" /\ pc[p] = "Release"
    BY <1>1 DEF After
  <2>2. Handler(p)
    BY DEF Inv, Handlers, Handler
  <2>3. Handler(p)'
    BY <1>1, <2>1, <2>2, GotoIs DEF Handler, Creating, Working, Saving, db, Target
  <2> QED
    BY <1>1, <2>3, GotoInv
<1>2. CASE After(p) \in {"idle", "loop"}
  BY <1>2, GotoInv
<1> QED
  BY <1>1, <1>2 DEF After

LEMMA ReleaseTypes ==
  ASSUME Inv, NEW p \in Procs, ReleaseLock(job[p].spot, job[p].id)
  PROVE  lock' \in [Spots -> [holder : Ids, until : Nat] \cup {Free}]
  BY DEF Inv, TypeOK, ReleaseLock

LEMMA RedisStepInv ==
  ASSUME Inv, NEW p \in Procs,
         SpotUnavailable(p) \/ Undo(p) \/ Extend(p) \/ Relock(p) \/ Release(p) \/ Dropped(p)
  PROVE  Inv'
<1> USE DEF redis
<1>0. /\ lock \in [Spots -> [holder : Ids, until : Nat] \cup {Free}]
      /\ lapsed \subseteq Ids /\ faults \in 0..MaxFaults /\ now \in Nat
      /\ extended \subseteq Ids /\ disowned \subseteq Ids
  BY DEF Inv, TypeOK
<1>1. CASE SpotUnavailable(p)
  BY <1>0, <1>1, GotoInv DEF SpotUnavailable
<1>2. CASE Undo(p)
  BY <1>0, <1>2, GotoInv, ReleaseTypes DEF Undo
<1>3. CASE Release(p)
  BY <1>0, <1>3, AfterInv, ReleaseTypes DEF Release
<1>4. CASE Extend(p)
  <2>1. lock' \in [Spots -> [holder : Ids, until : Nat] \cup {Free}]
    <3>1. \A l \in [holder : Ids, until : Nat] :
            [l EXCEPT !.until = now + HoldDuration] \in [holder : Ids, until : Nat]
      BY <1>0
    <3> QED
      BY <1>0, <1>4, <3>1 DEF Extend
  <2>2. extended' \subseteq Ids
    BY <1>0, <1>4 DEF Extend, Inv, Handlers, Working
  <2> QED
    BY <1>0, <1>4, <2>1, <2>2, GotoInv DEF Extend
<1>5. CASE Relock(p)
  <2>1. job[p].id \in Ids
    BY <1>5 DEF Relock, Inv, Handlers, Working
  <2>2. /\ lock' \in [Spots -> [holder : Ids, until : Nat] \cup {Free}]
        /\ lapsed' \subseteq Ids /\ extended' \subseteq Ids
    <3>1. [holder |-> job[p].id, until |-> now + HoldDuration] \in [holder : Ids, until : Nat]
      BY <1>0, <2>1
    <3>2. CASE /\ SetNX(job[p].spot, job[p].id, HoldDuration)
               /\ extended' = extended \cup {job[p].id}
      BY <1>0, <2>1, <3>1, <3>2 DEF SetNX
    <3>3. CASE UNCHANGED <<lock, lapsed, extended>>
      BY <1>0, <3>3
    <3> QED
      BY <1>5, <3>2, <3>3 DEF Relock
  <2> QED
    BY <1>0, <1>5, <2>2, GotoInv DEF Relock
<1>6. CASE Dropped(p)
  BY <1>0, <1>6, AfterInv DEF Dropped, Fault
<1> QED
  BY <1>1, <1>2, <1>3, <1>4, <1>5, <1>6

LEMMA AcquireInv ==
  ASSUME Inv, NEW w \in Procs, Acquire(w)
  PROVE  Inv'
<1> USE DEF db
<1>1. PICK s \in Findable(w), r \in Fresh :
        /\ SetNX(s, r, PaymentTimeout)
        /\ job' = [job EXCEPT ![w] = [op |-> "create", id |-> r, driver |-> @.driver,
                                      key |-> @.key, spot |-> s, since |-> now]]
  BY DEF Acquire
<1>2. /\ r \in Ids /\ status[r] = "none" /\ \A q \in Procs : job[q].id # r
      /\ pc' = [pc EXCEPT ![w] = "Insert"] /\ pc[w] = "Acquire"
      /\ UNCHANGED <<now, db, idem, due, sent, holds, faults>>
  BY DEF Acquire, Fresh
<1>3. /\ job[w] \in Jobs /\ now \in Nat /\ Creating(w)
  BY DEF Inv, TypeOK, Handlers
<1>4. s \in Spots
  BY <1>3, <1>2 DEF Findable, Jobs, Creating
<1>5. /\ job'[w].op = "create" /\ job'[w].driver \in Drivers /\ job'[w].key \in Keys
      /\ job'[w].id = r /\ job'[w].spot = s /\ pc'[w] = "Insert"
      /\ Alone(w) /\ job'[w] \in Jobs
  <2>1. job'[w] = [op |-> "create", id |-> r, driver |-> job[w].driver,
                   key |-> job[w].key, spot |-> s, since |-> now]
    BY <1>1 DEF Inv, TypeOK
  <2>2. job'[w] \in Jobs
    BY <1>2, <1>3, <1>4, <2>1, TypesOfNames DEF Jobs
  <2> QED
    BY <1>1, <1>2, <1>3, <2>1, <2>2 DEF Inv, TypeOK, Jobs, Creating, Alone
<1>6. TypeOK'
  <2>1. [holder |-> r, until |-> now + PaymentTimeout] \in [holder : Ids, until : Nat]
    BY <1>2, <1>3
  <2>2. lock' \in [Spots -> [holder : Ids, until : Nat] \cup {Free}] /\ lapsed' \subseteq Ids
    BY <1>1, <2>1 DEF SetNX, Inv, TypeOK
  <2>3. pc' \in [Procs -> Calls] /\ job' \in [Procs -> Jobs]
    <3>1. \A q \in Procs : job'[q] \in Jobs
      BY <1>5 DEF Alone, Inv, TypeOK
    <3> QED
      BY <1>1, <1>2, <3>1 DEF Inv, TypeOK
  <2> QED
    BY <1>2, <2>2, <2>3 DEF Inv, TypeOK
<1>7. Handlers'
  <2>1. Grows
    BY <1>2 DEF Grows
  <2>2. Handler(w)'
    BY <1>2, <1>4, <1>5 DEF Handler, Creating, Working, Saving
  <2> QED
    BY <1>5, <2>1, <2>2, OthersStay DEF Handlers, Handler
<1>8. OwnId'
  BY <1>2, <1>5 DEF OwnId, Inv, Alone, Handlers, Creating
<1>9. RowsOK' /\ Listed'
  BY <1>2 DEF Inv, RowsOK, Listed
<1> QED
  BY <1>6, <1>7, <1>8, <1>9 DEF Inv

LEMMA CheckOutReadInv ==
  ASSUME Inv, NEW w \in Procs, CheckOutRead(w)
  PROVE  Inv'
<1>1. /\ lock \in [Spots -> [holder : Ids, until : Nat] \cup {Free}]
      /\ lapsed \subseteq Ids /\ faults \in 0..MaxFaults
      /\ extended \subseteq Ids /\ disowned \subseteq Ids
      /\ Handler(w) /\ pc[w] = "Read"
  BY DEF CheckOutRead, Inv, TypeOK, Handlers, Handler
<1>2. CASE status[job[w].id] = "active"
  <2>1. Goto(w, "Update") /\ UNCHANGED db
    BY <1>2 DEF CheckOutRead
  <2>2. "active" \in reached[job[w].id]
    BY <1>1, <1>2 DEF Handler, Working, Inv, RowsOK
  <2>3. Handler(w)'
    BY <1>1, <2>1, <2>2, GotoIs
    DEF Handler, Creating, Working, Saving, P!Presupposes, Target, db
  <2> QED
    BY <1>1, <2>1, <2>3, GotoInv DEF CheckOutRead, redis
<1>3. CASE status[job[w].id] # "active"
  BY <1>1, <1>3, GotoInv DEF CheckOutRead, redis
<1> QED
  BY <1>2, <1>3

LEMMA CrashInv ==
  ASSUME Inv, NEW p \in Procs, Crash(p)
  PROVE  Inv'
<1>1. pc'[p] = "idle" /\ job'[p] = IdleJob /\ Alone(p) /\ due' \subseteq due
  BY DEF Crash, Inv, TypeOK, Alone
<1>2. TypeOK'
  BY TypesOfNames DEF Inv, TypeOK, Crash, Fault, db, redis
<1>3. Handler(p)'
  BY <1>1 DEF Handler, Creating, Working, Saving
<1> QED
  BY <1>1, <1>2, <1>3, QuietStep, TypesOfNames DEF Crash, db, redis, Inv, Listed

LEMMA SaveInv ==
  ASSUME Inv, NEW p \in Procs, Save(p)
  PROVE  Inv'
<1> USE DEF db
<1>1. After(p) \in {"idle", "loop"} /\ UNCHANGED db /\ Saving(p) /\ pc[p] = "Save"
  BY DEF Save, After, Inv, Handlers
<1>2. TypeOK'
  <2>1. idem' \in [Keys -> Ids \cup {None}]
    BY <1>1 DEF Save, Saving, Inv, TypeOK
  <2>2. pc' \in [Procs -> Calls] /\ job' \in [Procs -> Jobs] /\ due' = due /\ sent' = sent
    BY <1>1, GotoIs DEF Save
  <2> QED
    BY <1>1, <2>1, <2>2 DEF Save, Inv, TypeOK
<1>3. Handlers'
  <2>1. Grows
    BY <1>1 DEF Grows
  <2>2. Handler(p)'
    BY <1>1, GotoIs DEF Save, Handler, Creating, Working, Saving
  <2> QED
    BY <1>1, <2>1, <2>2, GotoIs, OthersStay DEF Save, Handlers, Handler
<1>4. OwnId'
  BY <1>1, GotoIs, TypesOfNames DEF Save, OwnId, Inv, Alone, Handlers, Creating
<1>5. RowsOK' /\ Listed'
  BY <1>1, GotoIs DEF Save, RowsOK, Listed, Inv
<1> QED
  BY <1>2, <1>3, <1>4, <1>5 DEF Inv

-----------------------------------------------------------------------------
(* The steps that write the reservations table.                            *)

LEMMA SetStatusTypes ==
  ASSUME TypeOK, NEW r \in Ids, NEW s \in Statuses, SetStatus(r, s)
  PROVE  /\ status' \in [Ids -> Statuses \cup {"none"}]
         /\ reached' \in [Ids -> SUBSET Statuses]
         /\ \A x \in Ids : /\ status'[x] = IF x = r THEN s ELSE status[x]
                           /\ reached'[x] = IF x = r THEN reached[x] \cup {s} ELSE reached[x]
  BY DEF TypeOK, SetStatus

\* p gives the existing row r the status s, and goes on with its work.
LEMMA UpdateInv ==
  ASSUME Inv, NEW p \in Procs, NEW r \in Ids, NEW s \in Statuses,
         status[r] # "none", SetStatus(r, s), UNCHANGED <<row, idem>>,
         Alone(p), pc'[p] # "Insert" \/ UNCHANGED <<pc, job>>,
         job'[p].id \in {job[p].id, r, None},
         due' \subseteq due, TypeOK', Handler(p)'
  PROVE  Inv'
<1>1. \A x \in Ids : /\ status'[x] = IF x = r THEN s ELSE status[x]
                     /\ reached'[x] = IF x = r THEN reached[x] \cup {s} ELSE reached[x]
  BY SetStatusTypes DEF Inv
<1>2. Grows
  BY <1>1 DEF Grows, Statuses
<1>3. Handlers'
  BY <1>2, OthersStay DEF Handlers, Handler
<1>4. RowsOK'
  BY <1>1 DEF RowsOK, Inv, Statuses
<1>5. Listed'
  BY <1>2 DEF Listed, Inv, Grows, TypeOK
<1>6. OwnId'
  <2> SUFFICES ASSUME NEW p1 \in Procs, pc'[p1] = "Insert"
               PROVE  /\ status'[job'[p1].id] = "none"
                      /\ \A q \in Procs \ {p1} : job'[q].id # job'[p1].id
    BY DEF OwnId
  <2>1. pc[p1] = "Insert" /\ job'[p1] = job[p1]
    BY DEF Alone
  <2>2. job[p1].id \in Ids /\ status[job[p1].id] = "none"
    BY <2>1 DEF Inv, Handlers, Creating, OwnId
  <2>3. p # p1 => job'[p].id # job[p1].id
    BY <2>1, <2>2 DEF Inv, OwnId
  <2>4. \A q \in Procs \ {p, p1} : job'[q].id # job[p1].id
    BY <2>1 DEF Inv, OwnId, Alone
  <2> QED
    BY <1>1, <2>1, <2>2, <2>3, <2>4
<1> QED
  BY <1>3, <1>4, <1>5, <1>6 DEF Inv

\* The UPDATE statements of the handlers.
LEMMA HandlerWriteInv ==
  ASSUME Inv, NEW w \in Procs,
         Pay(w) \/ Confirm(w) \/ Cancel(w) \/ CheckIn(w) \/ CheckOut(w)
  PROVE  Inv'
<1> DEFINE r == job[w].id
<1>1. /\ pc[w] = "Update" /\ Handler(w) /\ r \in Ids /\ status[r] # "none"
      /\ job[w] \in Jobs /\ now \in Nat
  BY DEF Pay, Confirm, Cancel, CheckIn, CheckOut, Inv, Handlers, Handler, Working, TypeOK
<1>2. \A t \in job[w].since..now : t + HoldDuration \in Nat
  BY <1>1 DEF Jobs
<1>3. CASE Pay(w) /\ status[r] # "pending"
  <2>1. UNCHANGED db /\ Goto(w, "Extend")
    BY <1>3 DEF Pay, db
  <2>2. Handler(w)'
    BY <1>1, <2>1, GotoIs DEF Handler, Creating, Working, Saving, db
  <2> QED
    BY <1>3, <2>1, <2>2, GotoInv DEF Pay, redis, Inv, TypeOK
<1>4. CASE Pay(w) /\ status[r] = "pending"
  <2>1. SetStatus(r, "confirmed") /\ Goto(w, "Extend") /\ UNCHANGED <<row, redis>>
    BY <1>4 DEF Pay
  <2>2. expiresAt' \in [Ids -> Nat]
    <3>1. PICK t \in job[w].since..now : expiresAt' = [expiresAt EXCEPT ![r] = t + HoldDuration]
      BY <1>4 DEF Pay
    <3> QED
      BY <1>1, <1>2, <3>1 DEF Inv, TypeOK
  <2>3. TypeOK'
    <3>1. /\ status' \in [Ids -> Statuses \cup {"none"}]
          /\ reached' \in [Ids -> SUBSET Statuses]
      BY <1>1, <2>1, SetStatusTypes DEF Inv, Statuses
    <3>2. UNCHANGED <<now, row, sessions, lock, lapsed, idem, disowned, faults>> /\ extended' \subseteq Ids
      BY <1>4 DEF Pay, redis, Inv, TypeOK
    <3>3. /\ pc' \in [Procs -> Calls] /\ job' \in [Procs -> Jobs]
          /\ due' \subseteq Ids /\ sent' = sent
      BY <2>1, GotoIs DEF Inv, TypeOK
    <3> QED
      BY <2>2, <3>1, <3>2, <3>3 DEF Inv, TypeOK
  <2>4. Handler(w)'
    BY <1>1, <2>1, GotoIs, <2>3
    DEF Handler, Creating, Working, Saving, SetStatus, Inv, TypeOK
  <2> QED
    BY <1>1, <2>1, <2>3, <2>4, GotoIs, UpdateInv DEF redis, Statuses
<1>5. CASE Confirm(w)
  <2>1. SetStatus(r, "confirmed") /\ Goto(w, "Relock") /\ UNCHANGED <<row, redis>>
    BY <1>5 DEF Confirm
  <2>2. expiresAt' \in [Ids -> Nat]
    <3>1. PICK t \in job[w].since..now : expiresAt' = [expiresAt EXCEPT ![r] = t + HoldDuration]
      BY <1>5 DEF Confirm
    <3> QED
      BY <1>1, <1>2, <3>1 DEF Inv, TypeOK
  <2>3. TypeOK'
    <3>1. /\ status' \in [Ids -> Statuses \cup {"none"}]
          /\ reached' \in [Ids -> SUBSET Statuses]
      BY <1>1, <2>1, SetStatusTypes DEF Inv, Statuses
    <3>2. UNCHANGED <<now, row, sessions, lock, lapsed, idem, disowned, faults>> /\ extended' \subseteq Ids
      BY <1>5 DEF Confirm, redis, Inv, TypeOK
    <3>3. /\ pc' \in [Procs -> Calls] /\ job' \in [Procs -> Jobs]
          /\ due' \subseteq Ids /\ sent' = sent
      BY <2>1, GotoIs DEF Inv, TypeOK
    <3> QED
      BY <2>2, <3>1, <3>2, <3>3 DEF Inv, TypeOK
  <2>4. Handler(w)'
    BY <1>1, <2>1, GotoIs, <2>3
    DEF Handler, Creating, Working, Saving, SetStatus, Inv, TypeOK
  <2> QED
    BY <1>1, <2>1, <2>3, <2>4, GotoIs, UpdateInv DEF redis, Statuses
<1>6. CASE Cancel(w) \/ CheckOut(w)
  <2> DEFINE s == IF job[w].op = "cancel" THEN "cancelled" ELSE "completed"
  <2>1. /\ SetStatus(r, s) /\ Goto(w, "Release") /\ UNCHANGED <<row, redis>>
        /\ job[w].op \in {"cancel", "checkOut"} /\ s = Target[job[w].op] /\ s \in Statuses
    BY <1>6 DEF Cancel, CheckOut, Target, Statuses
  <2>2. TypeOK'
    <3>1. /\ status' \in [Ids -> Statuses \cup {"none"}]
          /\ reached' \in [Ids -> SUBSET Statuses]
      BY <1>1, <2>1, SetStatusTypes DEF Inv
    <3>2. UNCHANGED <<now, row, expiresAt, sessions, lock, lapsed, idem, holds, faults>>
      BY <1>6 DEF Cancel, CheckOut, redis
    <3>3. /\ pc' \in [Procs -> Calls] /\ job' \in [Procs -> Jobs]
          /\ due' \subseteq Ids /\ sent' = sent
      BY <2>1, GotoIs DEF Inv, TypeOK
    <3> QED
      BY <3>1, <3>2, <3>3 DEF Inv, TypeOK
  <2>3. status'[r] # "none" /\ s \in reached'[r]
    BY <1>1, <2>1 DEF SetStatus, Inv, TypeOK, Statuses
  <2>4. Handler(w)'
    BY <1>1, <2>1, <2>3, GotoIs DEF Handler, Creating, Working, Saving
  <2> QED
    BY <1>1, <2>1, <2>2, <2>4, GotoIs, UpdateInv DEF redis
<1>7. CASE CheckIn(w)
  <2>1. SetStatus(r, "active") /\ Goto(w, "idle") /\ UNCHANGED <<row, redis>>
    BY <1>7 DEF CheckIn
  <2>2. sessions' \in [Ids -> Nat]
    BY <1>1, <1>7 DEF CheckIn, Inv, TypeOK
  <2>3. TypeOK'
    <3>1. /\ status' \in [Ids -> Statuses \cup {"none"}]
          /\ reached' \in [Ids -> SUBSET Statuses]
      BY <1>1, <2>1, SetStatusTypes DEF Inv, Statuses
    <3>2. UNCHANGED <<now, row, expiresAt, lock, lapsed, idem, holds, faults>>
      BY <1>7 DEF CheckIn, redis
    <3>3. /\ pc' \in [Procs -> Calls] /\ job' \in [Procs -> Jobs]
          /\ due' \subseteq Ids /\ sent' = sent
      BY <2>1, GotoIs DEF Inv, TypeOK
    <3> QED
      BY <2>2, <3>1, <3>2, <3>3 DEF Inv, TypeOK
  <2>4. Handler(w)'
    BY <2>1, GotoIs DEF Handler, Creating, Working, Saving
  <2> QED
    BY <1>1, <2>1, <2>3, <2>4, GotoIs, TypesOfNames, UpdateInv DEF redis, Statuses
<1> QED
  BY <1>3, <1>4, <1>5, <1>6, <1>7

\* The INSERT statement, whether or not the handler learns that it committed.
LEMMA InsertRowInv ==
  ASSUME Inv, NEW w \in Procs, NEW c \in {"Save", "Undo"},
         pc[w] = "Insert", InsertRow(w), Goto(w, c),
         UNCHANGED <<now, redis>>, faults' \in 0..MaxFaults,
         extended' \subseteq Ids, disowned' \subseteq Ids
  PROVE  Inv'
<1> DEFINE r == job[w].id
<1> USE DEF redis
<1>1. /\ r \in Ids /\ status[r] = "none" /\ job[w].spot \in Spots
      /\ job[w].driver \in Drivers /\ job[w].key \in Keys
      /\ job[w].op = "create" /\ job[w] \in Jobs /\ now \in Nat
      /\ \A q \in Procs \ {w} : job[q].id # r
  BY DEF Inv, Handlers, Creating, OwnId, TypeOK
<1>2. /\ SetStatus(r, "pending") /\ UNCHANGED sessions
      /\ row' = [row EXCEPT ![r] = [driver |-> job[w].driver, key |-> job[w].key,
                                    spot |-> job[w].spot]]
  BY DEF InsertRow
<1>3. /\ status' \in [Ids -> Statuses \cup {"none"}]
      /\ reached' \in [Ids -> SUBSET Statuses]
      /\ \A x \in Ids : /\ status'[x] = IF x = r THEN "pending" ELSE status[x]
                        /\ reached'[x] = IF x = r THEN reached[x] \cup {"pending"} ELSE reached[x]
  BY <1>1, <1>2, SetStatusTypes DEF Inv, Statuses
<1>4. /\ row' \in [Ids -> Rows \cup {NoRow}]
      /\ row'[r] \in Rows /\ row'[r].key = job[w].key /\ row'[r].spot = job[w].spot
      /\ \A x \in Ids \ {r} : row'[x] = row[x]
  BY <1>1, <1>2 DEF Inv, TypeOK, Rows
<1>5. expiresAt' \in [Ids -> Nat]
  <2>1. PICK t \in job[w].since..now : expiresAt' = [expiresAt EXCEPT ![r] = t + PaymentTimeout]
    BY DEF InsertRow
  <2>2. t + PaymentTimeout \in Nat
    BY <1>1 DEF Jobs
  <2> QED
    BY <2>1, <2>2 DEF Inv, TypeOK
<1>6. TypeOK'
  <2>1. pc' \in [Procs -> Calls] /\ job' \in [Procs -> Jobs] /\ due' = due /\ sent' = sent
    BY GotoIs
  <2> QED
    BY <1>2, <1>3, <1>4, <1>5, <2>1 DEF Inv, TypeOK
<1>7. Grows
  BY <1>1, <1>3, <1>4 DEF Grows, Statuses
<1>8. Handlers'
  <2>1. Handler(w)'
    BY <1>1, <1>3, <1>4, GotoIs DEF Handler, Creating, Working, Saving, Statuses
  <2> QED
    BY <1>7, <2>1, GotoIs, OthersStay DEF Handlers, Handler
<1>9. RowsOK'
  BY <1>3, <1>4 DEF RowsOK, Inv
<1>10. OwnId'
  <2> SUFFICES ASSUME NEW p1 \in Procs, pc'[p1] = "Insert"
               PROVE  /\ status'[job'[p1].id] = "none"
                      /\ \A q \in Procs \ {p1} : job'[q].id # job'[p1].id
    BY DEF OwnId
  <2>1. p1 # w /\ pc[p1] = "Insert" /\ job'[p1] = job[p1]
    BY GotoIs DEF Alone
  <2>2. job[p1].id \in Ids /\ status[job[p1].id] = "none" /\ job[p1].id # r
    BY <1>1, <2>1 DEF Inv, Handlers, Creating, OwnId
  <2>3. job'[w].id = r
    BY GotoIs
  <2>4. \A q \in Procs \ {w, p1} : job'[q].id # job[p1].id
    BY <2>1, GotoIs DEF Inv, OwnId, Alone
  <2> QED
    BY <1>3, <2>1, <2>2, <2>3, <2>4
<1>11. Listed'
  BY <1>1, <1>3, GotoIs DEF Listed, Inv, TypeOK
<1> QED
  BY <1>6, <1>8, <1>9, <1>10, <1>11 DEF Inv

LEMMA InsertFailsInv ==
  ASSUME Inv, NEW w \in Procs, InsertFails(w)
  PROVE  Inv'
<1>1. /\ pc[w] = "Insert" /\ Goto(w, "Undo") /\ UNCHANGED <<now, redis>>
      /\ faults' \in 0..MaxFaults /\ extended' \subseteq Ids /\ disowned' \subseteq Ids
  <2>1. /\ pc[w] = "Insert" /\ Goto(w, "Undo") /\ UNCHANGED <<now, redis, extended>>
        /\ job[w].id \in Ids
    BY DEF InsertFails, Inv, Handlers, Creating
  <2>2. faults' \in 0..MaxFaults
    BY DEF InsertFails, Fault, Inv, TypeOK
  <2>3. disowned' \subseteq Ids
    BY <2>1 DEF InsertFails, Inv, TypeOK
  <2> QED
    BY <2>1, <2>2, <2>3 DEF Inv, TypeOK
<1>2. CASE InsertRow(w)
  BY <1>1, <1>2, InsertRowInv
<1>3. CASE UNCHANGED db
  <2>1. Handler(w) /\ Goto(w, "Undo")
    BY <1>1 DEF Inv, Handlers, Handler
  <2>2. Handler(w)'
    BY <1>1, <2>1, GotoIs DEF Handler, Creating, Working, Saving
  <2> QED
    BY <1>1, <1>3, <2>2, GotoInv DEF redis, Inv, TypeOK
<1> QED
  BY <1>2, <1>3 DEF InsertFails

LEMMA ExpiryInv ==
  ASSUME Inv, ExpiryJob
  PROVE  Inv'
<1> USE DEF redis
<1>1. CASE ExpireList
  <2>1. /\ pc'[Cron] = "loop" /\ UNCHANGED <<now, db, redis, job, sent, holds, faults>>
        /\ Alone(Cron)
        /\ due' \subseteq Ids /\ \A r \in due' : status[r] # "none"
        /\ pc' \in [Procs -> Calls]
    BY <1>1 DEF ExpireList, Inv, TypeOK, Alone, Overdue
  <2>2. TypeOK' /\ Handler(Cron)' /\ Listed'
    BY <2>1 DEF Inv, TypeOK, db, Handler, Creating, Working, Saving, Listed
  <2> QED
    BY <2>1, <2>2, QuietStep
<1>2. ASSUME NEW r \in Ids, ExpireFails(r)
      PROVE  Inv'
  <2>1. /\ pc'[Cron] \in {"idle", "loop"} /\ UNCHANGED <<now, db, redis, job, sent, holds>>
        /\ Alone(Cron) /\ due' \subseteq due /\ faults' \in 0..MaxFaults
        /\ pc' \in [Procs -> Calls]
    BY <1>2 DEF ExpireFails, Fault, Inv, TypeOK, Alone
  <2>2. TypeOK' /\ Handler(Cron)' /\ Listed'
    BY <2>1 DEF Inv, TypeOK, db, Handler, Creating, Working, Saving, Listed
  <2> QED
    BY <2>1, <2>2, QuietStep
<1>3. ASSUME NEW r \in Ids, Expire(r)
      PROVE  Inv'
  <2>1. status[r] # "none" /\ row[r] \in Rows
    BY <1>3 DEF Expire, Inv, Listed, RowsOK
  <2>2. JobFor("expire", r, None, 0) \in Jobs
    BY <2>1, TypesOfNames DEF JobFor, Jobs, Rows
  <2>3. /\ pc'[Cron] = "Release" /\ job'[Cron] = JobFor("expire", r, None, 0)
        /\ Alone(Cron) /\ due' \subseteq due
        /\ pc' \in [Procs -> Calls] /\ job' \in [Procs -> Jobs]
    BY <1>3, <2>2 DEF Expire, Inv, TypeOK, Alone
  <2>4. SetStatus(r, "expired") /\ UNCHANGED <<now, row, expiresAt, sessions, redis, sent, holds, faults>>
    BY <1>3 DEF Expire
  <2>5. /\ status' \in [Ids -> Statuses \cup {"none"}]
        /\ reached' \in [Ids -> SUBSET Statuses]
        /\ status'[r] = "expired" /\ "expired" \in reached'[r]
    <3>1. "expired" \in Statuses
      BY DEF Statuses
    <3> QED
      BY <2>4, <3>1, SetStatusTypes DEF Inv, TypeOK, SetStatus
  <2>6. TypeOK'
    BY <2>3, <2>4, <2>5 DEF Inv, TypeOK
  <2>7. Handler(Cron)'
    BY <2>3, <2>4, <2>5 DEF Handler, Creating, Working, Saving, JobFor, Target
  <2> QED
    BY <2>1, <2>3, <2>4, <2>6, <2>7, UpdateInv DEF Statuses, JobFor
<1> QED
  BY <1>1, <1>2, <1>3 DEF ExpiryJob

LEMMA HistoryInv ==
  ASSUME Inv, NEW r \in Ids, HistoryExpire(r)
  PROVE  Inv'
<1>1. /\ status[r] # "none" /\ SetStatus(r, "expired")
      /\ UNCHANGED <<now, row, expiresAt, sessions, redis, local, holds, faults>>
  BY DEF HistoryExpire
<1>2. /\ status' \in [Ids -> Statuses \cup {"none"}]
      /\ reached' \in [Ids -> SUBSET Statuses]
      /\ \A x \in Ids : /\ status'[x] = IF x = r THEN "expired" ELSE status[x]
                        /\ reached'[x] = IF x = r THEN reached[x] \cup {"expired"} ELSE reached[x]
  BY <1>1, SetStatusTypes DEF Inv, Statuses
<1>3. Grows
  BY <1>1, <1>2 DEF Grows
<1>4. TypeOK'
  BY <1>1, <1>2 DEF Inv, TypeOK, redis, local
<1>5. Handler(Cron)'
  BY <1>1, <1>3 DEF Inv, Handlers, Handler, Creating, Working, Saving, Grows, local
<1> QED
  BY <1>1, <1>4, <1>5, UpdateInv DEF Statuses, redis, local, Alone, Inv, Handlers, OwnId

LEMMA TickInv ==
  ASSUME Inv, Tick
  PROVE  Inv'
<1>1. UNCHANGED <<db, idem, local, holds, faults>> /\ now' \in 0..MaxTime
  BY DEF Tick, Inv, TypeOK
<1>2. lock' \in [Spots -> [holder : Ids, until : Nat] \cup {Free}]
  BY DEF Tick, Inv, TypeOK
<1>3. lapsed' \subseteq Ids
  BY NamesAssumption DEF Tick, Inv, TypeOK, Lapses
<1>4. TypeOK'
  BY <1>1, <1>2, <1>3 DEF Inv, TypeOK, db, local
<1>5. RowsOK' /\ Handlers' /\ OwnId' /\ Listed'
  BY <1>1 DEF Inv, RowsOK, Handlers, Creating, Working, Saving, OwnId, Listed, db, local
<1> QED
  BY <1>4, <1>5 DEF Inv

LEMMA NextInv == Inv /\ [Next]_vars => Inv'
<1> SUFFICES ASSUME Inv, [Next]_vars PROVE Inv'
  OBVIOUS
<1>1. ASSUME NEW w \in Workers, Request(w) PROVE Inv'
  BY <1>1, RequestInv
<1>2. ASSUME NEW p \in Procs, Step(p) PROVE Inv'
  <2>1. CASE Insert(p)
    BY <2>1, InsertRowInv DEF Insert, Inv, TypeOK
  <2> QED
    BY <1>2, <2>1, AcquireInv, RedisStepInv, InsertFailsInv, SaveInv, HandlerWriteInv,
       CheckOutReadInv, CrashInv DEF Step
<1>3. ASSUME NEW r \in Ids, HistoryExpire(r) PROVE Inv'
  BY <1>3, HistoryInv
<1>4. CASE UNCHANGED vars
  BY <1>4 DEF Inv, TypeOK, RowsOK, Handlers, Creating, Working, Saving, OwnId, Listed,
              vars, db, redis, local
<1> QED
  BY <1>1, <1>2, <1>3, <1>4, ExpiryInv, TickInv DEF Next

\* Every variable keeps its type in every reachable state.
THEOREM TypeCorrect == Spec => []TypeOK
<1>1. Inv => TypeOK
  BY DEF Inv
<1> QED
  BY <1>1, InitInv, NextInv, PTL DEF Spec

-----------------------------------------------------------------------------
(* Idempotency keys.  Whoever works on a request knows what its key was     *)
(* sent with, and saves a record only of what was done for it.              *)

\* p is at work for a request that was sent with the key job[p].key.
Keyed(p) ==
  /\ pc[p] \in {"Acquire", "Insert"} => None \in sent[job[p].key]
  /\ pc[p] \in {"Read", "Update", "Release"} /\ job[p].op = "checkOut" =>
       job[p].id \in sent[job[p].key]
  /\ pc[p] = "Save" =>
       \/ None \in sent[job[p].key] /\ row[job[p].id].key = job[p].key
       \/ job[p].id \in sent[job[p].key] /\ "completed" \in reached[job[p].id]

KeyInv == IdemTruthful /\ \A p \in Procs : Keyed(p)

\* Keys are only sent with more, and those with a record are not sent any more.
Sends ==
  \A k \in Keys : /\ sent[k] \subseteq sent'[k]
                  /\ idem[k] # None => sent'[k] = sent[k]

\* The row r, which exists, is given the status s.
LEMMA SetStatusGrows ==
  ASSUME Inv, NEW r \in Ids, NEW s \in Statuses, SetStatus(r, s), status[r] # "none",
         UNCHANGED row
  PROVE  Grows /\ \A x \in Ids : status[x] = "none" => status'[x] = "none"
<1>1. \A x \in Ids : /\ status'[x] = IF x = r THEN s ELSE status[x]
                     /\ reached'[x] = IF x = r THEN reached[x] \cup {s} ELSE reached[x]
  BY SetStatusTypes DEF Inv
<1>2. s # "none"
  BY DEF Statuses
<1>3. ASSUME NEW x \in Ids
      PROVE  /\ status[x] # "none" =>
                  row'[x] = row[x] /\ status'[x] # "none" /\ reached[x] \subseteq reached'[x]
             /\ status[x] = "none" => status'[x] = "none"
  <2>1. CASE x = r
    <3>1. status'[x] = s /\ reached'[x] = reached[x] \cup {s}
      BY <1>1, <2>1
    <3> QED
      BY <1>2, <2>1, <3>1
  <2>2. CASE x # r
    <3>1. status'[x] = status[x] /\ reached'[x] = reached[x]
      BY <1>1, <2>2
    <3> QED
      BY <3>1
  <2> QED
    BY <2>1, <2>2
<1> QED
  BY <1>3 DEF Grows

\* A step of p that saves no record keeps KeyInv when it keeps p's own part of it.
LEMMA KeyStep ==
  ASSUME Inv, KeyInv, Grows, Sends, UNCHANGED idem,
         NEW p \in Procs, Alone(p), Keyed(p)'
  PROVE  KeyInv'
<1>1. IdemTruthful'
  <2> SUFFICES ASSUME NEW k \in Keys, idem[k] # None
               PROVE  /\ sent'[k] = {None} => row'[idem[k]].key = k
                      /\ \A r \in Ids : sent'[k] = {r} =>
                           idem[k] = r /\ "completed" \in reached'[r]
    BY DEF IdemTruthful
  <2>1. sent'[k] = sent[k] /\ idem[k] \in Ids
    BY DEF Sends, Inv, TypeOK
  <2>2. \A r \in Ids : status[r] = "none" => row[r].key = None /\ reached[r] = {}
    BY DEF Inv, RowsOK, NoRow
  <2> QED
    BY <2>1, <2>2 DEF KeyInv, IdemTruthful, Grows
<1>2. ASSUME NEW q \in Procs \ {p} PROVE Keyed(q)'
  <2>1. Keyed(q) /\ Creating(q) /\ Working(q) /\ Saving(q)
    BY DEF KeyInv, Inv, Handlers
  <2>2. pc'[q] = pc[q] /\ job'[q] = job[q]
    BY DEF Alone
  <2> QED
    BY <2>1, <2>2 DEF Keyed, Creating, Working, Saving, Sends, Grows
<1> QED
  BY <1>1, <1>2 DEF KeyInv

LEMMA RequestKeys ==
  ASSUME Inv, KeyInv, NEW w \in Workers, Request(w)
  PROVE  KeyInv'
<1>1. ASSUME NEW c \in {"Acquire", "Read", "Update"}, NEW j, Begin(w, c, j),
             UNCHANGED <<now, db, redis, holds, faults>>,
             j.key # None => j.key \in Keys /\ idem[j.key] = None,
             c # "Update" => j.key # None,
             c = "Acquire" => j.id = None, c # "Acquire" => j.id \in Ids,
             c = "Update" => j.op # "checkOut"
      PROVE  KeyInv'
  <2>1. pc'[w] = c /\ job'[w] = j /\ Alone(w)
    BY <1>1 DEF Begin, Inv, TypeOK, Alone
  <2>2. Sends /\ (j.key # None => j.id \in sent'[j.key])
    BY <1>1 DEF Begin, Uses, Sends, Inv, TypeOK
  <2>3. Keyed(w)'
    BY <1>1, <2>1, <2>2 DEF Keyed
  <2> QED
    BY <1>1, <2>1, <2>2, <2>3, KeyStep DEF Grows, db, redis
<1>2. ASSUME NEW d \in Drivers, NEW k \in Keys, NEW s \in 0..NumSpots,
             CreateRequest(w, d, k, s)
      PROVE  KeyInv'
  BY <1>1, <1>2 DEF CreateRequest
<1>3. ASSUME NEW r \in Ids, PayRequest(w, r) \/ ConfirmRequest(w, r)
      PROVE  KeyInv'
  BY <1>1, <1>3 DEF PayRequest, ConfirmRequest, JobFor
<1>4. ASSUME NEW r \in Ids, NEW d \in Drivers, CancelRequest(w, r, d) \/ CheckInRequest(w, r, d)
      PROVE  KeyInv'
  BY <1>1, <1>4 DEF CancelRequest, CheckInRequest, JobFor
<1>5. ASSUME NEW r \in Ids, NEW d \in Drivers, NEW k \in Keys, CheckOutRequest(w, r, d, k)
      PROVE  KeyInv'
  BY <1>1, <1>5 DEF CheckOutRequest, JobFor
<1> QED
  BY <1>2, <1>3, <1>4, <1>5 DEF Request

LEMMA SaveKeys ==
  ASSUME Inv, KeyInv, NEW p \in Procs, Save(p)
  PROVE  KeyInv'
<1>1. /\ After(p) \in {"idle", "loop"} /\ UNCHANGED db
      /\ pc[p] = "Save" /\ Saving(p) /\ Keyed(p)
  BY DEF Save, After, Inv, Handlers, KeyInv
<1>2. pc'[p] \in {"idle", "loop"} /\ Alone(p) /\ sent' = sent
  BY <1>1, GotoIs DEF Save
<1>3. \A q \in Procs : Keyed(q)'
  BY <1>1, <1>2 DEF Keyed, KeyInv, Alone, db
<1>4. IdemTruthful'
  <2>1. \A k \in Keys : idem'[k] = IF k = job[p].key THEN job[p].id ELSE idem[k]
    BY DEF Save, Inv, TypeOK
  <2>2. /\ job[p].id \in Ids
        /\ sent[job[p].key] = {None} => row[job[p].id].key = job[p].key
        /\ \A r \in Ids : sent[job[p].key] = {r} =>
             job[p].id = r /\ "completed" \in reached[r]
    BY <1>1 DEF Saving, Keyed
  <2>3. row' = row /\ reached' = reached
    BY <1>1 DEF db
  <2> QED
    BY <1>2, <2>1, <2>2, <2>3 DEF IdemTruthful, KeyInv
<1> QED
  BY <1>3, <1>4 DEF KeyInv

\* The other calls of a handler.
LEMMA CallKeys ==
  ASSUME Inv, KeyInv, NEW p \in Procs, Step(p), ~Save(p)
  PROVE  KeyInv'
<1>1. Handler(p) /\ Keyed(p) /\ UNCHANGED idem
  BY DEF Inv, Handlers, Handler, KeyInv, redis, Step, Acquire, SpotUnavailable, Insert,
         InsertFails, Undo, Pay, Extend, Confirm, Relock, Cancel, CheckIn, CheckOutRead,
         CheckOut, Release, Dropped, Crash
<1>2. CASE Acquire(p)
  <2>1. /\ pc[p] = "Acquire" /\ pc'[p] = "Insert" /\ job'[p].key = job[p].key
        /\ Alone(p) /\ UNCHANGED <<db, sent>>
    BY <1>2 DEF Acquire, Alone, Inv, TypeOK
  <2> QED
    BY <1>1, <2>1, KeyStep DEF Keyed, Grows, Sends, db
<1>3. CASE Crash(p)
  <2>1. pc'[p] = "idle" /\ Alone(p) /\ UNCHANGED <<db, sent>>
    BY <1>3 DEF Crash, Alone, Inv, TypeOK
  <2> QED
    BY <1>1, <2>1, KeyStep DEF Keyed, Grows, Sends, db
<1>4. ASSUME NEW c \in Calls, Goto(p, c)
      PROVE  /\ pc'[p] = c /\ Alone(p) /\ Sends
             /\ c \notin {"idle", "loop"} =>
                  /\ job'[p].op = job[p].op /\ job'[p].id = job[p].id
                  /\ job'[p].key = job[p].key
             /\ sent' = sent
  BY <1>4, GotoIs DEF Sends
<1>5. CASE Insert(p) \/ (InsertFails(p) /\ InsertRow(p))
  <2>1. /\ job[p].id \in Ids /\ status[job[p].id] = "none" /\ pc[p] = "Insert"
        /\ row' = [row EXCEPT ![job[p].id] = [driver |-> job[p].driver, key |-> job[p].key,
                                              spot |-> job[p].spot]]
        /\ SetStatus(job[p].id, "pending") /\ "pending" \in Statuses
    BY <1>5 DEF Insert, InsertFails, InsertRow, Inv, Handlers, Creating, OwnId, Statuses
  <2>2. Grows
    BY <2>1 DEF Grows, SetStatus, Inv, TypeOK
  <2>3. PICK c \in {"Save", "Undo"} : Goto(p, c)
    BY <1>5 DEF Insert, InsertFails
  <2>4. row'[job[p].id].key = job[p].key
    BY <2>1 DEF Inv, TypeOK
  <2>5. Keyed(p)'
    BY <1>1, <1>4, <2>1, <2>3, <2>4 DEF Keyed
  <2> QED
    BY <1>1, <1>4, <2>2, <2>3, <2>5, KeyStep
<1>6. CASE Pay(p) \/ Confirm(p) \/ Cancel(p) \/ CheckIn(p) \/ CheckOut(p)
  <2>1. /\ pc[p] = "Update" /\ job[p].id \in Ids /\ status[job[p].id] # "none"
        /\ UNCHANGED row /\ Target[job[p].op] \in Statuses
    BY <1>1, <1>6 DEF Pay, Confirm, Cancel, CheckIn, CheckOut, Handler, Working, Target, Statuses
  <2>2. SetStatus(job[p].id, Target[job[p].op]) \/ UNCHANGED <<status, reached>>
    BY <1>6 DEF Pay, Confirm, Cancel, CheckIn, CheckOut, Target
  <2>3. Grows
    BY <2>1, <2>2, SetStatusGrows DEF Grows
  <2>4. PICK c \in {"idle", "Extend", "Relock", "Release"} : Goto(p, c)
    BY <1>6 DEF Pay, Confirm, Cancel, CheckIn, CheckOut
  <2>5. Keyed(p)'
    BY <1>1, <1>4, <2>1, <2>4 DEF Keyed
  <2> QED
    BY <1>1, <1>4, <2>3, <2>4, <2>5, KeyStep
<1>7. ASSUME UNCHANGED db, NEW c \in Calls, Goto(p, c),
             \/ c \in {"idle", "loop", "Undo"}
             \/ c = "Update" /\ pc[p] = "Read"
             \/ c = "Save" /\ pc[p] = "Release" /\ job[p].op = "checkOut"
      PROVE  KeyInv'
  <2>1. Keyed(p)'
    BY <1>1, <1>4, <1>7 DEF Keyed, Handler, Working, Target, db
  <2> QED
    BY <1>1, <1>4, <1>7, <2>1, KeyStep DEF Grows, db
<1>8. CASE SpotUnavailable(p) \/ Undo(p) \/ Extend(p) \/ Relock(p)
           \/ (InsertFails(p) /\ UNCHANGED db)
  BY <1>7, <1>8 DEF SpotUnavailable, Undo, Extend, Relock, InsertFails
<1>9. CASE CheckOutRead(p)
  BY <1>7, <1>9 DEF CheckOutRead
<1>10. CASE Release(p) \/ Dropped(p)
  <2>1. /\ UNCHANGED db /\ Goto(p, After(p)) /\ After(p) \in Calls
        /\ After(p) \in {"idle", "loop"} \/ (After(p) = "Save" /\ pc[p] = "Release"
                                             /\ job[p].op = "checkOut")
    BY <1>10 DEF Release, Dropped, After
  <2> QED
    BY <1>7, <2>1
<1>11. InsertFails(p) => InsertRow(p) \/ UNCHANGED db
  BY DEF InsertFails
<1> QED
  BY <1>2, <1>3, <1>5, <1>6, <1>8, <1>9, <1>10, <1>11 DEF Step

LEMMA OtherKeys ==
  ASSUME Inv, KeyInv, ExpiryJob \/ (\E r \in Ids : HistoryExpire(r)) \/ Tick
  PROVE  KeyInv'
<1>1. UNCHANGED <<row, idem, sent>> /\ Sends
  BY DEF ExpiryJob, ExpireList, Expire, ExpireFails, HistoryExpire, Tick, redis, local, db, Sends
<1>2. Grows
  <2>1. ASSUME NEW r \in Ids, Expire(r) \/ HistoryExpire(r) PROVE Grows
    <3>1. status[r] # "none" /\ SetStatus(r, "expired") /\ "expired" \in Statuses
      BY <2>1 DEF Expire, HistoryExpire, Inv, Listed, Statuses
    <3> QED
      BY <1>1, <3>1, SetStatusGrows
  <2>2. CASE UNCHANGED db
    BY <2>2 DEF Grows, db
  <2> QED
    BY <2>1, <2>2 DEF ExpiryJob, ExpireList, ExpireFails, Tick
<1>3. CASE UNCHANGED <<pc, job>>
  <2>1. Alone(Cron)
    BY <1>3 DEF Alone
  <2>2. Keyed(Cron) /\ Creating(Cron) /\ Working(Cron) /\ Saving(Cron)
    BY DEF KeyInv, Inv, Handlers
  <2>3. Keyed(Cron)'
    BY <1>1, <1>2, <1>3, <2>2 DEF Keyed, Saving, Grows
  <2> QED
    BY <1>1, <1>2, <2>1, <2>3, KeyStep
<1>4. CASE ExpiryJob
  <2>1. /\ Alone(Cron) /\ pc'[Cron] \in {"idle", "loop", "Release"}
        /\ pc'[Cron] = "Release" => job'[Cron].op = "expire"
    BY <1>4 DEF ExpiryJob, ExpireList, Expire, ExpireFails, Alone, JobFor, Inv, TypeOK
  <2> QED
    BY <1>1, <1>2, <2>1, KeyStep DEF Keyed
<1> QED
  BY <1>3, <1>4 DEF HistoryExpire, Tick, local

LEMMA NextKeys == Inv /\ KeyInv /\ [Next]_vars => KeyInv'
<1> SUFFICES ASSUME Inv, KeyInv, [Next]_vars PROVE KeyInv'
  OBVIOUS
<1>1. CASE UNCHANGED vars
  BY <1>1 DEF vars, db, redis, local, KeyInv, Keyed, IdemTruthful
<1>2. CASE Next
  BY <1>2, RequestKeys, SaveKeys, CallKeys, OtherKeys DEF Next
<1> QED
  BY <1>1, <1>2

\* A request is answered as a repetition only when what its key was sent for has
\* been done, whatever overlaps, whatever fails, and whatever else the same key is
\* recorded for: a record is saved only of a row that was inserted with the key, or
\* of a reservation completed for a check-out sent with it.
THEOREM IdempotencyRecords == Spec => []IdemTruthful
<1>1. Init => KeyInv
  BY DEF Init, KeyInv, Keyed, IdemTruthful
<1>2. KeyInv => IdemTruthful
  BY DEF KeyInv
<1> QED
  BY <1>1, <1>2, InitInv, NextInv, NextKeys, PTL DEF Spec

-----------------------------------------------------------------------------
(* The history of a reservation is one that ReservationProgress allows.    *)

LEMMA ReachStep ==
  ASSUME Inv, NEW r \in Ids, NEW s \in Statuses, SetStatus(r, s),
         P!Presupposes[s] \subseteq reached[r]
  PROVE  P!Next
  BY DEF P!Next, P!Reach, P!Milestones, P!Presupposes, SetStatus, Statuses

\* Nobody parks on a reservation that was never confirmed, leaves one he never
\* parked on, or ends one that was never inserted.
THEOREM ProgressRefined == Spec => Progress
<1>1. Init => P!Init
  BY DEF Init, P!Init
<1>2. Inv /\ [Next]_vars => [P!Next]_reached
  <2> SUFFICES ASSUME Inv, [Next]_vars, reached' # reached PROVE P!Next
    OBVIOUS
  <2>1. ASSUME NEW w \in Procs, InsertRow(w), pc[w] = "Insert" PROVE P!Next
    <3>1. SetStatus(job[w].id, "pending") /\ job[w].id \in Ids
      BY <2>1 DEF InsertRow, Inv, Handlers, Creating
    <3> QED
      BY <3>1, ReachStep DEF Statuses, P!Presupposes
  <2>2. ASSUME NEW w \in Procs, Pay(w) \/ Confirm(w) \/ Cancel(w) \/ CheckIn(w) \/ CheckOut(w)
        PROVE  P!Next
    <3>1. /\ job[w].id \in Ids /\ SetStatus(job[w].id, Target[job[w].op])
          /\ P!Presupposes[Target[job[w].op]] \subseteq reached[job[w].id]
          /\ Target[job[w].op] \in Statuses
      BY <2>2 DEF Pay, Confirm, Cancel, CheckIn, CheckOut, Inv, Handlers, Working, Target, Statuses
    <3> QED
      BY <3>1, ReachStep
  <2>3. ASSUME NEW r \in Ids, Expire(r) \/ HistoryExpire(r) PROVE P!Next
    <3>1. "pending" \in reached[r] /\ SetStatus(r, "expired")
      BY <2>3 DEF Expire, HistoryExpire, Inv, Listed, RowsOK
    <3> QED
      BY <3>1, ReachStep DEF Statuses, P!Presupposes
  <2>4. CASE UNCHANGED vars
    BY <2>4 DEF vars, db
  <2>5. ASSUME NEW w \in Workers, Request(w) PROVE FALSE
    BY <2>5 DEF Request, CreateRequest, PayRequest, ConfirmRequest, CancelRequest,
                CheckInRequest, CheckOutRequest, db
  <2>6. ASSUME NEW p \in Procs, Step(p), ~InsertRow(p) \/ pc[p] # "Insert",
               ~(Pay(p) \/ Confirm(p) \/ Cancel(p) \/ CheckIn(p) \/ CheckOut(p))
        PROVE  FALSE
    BY <2>6 DEF Step, Acquire, SpotUnavailable, Insert, InsertFails, Undo, Save, Extend, Relock,
                CheckOutRead, Release, Dropped, Crash, db
  <2>7. CASE ExpireList \/ (\E r \in Ids : ExpireFails(r)) \/ Tick
    BY <2>7 DEF ExpireList, ExpireFails, Tick, db
  <2> QED
    BY <2>1, <2>2, <2>3, <2>4, <2>5, <2>6, <2>7 DEF Next, ExpiryJob
<1> QED
  BY <1>1, <1>2, InitInv, NextInv, PTL DEF Spec, Progress, P!Spec

-----------------------------------------------------------------------------
(* Double booking.  A reservation that is neither final nor lapsed holds    *)
(* the lock of its spot, from the moment the lock is acquired until the     *)
(* handler that ended it gives the lock back.                               *)

Holds(r, s) == r \notin lapsed => lock[s].holder = r

\* r has been inserted by a handler that knows it, and has not ended since.
Entitled(r) == status[r] # "none" /\ ~Ended(r) /\ r \notin disowned

BookInv ==
  /\ \A r \in Ids : Entitled(r) => Holds(r, row[r].spot)
  /\ \A p \in Procs : pc[p] = "Insert" => Holds(job[p].id, job[p].spot)
  /\ \A p \in Procs : pc[p] = "Undo" => status[job[p].id] = "none" \/ job[p].id \in disowned

\* Handlers reach Insert and Undo with what they hold already, and no row is new.
NothingNew ==
  /\ disowned \subseteq disowned'
  /\ \A r \in Ids : status[r] = "none" => status'[r] = "none"
  /\ \A p \in Procs :
       /\ pc'[p] = "Insert" => /\ pc[p] = "Insert"
                               /\ job'[p].id = job[p].id /\ job'[p].spot = job[p].spot
       /\ pc'[p] = "Undo" => pc[p] \in {"Insert", "Undo"} /\ job'[p].id = job[p].id

\* A step after which everyone who held a lock before still does.
LEMMA KeepLocks ==
  ASSUME Inv, BookInv, Grows, NothingNew,
         \A r \in Ids, s \in Spots :
           /\ Holds(r, s)
           /\ Entitled(r) \/ (\E p \in Procs : pc[p] = "Insert" /\ job[p].id = r)
           => Holds(r, s)'
  PROVE  BookInv'
<1>1. ASSUME NEW r \in Ids, Entitled(r)'
      PROVE  Holds(r, row[r].spot)'
  <2>1. Entitled(r) /\ row'[r] = row[r] /\ row[r].spot \in Spots
    BY <1>1 DEF NothingNew, Grows, Entitled, Ended, Inv, RowsOK, Rows
  <2> QED
    BY <2>1 DEF BookInv, Holds
<1>2. ASSUME NEW p \in Procs, pc'[p] = "Insert"
      PROVE  Holds(job[p].id, job[p].spot)'
  <2>1. /\ pc[p] = "Insert" /\ job'[p].id = job[p].id /\ job'[p].spot = job[p].spot
        /\ job[p].id \in Ids /\ job[p].spot \in Spots
    BY <1>2 DEF NothingNew, Inv, Handlers, Creating
  <2> QED
    BY <2>1 DEF BookInv, Holds
<1>3. ASSUME NEW p \in Procs, pc'[p] = "Undo"
      PROVE  status'[job'[p].id] = "none" \/ job'[p].id \in disowned'
  <2>1. /\ pc[p] \in {"Insert", "Undo"} /\ job'[p].id = job[p].id
        /\ job[p].id \in Ids /\ (status[job[p].id] = "none" \/ job[p].id \in disowned)
    BY <1>3 DEF NothingNew, Inv, Handlers, Creating, OwnId, BookInv
  <2> QED
    BY <2>1 DEF NothingNew
<1>4. \A r \in Ids : Entitled(r)' => Holds(r, row[r].spot)'
  BY <1>1
<1> QED
  BY <1>2, <1>3, <1>4 DEF BookInv

\* A step that only writes rows that exist, or none.
LEMMA DbStepKeepsLocks ==
  ASSUME Inv, BookInv, Grows, NothingNew, UNCHANGED <<lock, lapsed>>
  PROVE  BookInv'
  BY KeepLocks DEF Holds

LEMMA RequestBook ==
  ASSUME Inv, BookInv, NEW w \in Workers, Request(w)
  PROVE  BookInv'
<1>1. /\ UNCHANGED <<now, db, redis, holds, faults>>
      /\ \E c \in {"Acquire", "Read", "Update"} : \E j : Begin(w, c, j)
  BY DEF Request, CreateRequest, PayRequest, ConfirmRequest, CancelRequest,
         CheckInRequest, CheckOutRequest
<1>2. Grows /\ NothingNew
  <2>1. PICK c \in {"Acquire", "Read", "Update"} : \E j : Begin(w, c, j)
    BY <1>1
  <2>2. PICK j : Begin(w, c, j)
    BY <2>1
  <2> QED
    BY <1>1, <2>2 DEF Grows, NothingNew, Begin, db, Inv, TypeOK
<1> QED
  BY <1>1, <1>2, DbStepKeepsLocks DEF redis

\* The control of p's step when it goes on to the call c.
LEMMA GotoNew ==
  ASSUME Inv, NEW p \in Procs, NEW c \in Calls \ {"Insert"}, Goto(p, c),
         c = "Undo" => pc[p] = "Insert", disowned \subseteq disowned',
         \A r \in Ids : status[r] = "none" => status'[r] = "none"
  PROVE  NothingNew
  BY GotoIs DEF NothingNew, Alone

\* Steps that change nothing in the table, nor any lock.
LEMMA QuietBook ==
  ASSUME Inv, BookInv, NEW p \in Procs,
         SpotUnavailable(p) \/ CheckOutRead(p) \/ Save(p) \/ Dropped(p) \/ Crash(p)
  PROVE  BookInv'
<1>1. UNCHANGED <<db, lock, lapsed, disowned>>
  BY DEF SpotUnavailable, CheckOutRead, Save, Dropped, Crash, redis
<1>2. Grows
  BY <1>1 DEF Grows, db
<1>3. CASE Crash(p)
  <2>1. NothingNew
    BY <1>1, <1>3 DEF Crash, NothingNew, db, Inv, TypeOK
  <2> QED
    BY <1>1, <1>2, <2>1, DbStepKeepsLocks
<1>4. CASE ~Crash(p)
  <2>1. PICK c \in Calls \ {"Insert", "Undo"} : Goto(p, c)
    BY <1>4 DEF SpotUnavailable, CheckOutRead, Save, Dropped, After
  <2>2. NothingNew
    BY <1>1, <2>1, GotoNew DEF db
  <2> QED
    BY <1>1, <1>2, <2>2, DbStepKeepsLocks
<1> QED
  BY <1>3, <1>4

LEMMA HandlerWriteBook ==
  ASSUME Inv, BookInv, NEW w \in Procs,
         Pay(w) \/ Confirm(w) \/ Cancel(w) \/ CheckIn(w) \/ CheckOut(w)
  PROVE  BookInv'
<1>1. /\ job[w].id \in Ids /\ status[job[w].id] # "none" /\ UNCHANGED <<row, lock, lapsed, disowned>>
      /\ Target[job[w].op] \in Statuses
  BY DEF Pay, Confirm, Cancel, CheckIn, CheckOut, redis, Inv, Handlers, Working, Target, Statuses
<1>2. PICK c \in Calls \ {"Insert", "Undo"} : Goto(w, c)
  BY DEF Pay, Confirm, Cancel, CheckIn, CheckOut
<1>3. CASE SetStatus(job[w].id, Target[job[w].op])
  BY <1>1, <1>2, <1>3, SetStatusGrows, GotoNew, DbStepKeepsLocks
<1>4. CASE UNCHANGED <<status, reached>>
  <2>1. Grows /\ NothingNew
    BY <1>1, <1>2, <1>4, GotoNew DEF Grows
  <2> QED
    BY <1>1, <2>1, DbStepKeepsLocks
<1> QED
  BY <1>3, <1>4 DEF Pay, Confirm, Cancel, CheckIn, CheckOut, Target

LEMMA ExpiryBook ==
  ASSUME Inv, BookInv, ExpiryJob \/ \E r \in Ids : HistoryExpire(r)
  PROVE  BookInv'
<1>1. CASE ExpireList \/ \E r \in Ids : ExpireFails(r)
  <2>1. UNCHANGED <<db, job, lock, lapsed, disowned>>
    BY <1>1 DEF ExpireList, ExpireFails, redis
  <2>2. NothingNew
    BY <1>1, <2>1 DEF ExpireList, ExpireFails, NothingNew, db, Inv, TypeOK
  <2> QED
    BY <2>1, <2>2, DbStepKeepsLocks DEF Grows, db
<1>2. ASSUME NEW r \in Ids, Expire(r) \/ HistoryExpire(r)
      PROVE  BookInv'
  <2>1. /\ status[r] # "none" /\ SetStatus(r, "expired") /\ "expired" \in Statuses
        /\ UNCHANGED <<row, lock, lapsed, disowned>>
    BY <1>2 DEF Expire, HistoryExpire, redis, Inv, Listed, Statuses
  <2>2. NothingNew
    BY <1>2, <2>1, SetStatusGrows DEF Expire, HistoryExpire, NothingNew, local, Inv, TypeOK
  <2> QED
    BY <2>1, <2>2, SetStatusGrows, DbStepKeepsLocks
<1> QED
  BY <1>1, <1>2 DEF ExpiryJob

\* The lock that Acquire takes was free, so nobody was holding it.
LEMMA AcquireBook ==
  ASSUME Inv, BookInv, NEW w \in Procs, Acquire(w)
  PROVE  BookInv'
<1>1. PICK s \in Findable(w), r \in Fresh :
        /\ SetNX(s, r, PaymentTimeout)
        /\ job' = [job EXCEPT ![w] = [op |-> "create", id |-> r, driver |-> @.driver,
                                      key |-> @.key, spot |-> s, since |-> now]]
  BY DEF Acquire
<1>2. /\ r \in Ids /\ status[r] = "none" /\ UNCHANGED <<db, disowned>>
      /\ pc' = [pc EXCEPT ![w] = "Insert"] /\ pc[w] = "Acquire"
  BY DEF Acquire, Fresh
<1>3. s \in Spots
  BY <1>2 DEF Findable, Jobs, Inv, TypeOK, Handlers, Creating
<1>4. /\ lock[s] = Free /\ lapsed' = lapsed \ {r}
      /\ lock' = [lock EXCEPT ![s] = [holder |-> r, until |-> now + PaymentTimeout]]
  BY <1>1 DEF SetNX
<1>5. lock'[s].holder = r /\ job'[w].id = r /\ job'[w].spot = s
  BY <1>1, <1>3, <1>4 DEF Inv, TypeOK
<1>6. ASSUME NEW x \in Ids, NEW z \in Spots, x # r, Holds(x, z)
      PROVE  Holds(x, z)'
  BY <1>3, <1>4, <1>6 DEF Holds, Inv, TypeOK
<1>7. ASSUME NEW x \in Ids, Entitled(x)'
      PROVE  Holds(x, row[x].spot)'
  <2>1. Entitled(x) /\ row'[x] = row[x] /\ row[x].spot \in Spots
    BY <1>2, <1>7 DEF db, Entitled, Ended, Inv, RowsOK, Rows
  <2> QED
    BY <1>2, <1>6, <2>1 DEF BookInv, Entitled
<1>8. ASSUME NEW p \in Procs, pc'[p] = "Insert"
      PROVE  Holds(job[p].id, job[p].spot)'
  <2>1. CASE p = w
    BY <1>5, <2>1 DEF Holds
  <2>2. CASE p # w
    <3>1. /\ pc[p] = "Insert" /\ job'[p] = job[p] /\ job[p].id # r
          /\ job[p].id \in Ids /\ job[p].spot \in Spots
      BY <1>1, <1>2, <1>8, <2>2 DEF Fresh, Inv, TypeOK, Handlers, Creating
    <3>2. Holds(job[p].id, job[p].spot)
      BY <3>1 DEF BookInv
    <3> QED
      BY <1>6, <3>1, <3>2 DEF Holds
  <2> QED
    BY <2>1, <2>2
<1>9. ASSUME NEW p \in Procs, pc'[p] = "Undo"
      PROVE  status'[job'[p].id] = "none" \/ job'[p].id \in disowned'
  BY <1>1, <1>2, <1>9 DEF BookInv, db, Inv, TypeOK
<1>10. \A x \in Ids : Entitled(x)' => Holds(x, row[x].spot)'
  BY <1>7
<1> QED
  BY <1>8, <1>9, <1>10 DEF BookInv

\* A lock is given back by who reserved it for a row that was not inserted, or
\* by who ended the reservation.
LEMMA GiveBackBook ==
  ASSUME Inv, BookInv, NEW p \in Procs, Undo(p) \/ Release(p)
  PROVE  BookInv'
<1>1. /\ ReleaseLock(job[p].spot, job[p].id) /\ UNCHANGED <<db, lapsed, disowned>>
      /\ pc[p] \in {"Undo", "Release"}
      /\ \E c \in Calls \ {"Insert", "Undo"} : Goto(p, c)
  BY DEF Undo, Release, After
<1>2. Grows /\ NothingNew
  BY <1>1, GotoNew DEF Grows, db
<1>3. ASSUME NEW r \in Ids, Entitled(r)
      PROVE  r # job[p].id
  BY <1>1, <1>3 DEF BookInv, Inv, Handlers, Working, Target, Entitled, Ended
<1>4. ASSUME NEW q \in Procs, pc[q] = "Insert"
      PROVE  job[q].id # job[p].id
  BY <1>1, <1>4 DEF Inv, OwnId
<1>5. ASSUME NEW r \in Ids, NEW s \in Spots, Holds(r, s), r # job[p].id
      PROVE  Holds(r, s)'
  BY <1>1, <1>5 DEF Holds, ReleaseLock, Inv, TypeOK
<1> QED
  BY <1>2, <1>3, <1>4, <1>5, KeepLocks

LEMMA ExtendBook ==
  ASSUME Inv, BookInv, NEW p \in Procs, Extend(p)
  PROVE  BookInv'
<1>1. UNCHANGED <<db, lapsed, disowned>> /\ Goto(p, "idle")
  BY DEF Extend
<1>2. Grows /\ NothingNew
  BY <1>1, GotoNew DEF Grows, db
<1>3. ASSUME NEW r \in Ids, NEW s \in Spots, Holds(r, s)
      PROVE  Holds(r, s)'
  <2>1. lock'[s].holder = lock[s].holder
    BY DEF Extend, Inv, TypeOK
  <2> QED
    BY <1>1, <1>3, <2>1 DEF Holds
<1> QED
  BY <1>2, <1>3, KeepLocks

LEMMA RelockBook ==
  ASSUME Inv, BookInv, NEW p \in Procs, Relock(p)
  PROVE  BookInv'
<1> DEFINE id == job[p].id  sp == job[p].spot
<1>1. /\ UNCHANGED <<db, disowned>> /\ Goto(p, "idle")
      /\ id \in Ids /\ status[id] # "none" /\ sp = row[id].spot /\ sp \in Spots
  BY DEF Relock, Inv, Handlers, Working, RowsOK, Rows
<1>2. Grows /\ NothingNew
  BY <1>1, GotoNew DEF Grows, db
<1>3. CASE UNCHANGED <<lock, lapsed>>
  BY <1>2, <1>3, DbStepKeepsLocks
<1>4. CASE SetNX(sp, id, HoldDuration)
  <2>1. /\ lock[sp] = Free /\ lapsed' = lapsed \ {id}
        /\ lock' = [lock EXCEPT ![sp] = [holder |-> id, until |-> now + HoldDuration]]
    BY <1>4 DEF SetNX
  <2>2. ASSUME NEW r \in Ids, NEW s \in Spots, r # id, Holds(r, s)
        PROVE  Holds(r, s)'
    BY <2>1, <2>2, <1>1 DEF Holds, Inv, TypeOK
  <2>3. lock'[sp].holder = id /\ row'[id].spot = sp
    BY <2>1, <1>1 DEF Inv, TypeOK, db
  <2>4. ASSUME NEW r \in Ids, Entitled(r)'
        PROVE  Holds(r, row[r].spot)'
    <3>1. Entitled(r) /\ row'[r] = row[r] /\ row[r].spot \in Spots
      BY <1>1, <2>4 DEF db, Entitled, Ended, Inv, RowsOK, Rows
    <3>2. CASE r = id
      BY <2>3, <3>2 DEF Holds
    <3>3. CASE r # id
      <4>1. Holds(r, row[r].spot)
        BY <3>1 DEF BookInv
      <4>2. lapsed' = lapsed \ {id} /\ row'[r].spot = row[r].spot
        BY <2>1, <3>1
      <4> QED
        BY <2>2, <3>1, <3>3, <4>1, <4>2 DEF Holds
    <3> QED
      BY <3>2, <3>3
  <2>5. ASSUME NEW q \in Procs, pc'[q] = "Insert"
        PROVE  Holds(job[q].id, job[q].spot)'
    <3>1. /\ pc[q] = "Insert" /\ job'[q].id = job[q].id /\ job'[q].spot = job[q].spot
          /\ job[q].id \in Ids /\ job[q].spot \in Spots /\ job[q].id # id
      BY <1>1, <1>2, <2>5 DEF NothingNew, Inv, Handlers, Creating, OwnId
    <3> QED
      BY <2>2, <3>1 DEF BookInv, Holds
  <2>6. ASSUME NEW q \in Procs, pc'[q] = "Undo"
        PROVE  status'[job'[q].id] = "none" \/ job'[q].id \in disowned'
    BY <1>1, <1>2, <2>6, GotoIs DEF BookInv, NothingNew, Alone, db
  <2>7. \A r \in Ids : Entitled(r)' => Holds(r, row[r].spot)'
    BY <2>4
  <2> QED
    BY <2>5, <2>6, <2>7 DEF BookInv
<1> QED
  BY <1>3, <1>4 DEF Relock

\* A lock that time takes away leaves its holder among the lapsed.
LEMMA TickBook ==
  ASSUME Inv, BookInv, Tick
  PROVE  BookInv'
<1>1. UNCHANGED <<db, local, disowned>>
  BY DEF Tick
<1>2. Grows /\ NothingNew
  BY <1>1 DEF Grows, NothingNew, db, local
<1>3. ASSUME NEW r \in Ids, NEW s \in Spots, Holds(r, s)
      PROVE  Holds(r, s)'
  <2>1. lapsed \subseteq lapsed' /\ (Lapses(s) => lock[s].holder \in lapsed')
        /\ (~Lapses(s) => lock'[s] = lock[s])
    BY DEF Tick
  <2> QED
    BY <1>3, <2>1 DEF Holds
<1> QED
  BY <1>2, <1>3, KeepLocks

\* The row that is inserted holds the lock its handler has acquired, as long as
\* the handler learns that it is there.
LEMMA InsertBook ==
  ASSUME Inv, BookInv, NEW w \in Procs, pc[w] = "Insert", InsertRow(w),
         UNCHANGED <<lock, lapsed>>,
         \/ Goto(w, "Save") /\ disowned' = disowned
         \/ Goto(w, "Undo") /\ disowned' = disowned \cup {job[w].id}
  PROVE  BookInv'
<1> DEFINE id == job[w].id
<1>1. /\ id \in Ids /\ status[id] = "none" /\ Holds(id, job[w].spot)
      /\ SetStatus(id, "pending") /\ "pending" \in Statuses
      /\ row' = [row EXCEPT ![id] = [driver |-> job[w].driver, key |-> job[w].key,
                                     spot |-> job[w].spot]]
  BY DEF InsertRow, Inv, Handlers, Creating, OwnId, BookInv, Statuses
<1>2. \A r \in Ids \ {id} : /\ status'[r] = status[r] /\ reached'[r] = reached[r]
                            /\ row'[r] = row[r]
  <2>1. TypeOK /\ row \in [Ids -> Rows \cup {NoRow}]
    BY DEF Inv, TypeOK
  <2>2. \A r \in Ids \ {id} : status'[r] = status[r] /\ reached'[r] = reached[r]
    BY <1>1, <2>1, SetStatusTypes
  <2>3. \A r \in Ids \ {id} : row'[r] = row[r]
    BY <1>1, <2>1
  <2> QED
    BY <2>2, <2>3
<1>3. row'[id].spot = job[w].spot
  <2>1. row'[id] = [driver |-> job[w].driver, key |-> job[w].key, spot |-> job[w].spot]
    BY <1>1 DEF Inv, TypeOK
  <2> QED
    BY <2>1
<1>4. ASSUME NEW r \in Ids, Entitled(r)'
      PROVE  Holds(r, row[r].spot)'
  <2>1. CASE r = id
    BY <1>1, <1>3, <2>1 DEF Holds
  <2>2. CASE r # id
    <3>1. Entitled(r) /\ row'[r] = row[r]
      BY <1>2, <1>4, <2>2 DEF Entitled, Ended
    <3> QED
      BY <1>1, <3>1 DEF BookInv, Holds
  <2> QED
    BY <2>1, <2>2
<1>5. ASSUME NEW q \in Procs, q # w, pc'[q] \in {"Insert", "Undo"}
      PROVE  /\ pc'[q] = pc[q] /\ job'[q] = job[q] /\ job[q].id # id
             /\ job[q].id \in Ids
  BY <1>1, <1>5, GotoIs DEF Alone, Inv, OwnId, Handlers, Creating
<1>6. \A r \in Ids : Entitled(r)' => Holds(r, row[r].spot)'
  BY <1>4
<1>7. /\ pc'[w] \in {"Save", "Undo"} /\ job'[w].id = id
      /\ pc'[w] = "Undo" => id \in disowned'
  BY GotoIs
<1>8. ASSUME NEW q \in Procs, pc'[q] = "Insert"
      PROVE  Holds(job[q].id, job[q].spot)'
  BY <1>5, <1>7, <1>8 DEF BookInv, Holds
<1>9. ASSUME NEW q \in Procs, pc'[q] = "Undo"
      PROVE  status'[job'[q].id] = "none" \/ job'[q].id \in disowned'
  BY <1>2, <1>5, <1>7, <1>9 DEF BookInv
<1> QED
  BY <1>6, <1>8, <1>9 DEF BookInv

LEMMA InsertFailsBook ==
  ASSUME Inv, BookInv, NEW w \in Procs, InsertFails(w)
  PROVE  BookInv'
<1>1. UNCHANGED <<lock, lapsed>> /\ Goto(w, "Undo") /\ pc[w] = "Insert"
  BY DEF InsertFails, redis
<1>2. CASE UNCHANGED <<db, disowned>>
  <2>1. Grows /\ NothingNew
    BY <1>1, <1>2, GotoNew DEF Grows, db
  <2> QED
    BY <1>1, <2>1, DbStepKeepsLocks
<1>3. CASE InsertRow(w) /\ disowned' = disowned \cup {job[w].id}
  BY <1>1, <1>3, InsertBook
<1> QED
  BY <1>2, <1>3 DEF InsertFails

LEMMA NextBook == Inv /\ BookInv /\ [Next]_vars => BookInv'
<1> SUFFICES ASSUME Inv, BookInv, [Next]_vars PROVE BookInv'
  OBVIOUS
<1>1. ASSUME NEW w \in Workers, Request(w) PROVE BookInv'
  BY <1>1, RequestBook
<1>2. ASSUME NEW p \in Procs, Step(p) PROVE BookInv'
  <2>1. CASE Insert(p)
    BY <2>1, InsertBook DEF Insert, redis
  <2> QED
    BY <1>2, <2>1, QuietBook, HandlerWriteBook, AcquireBook, GiveBackBook, ExtendBook,
       RelockBook, InsertFailsBook DEF Step
<1>3. CASE UNCHANGED vars
  BY <1>3 DEF BookInv, Holds, Entitled, Ended, vars, db, redis, local
<1> QED
  BY <1>1, <1>2, <1>3, ExpiryBook, TickBook DEF Next

\* The Redis lock keeps two reservations from being live on one spot, as long as
\* neither lock has lapsed and neither reservation has come back from a final
\* status, whatever handlers run between each other's calls and whatever fails.
\* The exception is a row whose INSERT commits while its reply is lost: the
\* handler gives up its lock.
THEOREM BookingSafe == Spec => []NoDoubleBooking
<1>1. Init => BookInv
  BY DEF Init, BookInv, Entitled
<1>2. Inv /\ BookInv /\ [Next]_vars => BookInv'
  BY NextBook
<1>3. Inv /\ BookInv => NoDoubleBooking
  <2> SUFFICES ASSUME Inv, BookInv, NEW r1 \in Ids, NEW r2 \in Ids,
                      r1 # r2, row[r1].spot = row[r2].spot,
                      Live(r1), ~Ended(r1), Live(r2), ~Ended(r2)
               PROVE  \E r \in {r1, r2} : r \in lapsed \cup disowned
    BY DEF NoDoubleBooking
  <2> QED
    BY DEF BookInv, Holds, Live, Entitled
<1> QED
  BY <1>1, <1>2, <1>3, InitInv, NextInv, PTL DEF Spec

-----------------------------------------------------------------------------
(* The lock lasts as long as the hold.  Whoever extends the lock of a spot  *)
(* extends it far enough for everybody, nobody else may set it, and the     *)
(* UPDATE that confirms a reservation makes it wait for the next extension. *)

\* The reservations that HoldLocked is about.
Extended(r) ==
  /\ r \in extended \ (lapsed \cup disowned) /\ status[r] = "confirmed"
  /\ "usecase" \in ConfirmPaths => ~Ended(r)

\* No handler is about to confirm by a use case that nobody calls.
GatewayOnly ==
  "usecase" \notin ConfirmPaths =>
    \A p \in Procs : pc[p] # "Relock" /\ (pc[p] = "Update" => job[p].op # "confirm")

\* The conditional UPDATE confirms no reservation that has ended, and none is given
\* more time to check in than a lock that is extended now.
ConfirmedInTime ==
  \A r \in Ids :
    /\ status[r] = "pending" => reached[r] = {"pending"}
    /\ "usecase" \notin ConfirmPaths /\ status[r] = "confirmed" => ~Ended(r)
    /\ expiresAt[r] <= now + HoldDuration

LongEnough == \A r \in Ids : Extended(r) => lock[row[r].spot].until >= expiresAt[r]

HoldInv == GatewayOnly /\ ConfirmedInTime /\ LongEnough

\* Who calls the use case when it is not there.
LEMMA NextGateway == Inv /\ GatewayOnly /\ [Next]_vars => GatewayOnly'
<1> SUFFICES ASSUME Inv, GatewayOnly, [Next]_vars, "usecase" \notin ConfirmPaths
             PROVE  \A p \in Procs : pc'[p] # "Relock" /\ (pc'[p] = "Update" => job'[p].op # "confirm")
  BY DEF GatewayOnly
<1>1. ASSUME NEW p \in Procs, Alone(p), pc'[p] # "Relock",
             pc'[p] = "Update" => job'[p].op # "confirm"
      PROVE  \A q \in Procs : pc'[q] # "Relock" /\ (pc'[q] = "Update" => job'[q].op # "confirm")
  BY <1>1 DEF GatewayOnly, Alone
<1>2. ASSUME NEW w \in Workers, NEW c \in {"Acquire", "Read", "Update"}, NEW j,
             Begin(w, c, j), j.op # "confirm"
      PROVE  Alone(w) /\ pc'[w] # "Relock" /\ job'[w].op # "confirm"
  BY <1>2 DEF Begin, Alone, Inv, TypeOK
<1>3. ASSUME NEW w \in Workers, Request(w)
      PROVE  Alone(w) /\ pc'[w] # "Relock" /\ job'[w].op # "confirm"
  <2>1. ASSUME NEW d, NEW k, NEW s, CreateRequest(w, d, k, s)
        PROVE  Alone(w) /\ pc'[w] # "Relock" /\ job'[w].op # "confirm"
    BY <1>2, <2>1 DEF CreateRequest
  <2>2. ASSUME NEW r, PayRequest(w, r)
        PROVE  Alone(w) /\ pc'[w] # "Relock" /\ job'[w].op # "confirm"
    BY <1>2, <2>2 DEF PayRequest, JobFor
  <2>3. ASSUME NEW r, NEW d, CancelRequest(w, r, d)
        PROVE  Alone(w) /\ pc'[w] # "Relock" /\ job'[w].op # "confirm"
    BY <1>2, <2>3 DEF CancelRequest, JobFor
  <2>4. ASSUME NEW r, NEW d, CheckInRequest(w, r, d)
        PROVE  Alone(w) /\ pc'[w] # "Relock" /\ job'[w].op # "confirm"
    BY <1>2, <2>4 DEF CheckInRequest, JobFor
  <2>5. ASSUME NEW r, NEW d, NEW k, CheckOutRequest(w, r, d, k)
        PROVE  Alone(w) /\ pc'[w] # "Relock" /\ job'[w].op # "confirm"
    BY <1>2, <2>5 DEF CheckOutRequest, JobFor
  <2>6. ASSUME NEW r, ConfirmRequest(w, r) PROVE FALSE
    BY <2>6 DEF ConfirmRequest
  <2> QED
    BY <1>3, <2>1, <2>2, <2>3, <2>4, <2>5, <2>6 DEF Request
<1>4. ASSUME NEW p \in Procs, Step(p)
      PROVE  /\ Alone(p) /\ pc'[p] # "Relock"
             /\ pc'[p] = "Update" => job'[p].op # "confirm"
  <2>1. CASE Acquire(p)
    BY <2>1 DEF Acquire, Alone, Inv, TypeOK
  <2>2. CASE Crash(p)
    BY <2>2 DEF Crash, Alone, Inv, TypeOK
  <2>3. CASE CheckOutRead(p)
    <3>1. PICK c \in {"Update", "idle"} : Goto(p, c)
      BY <2>3 DEF CheckOutRead
    <3>2. job[p].op = "checkOut"
      BY <2>3 DEF CheckOutRead, Inv, Handlers, Working
    <3> QED
      BY <3>1, <3>2, GotoIs
  <2>4. ~Confirm(p)
    BY DEF Confirm, GatewayOnly
  <2>5. CASE ~(Acquire(p) \/ Crash(p) \/ CheckOutRead(p))
    <3>1. PICK c \in Calls \ {"Relock", "Update"} : Goto(p, c)
      BY <1>4, <2>4, <2>5 DEF Step, SpotUnavailable, Insert, InsertFails, Undo, Save, Pay,
         Extend, Relock, Cancel, CheckIn, CheckOut, Release, Dropped, After
    <3> QED
      BY <3>1, GotoIs
  <2> QED
    BY <2>1, <2>2, <2>3, <2>5
<1>5. CASE ExpiryJob
  <2>1. Alone(Cron) /\ pc'[Cron] \in {"idle", "loop", "Release"}
    BY <1>5 DEF ExpiryJob, ExpireList, Expire, ExpireFails, Alone, Inv, TypeOK
  <2> QED
    BY <1>1, <2>1
<1>6. CASE Tick \/ UNCHANGED vars \/ \E r \in Ids : HistoryExpire(r)
  BY <1>6 DEF Tick, HistoryExpire, vars, local, GatewayOnly
<1> QED
  BY <1>1, <1>3, <1>4, <1>5, <1>6 DEF Next

\* A reservation whose lock has been extended still has it.
LEMMA ExtendedHolds ==
  ASSUME BookInv, ConfirmedInTime, NEW r \in Ids, Extended(r)
  PROVE  lock[row[r].spot].holder = r
<1>1. Entitled(r)
  BY DEF Extended, Entitled, ConfirmedInTime
<1> QED
  BY <1>1 DEF Extended, BookInv, Holds

\* A step that shortens no lock that its owner still holds.
LEMMA StillLongEnough ==
  ASSUME LongEnough, BookInv', ConfirmedInTime',
         \A r \in Ids : Extended(r)' =>
           /\ Extended(r) /\ row'[r] = row[r] /\ expiresAt'[r] = expiresAt[r]
           /\ lock'[row[r].spot] = lock[row[r].spot] \/ lock'[row[r].spot].holder # r
  PROVE  LongEnough'
<1> SUFFICES ASSUME NEW r \in Ids, Extended(r)'
             PROVE  lock'[row'[r].spot].until >= expiresAt'[r]
  BY DEF LongEnough
<1>1. Entitled(r)'
  BY DEF Extended, Entitled, ConfirmedInTime
<1>2. lock'[row'[r].spot].holder = r
  BY <1>1 DEF Extended, BookInv, Holds
<1> QED
  BY <1>2 DEF LongEnough

\* A step that writes neither the table, a lock nor what is known of them.
LEMMA QuietHold ==
  ASSUME HoldInv, GatewayOnly', UNCHANGED <<now, db, lock, lapsed, holds>>
  PROVE  HoldInv'
<1>1. ConfirmedInTime'
  BY DEF HoldInv, ConfirmedInTime, Ended, db
<1>2. \A r : Extended(r)' <=> Extended(r)
  BY DEF Extended, Ended, db
<1>3. LongEnough'
  BY <1>2 DEF HoldInv, LongEnough, db
<1> QED
  BY <1>1, <1>3 DEF HoldInv

\* A lock is only taken when nobody holds it.
LEMMA AcquireHold ==
  ASSUME Inv, HoldInv, Inv', BookInv', GatewayOnly', NEW w \in Procs, Acquire(w)
  PROVE  HoldInv'
<1>1. PICK s \in Findable(w), r \in Fresh : SetNX(s, r, PaymentTimeout)
  BY DEF Acquire
<1>2. r \in Ids /\ status[r] = "none" /\ UNCHANGED <<now, db, holds>>
  BY DEF Acquire, Fresh
<1>3. /\ lapsed' = lapsed \ {r}
      /\ lock' = [lock EXCEPT ![s] = [holder |-> r, until |-> now + PaymentTimeout]]
  BY <1>1 DEF SetNX
<1>4. ConfirmedInTime'
  BY <1>2 DEF HoldInv, ConfirmedInTime, Ended, db
<1>5. ASSUME NEW x \in Ids, Extended(x)'
      PROVE  /\ Extended(x) /\ row'[x] = row[x] /\ expiresAt'[x] = expiresAt[x]
             /\ lock'[row[x].spot] = lock[row[x].spot] \/ lock'[row[x].spot].holder # x
  <2>1. status[x] = "confirmed" /\ x # r /\ row'[x] = row[x] /\ expiresAt'[x] = expiresAt[x]
    BY <1>2, <1>5 DEF Extended, db
  <2>2. Extended(x)
    BY <1>2, <1>3, <1>5, <2>1 DEF Extended, Ended, db
  <2>3. row[x].spot \in Spots
    BY <2>1 DEF Inv, RowsOK, Rows
  <2>4. lock'[row[x].spot] = lock[row[x].spot] \/ lock'[row[x].spot].holder = r
    BY <1>3, <2>3 DEF Inv, TypeOK
  <2> QED
    BY <2>1, <2>2, <2>4
<1>6. LongEnough'
  BY <1>4, <1>5, StillLongEnough DEF HoldInv
<1> QED
  BY <1>4, <1>6 DEF HoldInv

LEMMA GiveBackHold ==
  ASSUME Inv, HoldInv, Inv', BookInv', GatewayOnly', NEW p \in Procs, Undo(p) \/ Release(p)
  PROVE  HoldInv'
<1>1. ReleaseLock(job[p].spot, job[p].id) /\ UNCHANGED <<now, db, lapsed, holds>>
  BY DEF Undo, Release
<1>2. ConfirmedInTime'
  BY <1>1 DEF HoldInv, ConfirmedInTime, Ended, db
<1>3. ASSUME NEW x \in Ids, Extended(x)'
      PROVE  /\ Extended(x) /\ row'[x] = row[x] /\ expiresAt'[x] = expiresAt[x]
             /\ lock'[row[x].spot] = lock[row[x].spot] \/ lock'[row[x].spot].holder # x
  <2>1. Extended(x) /\ row'[x] = row[x] /\ expiresAt'[x] = expiresAt[x]
    BY <1>1, <1>3 DEF Extended, Ended, db
  <2>2. row[x].spot \in Spots
    BY <2>1 DEF Extended, Inv, RowsOK, Rows
  <2>3. lock'[row[x].spot] = lock[row[x].spot] \/ lock'[row[x].spot] = Free
    BY <1>1, <2>2 DEF ReleaseLock, Inv, TypeOK
  <2> QED
    BY <2>1, <2>3
<1>4. LongEnough'
  BY <1>2, <1>3, StillLongEnough DEF HoldInv
<1> QED
  BY <1>2, <1>4 DEF HoldInv

\* EXPIRE goes as far from now as expires_at does at most, whosever lock it finds.
LEMMA ExtendHold ==
  ASSUME Inv, BookInv, HoldInv, Inv', BookInv', GatewayOnly', NEW p \in Procs, Extend(p)
  PROVE  HoldInv'
<1>1. /\ lock' = [lock EXCEPT ![job[p].spot] =
                     IF @ = Free THEN Free ELSE [@ EXCEPT !.until = now + HoldDuration]]
      /\ UNCHANGED <<now, db, lapsed, disowned>> /\ pc[p] = "Extend"
      /\ extended' = extended \cup {job[p].id}
  BY DEF Extend
<1>2. job[p].id \in Ids /\ job[p].spot = row[job[p].id].spot /\ now \in Nat
  BY <1>1 DEF Inv, TypeOK, Handlers, Working
<1>3. ConfirmedInTime'
  BY <1>1 DEF HoldInv, ConfirmedInTime, Ended, db
<1>4. ASSUME NEW r \in Ids, Extended(r)'
      PROVE  lock'[row'[r].spot].until >= expiresAt'[r]
  <2>1. /\ status[r] = "confirmed" /\ r \notin lapsed \cup disowned /\ UNCHANGED <<row, expiresAt>>
        /\ "usecase" \in ConfirmPaths => ~Ended(r)
        /\ row[r].spot \in Spots /\ expiresAt[r] \in Nat /\ expiresAt[r] <= now + HoldDuration
    BY <1>1, <1>4 DEF Extended, Ended, db, Inv, TypeOK, RowsOK, Rows, HoldInv, ConfirmedInTime
  <2>2. lock[row[r].spot].holder = r
    <3>1. Entitled(r)
      BY <2>1 DEF HoldInv, ConfirmedInTime, Entitled
    <3> QED
      BY <2>1, <3>1 DEF BookInv, Holds
  <2>3. lock[row[r].spot] # Free
    BY <2>2, NamesAssumption
  <2>4. CASE row[r].spot = job[p].spot
    <3>1. lock'[row[r].spot].until = now + HoldDuration
      BY <1>1, <2>1, <2>3, <2>4 DEF Inv, TypeOK
    <3> QED
      BY <3>1, <2>1, <1>2
  <2>5. CASE row[r].spot # job[p].spot
    <3>1. lock'[row[r].spot] = lock[row[r].spot] /\ r # job[p].id
      BY <1>1, <1>2, <2>1, <2>5 DEF Inv, TypeOK
    <3>2. Extended(r)
      BY <1>1, <1>4, <2>1, <3>1 DEF Extended
    <3> QED
      BY <3>1, <3>2, <2>1 DEF HoldInv, LongEnough
  <2> QED
    BY <2>4, <2>5
<1> QED
  BY <1>3, <1>4 DEF HoldInv, LongEnough

\* SETNX writes a lock only where there is none, and one that is long enough.
LEMMA RelockHold ==
  ASSUME Inv, BookInv, HoldInv, Inv', BookInv', GatewayOnly', NEW p \in Procs, Relock(p)
  PROVE  HoldInv'
<1>1. UNCHANGED <<now, db, disowned>> /\ pc[p] = "Relock"
  BY DEF Relock
<1>2. CASE UNCHANGED <<lock, lapsed, extended>>
  BY <1>1, <1>2, QuietHold
<1>3. CASE SetNX(job[p].spot, job[p].id, HoldDuration) /\ extended' = extended \cup {job[p].id}
  <2>0. PICK id \in Ids : id = job[p].id /\ job[p].spot = row[id].spot /\ row[id] \in Rows
    BY <1>1 DEF Inv, Handlers, Working, RowsOK
  <2>1. /\ lapsed' = lapsed \ {id} /\ now \in Nat /\ row[id].spot \in Spots
        /\ extended' = extended \cup {id}
        /\ lock' = [lock EXCEPT ![row[id].spot] = [holder |-> id, until |-> now + HoldDuration]]
    BY <1>3, <2>0 DEF SetNX, Inv, TypeOK, Rows
  <2>2. ConfirmedInTime'
    BY <1>1 DEF HoldInv, ConfirmedInTime, Ended, db
  <2>3. ASSUME NEW r \in Ids, Extended(r)'
        PROVE  lock'[row'[r].spot].until >= expiresAt'[r]
    <3>1. /\ row[r].spot \in Spots /\ expiresAt[r] \in Nat /\ expiresAt[r] <= now + HoldDuration
          /\ UNCHANGED <<row, expiresAt>>
      BY <1>1, <2>3 DEF Extended, db, Inv, TypeOK, RowsOK, Rows, HoldInv, ConfirmedInTime
    <3>2. CASE row[r].spot = row[id].spot
      <4>1. lock'[row[r].spot].until = now + HoldDuration
        BY <2>1, <3>2 DEF Inv, TypeOK
      <4> QED
        BY <3>1, <4>1, <2>1
    <3>3. CASE row[r].spot # row[id].spot
      <4>1. lock'[row[r].spot] = lock[row[r].spot] /\ r # id
        BY <2>1, <3>1, <3>3 DEF Inv, TypeOK
      <4>2. Extended(r)
        BY <1>1, <2>1, <2>3, <4>1 DEF Extended, Ended, db
      <4> QED
        BY <3>1, <4>1, <4>2 DEF HoldInv, LongEnough
    <3> QED
      BY <3>2, <3>3
  <2> QED
    BY <2>2, <2>3 DEF HoldInv, LongEnough
<1> QED
  BY <1>2, <1>3 DEF Relock

\* An UPDATE of one row, or its insertion, after which its lock is still to be extended.
LEMMA UpdateHold ==
  ASSUME Inv, HoldInv, NEW id \in Ids, NEW s \in Statuses, SetStatus(id, s),
         UNCHANGED <<now, lock, lapsed>>, GatewayOnly',
         extended' \subseteq extended, disowned \subseteq disowned',
         \A r \in Ids \ {id} : row'[r] = row[r] /\ expiresAt'[r] = expiresAt[r],
         expiresAt'[id] <= now + HoldDuration,
         s = "pending" => reached[id] = {},
         s = "confirmed" =>
           id \notin extended' /\ ("usecase" \notin ConfirmPaths => reached[id] = {"pending"})
  PROVE  HoldInv'
<1>1. \A r \in Ids : /\ status'[r] = IF r = id THEN s ELSE status[r]
                     /\ reached'[r] = IF r = id THEN reached[r] \cup {s} ELSE reached[r]
  BY SetStatusTypes DEF Inv
<1>2. ConfirmedInTime'
  <2>1. ASSUME NEW r \in Ids
        PROVE  /\ status'[r] = "pending" => reached'[r] = {"pending"}
               /\ "usecase" \notin ConfirmPaths /\ status'[r] = "confirmed" => ~Ended(r)'
               /\ expiresAt'[r] <= now' + HoldDuration
    <3>1. CASE r = id
      BY <1>1, <3>1 DEF Ended
    <3>2. CASE r # id
      BY <1>1, <3>2 DEF HoldInv, ConfirmedInTime, Ended
    <3> QED
      BY <3>1, <3>2
  <2> QED
    BY <2>1 DEF ConfirmedInTime
<1>3. LongEnough'
  <2>1. ASSUME NEW r \in Ids, Extended(r)'
        PROVE  r # id /\ Extended(r)
    <3>1. r # id
      BY <1>1, <2>1 DEF Extended
    <3> QED
      BY <1>1, <2>1, <3>1 DEF Extended, Ended
  <2> QED
    BY <2>1 DEF HoldInv, LongEnough
<1> QED
  BY <1>2, <1>3 DEF HoldInv

LEMMA InsertHold ==
  ASSUME Inv, HoldInv, GatewayOnly', NEW w \in Procs, pc[w] = "Insert", InsertRow(w),
         UNCHANGED <<now, lock, lapsed, extended>>, disowned \subseteq disowned'
  PROVE  HoldInv'
<1>1. PICK id \in Ids : /\ id = job[w].id /\ SetStatus(id, "pending") /\ reached[id] = {}
                        /\ \A r \in Ids \ {id} : row'[r] = row[r]
  BY DEF InsertRow, Inv, TypeOK, Handlers, Creating, OwnId, RowsOK
<1>2. PICK t \in job[w].since..now : expiresAt' = [expiresAt EXCEPT ![id] = t + PaymentTimeout]
  BY <1>1 DEF InsertRow
<1>3. /\ expiresAt'[id] <= now + HoldDuration
      /\ \A r \in Ids \ {id} : expiresAt'[r] = expiresAt[r]
  <2>1. t \in Nat /\ t <= now /\ now \in Nat
    BY DEF Inv, TypeOK, Jobs
  <2>2. expiresAt'[id] = t + PaymentTimeout /\ \A r \in Ids \ {id} : expiresAt'[r] = expiresAt[r]
    BY <1>2 DEF Inv, TypeOK
  <2> QED
    BY <2>1, <2>2
<1>4. "pending" \in Statuses
  BY DEF Statuses
<1> QED
  BY <1>1, <1>3, <1>4, UpdateHold

\* Both confirmations: what either of them confirms waits for its lock to be
\* extended, and what the conditional UPDATE confirms has never been anything else.
LEMMA ConfirmHold ==
  ASSUME Inv, HoldInv, GatewayOnly', NEW w \in Procs, Pay(w) \/ Confirm(w)
  PROVE  HoldInv'
<1>0. PICK id \in Ids : id = job[w].id
  BY DEF Pay, Confirm, Inv, Handlers, Working
<1>1. /\ UNCHANGED <<now, row, lock, lapsed, disowned>> /\ now \in Nat /\ job[w].since \in Nat
  BY DEF Pay, Confirm, redis, Inv, TypeOK, Jobs
<1>2. CASE Pay(w) /\ status[id] # "pending"
  <2>1. UNCHANGED <<now, db, lock, lapsed, holds>>
    BY <1>0, <1>1, <1>2 DEF Pay, db
  <2> QED
    BY <2>1, QuietHold
<1>3. CASE Confirm(w) \/ status[id] = "pending"
  <2>1. /\ SetStatus(id, "confirmed") /\ "confirmed" \in Statuses
        /\ extended' = extended \ {id}
    BY <1>0, <1>3 DEF Pay, Confirm, Statuses
  <2>2. PICK t \in job[w].since..now : expiresAt' = [expiresAt EXCEPT ![id] = t + HoldDuration]
    BY <1>0, <1>3 DEF Pay, Confirm
  <2>3. t \in Nat /\ t <= now
    BY <1>1
  <2>4. expiresAt'[id] = t + HoldDuration /\ \A r \in Ids \ {id} : expiresAt'[r] = expiresAt[r]
    BY <1>1, <2>2 DEF Inv, TypeOK
  <2>5. expiresAt'[id] <= now + HoldDuration
    BY <1>1, <2>3, <2>4
  <2>6. "usecase" \notin ConfirmPaths => status[id] = "pending" /\ reached[id] = {"pending"}
    BY <1>3 DEF Confirm, HoldInv, GatewayOnly, ConfirmedInTime
  <2> QED
    BY <1>1, <2>1, <2>4, <2>5, <2>6, UpdateHold
<1> QED
  BY <1>2, <1>3

LEMMA EndHold ==
  ASSUME Inv, HoldInv, GatewayOnly', NEW id \in Ids,
         NEW s \in {"cancelled", "active", "completed", "expired"}, SetStatus(id, s),
         UNCHANGED <<now, row, expiresAt, lock, lapsed, holds>>
  PROVE  HoldInv'
<1>1. s \in Statuses /\ expiresAt'[id] <= now + HoldDuration
  BY DEF Statuses, HoldInv, ConfirmedInTime
<1> QED
  BY <1>1, UpdateHold

LEMMA TickHold ==
  ASSUME Inv, HoldInv, Inv', BookInv', GatewayOnly', Tick
  PROVE  HoldInv'
<1>1. /\ now' = now + 1 /\ UNCHANGED <<db, holds>> /\ lapsed \subseteq lapsed'
      /\ \A s \in Spots : lock'[s] = lock[s] \/ lock'[s] = Free
  BY DEF Tick
<1>2. ConfirmedInTime'
  <2>1. now \in Nat /\ \A r \in Ids : expiresAt[r] \in Nat
    BY DEF Inv, TypeOK
  <2>2. \A r \in Ids : expiresAt[r] <= now' + HoldDuration
    BY <1>1, <2>1 DEF HoldInv, ConfirmedInTime
  <2> QED
    BY <1>1, <2>2 DEF HoldInv, ConfirmedInTime, Ended, db
<1>3. ASSUME NEW r \in Ids, Extended(r)'
      PROVE  /\ Extended(r) /\ row'[r] = row[r] /\ expiresAt'[r] = expiresAt[r]
             /\ lock'[row[r].spot] = lock[row[r].spot] \/ lock'[row[r].spot].holder # r
  <2>1. Extended(r) /\ row'[r] = row[r] /\ expiresAt'[r] = expiresAt[r]
    BY <1>1, <1>3 DEF Extended, Ended, db
  <2>2. row[r].spot \in Spots
    BY <2>1 DEF Extended, Inv, RowsOK, Rows
  <2> QED
    BY <1>1, <2>1, <2>2, NamesAssumption
<1>4. LongEnough'
  BY <1>2, <1>3, StillLongEnough DEF HoldInv
<1> QED
  BY <1>2, <1>4 DEF HoldInv

LEMMA HoldInit == Init => BookInv /\ HoldInv
<1> SUFFICES ASSUME Init PROVE BookInv /\ HoldInv
  OBVIOUS
<1>1. BookInv
  BY DEF Init, BookInv, Entitled
<1>2. GatewayOnly /\ ConfirmedInTime
  BY DEF Init, GatewayOnly, ConfirmedInTime
<1>3. LongEnough
  BY DEF Init, LongEnough, Extended
<1> QED
  BY <1>1, <1>2, <1>3 DEF HoldInv

LEMMA NextHold ==
  ASSUME Inv, BookInv, HoldInv, [Next]_vars, Inv', BookInv'
  PROVE  HoldInv'
<1>0. GatewayOnly'
  BY NextGateway DEF HoldInv
<1>1. ASSUME NEW w \in Workers, Request(w) PROVE HoldInv'
  <2>1. UNCHANGED <<now, db, lock, lapsed, holds>>
    BY <1>1 DEF Request, CreateRequest, PayRequest, ConfirmRequest, CancelRequest,
                CheckInRequest, CheckOutRequest, redis
  <2> QED
    BY <1>0, <2>1, QuietHold
<1>2. ASSUME NEW p \in Procs, Step(p) PROVE HoldInv'
  <2>1. CASE SpotUnavailable(p) \/ CheckOutRead(p) \/ Save(p) \/ Dropped(p) \/ Crash(p)
    <3>1. UNCHANGED <<now, db, lock, lapsed, holds>>
      BY <2>1 DEF SpotUnavailable, CheckOutRead, Save, Dropped, Crash, redis
    <3> QED
      BY <1>0, <3>1, QuietHold
  <2>2. CASE Insert(p) \/ InsertFails(p)
    <3>1. CASE InsertRow(p)
      BY <1>0, <2>2, <3>1, InsertHold DEF Insert, InsertFails, redis
    <3>2. CASE UNCHANGED <<db, disowned>>
      BY <1>0, <2>2, <3>2, QuietHold DEF Insert, InsertFails, redis
    <3> QED
      BY <2>2, <3>1, <3>2 DEF Insert, InsertFails
  <2>3. CASE Cancel(p) \/ CheckIn(p) \/ CheckOut(p)
    <3>1. job[p].id \in Ids
      BY <2>3 DEF Cancel, CheckIn, CheckOut, Inv, Handlers, Working
    <3>2. PICK s \in {"cancelled", "active", "completed"} : SetStatus(job[p].id, s)
      BY <2>3 DEF Cancel, CheckIn, CheckOut
    <3>3. UNCHANGED <<now, row, expiresAt, lock, lapsed, holds>>
      BY <2>3 DEF Cancel, CheckIn, CheckOut, redis
    <3> QED
      BY <1>0, <3>1, <3>2, <3>3, EndHold
  <2> QED
    BY <1>0, <1>2, <2>1, <2>2, <2>3, AcquireHold, GiveBackHold, ConfirmHold, ExtendHold,
       RelockHold DEF Step
<1>3. CASE ExpireList \/ (\E r \in Ids : ExpireFails(r)) \/ UNCHANGED vars
  <2>1. UNCHANGED <<now, db, lock, lapsed, holds>>
    BY <1>3 DEF ExpireList, ExpireFails, vars, redis
  <2> QED
    BY <1>0, <2>1, QuietHold
<1>4. ASSUME NEW r \in Ids, Expire(r) \/ HistoryExpire(r) PROVE HoldInv'
  <2>1. SetStatus(r, "expired") /\ UNCHANGED <<now, row, expiresAt, lock, lapsed, holds>>
    BY <1>4 DEF Expire, HistoryExpire, redis
  <2> QED
    BY <1>0, <2>1, EndHold
<1> QED
  BY <1>0, <1>1, <1>2, <1>3, <1>4, TickHold DEF Next, ExpiryJob

\* Once the lock of a confirmed reservation has been extended, it lasts as long as
\* expires_at promises, whatever readings of the clock the two calls were made
\* with, whoever extends, releases or asks for it later, and whatever calls fail
\* or are not made; on either path of confirmation.
THEOREM LockOutlivesHold == Spec => []HoldLocked
<1>1. Init => BookInv /\ HoldInv
  BY HoldInit
<1>2. Inv /\ BookInv /\ [Next]_vars => BookInv'
  BY NextBook
<1>3. Inv /\ BookInv /\ HoldInv /\ Inv' /\ BookInv' /\ [Next]_vars => HoldInv'
  BY NextHold
<1>4. Inv /\ BookInv /\ HoldInv => HoldLocked
  <2> SUFFICES ASSUME Inv, BookInv, HoldInv, NEW r \in extended \ (lapsed \cup disowned),
                      status[r] = "confirmed", "usecase" \in ConfirmPaths => ~Ended(r)
               PROVE  /\ lock[row[r].spot].holder = r
                      /\ lock[row[r].spot].until >= expiresAt[r]
    BY DEF HoldLocked
  <2>1. r \in Ids /\ Extended(r)
    BY DEF Extended, Inv, TypeOK
  <2> QED
    BY <2>1, ExtendedHolds DEF HoldInv, LongEnough
<1> QED
  BY <1>1, <1>2, <1>3, <1>4, InitInv, NextInv, PTL DEF Spec

-----------------------------------------------------------------------------
(* No lock is forgotten.  Every lock has somebody who is entitled to it or  *)
(* will give it back, and a step takes that away from one lock at most.     *)

\* The locks after a step are those before it, or fewer.
NoNewLock ==
  \A s \in Spots : lock'[s] # Free => lock[s] # Free /\ lock'[s].holder = lock[s].holder

\* p's step leaves the table alone and drops nothing but its own work on the spots X.
LEMMA QuietAccounts ==
  ASSUME Inv, NEW p \in Procs, Alone(p), UNCHANGED db, extended \subseteq extended',
         NoNewLock, NEW X,
         \A s \in Spots \ X : lock'[s] # Free /\ GivesBack(p, s) => GivesBack(p, s)'
  PROVE  Abandoned' \subseteq Abandoned \cup X
<1> SUFFICES ASSUME NEW s \in Spots \ X, lock'[s] # Free, AccountedFor(s)
             PROVE  AccountedFor(s)'
  BY DEF Abandoned, NoNewLock
<1>1. lock'[s].holder = lock[s].holder
  BY DEF NoNewLock
<1>2. CASE \E q \in Procs : GivesBack(q, s)
  <2>1. PICK q \in Procs : GivesBack(q, s)
    BY <1>2
  <2>2. GivesBack(q, s)'
    BY <1>1, <2>1 DEF GivesBack, Alone
  <2> QED
    BY <2>2 DEF AccountedFor
<1>3. CASE ~\E q \in Procs : GivesBack(q, s)
  BY <1>1, <1>3 DEF AccountedFor, Live, db
<1> QED
  BY <1>2, <1>3

\* The row r is given the status st: it stays entitled to its lock, or somebody is
\* about to release that.
LEMMA WriteAccounts ==
  ASSUME Inv, NEW r \in Ids, NEW st \in Statuses, SetStatus(r, st), UNCHANGED <<row, lock>>,
         \A x \in extended : x \in extended' \/ (x = r /\ st = "confirmed"),
         \A q \in Procs : pc[q] \in {"Insert", "Undo", "Release"} =>
                            pc'[q] = pc[q] /\ job'[q] = job[q],
         \/ st \in {"confirmed", "active"}
         \/ st = "expired" /\ "confirmed" \notin reached[r]
         \/ \E q \in Procs : /\ pc'[q] = "Release"
                             /\ job'[q].id = r /\ job'[q].spot = row[r].spot
  PROVE  Abandoned' \subseteq Abandoned
<1>0. \A x \in Ids : /\ status'[x] = IF x = r THEN st ELSE status[x]
                     /\ reached'[x] = IF x = r THEN reached[x] \cup {st} ELSE reached[x]
  <2>1. TypeOK /\ SetStatus(r, st)
    BY DEF Inv
  <2> QED
    BY <2>1, SetStatusTypes
<1> SUFFICES ASSUME NEW s \in Spots, lock[s] # Free, AccountedFor(s)
             PROVE  AccountedFor(s)'
  BY DEF Abandoned
<1>1. CASE \E q \in Procs : GivesBack(q, s)
  <2>1. PICK q \in Procs : GivesBack(q, s)
    BY <1>1
  <2>2. GivesBack(q, s)'
    BY <2>1 DEF GivesBack
  <2> QED
    BY <2>2 DEF AccountedFor
<1>2. CASE lock[s].holder = r /\ ~\E q \in Procs : GivesBack(q, s)
  <2>1. row[r].spot = s
    BY <1>2 DEF AccountedFor
  <2>2. status'[r] = st /\ reached'[r] = reached[r] \cup {st}
    BY <1>0
  <2>3. CASE \E q \in Procs : /\ pc'[q] = "Release"
                              /\ job'[q].id = r /\ job'[q].spot = row[r].spot
    <3>1. PICK q \in Procs : /\ pc'[q] = "Release"
                             /\ job'[q].id = r /\ job'[q].spot = row[r].spot
      BY <2>3
    <3>2. GivesBack(q, s)'
      BY <1>2, <2>1, <3>1 DEF GivesBack
    <3> QED
      BY <3>2 DEF AccountedFor
  <2>4. CASE st \in {"confirmed", "active"}
    BY <1>2, <2>1, <2>2, <2>4 DEF AccountedFor, Live
  <2>5. CASE st = "expired" /\ "confirmed" \notin reached[r]
    BY <1>2, <2>1, <2>2, <2>5 DEF AccountedFor
  <2> QED
    BY <2>3, <2>4, <2>5
<1>3. CASE lock[s].holder # r /\ ~\E q \in Procs : GivesBack(q, s)
  <2>1. PICK x \in Ids : x = lock[s].holder
    BY DEF Inv, TypeOK
  <2>2. status'[x] = status[x] /\ reached'[x] = reached[x] /\ row'[x] = row[x]
    BY <1>0, <1>3, <2>1
  <2>3. x \in extended => x \in extended'
    BY <1>3, <2>1
  <2> QED
    BY <1>3, <2>1, <2>2, <2>3 DEF AccountedFor, Live
<1> QED
  BY <1>1, <1>2, <1>3

LEMMA InsertAccounts ==
  ASSUME Inv, NEW w \in Procs, NEW c \in {"Save", "Undo"},
         pc[w] = "Insert", InsertRow(w), Goto(w, c), UNCHANGED <<lock, extended>>
  PROVE  Abandoned' \subseteq Abandoned
<1> DEFINE r == job[w].id
<1>1. /\ r \in Ids /\ status[r] = "none" /\ row[r].spot = 0
      /\ \A q \in Procs \ {w} : job[q].id # r
  BY DEF Inv, Handlers, Creating, OwnId, RowsOK, NoRow
<1>2. /\ SetStatus(r, "pending") /\ "pending" \in Statuses
      /\ row' = [row EXCEPT ![r] = [driver |-> job[w].driver, key |-> job[w].key,
                                    spot |-> job[w].spot]]
  BY DEF InsertRow, Statuses
<1>3. /\ \A y \in Ids : /\ status'[y] = IF y = r THEN "pending" ELSE status[y]
                       /\ reached'[y] = IF y = r THEN reached[y] \cup {"pending"} ELSE reached[y]
      /\ row'[r].spot = job[w].spot /\ \A y \in Ids \ {r} : row'[y] = row[y]
  <2>1. row'[r].spot = job[w].spot /\ \A y \in Ids \ {r} : row'[y] = row[y]
    BY <1>1, <1>2 DEF Inv, TypeOK
  <2>2. \A y \in Ids : /\ status'[y] = IF y = r THEN "pending" ELSE status[y]
                       /\ reached'[y] = IF y = r THEN reached[y] \cup {"pending"} ELSE reached[y]
    <3>1. TypeOK /\ r \in Ids
      BY <1>1 DEF Inv
    <3>2. SetStatus(r, "pending") /\ "pending" \in Statuses
      BY <1>2
    <3> HIDE DEF r
    <3> QED
      BY <3>1, <3>2, SetStatusTypes
  <2> QED
    BY <2>1, <2>2
<1> SUFFICES ASSUME NEW s \in Spots, lock[s] # Free, AccountedFor(s)
             PROVE  AccountedFor(s)'
  BY DEF Abandoned
<1> HIDE DEF r
<1>4. PICK x \in Ids : x = lock[s].holder
  BY DEF Inv, TypeOK
<1>5. CASE x = r
  <2>1. job[w].spot = s
    <3>1. PICK q \in Procs : GivesBack(q, s)
      BY <1>1, <1>5, <1>4 DEF AccountedFor
    <3> QED
      BY <1>1, <1>5, <1>4, <3>1 DEF GivesBack, r
  <2>2. row'[r].spot = s /\ status'[r] = "pending"
    BY <1>1, <1>3, <2>1
  <2> QED
    BY <1>5, <1>4, <2>2 DEF AccountedFor, Live
<1>6. CASE x # r /\ \E q \in Procs : GivesBack(q, s)
  <2>1. PICK q \in Procs : GivesBack(q, s)
    BY <1>6
  <2>2. q # w
    BY <1>6, <1>4, <2>1 DEF GivesBack, r
  <2>3. GivesBack(q, s)'
    BY <2>1, <2>2, GotoIs DEF GivesBack, Alone
  <2> QED
    BY <2>3 DEF AccountedFor
<1>7. CASE x # r /\ ~\E q \in Procs : GivesBack(q, s)
  <2>1. status'[x] = status[x] /\ reached'[x] = reached[x] /\ row'[x] = row[x]
    BY <1>3, <1>7
  <2> QED
    BY <1>7, <1>4, <2>1 DEF AccountedFor, Live
<1> QED
  BY <1>5, <1>6, <1>7

\* The handler that takes a lock is the one that will insert its holder.
LEMMA AcquireAccounts ==
  ASSUME Inv, NEW w \in Procs, Acquire(w)
  PROVE  Abandoned' \subseteq Abandoned
<1>1. PICK s0 \in Findable(w), r \in Fresh :
        /\ SetNX(s0, r, PaymentTimeout)
        /\ job' = [job EXCEPT ![w] = [op |-> "create", id |-> r, driver |-> @.driver,
                                      key |-> @.key, spot |-> s0, since |-> now]]
  BY DEF Acquire
<1>2. /\ r \in Ids /\ pc[w] = "Acquire" /\ pc' = [pc EXCEPT ![w] = "Insert"]
      /\ UNCHANGED <<db, holds>>
  BY DEF Acquire, Fresh
<1>3. /\ pc'[w] = "Insert" /\ job'[w].id = r /\ job'[w].spot = s0
      /\ \A q \in Procs \ {w} : pc'[q] = pc[q] /\ job'[q] = job[q]
  BY <1>1, <1>2 DEF Inv, TypeOK
<1> SUFFICES ASSUME NEW s \in Spots, lock'[s] # Free, lock[s] = Free \/ AccountedFor(s)
             PROVE  AccountedFor(s)'
  BY DEF Abandoned
<1>4. CASE s = s0
  <2>1. lock'[s].holder = r
    BY <1>1, <1>4 DEF SetNX, Inv, TypeOK
  <2>2. GivesBack(w, s)'
    BY <1>3, <1>4, <2>1 DEF GivesBack
  <2> QED
    BY <2>2 DEF AccountedFor
<1>5. CASE s # s0
  <2>1. lock'[s] = lock[s] /\ AccountedFor(s)
    BY <1>1, <1>5 DEF SetNX, Inv, TypeOK
  <2>2. CASE \E q \in Procs : GivesBack(q, s)
    <3>1. PICK q \in Procs : GivesBack(q, s)
      BY <2>2
    <3>2. GivesBack(q, s)'
      BY <1>2, <1>3, <2>1, <3>1 DEF GivesBack
    <3> QED
      BY <3>2 DEF AccountedFor
  <2>3. CASE ~\E q \in Procs : GivesBack(q, s)
    BY <1>2, <2>1, <2>3 DEF AccountedFor, Live, db
  <2> QED
    BY <2>2, <2>3
<1> QED
  BY <1>4, <1>5

\* The SETNX of the use case may lock a spot for a reservation that has ended.
LEMMA RelockAccounts ==
  ASSUME Inv, HoldInv, NEW w \in Procs, Relock(w)
  PROVE  Abandoned' \subseteq Abandoned
<1>1. /\ pc[w] = "Relock" /\ "usecase" \in ConfirmPaths /\ Goto(w, "idle") /\ UNCHANGED db
      /\ job[w].id \in Ids /\ job[w].spot = row[job[w].id].spot
  BY DEF Relock, HoldInv, GatewayOnly, Inv, Handlers, Working
<1>2. CASE UNCHANGED <<lock, extended>>
  <2>1. NoNewLock /\ \A s : ~GivesBack(w, s)
    BY <1>1, <1>2 DEF NoNewLock, GivesBack
  <2>2. Abandoned' \subseteq Abandoned \cup {}
    BY <1>1, <1>2, <2>1, QuietAccounts, GotoIs
  <2> QED
    BY <2>2
<1>3. CASE SetNX(job[w].spot, job[w].id, HoldDuration) /\ extended' = extended \cup {job[w].id}
  <2> SUFFICES ASSUME NEW s \in Spots, lock'[s] # Free, lock[s] = Free \/ AccountedFor(s)
               PROVE  AccountedFor(s)'
    BY DEF Abandoned
  <2>1. CASE s = job[w].spot
    <3>1. lock'[s].holder = job[w].id
      BY <1>3, <2>1 DEF SetNX, Inv, TypeOK
    <3> QED
      BY <1>1, <1>3, <2>1, <3>1 DEF AccountedFor, db
  <2>2. CASE s # job[w].spot
    <3>1. lock'[s] = lock[s] /\ AccountedFor(s)
      BY <1>3, <2>2 DEF SetNX, Inv, TypeOK
    <3>2. CASE \E q \in Procs : GivesBack(q, s)
      <4>1. PICK q \in Procs : GivesBack(q, s)
        BY <3>2
      <4>2. GivesBack(q, s)'
        BY <1>1, <3>1, <4>1, GotoIs DEF GivesBack, Alone
      <4> QED
        BY <4>2 DEF AccountedFor
    <3>3. CASE ~\E q \in Procs : GivesBack(q, s)
      BY <1>1, <1>3, <3>1, <3>3 DEF AccountedFor, Live, db
    <3> QED
      BY <3>2, <3>3
  <2> QED
    BY <2>1, <2>2
<1> QED
  BY <1>2, <1>3 DEF Relock

\* Undo and Release: the lock goes, or was not the handler's to give back.
LEMMA GiveBackAccounts ==
  ASSUME Inv, NEW p \in Procs, NEW c \in Calls, ReleaseLock(job[p].spot, job[p].id),
         Goto(p, c), UNCHANGED <<db, extended>>
  PROVE  Abandoned' \subseteq Abandoned
<1>1. NoNewLock /\ \A s \in Spots : lock'[s] # Free => ~GivesBack(p, s)
  BY DEF NoNewLock, GivesBack, ReleaseLock, Inv, TypeOK
<1>2. Abandoned' \subseteq Abandoned \cup {}
  BY <1>1, QuietAccounts, GotoIs
<1> QED
  BY <1>2

\* Redis drops locks and sets none.
LEMMA TickAccounts ==
  ASSUME Inv, Tick
  PROVE  Abandoned' \subseteq Abandoned
<1>1. /\ UNCHANGED <<db, pc, job, extended>>
      /\ \A s \in Spots : lock'[s] # Free => lock'[s] = lock[s]
  BY DEF Tick, local
<1> SUFFICES ASSUME NEW s \in Spots, lock'[s] # Free, AccountedFor(s)
             PROVE  AccountedFor(s)'
  BY <1>1 DEF Abandoned
<1> QED
  BY <1>1 DEF AccountedFor, GivesBack, Live, db

\* The UPDATE statements of the handlers, and those that end what is overdue.
LEMMA UpdateAccounts ==
  ASSUME Inv, NEW w \in Procs,
         Pay(w) \/ Confirm(w) \/ Cancel(w) \/ CheckIn(w) \/ CheckOut(w)
  PROVE  Abandoned' \subseteq Abandoned
<1>1. /\ pc[w] = "Update" /\ job[w].id \in Ids /\ job[w].spot = row[job[w].id].spot
      /\ UNCHANGED <<row, lock>>
  BY DEF Pay, Confirm, Cancel, CheckIn, CheckOut, redis, Inv, Handlers, Working
<1>2. PICK c \in {"Extend", "Relock", "Release", "idle"} : Goto(w, c)
  BY DEF Pay, Confirm, Cancel, CheckIn, CheckOut
<1>3. \A q \in Procs : pc[q] \in {"Insert", "Undo", "Release"} =>
                         pc'[q] = pc[q] /\ job'[q] = job[q]
  BY <1>1, <1>2, GotoIs DEF Alone
<1>4. CASE Cancel(w) \/ CheckOut(w)
  <2>1. PICK st \in {"cancelled", "completed"} : SetStatus(job[w].id, st)
    BY <1>4 DEF Cancel, CheckOut
  <2>2. Goto(w, "Release") /\ UNCHANGED extended /\ st \in Statuses
    BY <1>4 DEF Cancel, CheckOut, Statuses
  <2>3. pc'[w] = "Release" /\ job'[w].id = job[w].id /\ job'[w].spot = row[job[w].id].spot
    BY <1>1, <2>2, GotoIs
  <2> QED
    BY <1>1, <1>3, <2>1, <2>2, <2>3, WriteAccounts
<1>5. CASE UNCHANGED <<status, reached, extended>> /\ ~(Cancel(w) \/ CheckOut(w))
  <2>1. NoNewLock /\ (\A s : ~GivesBack(w, s)) /\ Alone(w)
    BY <1>1, <1>2, GotoIs DEF NoNewLock, GivesBack
  <2> SUFFICES ASSUME NEW s \in Spots, AccountedFor(s)
               PROVE  AccountedFor(s)'
    BY <1>1 DEF Abandoned
  <2>2. CASE \E q \in Procs : GivesBack(q, s)
    <3>1. PICK q \in Procs : GivesBack(q, s)
      BY <2>2
    <3>2. GivesBack(q, s)'
      BY <1>1, <1>3, <3>1 DEF GivesBack
    <3> QED
      BY <3>2 DEF AccountedFor
  <2>3. CASE ~\E q \in Procs : GivesBack(q, s)
    BY <1>1, <1>5, <2>3 DEF AccountedFor, Live
  <2> QED
    BY <2>2, <2>3
<1>6. CASE Pay(w) \/ Confirm(w) \/ CheckIn(w)
  <2>1. CASE Pay(w) /\ status[job[w].id] # "pending"
    BY <1>1, <1>5, <2>1 DEF Pay, Cancel, CheckOut
  <2>2. CASE ~(Pay(w) /\ status[job[w].id] # "pending")
    <3>1. PICK st \in {"confirmed", "active"} :
            /\ SetStatus(job[w].id, st)
            /\ \A x \in extended : x \in extended' \/ (x = job[w].id /\ st = "confirmed")
      BY <1>6, <2>2 DEF Pay, Confirm, CheckIn
    <3>2. st \in Statuses
      BY DEF Statuses
    <3> QED
      BY <1>1, <1>3, <3>1, <3>2, WriteAccounts
  <2> QED
    BY <2>1, <2>2
<1> QED
  BY <1>4, <1>6

LEMMA ExpiryAccounts ==
  ASSUME Inv, HoldInv, NEW r \in Ids, Expire(r) \/ HistoryExpire(r)
  PROVE  Abandoned' \subseteq Abandoned
<1>1. /\ SetStatus(r, "expired") /\ "expired" \in Statuses
      /\ UNCHANGED <<row, lock, extended>>
  BY DEF Expire, HistoryExpire, redis, Statuses
<1>2. CASE Expire(r)
  <2>1. /\ pc'[Cron] = "Release" /\ job'[Cron].id = r /\ job'[Cron].spot = row[r].spot
        /\ \A q \in Procs : pc[q] \in {"Insert", "Undo", "Release"} =>
                              pc'[q] = pc[q] /\ job'[q] = job[q]
    BY <1>2 DEF Expire, JobFor, Inv, TypeOK
  <2> QED
    BY <1>1, <2>1, WriteAccounts
<1>3. CASE HistoryExpire(r)
  <2>1. UNCHANGED <<pc, job>> /\ "confirmed" \notin reached[r]
    BY <1>3 DEF HistoryExpire, local, HoldInv, ConfirmedInTime
  <2> QED
    BY <1>1, <2>1, WriteAccounts
<1> QED
  BY <1>2, <1>3

\* A step that fails leaves one lock at most to the time to live.
LEMMA FaultAccounts ==
  ASSUME Inv, NEW p \in Procs, Dropped(p) \/ Crash(p)
  PROVE  Abandoned' \subseteq Abandoned \cup {job[p].spot} /\ faults' = faults + 1
<1>1. UNCHANGED <<db, lock, extended>> /\ faults' = faults + 1 /\ NoNewLock
  BY DEF Dropped, Crash, Fault, redis, NoNewLock
<1>2. Alone(p)
  <2>1. CASE Crash(p)
    BY <2>1 DEF Crash, Alone, Inv, TypeOK
  <2>2. CASE Dropped(p)
    <3>1. PICK c \in Calls : Goto(p, c)
      BY <2>2 DEF Dropped, After
    <3> QED
      BY <3>1, GotoIs
  <2> QED
    BY <2>1, <2>2
<1>3. \A s \in Spots \ {job[p].spot} : ~GivesBack(p, s)
  BY DEF GivesBack
<1> QED
  BY <1>1, <1>2, <1>3, QuietAccounts

\* Every step but a fault leaves no lock behind.
LEMMA StepAccounts ==
  ASSUME Inv, HoldInv, [Next]_vars, ~\E p \in Procs : Dropped(p) \/ Crash(p)
  PROVE  Abandoned' \subseteq Abandoned /\ faults' \in {faults, faults + 1}
<1>0. faults' \in {faults, faults + 1}
  BY DEF Next, Request, CreateRequest, PayRequest, ConfirmRequest, CancelRequest,
         CheckInRequest, CheckOutRequest, Step, Acquire, SpotUnavailable, Insert, InsertFails,
         Fault, Undo, Save, Pay, Extend, Confirm, Relock, Cancel, CheckIn, CheckOutRead,
         CheckOut, Release, ExpiryJob, ExpireList, Expire, ExpireFails, HistoryExpire, Tick,
         vars
<1>1. ASSUME NEW p \in Procs, Alone(p), UNCHANGED <<db, lock, extended>>,
             pc[p] \notin {"Insert", "Undo", "Release"}
      PROVE  Abandoned' \subseteq Abandoned
  <2>1. NoNewLock /\ \A s : ~GivesBack(p, s)
    BY <1>1 DEF NoNewLock, GivesBack
  <2>2. Abandoned' \subseteq Abandoned \cup {}
    BY <1>1, <2>1, QuietAccounts
  <2> QED
    BY <2>2
<1>2. ASSUME NEW w \in Workers, Request(w)
      PROVE  Abandoned' \subseteq Abandoned
  <2>1. /\ UNCHANGED <<db, lock, extended>>
        /\ \E c \in {"Acquire", "Read", "Update"} : \E j : Begin(w, c, j)
    BY <1>2 DEF Request, CreateRequest, PayRequest, ConfirmRequest, CancelRequest,
                CheckInRequest, CheckOutRequest, redis
  <2>2. Alone(w) /\ pc[w] = "idle"
    <3>1. PICK c \in {"Acquire", "Read", "Update"} : \E j : Begin(w, c, j)
      BY <2>1
    <3>2. PICK j : Begin(w, c, j)
      BY <3>1
    <3> QED
      BY <3>2 DEF Begin, Alone, Inv, TypeOK
  <2> QED
    BY <1>1, <2>1, <2>2
<1>3. ASSUME NEW p \in Procs, Step(p)
      PROVE  Abandoned' \subseteq Abandoned
  <2>1. CASE SpotUnavailable(p) \/ CheckOutRead(p) \/ Save(p)
    <3>1. /\ pc[p] \in {"Acquire", "Read", "Save"} /\ UNCHANGED <<db, lock, extended>>
          /\ \E c \in Calls : Goto(p, c)
      BY <2>1 DEF SpotUnavailable, CheckOutRead, Save, After, redis
    <3> QED
      BY <1>1, <3>1, GotoIs
  <2>2. CASE Extend(p)
    <3>1. /\ pc[p] = "Extend" /\ UNCHANGED db /\ extended \subseteq extended'
          /\ Goto(p, "idle")
      BY <2>2 DEF Extend
    <3>2. NoNewLock
      BY <2>2 DEF Extend, NoNewLock, Inv, TypeOK
    <3>3. \A s : ~GivesBack(p, s)
      BY <3>1 DEF GivesBack
    <3>4. Abandoned' \subseteq Abandoned \cup {}
      BY <3>1, <3>2, <3>3, QuietAccounts, GotoIs
    <3> QED
      BY <3>4
  <2>3. CASE Insert(p)
    BY <2>3, InsertAccounts DEF Insert, redis
  <2>4. CASE InsertFails(p)
    <3>1. pc[p] = "Insert" /\ Goto(p, "Undo") /\ UNCHANGED <<lock, extended>>
      BY <2>4 DEF InsertFails, redis
    <3>2. CASE InsertRow(p)
      BY <3>1, <3>2, InsertAccounts
    <3>3. CASE UNCHANGED db
      <4>1. NoNewLock /\ \A s \in Spots : GivesBack(p, s) => GivesBack(p, s)'
        BY <3>1, GotoIs DEF NoNewLock, GivesBack
      <4>2. Abandoned' \subseteq Abandoned \cup {}
        BY <3>1, <3>3, <4>1, QuietAccounts, GotoIs
      <4> QED
        BY <4>2
    <3> QED
      BY <2>4, <3>2, <3>3 DEF InsertFails
  <2>5. CASE Undo(p) \/ Release(p)
    <3>1. /\ ReleaseLock(job[p].spot, job[p].id) /\ UNCHANGED <<db, extended>>
          /\ \E c \in Calls : Goto(p, c)
      BY <2>5 DEF Undo, Release, After
    <3> QED
      BY <3>1, GiveBackAccounts
  <2> QED
    BY <1>3, <2>1, <2>2, <2>3, <2>4, <2>5, AcquireAccounts, RelockAccounts, UpdateAccounts
    DEF Step
<1>4. CASE ExpireList \/ \E r \in Ids : ExpireFails(r)
  <2>1. pc[Cron] \in {"idle", "loop"} /\ Alone(Cron) /\ UNCHANGED <<db, lock, extended>>
    BY <1>4 DEF ExpireList, ExpireFails, Alone, redis, Inv, TypeOK
  <2>2. Cron \in Procs /\ pc[Cron] \notin {"Insert", "Undo", "Release"}
    BY <2>1
  <2> QED
    BY <1>0, <1>1, <2>1, <2>2
<1>5. CASE UNCHANGED vars
  BY <1>5 DEF Abandoned, AccountedFor, GivesBack, Live, vars, db, redis, local
<1> QED
  BY <1>0, <1>2, <1>3, <1>4, <1>5, ExpiryAccounts, TickAccounts DEF Next, ExpiryJob

LEMMA NextLocks == Inv /\ HoldInv /\ LocksReturned /\ [Next]_vars => LocksReturned'
<1> SUFFICES ASSUME Inv, HoldInv, LocksReturned, [Next]_vars PROVE LocksReturned'
  OBVIOUS
<1>1. IsFiniteSet(Spots) /\ Abandoned \subseteq Spots
  BY FS_Interval DEF Abandoned
<1>2. IsFiniteSet(Abandoned) /\ Cardinality(Abandoned) \in Nat
  BY <1>1, FS_Subset, FS_CardinalityType
<1>3. faults \in Nat /\ Cardinality(Abandoned) <= faults
  BY DEF Inv, TypeOK, LocksReturned
<1>4. CASE \E p \in Procs : Dropped(p) \/ Crash(p)
  <2>1. PICK p \in Procs : Dropped(p) \/ Crash(p)
    BY <1>4
  <2>2. Abandoned' \subseteq Abandoned \cup {job[p].spot} /\ faults' = faults + 1
    BY <2>1, FaultAccounts
  <2>3. /\ IsFiniteSet(Abandoned \cup {job[p].spot})
        /\ Cardinality(Abandoned \cup {job[p].spot}) \in
             {Cardinality(Abandoned), Cardinality(Abandoned) + 1}
    BY <1>2, FS_AddElement
  <2>4. Cardinality(Abandoned') <= Cardinality(Abandoned \cup {job[p].spot})
        /\ Cardinality(Abandoned') \in Nat
    BY <2>2, <2>3, FS_Subset, FS_CardinalityType
  <2> QED
    BY <1>2, <1>3, <2>2, <2>3, <2>4 DEF LocksReturned
<1>5. CASE ~\E p \in Procs : Dropped(p) \/ Crash(p)
  <2>1. Abandoned' \subseteq Abandoned /\ faults' \in {faults, faults + 1}
    BY <1>5, StepAccounts
  <2>2. Cardinality(Abandoned') <= Cardinality(Abandoned) /\ Cardinality(Abandoned') \in Nat
    BY <1>2, <2>1, FS_Subset, FS_CardinalityType
  <2> QED
    BY <1>2, <1>3, <2>1, <2>2 DEF LocksReturned
<1> QED
  BY <1>4, <1>5

\* However operations overlap, a lock is always that of a reservation that is entitled
\* to its spot, or in the hands of a handler that will give it back; and of the locks
\* that are neither there is never more than one for each fault.  (usecase.go:94, :158,
\* :228 and :281 release a lock once, and ignore whether that succeeds.)
THEOREM LocksComeBack == Spec => []LocksReturned
<1>1. Init => LocksReturned
  <2> SUFFICES ASSUME Init PROVE LocksReturned
    OBVIOUS
  <2>1. Abandoned = {}
    BY DEF Init, Abandoned
  <2> QED
    BY <2>1, FS_EmptySet DEF Init, LocksReturned
<1>2. Init => BookInv /\ HoldInv
  BY HoldInit
<1>3. Inv /\ BookInv /\ [Next]_vars => BookInv'
  BY NextBook
<1>4. Inv /\ BookInv /\ HoldInv /\ Inv' /\ BookInv' /\ [Next]_vars => HoldInv'
  BY NextHold
<1> QED
  BY <1>1, <1>2, <1>3, <1>4, NextLocks, InitInv, NextInv, PTL DEF Spec

-----------------------------------------------------------------------------
(* The rounds of the expiry job, whatever the handlers do meanwhile.       *)

\* The job is between two rounds with nothing left on its list, or it has a row to
\* expire, or a lock to release: whenever a reservation is overdue, it has a next call.
JobAtWork ==
  \/ pc[Cron] = "idle" /\ due = {}
  \/ pc[Cron] = "loop" /\ due # {}
  \/ pc[Cron] = "Release" /\ job[Cron].op = "expire"

\* A round is about all the reservations that are overdue when it begins.  The job takes
\* none on later, and gives none up but by ending it, or to a fault.
RoundKept ==
  /\ due' \subseteq due \/ (pc[Cron] = "idle" /\ due' = {r \in Ids : Overdue(r)})
  /\ \A r \in due \ due' : status'[r] = "expired" \/ faults' = faults + 1

NoneForgotten == [][RoundKept]_vars

LEMMA JobStep ==
  ASSUME Inv, JobAtWork, [Next]_vars
  PROVE  JobAtWork' /\ RoundKept
<1>1. ASSUME pc'[Cron] = pc[Cron], job'[Cron] = job[Cron], due' = due
      PROVE  JobAtWork' /\ RoundKept
  BY <1>1 DEF JobAtWork, RoundKept
<1>2. ASSUME NEW w \in Workers, Request(w)
      PROVE  JobAtWork' /\ RoundKept
  <2>1. \E c \in {"Acquire", "Read", "Update"} : \E j : Begin(w, c, j)
    BY <1>2 DEF Request, CreateRequest, PayRequest, ConfirmRequest, CancelRequest,
                CheckInRequest, CheckOutRequest
  <2>2. PICK c \in {"Acquire", "Read", "Update"} : \E j : Begin(w, c, j)
    BY <2>1
  <2>3. PICK j : Begin(w, c, j)
    BY <2>2
  <2> QED
    BY <1>1, <2>3 DEF Begin, Inv, TypeOK
<1>3. ASSUME NEW p \in Workers, Step(p)
      PROVE  JobAtWork' /\ RoundKept
  <2>1. CASE Acquire(p)
    BY <1>1, <2>1 DEF Acquire, Inv, TypeOK
  <2>2. CASE Crash(p)
    BY <1>1, <2>2 DEF Crash, Inv, TypeOK
  <2>3. CASE ~(Acquire(p) \/ Crash(p))
    <3>1. PICK c \in Calls : Goto(p, c)
      BY <1>3, <2>3 DEF Step, SpotUnavailable, Insert, InsertFails, Undo, Save, Pay,
         Extend, Confirm, Relock, Cancel, CheckIn, CheckOutRead, CheckOut, Release, Dropped, After
    <3> QED
      BY <1>1, <3>1, GotoIs DEF Alone
  <2> QED
    BY <2>1, <2>2, <2>3
<1>4. CASE Step(Cron)
  <2>1. CASE Crash(Cron)
    BY <2>1 DEF Crash, Fault, JobAtWork, RoundKept, Inv, TypeOK
  <2>2. CASE Release(Cron) \/ Dropped(Cron)
    <3>1. Goto(Cron, After(Cron)) /\ pc[Cron] = "Release" /\ job[Cron].op = "expire"
      BY <2>2 DEF Release, Dropped, JobAtWork
    <3>2. After(Cron) = IF due # {} THEN "loop" ELSE "idle"
      BY <3>1 DEF After
    <3>3. pc'[Cron] = After(Cron) /\ due' = due
      BY <3>1, <3>2, GotoIs
    <3> QED
      BY <3>2, <3>3 DEF JobAtWork, RoundKept
  <2> QED
    BY <1>4, <2>1, <2>2
    DEF Step, JobAtWork, Acquire, SpotUnavailable, Insert, InsertFails, Undo, Save, Pay,
        Extend, Confirm, Relock, Cancel, CheckIn, CheckOutRead, CheckOut
<1>5. CASE ExpireList
  BY <1>5 DEF ExpireList, JobAtWork, RoundKept, Inv, TypeOK
<1>6. ASSUME NEW r \in Ids, Expire(r)
      PROVE  JobAtWork' /\ RoundKept
  <2>1. pc'[Cron] = "Release" /\ job'[Cron].op = "expire" /\ due' = due \ {r}
    BY <1>6 DEF Expire, JobFor, Inv, TypeOK
  <2>2. status'[r] = "expired"
    BY <1>6 DEF Expire, SetStatus, Inv, TypeOK
  <2> QED
    BY <2>1, <2>2 DEF JobAtWork, RoundKept
<1>7. ASSUME NEW r \in Ids, ExpireFails(r)
      PROVE  JobAtWork' /\ RoundKept
  BY <1>7 DEF ExpireFails, Fault, JobAtWork, RoundKept, Inv, TypeOK
<1>8. CASE Tick \/ UNCHANGED vars \/ \E r \in Ids : HistoryExpire(r)
  BY <1>1, <1>8 DEF Tick, HistoryExpire, vars, local
<1> QED
  BY <1>2, <1>3, <1>4, <1>5, <1>6, <1>7, <1>8 DEF Next, ExpiryJob

\* The job never waits for anything, wherever its calls fail and whatever handlers
\* do to the rows on its list (usecase.go:271-287).
THEOREM JobNeverStuck == Spec => []JobAtWork
<1>1. Init => JobAtWork
  BY DEF Init, JobAtWork
<1> QED
  BY <1>1, JobStep, InitInv, NextInv, PTL DEF Spec

\* And a round of it passes over no reservation that is overdue, unless a fault
\* makes it (usecase.go:271-287).
THEOREM NoRowPassedOver == Spec => NoneForgotten
<1>1. Init => JobAtWork
  BY DEF Init, JobAtWork
<1> QED
  BY <1>1, JobStep, InitInv, NextInv, PTL DEF Spec, NoneForgotten

-----------------------------------------------------------------------------
(* Handlers that do not overlap.                                           *)

\* The statuses an UPDATE may find, if what its handler read is still true.  (The
\* statement of the gateway's confirmation tests the status itself.)
Judged == [confirm |-> {"pending"}, cancel |-> {"pending", "confirmed"},
           checkIn |-> {"confirmed"}, checkOut |-> {"active"}, pay |-> Statuses]

\* Only one handler is at work, and the expiry job makes no other calls.
OneAtWork ==
  /\ \A p, q \in Busy : p = q
  /\ pc[Cron] \in {"idle", "loop", "Release"}
  /\ pc[Cron] = "Release" => job[Cron].op = "expire"

\* What was read is still true when it is used.
StillTrue ==
  /\ \A p \in Procs : pc[p] = "Update" => status[job[p].id] \in Judged[job[p].op]
  /\ \A r \in due : pc[Cron] # "idle" /\ status[r] \in {"pending", "confirmed"}

\* Every parking session is of a row that has been checked in.
ParkedOnce ==
  \A r \in Ids : sessions[r] = IF status[r] \in {"active", "completed"} THEN 1 ELSE 0

SerialInv == OneAtWork /\ StillTrue /\ ParkedOnce

LEMMA SerialInit == Init => SerialInv
  BY DEF Init, SerialInv, OneAtWork, StillTrue, ParkedOnce, Busy

\* When p is at work, or nobody is, the others wait and nothing else is read.
LEMMA NobodyElse ==
  ASSUME Inv, SerialInv, NEW p \in Procs, pc[p] # "idle" \/ Busy = {}
  PROVE  /\ \A q \in Procs \ {p} : pc[q] = "idle"
         /\ p # Cron => due = {}
  BY DEF SerialInv, OneAtWork, StillTrue, Busy, Inv, TypeOK

\* A step of p that writes no row, and after which p is not about to write one.
LEMMA SerialQuiet ==
  ASSUME Inv, SerialInv, OneAtWork', NEW p \in Procs, Alone(p), UNCHANGED db,
         pc'[p] # "Update",
         \A r \in due' : pc'[Cron] # "idle" /\ status[r] \in {"pending", "confirmed"}
  PROVE  SerialInv'
<1>1. ParkedOnce'
  BY DEF SerialInv, ParkedOnce, db
<1>2. StillTrue'
  BY DEF SerialInv, StillTrue, db, Alone
<1> QED
  BY <1>1, <1>2 DEF SerialInv

\* A handler that starts with the first call c and the local variables j.
LEMMA SerialBegin ==
  ASSUME Inv, SerialInv, NEW w \in Workers, NEW c \in {"Acquire", "Read", "Update"}, NEW j,
         Begin(w, c, j), UNCHANGED db, (\A p, q \in Busy : p = q)',
         c = "Update" => status[j.id] \in Judged[j.op]
  PROVE  SerialInv'
<1>1. pc'[w] = c /\ job'[w] = j /\ Alone(w) /\ due' = due /\ w # Cron
  BY DEF Begin, Inv, TypeOK, Alone
<1>2. OneAtWork'
  BY <1>1 DEF SerialInv, OneAtWork, Alone
<1>3. StillTrue'
  BY <1>1 DEF SerialInv, StillTrue, Alone, db
<1>4. ParkedOnce'
  BY DEF SerialInv, ParkedOnce, db
<1> QED
  BY <1>2, <1>3, <1>4 DEF SerialInv

LEMMA SerialRequest ==
  ASSUME Inv, SerialInv, NEW w \in Workers, Request(w), (\A p, q \in Busy : p = q)'
  PROVE  SerialInv' /\ UNCHANGED status
<1> USE DEF db
<1>1. ASSUME NEW d \in Drivers, NEW k \in Keys, NEW s \in 0..NumSpots,
             CreateRequest(w, d, k, s)
      PROVE  SerialInv' /\ UNCHANGED status
  BY <1>1, SerialBegin DEF CreateRequest
<1>2. ASSUME NEW r \in Ids, PayRequest(w, r)
      PROVE  SerialInv' /\ UNCHANGED status
  <2>1. status[r] \in Statuses
    BY <1>2 DEF PayRequest, Inv, TypeOK
  <2> QED
    BY <1>2, <2>1, SerialBegin DEF PayRequest, JobFor, Judged
<1>3. ASSUME NEW r \in Ids, ConfirmRequest(w, r)
      PROVE  SerialInv' /\ UNCHANGED status
  BY <1>3, SerialBegin DEF ConfirmRequest, JobFor, Judged
<1>4. ASSUME NEW r \in Ids, NEW d \in Drivers, CancelRequest(w, r, d)
      PROVE  SerialInv' /\ UNCHANGED status
  BY <1>4, SerialBegin DEF CancelRequest, JobFor, Judged
<1>5. ASSUME NEW r \in Ids, NEW d \in Drivers, CheckInRequest(w, r, d)
      PROVE  SerialInv' /\ UNCHANGED status
  BY <1>5, SerialBegin DEF CheckInRequest, JobFor, Judged
<1>6. ASSUME NEW r \in Ids, NEW d \in Drivers, NEW k \in Keys,
             CheckOutRequest(w, r, d, k)
      PROVE  SerialInv' /\ UNCHANGED status
  BY <1>6, SerialBegin DEF CheckOutRequest
<1> QED
  BY <1>1, <1>2, <1>3, <1>4, <1>5, <1>6 DEF Request

\* The calls that leave the reservations table alone.
LEMMA SerialCall ==
  ASSUME Inv, SerialInv, (\A p, q \in Busy : p = q)', UNCHANGED db,
         NEW p \in Procs, Step(p)
  PROVE  SerialInv'
<1>1. /\ \A q \in Procs \ {p} : pc[q] = "idle"
      /\ p # Cron => due = {}
      /\ pc[p] # "idle" /\ pc[Cron] \in {"idle", "loop", "Release"}
      /\ \A r \in due : status[r] \in {"pending", "confirmed"}
  <2>1. pc[p] # "idle"
    BY DEF Step, Acquire, SpotUnavailable, Insert, InsertFails, Undo, Save, Pay, Extend,
           Confirm, Relock, Cancel, CheckIn, CheckOutRead, CheckOut, Release, Dropped, Crash
  <2> QED
    BY <2>1, NobodyElse DEF SerialInv, OneAtWork, StillTrue
<1>2. CASE Acquire(p)
  <2>1. pc'[p] = "Insert" /\ Alone(p) /\ due' = due /\ p # Cron
    BY <1>1, <1>2 DEF Acquire, Alone, Inv, TypeOK
  <2> QED
    BY <1>1, <2>1, SerialQuiet DEF OneAtWork, Alone
<1>3. ASSUME NEW c \in Calls \ {"Update", "loop"}, Goto(p, c), p # Cron
      PROVE  SerialInv'
  BY <1>1, <1>3, GotoIs, SerialQuiet DEF OneAtWork, Alone
<1>4. ASSUME Goto(p, After(p)), pc[p] \in {"Undo", "Save", "Extend", "Relock", "Release"}
      PROVE  SerialInv'
  <2>1. CASE p = Cron
    <3>1. After(p) = IF due = {} THEN "idle" ELSE "loop"
      BY <1>1, <1>4, <2>1 DEF After, SerialInv, OneAtWork
    <3>2. pc'[p] = After(p) /\ Alone(p) /\ due' = due
      BY <1>4, <3>1, GotoIs
    <3>3. OneAtWork'
      BY <2>1, <3>1, <3>2 DEF OneAtWork
    <3> QED
      BY <1>1, <2>1, <3>1, <3>2, <3>3, SerialQuiet
  <2>2. CASE p # Cron
    BY <1>3, <1>4, <2>2 DEF After
  <2> QED
    BY <2>1, <2>2
<1>5. CASE CheckOutRead(p)
  <2>1. CASE status[job[p].id] = "active"
    <3>1. Goto(p, "Update") /\ p # Cron /\ job[p].op = "checkOut"
      BY <1>1, <1>5, <2>1 DEF CheckOutRead, Inv, Handlers, Working
    <3>2. /\ pc'[p] = "Update" /\ Alone(p) /\ due' = due
          /\ job'[p].op = "checkOut" /\ job'[p].id = job[p].id
      BY <3>1, GotoIs
    <3>3. OneAtWork'
      BY <1>1, <3>1, <3>2 DEF OneAtWork, Alone
    <3>4. StillTrue'
      BY <1>1, <2>1, <3>1, <3>2 DEF StillTrue, Alone, Judged, db
    <3>5. ParkedOnce'
      BY DEF SerialInv, ParkedOnce, db
    <3> QED
      BY <3>3, <3>4, <3>5 DEF SerialInv
  <2>2. CASE status[job[p].id] # "active"
    BY <1>1, <1>3, <1>5, <2>2 DEF CheckOutRead
  <2> QED
    BY <2>1, <2>2
<1>6. CASE Crash(p)
  <2>1. pc'[p] = "idle" /\ Alone(p) /\ due' = {}
    BY <1>1, <1>6 DEF Crash, Inv, TypeOK, Alone
  <2> QED
    BY <1>1, <2>1, SerialQuiet DEF OneAtWork, Alone
<1>7. CASE SpotUnavailable(p) \/ Insert(p) \/ InsertFails(p) \/ Undo(p) \/ Pay(p) \/ Confirm(p)
           \/ Cancel(p) \/ CheckIn(p) \/ CheckOut(p) \/ Extend(p) \/ Relock(p)
  <2>1. p # Cron
    BY <1>1, <1>7 DEF SpotUnavailable, Insert, InsertFails, Undo, Pay, Confirm, Cancel,
                      CheckIn, CheckOut, Extend, Relock
  <2>2. \E c \in Calls \ {"Update", "loop"} : Goto(p, c)
    BY <1>7 DEF SpotUnavailable, Insert, InsertFails, Undo, Pay, Confirm, Cancel,
                CheckIn, CheckOut, Extend, Relock
  <2> QED
    BY <1>3, <2>1, <2>2
<1>8. CASE Save(p) \/ Release(p) \/ Dropped(p)
  BY <1>4, <1>8 DEF Save, Release, Dropped
<1> QED
  BY <1>2, <1>5, <1>6, <1>7, <1>8 DEF Step

\* p, which is alone at work, gives the row r the status s.
LEMMA SerialWrite ==
  ASSUME Inv, SerialInv, OneAtWork', NEW p \in Procs, Alone(p),
         pc[p] # "idle" \/ Busy = {}, pc'[p] # "Update",
         NEW r \in Ids, NEW s \in Statuses, SetStatus(r, s),
         due' \subseteq due, \A x \in due' : pc'[Cron] # "idle" /\ x # r,
         sessions' = IF s = "active" THEN [sessions EXCEPT ![r] = @ + 1] ELSE sessions,
         s = "active" => status[r] \notin {"active", "completed"},
         s # "active" => (s = "completed" <=> status[r] \in {"active", "completed"})
  PROVE  SerialInv'
<1>1. \A x \in Ids : status'[x] = IF x = r THEN s ELSE status[x]
  BY SetStatusTypes DEF Inv
<1>2. StillTrue'
  <2>1. \A q \in Procs : pc'[q] # "Update"
    BY NobodyElse DEF Alone
  <2>2. \A x \in due' : x \in Ids /\ status[x] \in {"pending", "confirmed"}
    BY DEF SerialInv, StillTrue, Inv, TypeOK
  <2> QED
    BY <1>1, <2>1, <2>2 DEF StillTrue
<1>3. ParkedOnce'
  BY <1>1 DEF SerialInv, ParkedOnce, Inv, TypeOK
<1> QED
  BY <1>2, <1>3 DEF SerialInv

\* The move of ReservationLifecycle that a write is.
LEMMA MoveIs ==
  ASSUME Inv, NEW r \in Ids, NEW s \in Statuses, SetStatus(r, s),
         \/ s = "pending" /\ status[r] = "none"
         \/ s = "confirmed" /\ status[r] = "pending"
         \/ s = "active" /\ status[r] = "confirmed"
         \/ s = "completed" /\ status[r] = "active"
         \/ s \in {"cancelled", "expired"} /\ status[r] \in {"pending", "confirmed"}
  PROVE  L!Next
<1>1. status' = [status EXCEPT ![r] = s]
  BY DEF SetStatus
<1>2. L!Reserve(r) \/ L!Confirm(r) \/ L!CheckIn(r) \/ L!CheckOut(r) \/ L!Cancel(r) \/ L!Expire(r)
  BY <1>1 DEF L!Reserve, L!Confirm, L!CheckIn, L!CheckOut, L!Cancel, L!Expire, L!Move
<1> QED
  BY <1>2 DEF L!Next

LEMMA SerialUpdate ==
  ASSUME Inv, SerialInv, (\A p, q \in Busy : p = q)', NEW w \in Procs,
         Pay(w) \/ Confirm(w) \/ Cancel(w) \/ CheckIn(w) \/ CheckOut(w)
  PROVE  SerialInv' /\ [L!Next]_status
<1>1. /\ pc[w] = "Update" /\ w # Cron /\ due = {}
      /\ job[w].id \in Ids /\ status[job[w].id] \in Judged[job[w].op]
  <2>1. pc[w] = "Update" /\ w # Cron
    BY DEF Pay, Confirm, Cancel, CheckIn, CheckOut, SerialInv, OneAtWork
  <2> QED
    BY <2>1, NobodyElse DEF SerialInv, StillTrue, Inv, Handlers, Working
<1>2. CASE UNCHANGED db
  BY <1>2, SerialCall DEF Step, db
<1>3. ASSUME NEW c \in {"idle", "Extend", "Relock", "Release"}, Goto(w, c)
      PROVE  pc'[w] # "Update" /\ Alone(w) /\ due' = due /\ OneAtWork'
  BY <1>1, <1>3, GotoIs DEF SerialInv, OneAtWork, Alone
<1>4. ASSUME NEW c \in {"idle", "Extend", "Relock", "Release"}, Goto(w, c),
             NEW s \in Statuses, SetStatus(job[w].id, s),
             sessions' = IF s = "active" THEN [sessions EXCEPT ![job[w].id] = @ + 1] ELSE sessions,
             \/ s = "confirmed" /\ status[job[w].id] = "pending"
             \/ s = "active" /\ status[job[w].id] = "confirmed"
             \/ s = "completed" /\ status[job[w].id] = "active"
             \/ s = "cancelled" /\ status[job[w].id] \in {"pending", "confirmed"}
      PROVE  SerialInv' /\ L!Next
  <2>1. L!Next
    BY <1>1, <1>4, MoveIs
  <2>2. pc'[w] # "Update" /\ Alone(w) /\ due' = due /\ OneAtWork'
    BY <1>3, <1>4
  <2>3. SerialInv'
    BY <1>1, <1>4, <2>2, SerialWrite
  <2> QED
    BY <2>1, <2>3
<1>5. CASE Pay(w)
  <2>1. CASE status[job[w].id] = "pending"
    BY <1>4, <1>5, <2>1 DEF Pay, Statuses
  <2>2. CASE status[job[w].id] # "pending"
    BY <1>2, <1>5, <2>2 DEF Pay, db
  <2> QED
    BY <2>1, <2>2
<1>6. CASE Confirm(w)
  BY <1>1, <1>4, <1>6 DEF Confirm, Judged, Statuses
<1>7. CASE Cancel(w)
  BY <1>1, <1>4, <1>7 DEF Cancel, Judged, Statuses
<1>8. CASE CheckIn(w)
  BY <1>1, <1>4, <1>8 DEF CheckIn, Judged, Statuses
<1>9. CASE CheckOut(w)
  BY <1>1, <1>4, <1>9 DEF CheckOut, Judged, Statuses
<1> QED
  BY <1>5, <1>6, <1>7, <1>8, <1>9

LEMMA SerialInsert ==
  ASSUME Inv, SerialInv, (\A p, q \in Busy : p = q)', NEW w \in Procs,
         pc[w] = "Insert", InsertRow(w), Goto(w, "Save") \/ Goto(w, "Undo")
  PROVE  SerialInv' /\ L!Next
<1>1. /\ job[w].id \in Ids /\ status[job[w].id] = "none"
      /\ SetStatus(job[w].id, "pending") /\ UNCHANGED sessions
      /\ w # Cron /\ due = {} /\ "pending" \in Statuses
  BY NobodyElse DEF SerialInv, OneAtWork, Inv, Handlers, Creating, OwnId, InsertRow, Statuses
<1>2. pc'[w] \in {"Save", "Undo"} /\ Alone(w) /\ due' = due
  BY GotoIs
<1>3. OneAtWork'
  BY <1>1, <1>2 DEF SerialInv, OneAtWork, Alone
<1>4. L!Next
  BY <1>1, MoveIs
<1>5. SerialInv'
  BY <1>1, <1>2, <1>3, SerialWrite
<1> QED
  BY <1>4, <1>5

LEMMA SerialStep ==
  ASSUME Inv, SerialInv, (\A p, q \in Busy : p = q)', NEW p \in Procs, Step(p)
  PROVE  SerialInv' /\ [L!Next]_status
<1>1. CASE UNCHANGED db
  BY <1>1, SerialCall DEF db
<1>2. CASE Insert(p) \/ InsertFails(p)
  BY <1>1, <1>2, SerialInsert DEF Insert, InsertFails
<1>3. CASE Pay(p) \/ Confirm(p) \/ Cancel(p) \/ CheckIn(p) \/ CheckOut(p)
  BY <1>3, SerialUpdate
<1>4. CASE ~(UNCHANGED db \/ Insert(p) \/ InsertFails(p) \/ Pay(p) \/ Confirm(p)
              \/ Cancel(p) \/ CheckIn(p) \/ CheckOut(p))
  BY <1>4 DEF Step, Acquire, SpotUnavailable, Undo, Save, Extend, Relock, CheckOutRead,
              Release, Dropped, Crash
<1> QED
  BY <1>1, <1>2, <1>3, <1>4

LEMMA SerialExpiry ==
  ASSUME Inv, SerialInv, (\A p, q \in Busy : p = q)', ExpiryJob
  PROVE  SerialInv' /\ [L!Next]_status
<1> USE DEF Busy
<1>1. CASE ExpireList
  <2>1. /\ pc'[Cron] = "loop" /\ Alone(Cron) /\ UNCHANGED db
        /\ \A r \in due' : status[r] \in {"pending", "confirmed"}
    BY <1>1 DEF ExpireList, Inv, TypeOK, Alone, Overdue
  <2>2. OneAtWork'
    BY <2>1 DEF OneAtWork
  <2>3. SerialInv'
    BY <2>1, <2>2, SerialQuiet
  <2> QED
    BY <2>1, <2>3 DEF db
<1>2. ASSUME NEW r \in Ids, ExpireFails(r)
      PROVE  SerialInv' /\ [L!Next]_status
  <2>1. /\ pc'[Cron] = IF due' = {} THEN "idle" ELSE "loop"
        /\ Alone(Cron) /\ UNCHANGED db /\ due' \subseteq due
    BY <1>2 DEF ExpireFails, Inv, TypeOK, Alone
  <2>2. OneAtWork'
    BY <2>1 DEF OneAtWork
  <2>3. SerialInv'
    BY <2>1, <2>2, SerialQuiet DEF SerialInv, StillTrue
  <2> QED
    BY <2>1, <2>3 DEF db
<1>3. ASSUME NEW r \in Ids, Expire(r)
      PROVE  SerialInv' /\ [L!Next]_status
  <2>1. /\ pc'[Cron] = "Release" /\ job'[Cron].op = "expire" /\ Alone(Cron)
        /\ due' = due \ {r} /\ UNCHANGED sessions /\ pc[Cron] = "loop" /\ r \in due
        /\ SetStatus(r, "expired") /\ "expired" \in Statuses
    BY <1>3 DEF Expire, Inv, TypeOK, Alone, JobFor, Statuses
  <2>2. status[r] \in {"pending", "confirmed"}
    BY <2>1 DEF SerialInv, StillTrue
  <2>3. OneAtWork'
    BY <2>1 DEF OneAtWork
  <2>4. SerialInv'
    BY <2>1, <2>2, <2>3, SerialWrite
  <2> QED
    BY <2>1, <2>2, <2>4, MoveIs
<1> QED
  BY <1>1, <1>2, <1>3 DEF ExpiryJob

LEMMA SerialHistory ==
  ASSUME Inv, SerialInv, Busy = {}, NEW r \in Ids, HistoryExpire(r)
  PROVE  SerialInv' /\ [L!Next]_status
<1>1. /\ SetStatus(r, "expired") /\ status[r] = "pending" /\ "expired" \in Statuses
      /\ UNCHANGED <<sessions, pc, job, due>>
  BY DEF HistoryExpire, local, Statuses
<1>2. Cron \in Procs /\ pc[Cron] = "idle" /\ due = {} /\ Alone(Cron)
  BY <1>1 DEF Busy, SerialInv, StillTrue, Alone, Inv, TypeOK
<1>3. OneAtWork'
  BY <1>1 DEF SerialInv, OneAtWork, Busy
<1>4. SerialInv'
  BY <1>1, <1>2, <1>3, SerialWrite
<1> QED
  BY <1>1, <1>4, MoveIs

LEMMA NextSerial == Inv /\ SerialInv /\ [SerialNext]_vars => SerialInv' /\ [L!Next]_status
<1> SUFFICES ASSUME Inv, SerialInv, [SerialNext]_vars
             PROVE  SerialInv' /\ [L!Next]_status
  OBVIOUS
<1>1. CASE UNCHANGED vars
  BY <1>1 DEF vars, db, redis, local, SerialInv, OneAtWork, StillTrue, ParkedOnce, Busy
<1>2. CASE SerialNext
  <2>1. (\A p, q \in Busy : p = q)'
    BY <1>2 DEF SerialNext
  <2>2. ASSUME NEW r \in Ids, HistoryExpire(r)
        PROVE  SerialInv' /\ [L!Next]_status
    BY <1>2, <2>2, SerialHistory DEF SerialNext
  <2>3. CASE Tick
    BY <2>3 DEF Tick, db, local, SerialInv, OneAtWork, StillTrue, ParkedOnce, Busy
  <2> QED
    BY <1>2, <2>1, <2>2, <2>3, SerialRequest, SerialStep, SerialExpiry DEF SerialNext, Next
<1> QED
  BY <1>1, <1>2

\* Every handler that does not overlap with another moves a reservation along the
\* documented state machine: the UPDATEs that do not repeat the test on the
\* status write what a check just before has allowed.
THEOREM LifecycleKept == SerialSpec => Lifecycle
<1>1. Init => L!Init
  BY DEF Init, L!Init
<1>2. [SerialNext]_vars => [Next]_vars
  BY DEF SerialNext
<1> QED
  BY <1>1, <1>2, InitInv, NextInv, SerialInit, NextSerial, PTL DEF SerialSpec, Lifecycle, L!Spec

\* Without overlap a driver is checked in to a reservation once, whatever stops or
\* fails in between: there is one parking session to bill.
THEOREM SessionsNotRepeated == SerialSpec => []OneSession
<1>1. [SerialNext]_vars => [Next]_vars
  BY DEF SerialNext
<1>2. SerialInv => OneSession
  BY DEF SerialInv, ParkedOnce, OneSession
<1> QED
  BY <1>1, <1>2, InitInv, NextInv, SerialInit, NextSerial, PTL DEF SerialSpec
=============================================================================
