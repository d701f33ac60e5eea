------------------------------- MODULE Billing -------------------------------
(***************************************************************************)
(* How a parking session is billed: the gateway's CheckOut handler, which  *)
(* calls the reservation service and then the billing service, and the     *)
(* event of the check-out, which reaches the billing service a second time *)
(* through the message broker.                                             *)
(*                                                                         *)
(* Each call of a handler to PostgreSQL, Redis or the broker is one        *)
(* action, and pc[p] names the call that p makes next.  Rows of the table  *)
(* invoices have unique idempotency keys, so an invoice is identified by   *)
(* the key it was inserted with: "inv-" and one the client made, or a      *)
(* random one that the subscriber made, of which only the number matters.  *)
(* Clients may send one key for several reservations, and one they created *)
(* a reservation with: the keys of both requests are in one namespace.     *)
(***************************************************************************)
EXTENDS Naturals, FiniteSets

CONSTANTS
  Reservations,  \* reservations that are checked in, each with its session
  Keys,          \* idempotency keys clients send
  Created,       \* those of them that a reservation may have been created with
  Creation,      \* what those are sent for
  Workers,       \* check-out requests in flight at the same time
  Consumer,      \* the goroutine of the billing subscriber
  Faults,        \* which faults occur: "crash", "drop"
  MaxFaults,     \* bound on their number
  None           \* no reservation, no key

Procs == Workers \cup {Consumer}

ASSUME NamesAssumption ==
  /\ Consumer \notin Workers
  /\ None \notin Reservations \cup Keys \cup {Creation}
  /\ Creation \notin Reservations
  /\ Created \subseteq Keys
ASSUME MaxFaultsAssumption == MaxFaults \in Nat

VARIABLES
  completed,   \* the reservations whose status is 'completed'; the others are active
  resIdem,     \* Redis keys idempotency:<key> of the reservation service
  invIdem,     \* Redis keys idempotency:inv-<key> of the billing service
  byKey,       \* the reservation each client key has an invoice for
  byEvent,     \* how many invoices of each reservation have a random key
  queue,       \* how many events of each reservation wait in queue billing.checkout
  pc,          \* the next call of each handler
  job,         \* the reservation and the key each handler works for
  sent,        \* history: what each key was sent for: Creation, or check-outs of reservations
  overlapped,  \* history: the reservations checked out by requests that overlapped
  faults       \* how many faults have occurred

redis == <<resIdem, invIdem>>
table == <<byKey, byEvent>>
local == <<pc, job>>
vars  == <<completed, redis, table, queue, local, sent, overlapped, faults>>

Calls   == {"idle", "Complete", "SaveRes", "Publish", "Bill", "Insert", "SaveInv", "Ack"}
IdleJob == [res |-> None, key |-> None]
Jobs    == [res : Reservations \cup {None}, key : Keys \cup {None}]

\* Some keys are recorded already, by the creation of a reservation.
Init ==
  /\ completed = {}
  /\ resIdem \in SUBSET Created
  /\ invIdem = {}
  /\ byKey = [k \in Keys |-> None]
  /\ byEvent = [r \in Reservations |-> 0]
  /\ queue = [r \in Reservations |-> 0]
  /\ pc = [p \in Procs |-> "idle"]
  /\ job = [p \in Procs |-> IdleJob]
  /\ sent = [k \in Keys |-> IF k \in resIdem THEN {Creation} ELSE {}]
  /\ overlapped = {}
  /\ faults = 0

-----------------------------------------------------------------------------

Begin(p, call, r, k) ==
  /\ pc[p] = "idle"
  /\ pc' = [pc EXCEPT ![p] = call]
  /\ job' = [job EXCEPT ![p] = [res |-> r, key |-> k]]

\* Faulty variant: the local variables of a request are left to the next one.
GotoStale(p, call) ==
  /\ pc' = [pc EXCEPT ![p] = call]
  /\ UNCHANGED job

Goto(p, call) ==
  /\ pc' = [pc EXCEPT ![p] = call]
  /\ job' = IF call = "idle" THEN [job EXCEPT ![p] = IdleJob] ELSE job

Fault(f) ==
  /\ f \in Faults /\ faults < MaxFaults
  /\ faults' = faults + 1

-----------------------------------------------------------------------------
(* The reservation service's part of a check-out.                           *)

Use(k, r) == sent' = [sent EXCEPT ![k] = @ \cup {r}]

\* The key is known, for whichever reservation: the one that is asked for is returned
\* as it is, and billed.  If it is not checked out there is no check_out_at to answer
\* with (reservation handler.go:111), and the process of the service stops; such a
\* request changes nothing here, and what it interrupts is a matter of Crash.
CheckOutAgain(w, r, k) ==
  /\ k \in resIdem /\ r \in completed
  /\ Begin(w, "Bill", r, k)
  /\ Use(k, r)
  /\ UNCHANGED <<completed, redis, table, queue, overlapped, faults>>

\* Another request has read the reservation, and is about to complete it.
Overtakes(r) == \E w \in Workers : pc[w] = "Complete" /\ job[w].res = r

\* Faulty variant: the status of the reservation is not looked at.
CheckOutAnyStatus(w, r, k) ==
  /\ k \notin resIdem
  /\ Begin(w, "Complete", r, k)
  /\ Use(k, r)
  /\ overlapped' = IF Overtakes(r) THEN overlapped \cup {r} ELSE overlapped
  /\ UNCHANGED <<completed, redis, table, queue, faults>>

\* Faulty variant: the gateway bills first.
CheckOutBillsFirst(w, r, k) ==
  /\ k \notin resIdem /\ r \notin completed
  /\ Begin(w, "Bill", r, k)
  /\ Use(k, r)
  /\ UNCHANGED <<completed, redis, table, queue, overlapped, faults>>

\* The reservation is read and found active.
CheckOutRequest(w, r, k) ==
  /\ k \notin resIdem /\ r \notin completed
  /\ Begin(w, "Complete", r, k)
  /\ Use(k, r)
  /\ overlapped' = IF Overtakes(r) THEN overlapped \cup {r} ELSE overlapped
  /\ UNCHANGED <<completed, redis, table, queue, faults>>

\* UPDATE ... WHERE id.  The lock of the spot is then released (see Reservation).
Complete(w) ==
  /\ pc[w] = "Complete"
  /\ completed' = completed \cup {job[w].res}
  /\ Goto(w, "SaveRes")
  /\ UNCHANGED <<redis, table, queue, sent, overlapped, faults>>

SaveRes(w) ==
  /\ pc[w] = "SaveRes"
  /\ resIdem' = resIdem \cup {job[w].key}
  /\ Goto(w, "Publish")
  /\ UNCHANGED <<completed, invIdem, table, queue, sent, overlapped, faults>>

\* Faulty variant: what the stub publisher does.
PublishStub(w) ==
  /\ pc[w] = "Publish"
  /\ Goto(w, "Bill")
  /\ UNCHANGED <<completed, redis, table, queue, sent, overlapped, faults>>

Publish(w) ==
  /\ pc[w] = "Publish"
  /\ queue' = [queue EXCEPT ![job[w].res] = @ + 1]
  /\ Goto(w, "Bill")
  /\ UNCHANGED <<completed, redis, table, sent, overlapped, faults>>

-----------------------------------------------------------------------------
(* GenerateInvoice, called by the gateway.                                  *)

\* Faulty variant: the key is recorded before the row it stands for is inserted.
BillAndSave(w) ==
  /\ pc[w] = "Bill"
  /\ Goto(w, IF job[w].key \in invIdem THEN "idle" ELSE "Insert")
  /\ invIdem' = invIdem \cup {job[w].key}
  /\ UNCHANGED <<completed, resIdem, table, queue, sent, overlapped, faults>>

\* A known key is answered with the invoice inserted with it, whatever it is for.
Bill(w) ==
  /\ pc[w] = "Bill"
  /\ Goto(w, IF job[w].key \in invIdem THEN "idle" ELSE "Insert")
  /\ UNCHANGED <<completed, redis, table, queue, sent, overlapped, faults>>

InsertInvoice(w) ==
  /\ w \in Workers /\ pc[w] = "Insert"
  /\ byKey[job[w].key] = None
  /\ byKey' = [byKey EXCEPT ![job[w].key] = job[w].res]
  /\ Goto(w, "SaveInv")
  /\ UNCHANGED <<completed, redis, byEvent, queue, sent, overlapped, faults>>

\* "request already processed": the key is taken.
InsertFails(w) ==
  /\ w \in Workers /\ pc[w] = "Insert"
  /\ byKey[job[w].key] # None
  /\ Goto(w, "idle")
  /\ UNCHANGED <<completed, redis, table, queue, sent, overlapped, faults>>

SaveInv(w) ==
  /\ pc[w] = "SaveInv"
  /\ invIdem' = invIdem \cup {job[w].key}
  /\ Goto(w, "idle")
  /\ UNCHANGED <<completed, resIdem, table, queue, sent, overlapped, faults>>

-----------------------------------------------------------------------------
(* HandleCheckOut, called by the consumer for one event after the other.    *)
(* GenerateInvoice is given a random key, which no record and no row has.   *)

Receive(r) ==
  /\ queue[r] > 0
  /\ Begin(Consumer, "Insert", r, None)
  /\ queue' = [queue EXCEPT ![r] = @ - 1]
  /\ UNCHANGED <<completed, redis, table, sent, overlapped, faults>>

InsertEventInvoice ==
  /\ pc[Consumer] = "Insert"
  /\ byEvent' = [byEvent EXCEPT ![job[Consumer].res] = @ + 1]
  /\ Goto(Consumer, "Ack")
  /\ UNCHANGED <<completed, redis, byKey, queue, sent, overlapped, faults>>

\* The handler returns an error: Nack without requeue, the event is gone.
Nack ==
  /\ Fault("drop")
  /\ pc[Consumer] = "Insert"
  /\ Goto(Consumer, "idle")
  /\ UNCHANGED <<completed, redis, table, queue, sent, overlapped>>

Ack ==
  /\ pc[Consumer] = "Ack"
  /\ Goto(Consumer, "idle")
  /\ UNCHANGED <<completed, redis, table, queue, sent, overlapped, faults>>

\* The billing service stops before it acknowledges: the broker redelivers.
ConsumerCrash ==
  /\ Fault("crash")
  /\ pc[Consumer] # "idle"
  /\ queue' = [queue EXCEPT ![job[Consumer].res] = @ + 1]
  /\ Goto(Consumer, "idle")
  /\ UNCHANGED <<completed, redis, table, sent, overlapped>>

-----------------------------------------------------------------------------

\* A call whose error the code only logs fails, without effect.
Dropped(w) ==
  /\ Fault("drop")
  /\ \/ pc[w] = "SaveRes" /\ Goto(w, "Publish")
     \/ pc[w] = "Publish" /\ Goto(w, "Bill")
     \/ pc[w] = "SaveInv" /\ Goto(w, "idle")
  /\ UNCHANGED <<completed, redis, table, queue, sent, overlapped>>

\* The handler makes none of its remaining calls: a process stops, or a call
\* fails with an error that is returned.
Crash(w) ==
  /\ Fault("crash")
  /\ w \in Workers /\ pc[w] # "idle"
  /\ Goto(w, "idle")
  /\ UNCHANGED <<completed, redis, table, queue, sent, overlapped>>

Request(w) ==
  \E r \in Reservations, k \in Keys : CheckOutRequest(w, r, k) \/ CheckOutAgain(w, r, k)

Step(w) ==
  \/ Complete(w) \/ SaveRes(w) \/ Publish(w)
  \/ Bill(w) \/ InsertInvoice(w) \/ InsertFails(w) \/ SaveInv(w)
  \/ Dropped(w) \/ Crash(w)

Subscriber ==
  \/ \E r \in Reservations : Receive(r)
  \/ InsertEventInvoice \/ Nack \/ Ack \/ ConsumerCrash

Next ==
  \/ \E w \in Workers : Request(w) \/ Step(w)
  \/ Subscriber

Spec == Init /\ [][Next]_vars

\* Handlers go on, and the consumer takes one event after the other, whichever comes
\* next.  Nobody need repeat a request.
Fairness ==
  /\ \A w \in Workers : WF_vars(Step(w))
  /\ WF_vars((\E r \in Reservations : Receive(r)) \/ InsertEventInvoice \/ Nack \/ Ack)

FairSpec == Spec /\ Fairness

-----------------------------------------------------------------------------
(* Properties.                                                              *)

Bills(r)    == {k \in Keys : byKey[k] = r}
Invoices(r) == Cardinality(Bills(r)) + byEvent[r]

\* The reservations a key of which was sent for something else too.
Shared == {r \in Reservations : \E k \in Keys : r \in sent[k] /\ sent[k] # {r}}

TypeOK ==
  /\ completed \subseteq Reservations
  /\ resIdem \subseteq Keys
  /\ invIdem \subseteq Keys
  /\ byKey \in [Keys -> Reservations \cup {None}]
  /\ byEvent \in [Reservations -> Nat]
  /\ queue \in [Reservations -> Nat]
  /\ pc \in [Procs -> Calls]
  /\ job \in [Procs -> Jobs]
  /\ \A p \in Procs : pc[p] = "idle" <=> job[p].res = None
  /\ sent \in [Keys -> SUBSET (Reservations \cup {Creation})]
  /\ overlapped \subseteq Reservations
  /\ faults \in 0..MaxFaults

\* What repeated requests are answered from (reservation usecase.go:204, billing
\* usecase.go:30): the billing service's record of a key is that of an invoice, for a
\* reservation the key was sent for.  The reservation service's record of a key means
\* that one of these was checked out, or one created with it; so for a key that was
\* sent for one check-out only, both records tell of that one.
IdemTruthful ==
  /\ \A k \in invIdem : byKey[k] \in sent[k]
  /\ \A k \in resIdem : Creation \in sent[k] \/ sent[k] \cap completed # {}

\* Repeating a check-out, with the same key or with another one, during the
\* billing or after it, adds no invoice of the gateway, and events add one only
\* when they are redelivered; unless two requests both read the reservation while
\* it was active or, for the gateway's invoices, one of its keys served elsewhere.
ChargedOncePerPath ==
  \A r \in Reservations \ overlapped :
    /\ r \notin Shared => Cardinality(Bills(r)) <= 1
    /\ byEvent[r] <= 1 + faults

\* What is still to come of the event of a check-out: the request that is to publish
\* it, what waits in the queue, and what the consumer is about to bill.
Early(w, r)  == pc[w] \in {"Complete", "SaveRes", "Publish"} /\ job[w].res = r
Due(r)       == IF \E w \in Workers : Early(w, r) THEN 1 ELSE 0
Consuming(r) == IF pc[Consumer] = "Insert" /\ job[Consumer].res = r THEN 1 ELSE 0
Owed(r)      == IF r \in completed \ overlapped THEN Due(r) + queue[r] + Consuming(r) ELSE 0

\* The services keep the contract of billing: each session is accounted for from its
\* check-out to its invoices, over two services and a broker.  An invoice that the
\* event owes is neither lost nor made twice without a fault of its own.
C == INSTANCE BillingContract
       WITH left <- completed, bills <- {<<byKey[k], k>> : k \in {j \in Keys : byKey[j] # None}},
            eventBills <- byEvent, owed <- [r \in Reservations |-> Owed(r)],
            exempt <- overlapped, shared <- Shared
Contract == C!Spec

\* The two paths back each other up: a check-out that gets as far as the billing
\* is billed, though one call be lost or one process stop, and nobody try again; but
\* for one whose key served elsewhere: that one's invoice will do.
\* (This is for MaxFaults = 1; two faults can lose the bill.)
BilledDespiteOneFault ==
  \A r \in Reservations :
    (\E w \in Workers : pc[w] = "Bill" /\ job[w].res = r) ~> Invoices(r) > 0 \/ r \in Shared

\* reservation.proto:146, a double check-out makes no double invoice.
OneInvoicePerSession == \A r \in Reservations : Invoices(r) <= 1

=============================================================================
