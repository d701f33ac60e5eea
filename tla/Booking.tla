------------------------------- MODULE Booking -------------------------------
(***************************************************************************)
(* How a driver books a spot: the gateway's CreateReservation, which calls *)
(* the reservation service, inserts the invoice of the booking fee itself, *)
(* calls the payment service, and cancels the reservation when one of the  *)
(* last two fails.  ConfirmBookingPayment, CheckIn, CancelReservation and  *)
(* the expiry job act on the same rows meanwhile.                          *)
(*                                                                         *)
(* Reservations, booking invoices and their transactions have unique keys, *)
(* all three made from the key the client sends, so a key names at most    *)
(* one row of each.  Spots and locks are in module Reservation; here the   *)
(* request for a spot may be refused at any time.  The ledger of the       *)
(* provider and the status of invoices are in module Payment.              *)
(***************************************************************************)
EXTENDS Naturals, FiniteSets

CONSTANTS
  Keys,       \* idempotency keys clients send with CreateReservation
  Workers,    \* request handlers in flight at the same time
  Faults,     \* which faults occur: "crash", "drop", "lostReply"
  MaxFaults,  \* bound on their number
  None        \* no key

ASSUME NoneAssumption == None \notin Keys
ASSUME MaxFaultsAssumption == MaxFaults \in Nat

VARIABLES
  status,     \* reservations.status, "none" when there is no row
  invoices,   \* the keys there is a booking invoice for
  txs,        \* the keys there is a transaction for
  settled,    \* the keys whose transaction is settled
  resIdem,    \* Redis keys idempotency:<key>
  txIdem,     \* Redis keys idempotency:pay-booking-<key>
  pc,         \* the next call of each handler
  job,        \* the key each handler works for
  due,        \* rows the expiry job has listed
  wasConfirmed,  \* history: the keys whose reservation was once confirmed
  answered,   \* history: the keys a booking was answered with success for
  disturbed,  \* history: the keys for which a handler could not do its last calls
  faults      \* how many faults have occurred

rows    == <<status, invoices, txs, settled, wasConfirmed>>
redis   == <<resIdem, txIdem>>
local   == <<pc, job>>
history == <<answered, disturbed>>
vars    == <<rows, redis, local, due, history, faults>>

Statuses == {"none", "pending", "confirmed", "active", "cancelled", "expired"}
Saga     == {"InsertRes", "SaveRes", "InvoiceCheck", "InsertInvoice", "Pay",
             "InsertTx", "SaveTx", "CancelRead", "Cancel"}
Calls    == Saga \cup {"idle", "Confirm", "CheckIn"}

Init ==
  /\ status = [k \in Keys |-> "none"]
  /\ invoices = {} /\ txs = {} /\ settled = {}
  /\ resIdem = {} /\ txIdem = {}
  /\ pc = [w \in Workers |-> "idle"]
  /\ job = [w \in Workers |-> None]
  /\ due = {}
  /\ wasConfirmed = {} /\ answered = {} /\ disturbed = {}
  /\ faults = 0

-----------------------------------------------------------------------------
(* Building blocks.                                                         *)

Begin(w, call, k) ==
  /\ pc[w] = "idle"
  /\ pc' = [pc EXCEPT ![w] = call]
  /\ job' = [job EXCEPT ![w] = k]

\* Faulty variant: the local variables of a request are left to the next one.
GotoStale(w, call) ==
  /\ pc' = [pc EXCEPT ![w] = call]
  /\ UNCHANGED job

Goto(w, call) ==
  /\ pc' = [pc EXCEPT ![w] = call]
  /\ job' = IF call = "idle" THEN [job EXCEPT ![w] = None] ELSE job

Fault(f) ==
  /\ f \in Faults /\ faults < MaxFaults
  /\ faults' = faults + 1

SetStatus(k, s) == status' = [status EXCEPT ![k] = s]

\* A statement that inserts a row fails because the key is there, or because the
\* call does; or it commits, and its reply is lost.
InsertionFails(taken, Insertion, table) ==
  \/ taken /\ UNCHANGED <<table, faults>>
  \/ Fault("drop") /\ UNCHANGED table
  \/ Fault("lostReply") /\ ~taken /\ Insertion

-----------------------------------------------------------------------------
(* CreateReservation: the part of the reservation service.                  *)

\* No record of the key, and a spot was found and locked; otherwise the request
\* is refused, and nothing is written.
BookingRequest(w, k) ==
  /\ k \notin resIdem
  /\ Begin(w, "InsertRes", k)
  /\ UNCHANGED <<rows, redis, due, history, faults>>

\* There is a record of the key: its reservation is returned, in whatever status.
BookingAgain(w, k) ==
  /\ k \in resIdem
  /\ Begin(w, "InvoiceCheck", k)
  /\ UNCHANGED <<rows, redis, due, history, faults>>

InsertRow(k) == status[k] = "none" /\ SetStatus(k, "pending")

InsertRes(w) ==
  /\ pc[w] = "InsertRes"
  /\ InsertRow(job[w])
  /\ Goto(w, "SaveRes")
  /\ UNCHANGED <<invoices, txs, settled, wasConfirmed, redis, due, history, faults>>

\* The gateway returns the error, and cancels nothing.
InsertResFails(w) ==
  /\ pc[w] = "InsertRes"
  /\ InsertionFails(status[job[w]] # "none", InsertRow(job[w]), status)
  /\ disturbed' = IF status' # status THEN disturbed \cup {job[w]} ELSE disturbed
  /\ Goto(w, "idle")
  /\ UNCHANGED <<invoices, txs, settled, wasConfirmed, redis, due, answered>>

SaveRes(w) ==
  /\ pc[w] = "SaveRes"
  /\ \/ resIdem' = resIdem \cup {job[w]} /\ UNCHANGED faults
     \/ Fault("drop") /\ UNCHANGED resIdem
  /\ Goto(w, "InvoiceCheck")
  /\ UNCHANGED <<rows, txIdem, due, history>>

-----------------------------------------------------------------------------
(* CreateBookingFeeInvoice.                                                 *)

\* An error of the SELECT, whichever it is, counts as no invoice.
InvoiceCheck(w) ==
  /\ pc[w] = "InvoiceCheck"
  /\ \/ job[w] \in invoices /\ Goto(w, "Pay") /\ UNCHANGED faults
     \/ job[w] \notin invoices /\ Goto(w, "InsertInvoice") /\ UNCHANGED faults
     \/ Fault("drop") /\ Goto(w, "InsertInvoice")
  /\ UNCHANGED <<rows, redis, due, history>>

AddInvoice(k) == k \notin invoices /\ invoices' = invoices \cup {k}

InsertInvoice(w) ==
  /\ pc[w] = "InsertInvoice"
  /\ AddInvoice(job[w])
  /\ Goto(w, "Pay")
  /\ UNCHANGED <<status, txs, settled, wasConfirmed, redis, due, history, faults>>

InsertInvoiceFails(w) ==
  /\ pc[w] = "InsertInvoice"
  /\ InsertionFails(job[w] \in invoices, AddInvoice(job[w]), invoices)
  /\ Goto(w, "CancelRead")
  /\ UNCHANGED <<status, txs, settled, wasConfirmed, redis, due, history>>

-----------------------------------------------------------------------------
(* CreateTransaction of the payment service, and the answer.                *)

\* There is a record of the key: its transaction is returned, which ends the booking.
PayAgain(w) ==
  /\ pc[w] = "Pay" /\ job[w] \in txIdem
  /\ answered' = answered \cup {job[w]}
  /\ Goto(w, "idle")
  /\ UNCHANGED <<rows, redis, due, disturbed, faults>>

\* The provider is asked for the order.
Charge(w) ==
  /\ pc[w] = "Pay" /\ job[w] \notin txIdem
  /\ Goto(w, "InsertTx")
  /\ UNCHANGED <<rows, redis, due, history, faults>>

\* Faulty variant: the gateway returns the error, as it does with the first call.
PayFailsUncompensated(w) ==
  /\ pc[w] = "Pay"
  /\ Goto(w, "idle")
  /\ UNCHANGED <<rows, redis, due, history, faults>>

\* The provider refuses or does not answer, the record cannot be read, or the
\* payment service, or the breaker in front of it, refuses the call.
PayFails(w) ==
  /\ pc[w] = "Pay"
  /\ Goto(w, "CancelRead")
  /\ UNCHANGED <<rows, redis, due, history, faults>>

AddTx(k) == k \notin txs /\ txs' = txs \cup {k}

InsertTx(w) ==
  /\ pc[w] = "InsertTx"
  /\ AddTx(job[w])
  /\ Goto(w, "SaveTx")
  /\ UNCHANGED <<status, invoices, settled, wasConfirmed, redis, due, history, faults>>

\* Faulty variant: the error of the insertion is logged, and the record saved.
InsertTxFailsAndSaves(w) ==
  /\ pc[w] = "InsertTx"
  /\ InsertionFails(job[w] \in txs, AddTx(job[w]), txs)
  /\ Goto(w, "SaveTx")
  /\ UNCHANGED <<status, invoices, settled, wasConfirmed, redis, due, history>>

InsertTxFails(w) ==
  /\ pc[w] = "InsertTx"
  /\ InsertionFails(job[w] \in txs, AddTx(job[w]), txs)
  /\ Goto(w, "CancelRead")
  /\ UNCHANGED <<status, invoices, settled, wasConfirmed, redis, due, history>>

SaveTx(w) ==
  /\ pc[w] = "SaveTx"
  /\ \/ txIdem' = txIdem \cup {job[w]} /\ UNCHANGED faults
     \/ Fault("drop") /\ UNCHANGED txIdem
  /\ answered' = answered \cup {job[w]}
  /\ Goto(w, "idle")
  /\ UNCHANGED <<rows, resIdem, due, disturbed>>

-----------------------------------------------------------------------------
(* CancelReservation, by the gateway when a booking fails and by drivers.   *)

Cancellable(k) == status[k] \in {"pending", "confirmed"}

\* The gateway ignores what becomes of it.
CancelRead(w) ==
  /\ pc[w] = "CancelRead"
  /\ Goto(w, IF Cancellable(job[w]) THEN "Cancel" ELSE "idle")
  /\ UNCHANGED <<rows, redis, due, history, faults>>

CancelRequest(w, k) ==
  /\ Cancellable(k)
  /\ Begin(w, "Cancel", k)
  /\ UNCHANGED <<rows, redis, due, history, faults>>

\* UPDATE ... WHERE id.
Cancel(w) ==
  /\ pc[w] = "Cancel"
  /\ SetStatus(job[w], "cancelled")
  /\ Goto(w, "idle")
  /\ UNCHANGED <<invoices, txs, settled, wasConfirmed, redis, due, history, faults>>

CancelFails(w) ==
  /\ Fault("drop")
  /\ pc[w] \in {"CancelRead", "Cancel"}
  /\ disturbed' = disturbed \cup {job[w]}
  /\ Goto(w, "idle")
  /\ UNCHANGED <<rows, redis, due, answered>>

-----------------------------------------------------------------------------
(* What happens to a booking afterwards, or meanwhile.                      *)

\* The provider's notification, or SimulateSettle.
Settle(k) ==
  /\ k \in txs \ settled
  /\ settled' = settled \cup {k}
  /\ UNCHANGED <<status, invoices, txs, wasConfirmed, redis, local, due, history, faults>>

\* ConfirmBookingPayment: any settled transaction will do for any reservation.
ConfirmRequest(w, k) ==
  /\ status[k] # "none" /\ settled # {}
  /\ Begin(w, "Confirm", k)
  /\ UNCHANGED <<rows, redis, due, history, faults>>

\* Faulty variant: UPDATE ... WHERE id.
ConfirmAnyStatus(w) ==
  /\ pc[w] = "Confirm"
  /\ SetStatus(job[w], "confirmed")
  /\ wasConfirmed' = wasConfirmed \cup {job[w]}
  /\ Goto(w, "idle")
  /\ UNCHANGED <<invoices, txs, settled, redis, due, history, faults>>

\* UPDATE ... WHERE id AND status = 'pending'; the row count is ignored.
Confirm(w) ==
  /\ pc[w] = "Confirm"
  /\ IF status[job[w]] = "pending"
     THEN SetStatus(job[w], "confirmed") /\ wasConfirmed' = wasConfirmed \cup {job[w]}
     ELSE UNCHANGED <<status, wasConfirmed>>
  /\ Goto(w, "idle")
  /\ UNCHANGED <<invoices, txs, settled, redis, due, history, faults>>

CheckInRequest(w, k) ==
  /\ status[k] = "confirmed"
  /\ Begin(w, "CheckIn", k)
  /\ UNCHANGED <<rows, redis, due, history, faults>>

CheckIn(w) ==
  /\ pc[w] = "CheckIn"
  /\ SetStatus(job[w], "active")
  /\ Goto(w, "idle")
  /\ UNCHANGED <<invoices, txs, settled, wasConfirmed, redis, due, history, faults>>

\* The expiry job and the history page: a row that is listed is expired later.
\* The clock is left out: any row may be overdue.
ExpireList(k) ==
  /\ k \notin due /\ status[k] \in {"pending", "confirmed"}
  /\ due' = due \cup {k}
  /\ UNCHANGED <<rows, redis, local, history, faults>>

Expire(k) ==
  /\ k \in due
  /\ due' = due \ {k}
  /\ \/ SetStatus(k, "expired") /\ UNCHANGED faults
     \/ Fault("drop") /\ UNCHANGED status
  /\ UNCHANGED <<invoices, txs, settled, wasConfirmed, redis, local, history>>

-----------------------------------------------------------------------------

\* The handler makes none of its remaining calls: a process stops, or the client
\* goes away, and with it the context that all calls share, the cancellation's too.
Crash(w) ==
  /\ Fault("crash")
  /\ pc[w] # "idle"
  /\ disturbed' = IF pc[w] \in Saga THEN disturbed \cup {job[w]} ELSE disturbed
  /\ Goto(w, "idle")
  /\ UNCHANGED <<rows, redis, due, answered>>

Request(w) == \E k \in Keys :
  \/ BookingRequest(w, k) \/ BookingAgain(w, k)
  \/ CancelRequest(w, k) \/ ConfirmRequest(w, k) \/ CheckInRequest(w, k)

Step(w) ==
  \/ InsertRes(w) \/ InsertResFails(w) \/ SaveRes(w)
  \/ InvoiceCheck(w) \/ InsertInvoice(w) \/ InsertInvoiceFails(w)
  \/ PayAgain(w) \/ Charge(w) \/ PayFails(w)
  \/ InsertTx(w) \/ InsertTxFails(w) \/ SaveTx(w)
  \/ CancelRead(w) \/ Cancel(w) \/ CancelFails(w)
  \/ Confirm(w) \/ CheckIn(w) \/ Crash(w)

Elsewhere(k) == Settle(k) \/ ExpireList(k) \/ Expire(k)

Next ==
  \/ \E w \in Workers : Request(w) \/ Step(w)
  \/ \E k \in Keys : Elsewhere(k)

Spec == Init /\ [][Next]_vars

-----------------------------------------------------------------------------
(* Properties.                                                              *)

TypeOK ==
  /\ status \in [Keys -> Statuses]
  /\ invoices \subseteq Keys /\ txs \subseteq Keys /\ settled \subseteq Keys
  /\ resIdem \subseteq Keys /\ txIdem \subseteq Keys
  /\ pc \in [Workers -> Calls]
  /\ job \in [Workers -> Keys \cup {None}]
  /\ \A w \in Workers : pc[w] = "idle" <=> job[w] = None
  /\ due \subseteq Keys /\ wasConfirmed \subseteq Keys
  /\ answered \subseteq Keys /\ disturbed \subseteq Keys
  /\ faults \in 0..MaxFaults

\* What a repeated booking is answered from, in three services, is true: a record
\* names a row that is there, and so does each row the next one.  A booking that is
\* answered with success has all three, whichever of them an earlier or overlapping
\* request has made, and whichever records were lost.
AnsweredPayable ==
  /\ \A k \in resIdem \cup invoices : status[k] # "none"
  /\ txIdem \cup answered \subseteq txs
  /\ txs \subseteq invoices

\* All or nothing: when nobody works for a booking, its spot is held only if it
\* can be paid for; unless a process stopped, or the cancellation failed.
NoHalfBooking ==
  \A k \in Keys \ disturbed :
    /\ \A w \in Workers : job[w] = k => pc[w] \notin Saga
    /\ status[k] \in {"pending", "confirmed"}
    => k \in invoices /\ k \in txs

\* The stages of a booking, over the tables of three services.
StageOf == [none |-> "nothing", pending |-> "held", confirmed |-> "confirmed", active |-> "parked"]

Stage(k) ==
  IF status[k] \in {"cancelled", "expired"}
  THEN IF k \in wasConfirmed THEN "ended" ELSE "abandoned"
  ELSE IF status[k] = "pending" /\ k \in txs THEN "payable" ELSE StageOf[status[k]]

\* Whatever overlaps and whatever fails, the tables together keep the contract:
\* a booking given up stays given up, however its client repeats it, and none is
\* confirmed before money has come in.
C == INSTANCE BookingContract WITH stage <- [k \in Keys |-> Stage(k)], settled <- settled
Contract == C!Spec

=============================================================================
