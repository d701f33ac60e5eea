# ParkirPintar in TLA+

ParkirPintar is a smart-parking system of Go services: drivers reserve a spot,
pay a booking fee, check in, check out, and pay for the time they parked. This
directory specifies it in TLA+, checks it with TLC on small instances, and
proves its safety properties with TLAPS for every instance. It is written from the
source; where a document says something else, a run or a note shows the difference.

File names below are relative to the repository; `usecase.go` and the like are those
of the service under discussion.

## 1. The system

| Component | State it keeps | Operations | Hard because |
|---|---|---|---|
| Reservation service (`services/reservation`) | table `reservations`, Redis locks `spot:<id>:lock` | create, confirm, cancel, check in, check out, expiry job every minute | rows are read, judged and then updated by id alone; locks have a TTL; handlers of several processes interleave; replies get lost |
| Distributed lock (`pkg/lock`) | one Redis key per spot | `SET NX EX`, compare-and-delete; the gateway also uses `EXPIRE` | a lock can lapse under its owner, and be somebody else's when it is released or extended |
| Idempotency store (`pkg/idempotency`) | one Redis key per request | `Check`, `Save` | checked before the work and saved after it; a save may be lost; all operations look keys up in one namespace |
| Gateway, own SQL (`extra.go`) | none of its own; writes `reservations`, `invoices`, `transactions` and locks | confirm a booking payment, history, simulate a settlement, booking-fee invoice | bypasses the services that own the tables |
| Gateway, request handlers (`handler.go`) | none | CreateReservation over three services, CheckOut over two, and pass-through calls | partial failure, repetition, a compensation that may fail too |
| Circuit breaker (`pkg/circuitbreaker`, interceptor in `gateway/cmd/main.go`) | one breaker per service: state, counts, generation | before and after every unary call | calls are in flight while the breaker changes its state |
| Rate limiter (`ratelimit.go`) | times of the admitted requests per key | `Allow`, cleanup goroutine | boundaries of a sliding window, entries dropped in the background |
| Pricing (`pkg/pricing`) | none | `Calculate`, called for each invoice | rounding, cap, midnight in another time zone; the two invoices of a check-out bill different times |
| Payment service (`services/payment`) | table `transactions`, Redis keys `webhook:<order>:<status>` | create a transaction, handle a provider notification | notifications are repeated, reordered and overlapping |
| Billing service (`services/billing`) | table `invoices` | generate an invoice, subscriber of check-out events | billed over two paths, one of them at-least-once |
| Message broker client (`pkg/mq`) | durable queues | publish, subscribe, ack, nack | redelivery; a nack drops the event; a lost connection stays lost |
| Notification (`services/notification`) | table `notification_logs` | subscriber of all events: push and log | redelivery, panics, starts without database or broker |
| Presence (`services/presence`), `StreamMyLocation` | table `location_updates` | append a sample, read the last one | not modelled (section 6) |
| Authentication, configuration, logging, tracing, clients, generated code | none that interleaves | | not modelled (section 6) |

How they interact:

* The gateway calls the services over gRPC, one call after the other within one
  request, each through the circuit breaker of its service. The reservation, payment
  and billing services share one PostgreSQL and one Redis with each other and with the
  gateway's `extra.go`.
* The reservation service publishes events to RabbitMQ. The billing service
  consumes `CheckOutCompleted`; the notification service consumes them all.
* The provider (Midtrans) sends notifications to the payment service until it gets
  an answer.
* A timer in the reservation service expires overdue reservations; Redis drops
  locks by itself; the container runtime restarts processes that stop.

What makes each of them correct:

* **Reservation**: two reservations do not share a spot while the lock does its
  work, and the lock lasts as long as the hold; statuses are reached in the order of the
  life cycle; every reservation that outstays its time is ended; repeated requests are
  answered from what really happened.
* **Booking** (gateway, reservation, invoice and payment together): all or nothing; a
  booking that is answered with success can be paid for; one that was given up stays
  given up; none is confirmed before money has come in.
* **Circuit breaker**: failures open it when they are half of enough requests; an open
  one lets nothing through for its time; only successful probes of its own close it; it
  recovers with the service.
* **Rate limiter**: under one key never more than the limit in any window, and never a
  refusal below it.
* **Pricing**: the hours due, one overnight fee, and at the gateway no less than the time
  parked costs.
* **Payment**: the status converges to what the provider reports, a notification
  remembered has been applied, nothing is paid without a settlement, and what is settled
  stays so until the provider reports what came after.
* **Billing**: who checked out is billed, nobody else is, and not twice on one path.
* **Notification**: drivers are told of everything, in order, and not needlessly twice;
  the log tells of everything that was handled.

## 2. Modules

| Module | What it stands for |
|---|---|
| `Reservation` | the reservation service, the lock, the idempotency store, `ConfirmBookingPayment` and `ReservationHistory` of the gateway |
| `ReservationProgress` | abstract: which statuses presuppose which, whatever fails |
| `ReservationLifecycle` | abstract: the state machine of `README.md:199-219`, with cancellation and expiry of unpaid reservations, which the code adds |
| `ReservationSchedules` | `Reservation` under two restricted schedules: one operation at a time, and drivers and handlers that do not pause |
| `MCReservation` | the instance of both for TLC, with symmetry |
| `Booking` | composition: the gateway's `CreateReservation` over the reservation service, `CreateBookingFeeInvoice` and the payment service, with its compensation, and what acts on the same rows meanwhile |
| `BookingContract` | abstract: the stages a booking goes through, over all three tables |
| `MCBooking` | the instance of `Booking` for TLC |
| `Payment` | the payment service, the provider, `SimulateSettle`, and the invoice part of `ConfirmBookingPayment` |
| `PaymentContract` | abstract: the row of an order tells the order's course at the provider, one entry after the other, and no invoice is paid before there is money |
| `Billing` | composition: the gateway's `CheckOut`, the reservation service's part of it, `GenerateInvoice`, the broker and the subscriber |
| `BillingContract` | abstract: a session is billed from its check-out on, by the gateway once, and what its event owes is paid off by an invoice, or lost or repeated by a fault |
| `Notification` | composition: the publisher, the broker with connections that are lost, the subscriber's goroutine, the notification handler, the process and its restarts |
| `NotificationContract` | abstract: drivers are told of one event after the other, in order; an event is left with its row in the log or a fault in its place, and told again only for a fault |
| `CircuitBreaker` | `pkg/circuitbreaker`, the interceptor, and the library `gobreaker` as far as they drive it |
| `RateLimiter` | the gateway's limiter |
| `Pricing` | `pkg/pricing`, and the times that the gateway's `CheckOut` and the billing subscriber have billed, along one session |
| `ReservationProofs`, `BookingProofs`, `PaymentProofs`, `BillingProofs`, `CircuitBreakerProofs`, `RateLimiterProofs`, `PricingProofs`, `NotificationProofs` | the theorems |

`Reservation`, `Booking`, `Payment` and `Billing` overlap on purpose: each keeps what
its questions need of the tables they share and abstracts the rest. `Booking` has no spots,
locks and clock (a request may be refused at any time, any row may be overdue);
`Reservation` has no invoices and transactions (a payment may be confirmed at any
time); `Payment` alone has the provider's ledger; `Billing` begins with active
reservations.

### How state and actions correspond to the code

A request handler is a sequence of calls to PostgreSQL, Redis, the broker or the
provider. In these modules **each call that changes state is one action**; between two
of them any other handler may run. `pc[p]` names the call that handler `p` makes next
and `job[p]` holds the local variables it will still use; this is where stale values
live. The read that begins a request and the tests that follow it are the guard of
its `...Request` action. Requests that are refused without a write are those guards
being false. Where a read may be separated from the first one by another call (the
reservation in `CheckOut`, read after the idempotency record) it has an action of its own
(`CheckOutRead`).

| Operation | Actions, in the order of the code's calls |
|---|---|
| `CreateReservation` of the service (`Reservation`) | `CreateRequest` (idempotency check), `Acquire` or `SpotUnavailable` (find a spot, `SETNX`), `Insert` or `InsertFails`, then `Save`, or `Undo` |
| `ConfirmBookingPayment` | `PayRequest`, `Pay` (conditional UPDATE), `Extend` (`EXPIRE`) |
| `ConfirmReservation` | `ConfirmRequest`, `Confirm`, `Relock` (the `SETNX` that the comment calls an extension) |
| `CancelReservation`, `CheckIn` | `CancelRequest`, `Cancel`, `Release`; `CheckInRequest`, `CheckIn` |
| `CheckOut` | `CheckOutRequest`, `CheckOutRead`, `CheckOut`, `Release`, `Save`; its event and the billing are in `Billing` |
| expiry job | `ExpireList`, then for each row `Expire` and `Release(Cron)`, or `ExpireFails` |
| `ReservationHistory` | `HistoryExpire` for each overdue pending row |
| `CreateReservation` of the gateway (`Booking`) | `BookingRequest` or `BookingAgain`, `InsertRes` or `InsertResFails`, `SaveRes`; `InvoiceCheck`, `InsertInvoice` or `InsertInvoiceFails`; `PayAgain`, or `Charge`, `InsertTx` or `InsertTxFails`, `SaveTx`; on `PayFails` or a failed insertion `CancelRead`, `Cancel` or `CancelFails` |
| the same rows meanwhile (`Booking`) | `Settle`; `ConfirmRequest`, `Confirm`; `CheckInRequest`, `CheckIn`; `CancelRequest`, `Cancel`; `ExpireList`, `Expire` |
| `CreateTransaction` (`Payment`) | `CreateRequest`, `Charge`, `Insert` or `InsertFails`, `Save` |
| `HandleWebhook` | `Duplicate`; or `Deliver`, `Update`, `Remember` or `RememberFails` |
| `SimulateSettle` | `SettleRequest`, `Settle`, `MarkPaid` |
| gateway `CheckOut` (`Billing`) | `CheckOutRequest` or `CheckOutAgain`, `Complete`, `SaveRes`, `Publish`, `Bill`, `InsertInvoice` or `InsertFails`, `SaveInv` |
| billing subscriber | `Receive`, `InsertEventInvoice`, `Ack` or `Nack`, `ConsumerCrash` (redelivery) |
| publisher and broker (`Notification`) | `Publish`, or `PublishLost` before a queue is bound or without connection; `Deliver`; `TakeBack` of what a connection leaves unacknowledged |
| notification process | `Start`, `StartWithoutDatabase`, `StartWithoutBroker`, `Crash`, `Disconnect` |
| its goroutine | `Receive`, `Send`, `Log` or `Panic`, `Ack` |
| interceptor and breaker | `Execute` (`beforeRequest`), `Return` (`afterRequest`), with the service changing between them (`ServiceChanges`) and time (`Tick`) |
| `Allow` / `cleanup` | `Admit` or `Refuse` / `Cleanup`: single steps, as the mutex makes them |
| what is billed (`Pricing`) | `CheckIn`, `CheckOut`, then `GatewayBills` and `SubscriberBills`, each by `Invoice` |

Time in `Reservation` is a clock that services and Redis share; `expires_at` is
computed from a reading taken anywhere between two calls (`since..now`), so that it may
be older than the TTL set by the call next to it. `PaymentTimeout` and `HoldDuration` are
parameters. In `CircuitBreaker` it is the time left of the present generation, which is
noticed to be over at the next call only, as in the library.

Faults are named, and a run lists the ones it allows and bounds their number by
`MaxFaults`: `crash` (the handler makes none of its remaining calls: the process
stops, or a call whose error is returned fails), `drop` (a call fails without effect,
where the code goes on), `lostReply` (an INSERT commits, but its error path is taken);
in `Notification` also `disconnect`, `noDatabase`, `push` and `insert`.

History variables (`reached`, `lapsed`, `extended`, `disowned`, `sessions`, `admitted`,
`plain`, `sent`, `overlapped`, `wasConfirmed`, `answered`, `disturbed`, `published`, `lost`,
`unlogged`, `recent`, `good`, `rest`) record what happened for the properties; they steer
no step of the modelled code (`lost` and `published` only keep an event from happening
twice). The operators called "Faulty variant" are plausible bugs, used to show that each
property can fail; no action uses them.

## 3. What the runs check

`tlc -workers 2 -config <run>.cfg <module>` repeats a run; the longest (`billing`) takes about
two minutes. `PROJECT.json` gives, for every property, a plausible bug of the code that
breaks it (a mutant).

| Run (module) | Instance | Properties | What it shows |
|---|---|---|---|
| `reservation_concurrent` (`MCReservation`) | 2 reservations, 1 spot, 2 handlers and the job, clock 0..2, hold 2, 2 keys sent for anything; 2.74 million states | `TypeOK`, `NoDoubleBooking`, `HoldLocked`, `IdemTruthful`, `LocksReturned`, `Progress` | with any interleaving of calls the lock keeps spots apart, outlives the hold and is given back, what a key is on record for was done, and no status is reached without those it presupposes |
| `reservation_serial` (`MCReservation`) | 2 spots, both ways to confirm, one crash, lost call or lost reply; 4.44 million states | `OneSession`, `Lifecycle` | one operation at a time follows the documented state machine: guards are right, only interleaving defeats them |
| `reservation_faults` (`MCReservation`) | `ConfirmReservation`, which reads before it writes; one handler and the job; one crash or lost call; 624 000 states | `OverdueResolved` | no overdue reservation stays for ever |
| `reservation_double_booking` (`MCReservation`) | drivers and one handler that are prompt, clock 0..4 | `NoSharedSpot` (violated) | divergence 1 |
| `booking` (`MCBooking`) | 2 keys, 2 handlers, one crash, lost call or lost reply; 652 000 states | `TypeOK`, `AnsweredPayable`, `NoHalfBooking`, `Contract` | a booking over three services is all or nothing, and the tables together implement `BookingContract` |
| `payment` (`Payment`) | 2 orders for 1 invoice, 1 key, 2 handlers, ledgers of 3 entries, one crash or lost call; 574 000 states | `TypeOK`, `IdemTruthful`, `RememberedApplied`, `PaidByMoney`, `Contract`, `Converges` | repeated, reordered and overlapping notifications do no harm beyond what is listed in section 5; the table implements `PaymentContract` |
| `billing` (`Billing`) | 2 reservations, 2 keys, of which one may have created a reservation, 2 handlers and the consumer, one crash or lost call; 1.12 million states | `TypeOK`, `IdemTruthful`, `ChargedOncePerPath`, `Contract`, `BilledDespiteOneFault` | the two paths of billing back each other up, and each bills once; together they implement `BillingContract` |
| `billing_double_invoice` (`Billing`) | one check-out, no fault | `OneInvoicePerSession` (violated) | divergence 2 |
| `notification` (`Notification`) | 3 events, up to 3 faults of 5 kinds; 48 000 states | `TypeOK`, `ToldOncePerFault`, `ToldInOrder`, `Contract`, `HandledUnlessDeaf` | order and at-least-once delivery survive crashes, lost connections, and starts without database; the parts together implement `NotificationContract` |
| `circuit_breaker` (`CircuitBreaker`) | 4 callers, 3 probes, 5 requests to judge; 65 000 states | `TypeOK`, `FailuresTolerated`, `ClosedByProbes`, `RestsAfterTrip`, `Recovers` | late answers of earlier generations neither close nor trip the breaker |
| `rate_limiter` (`RateLimiter`) | 2 keys, limit 2, window 2, clock 0..4 | `TypeOK`, `WithinLimit`, `RefusedOnlyAtLimit` | exact at the edge of the window, whenever entries are dropped |
| `pricing` (`Pricing`) | 7 confirmations around midnight in UTC and WIB, 6 times to arrive, 30 stays; 12 600 states | `HoursBilled`, `NightBilledOnce`, `ParkedTimeBilled` | rounding, the cap and midnight against definitions of another form, on both invoices; the gateway bills no less than the time parked |

Several properties have a condition. It is part of what they say, and each is needed:

* `NoDoubleBooking` is about reservations whose lock has not lapsed (`lapsed`), that
  did not come back from a final status (section 5), and whose INSERT was not reported as
  failed although it committed (`disowned`): their creator gives the spot up.
  `HoldLocked` is about those of them whose lock has been extended since they were
  confirmed (`extended`): by `ConfirmBookingPayment`, if its `EXPIRE` is not lost and
  finds the lock, or by `ConfirmReservation`, whose `SETNX` sets the lock anew if it is
  gone, and otherwise extends nothing. `ConfirmReservation` may also confirm a reservation
  that has ended, while somebody is about to release its lock; these are left out where it is
  in use.
* `IdemTruthful` (of `Reservation`) is about keys that were sent for one thing: for
  creations, or for the check-out of one reservation; in `Billing` the reservation
  service's record is that one of the things its key was sent for was done (section 5).
* `LocksReturned` accepts the lock of a reservation that is not over, one that a call under
  way will release, and two kinds that the code does leave behind: that of a reservation
  which expired unpaid (whoever opens the history expires rows and releases nothing), and
  one that `ConfirmReservation` set too late (section 5). Beyond these there are
  no more locks than there were faults.
* `Contract` (of `Payment`) and `Converges` are about orders whose notifications come in order and
  one at a time, and whose records are saved (`plain`); the UPDATE is unconditional.
* `ChargedOncePerPath` and `Contract` (of `Billing`) leave out reservations that two
  requests read while active (`overlapped`): both bill. In the count of the gateway's
  invoices they also leave out those that one of their keys was sent for something else
  too (`Shared`), and so does `BilledDespiteOneFault` altogether: section 5 has what
  happens to them. `BilledDespiteOneFault` begins
  where the gateway's billing does, and is about one fault (`MaxFaults = 1`); a stop
  before the event is published is section 5.
* `NoHalfBooking` leaves out bookings whose handler stopped, or whose cancellation
  itself failed (`disturbed`): nothing else undoes them but the expiry job.
* `HandledUnlessDeaf` presupposes that the process is not left running without
  connection for ever, as nothing in the code reconnects it.

### Bounds, and why they are enough

* *Reservation.* A conflict over a spot needs one spot and two reservations; a record of a
  key can mislead only a second request, so two keys, each of which may be sent for
  anything, are enough. Two handlers and the job give every pair of operations, and a
  third operation's effect between two calls of the first. `MaxTime` lets a lock
  of each TTL lapse (in the prompt run also after a check-in). Two spots in the
  serial run make `OneSession` and `Lifecycle` meet both. The run with faults has one
  handler beside the job and a hold as short as the payment's timeout, so that its
  liveness is checked in about a minute; it confirms by `ConfirmReservation`, whose read
  and UPDATE let the job in between, where the gateway's is one statement.
* *Faults.* One fault at any of the calls shows whether a single failure is survived;
  properties that count faults (`ToldOncePerFault`, `ChargedOncePerPath`) grow with
  `MaxFaults`. `Notification` allows three, for a crash, a lost connection and a start
  without database in one behaviour.
* *Booking.* Two keys, so that the payment of one can confirm another; two
  handlers, so that requests with one key race, or a cancellation races a booking.
* *Payment.* `MaxEntries` = 3 lets the ledger of an order be a settlement with a refund in
  part or in full, after "pending", or an end without payment; that a full refund may follow
  one in part (4 entries) is left to the theorems. Two orders for one invoice are a driver who
  tries again; two handlers make deliveries overlap.
* *Billing.* Two handlers, so that requests overlap; two reservations and two keys, so
  that a key is used for both of them, one of them is checked out with two keys, and, as
  one key may be on record for a creation (`Created`), with that one.
* *CircuitBreaker.* Four callers, for calls that hang while others fail; five requests
  to judge make them repeat. `MaxCount` caps the requests of a generation; `Interval`,
  `Timeout` of 1 tell "before", "at" and "after" apart.
* *RateLimiter.* `MaxTime` is twice the window: requests leave it while others enter.
* *Pricing.* Seconds around each boundary, of the stay, of the time billed, and of the
  hour to arrive in; the theorems do without them.

Deadlock is not checked, as runs stop when the clock, keys or events are used up.
Symmetry is used in safety runs only.

### Fairness

* `Reservation`: the expiry job's goroutine lives as long as the service, and its ticker
  fires every minute: weak fairness for listing and releasing, strong for the UPDATE of
  each row, which may fail any number of times but not for ever. No request need come.
* `Payment`: the provider repeats what is not acknowledged, and gets through now and
  then (strong, per order; each single delivery may fail); handlers make their next call
  (weak).
* `Billing`: handlers make their next call, and the consumer takes one queued event after
  the other, in any order (all weak).
* `Notification`: the compose files restart the process (`Start`), the broker delivers
  to a consumer, the goroutine goes on (all weak). Nothing is assumed of connections.
* `CircuitBreaker`: time passes, each call returns in the end (its client goes away,
  since the gateway sets no deadline), and somebody always calls (all weak).
* `Booking`, `RateLimiter` and `Pricing` state safety only.

## 4. What is proved

The theorems hold for every value of the constants that the named assumptions admit:
counts and times are natural numbers (timeouts and the breaker's configuration not
zero), `PaymentTimeout <= HoldDuration`, `None` and the goroutines' names are not those of
requests, confirmations are at least an hour after the zero of time, there are finitely many
callers at a time. TLC evaluates the assumptions in each run. `tlapm <module>` checks a module's proofs.

Each module has one inductive invariant `Inv`, made of named parts. What the properties
lack to be inductive is nearly always **what a handler knows between two of its calls**: that
what it has read or done earlier is still so. These parts say it per call, and the
proof of a step asks, of each *other* handler, what the step may have taken from it.

* `ReservationProofs` (`TypeCorrect`, `IdempotencyRecords`, `ProgressRefined`,
  `BookingSafe`, `LockOutlivesHold`, `LocksComeBack`, `JobNeverStuck`, `NoRowPassedOver`,
  `LifecycleKept`, `SessionsNotRepeated`). Rows, once
  inserted, are there for good and never leave their history (`Grows`), so that whatever
  is known to a handler that is creating, working on or saving a row (`Creating`,
  `Working`, `Saving`) stays true; no two handlers create the same row (`OwnId`), and what
  the job listed exists (`Listed`). `Progress` then follows: an UPDATE judged by a stale
  read presupposes a status the row *has been* in. `KeyInv`
  (`IdempotencyRecords`) says what a handler knows of its key: that it was sent for what the
  handler does, and before `Save` that this is done. `BookInv` adds who holds which lock;
  lemmas on the four commands of Redis show that a step keeps all locks but that of the
  row it ends, or of one that is creating. `HoldInv` adds how long: `expires_at` is never
  more than a hold from now, so that whoever sends `EXPIRE`, for whichever reservation,
  extends the lock far enough; and nobody else can set a lock that is held. Both
  `BookingSafe` and `LockOutlivesHold` are for every set of faults and both ways to
  confirm. The run of these two properties allows no fault, as one fault makes its
  instance too large; what they say of crashes, lost calls and lost replies is proved.
  `LocksComeBack` (`LocksReturned`) rests on all of these. The lemmas ask, of each
  action, which locks it leaves without anybody to release them (`NoNewLock`): a step
  that ends a reservation goes on to its release; an `EXPIRE` sets no lock; one that gives
  up a creation releases. What remains is at most the lock a faulty step was about to
  release, hence one more of them when there is one more fault.
  `JobNeverStuck` and `NoRowPassedOver` are the safety of `OverdueResolved`. The job at work
  has a row to update, whose UPDATE is possible whatever has become of it, or a lock to
  release (`JobAtWork`); and a round updates, or tries to, every row that was overdue when
  it began: a row leaves the list only by its own UPDATE (`NoneForgotten`).
  `LifecycleKept` and `SessionsNotRepeated` are about the schedule of one operation at a
  time. `SerialInv` says that there is one handler at work (`OneAtWork`), that what it
  read is therefore still so (`StillTrue`), and that a session has been counted at most
  once for each row that was checked in (`ParkedOnce`); each step then is one of
  `ReservationLifecycle`, or a stutter.
* `BookingProofs` (`TypeCorrect`, `AnswersPayable`, `AllOrNothing`, `ContractKept`). `Owned`:
  a booking that cannot be paid for is in the hands of a handler that will go on with
  it or cancel it, unless one stopped. `Histories` ties statuses to past payments.
  `ContractKept` is the refinement: the mapping `Stage` takes the three tables to a
  stage of `BookingContract`, the first state to its first, each step to a step of it or a
  stutter.
* `PaymentProofs` (`TypeCorrect`, `RecordsTruthful`, `DuplicatesApplied`,
  `PaidAfterMoney`, `SettlementStands`, `DeliveredIsTold`, `ContractKept`). An order is in
  the hands of one creator (`OwnOrder`); ledgers have the provider's order (`Ledgers`);
  what a handler is about to write, the provider has reported (`Handlers`, `Recorded`).
  For plain orders two more invariants: `OrderInv` says what is recorded, and that one
  handler works for an order; `FollowInv` that acknowledged entries are the first ones of
  the ledger, that the entry being handled is the next, and that the row tells the last of
  all these. `DeliveredIsTold` is the safety of `Converges`: when every entry is
  acknowledged, the row tells the last one. `ContractKept` is the refinement of
  `PaymentContract`: the mapping `Told` takes a row to its status as long as its order is
  plain. An UPDATE writes the entry that is handled, which is the one the row tells
  already (a stutter: a crash came before the acknowledgement) or the next one, by
  `FollowInv`.
* `BillingProofs` (`TypeCorrect`, `RecordsTruthful`, `NobodyBilledEarly`,
  `OneChargePerPath`, `NoBillLost`, `ContractKept`). Whoever is about to publish, bill or
  save has completed the reservation, with a key that was sent for it (`Knows`), as has
  every event in the queue (`Events`), and every invoice is for such a reservation
  (`Invoiced`). A key of a reservation that shares none was sent for nothing else
  (`OwnKeys`), so that what is on record for it is about that reservation. `BilledInv`
  counts: one key bills, and an event is in one place or has been redelivered. `TwoWays` says that before the first fault a completed reservation is
  billed, or has a request that is still to publish, or both an event and a request that
  is to bill: one fault cannot take all of these (`NoBillLost`, the safety of
  `BilledDespiteOneFault`). `ContractKept` is the refinement of `BillingContract`: the
  mapping `Owed` adds up what is still to come of a check-out's event, in the hands of the
  request, in the queue and with the consumer; by `BilledInv` one request has it at a
  time, so that publishing and receiving are stutters.
* `NotificationProofs` (`TypeCorrect`, `MessagesInOrder`, `LogTellsAll`,
  `RetoldForFaults`, `AcknowledgedInOrder`, `AcknowledgedForGood`, `ContractKept`). What the broker holds
  is the end of what was published, and `Behind` tells where it begins (`Aligned`); the
  goroutine works for the first of it, even when its connection is gone (`Knows`).
  `PaidFor` is an account of each event: a message about one that is not done with is owed
  to a fault that has occurred, a start without database in advance. Events are done with
  in the order of publication and for good, as only `Ack` advances `Behind`, and about the
  first event it counts. `ContractKept` is the refinement of `NotificationContract`, which
  knows events, messages, the log and how many events are done with, but no broker,
  connection or process: its current event is the one the goroutine works for (`Knows`),
  and a message about it is within the limit set by faults, by `PaidFor`.
* `CircuitBreakerProofs` (`TypeCorrect`, `FailuresBounded`, `ProbesClose`, `OpenRests`,
  `HalfOpenNeverStuck`).
  Requests are the successes, the failures and the calls in flight of the generation
  (`Accounted`), which makes the ratio that `ReadyToTrip` tests at a failure hold at every
  other step too (`Tolerant`). As the time of a generation is noticed only at the next
  call, the invariant is stated of the breaker that call finds. A half-open breaker has no
  failures and at most `MaxRequests` requests (`Limited`); so by the same account it admits
  a call or has one in flight, the safety of `Recovers`.
* `RateLimiterProofs` (`TypeCorrect`, `LimitHolds`, `RefusalsJustified`). The
  list of a key and the history agree on the window (`Faithful`), whatever was dropped.
* `PricingProofs` (`TypeCorrect`, `HoursAsDue`, `OneNight`, `TimeParkedCovered`). The
  divisions are put into linear form by lemmas. The gateway's invoice starts at most an hour
  before the check-in; the price is monotone in the time billed, and another hour adds at
  most one hour's rate and one night.

Only model-checked: the liveness properties `OverdueResolved`, `Converges`,
`BilledDespiteOneFault`, `Recovers` and `HandledUnlessDeaf`, as fairness and `ENABLED` are out
of the prover's reach. For each of them the theorems named above give the safety they rest on
(what is reached is right, nothing is lost on the way, no state is a dead end); that the
end is reached is for TLC to show. Every other property of a passing run is a theorem. What
ten theorems without a run state (`JobNeverStuck`, `NoRowPassedOver`, `SettlementStands`,
`DeliveredIsTold`, `LogTellsAll`, `NobodyBilledEarly`, `NoBillLost`, `HalfOpenNeverStuck`,
`AcknowledgedInOrder`, `AcknowledgedForGood`) is defined in the modules of their proofs.

## 5. Where the code and its documents differ

Shown by a run:

1. **Double booking** (`reservation_double_booking`). `README.md:35` promises a lock that
   prevents it. The lock lives five minutes, or an hour from the payment; nothing renews it
   at check-in and nothing writes `spots.status`. When a car stays longer, its spot
   is found, locked and booked again. (The `SETNX` under the comment "extend lock TTL to full
   hold duration", `usecase.go:120`, extends nothing: the reservation's own lock is there.)
2. **Two invoices for one check-out** (`billing_double_invoice`).
   `proto/reservation/v1/reservation.proto:146` says that a double check-out makes no
   double invoice. A single one makes two: the gateway's, and that of the event, which is
   given a random key.

Met while modelling, and part of the models, without a run of their own:

* *Reservation.* Final statuses are not final (`README.md:215-217`): operations read, test,
  and then update by id, so that one that read before an expiry or a cancellation brings
  the row back (`Progress` is what remains; `Lifecycle` holds serially).
  A `ConfirmReservation` that a cancellation overtakes (between its UPDATE and its `SETNX`,
  `usecase.go:120`) locks the spot of the cancelled reservation for an hour. Nobody
  calls it; the gateway's confirmation sends `EXPIRE`, which sets no lock. Rows that
  `ReservationHistory` expires keep their lock until its TTL.
  One active reservation per driver (`README.md:53`) is not enforced. `FOR UPDATE
  SKIP LOCKED` runs outside a transaction (`repository.go:114`) and protects nothing.
  A service that finds no broker at its start publishes nothing ever after
  (`cmd/main.go:87-101`); one that stops between completing a reservation and publishing
  its event loses that path of the bill (`usecase.go:224`).
  *Keys:* creations and check-outs keep their records under one name, `idempotency:<key>`
  (`usecase.go:44`, `:204`), and a check-out reads nothing from the record: on a hit it
  returns the reservation that *is asked for*, as it is (`:208-209`). A check-out with the
  key of another one, or of a creation, is therefore not done; if the reservation has not been
  checked out before, there is no `check_out_at`, and the service's process panics
  (`handler.go:111`; nothing recovers); if it has, the gateway bills it again, under
  `inv-<key>`: it is answered with the invoice of the other reservation, if there is one, and
  with a second invoice of its own otherwise. A creation with the key of a check-out looks
  for a row with that key, and fails (`:48`).
  *Edges:* a check-in is let through at `expires_at` itself (`usecase.go:181`), when the
  lock may have lapsed already.
* *Gateway.* `ConfirmBookingPayment` answers "confirmed" even if its UPDATE matched no
  row, and accepts the settlement of any transaction (`extra.go:92-113`); it looks at that
  transaction's status before the call that marks the invoice as paid, so that a refund in
  between leaves the invoice paid (`:76`). A repeated
  request whose booking has been cancelled or expired is answered with success and a QR
  code to pay. The loser of a race between two requests with one key cancels the winner's
  reservation (`handler.go:79`, `:95`). The limiter's key is `RemoteAddr`, which has the port
  of the connection, or whatever the client puts in `X-Forwarded-For` (`ratelimit.go:75-78`):
  the limit is kept per key, which need not be per caller.
* *Pricing.* `README.md:300` charges "the first hour + each started hour", and the comment
  at `pricing.go:67` has "ceiling of actual duration". The code cuts the seconds off before
  it rounds hours up (`:69`): a stay of 1 to 59 seconds costs nothing, and one of 3601 to 3659
  seconds one hour. `HoursBilled` says so. Nothing in `README.md:302` has the cap of 720 hours
  (`:74`). The gateway fetches the reservation "to get check_in_at" and bills from
  `confirmed_at` (`handler.go:223`, `:237`), by up to an hour and a night more
  (`ParkedTimeBilled`).
* *Payment.* Every status that `mapMidtransStatus` does not know, such as a refund in part or
  a chargeback, makes the row pending again, a settled one too (`usecase.go:165`). A row
  tells of the notification that was applied last: out of order, or repeated because the record was
  not saved, an older one overwrites a newer one (`:141-145`). Order ids are cut to 8
  characters of a uuid (`:37`); the provider or the table refuse the second order of a
  pair that agrees in them, which is not modelled. Notifications are idempotent one after the other (`README.md:253`), not when
  they overlap: both miss the record, both are processed. Nobody calls `MarkInvoicePaid`
  (`proto/billing/v1/billing.proto:38`), and no route leads the provider's notifications
  to the service.
* *Billing.* An event whose handler fails is not requeued, and there is no dead letter
  queue (`README.md:290`). The subscriber bills the hour before the event, the gateway the time from
  the confirmation. `GetInvoiceBySession` returns either of the two invoices.
* *Broker, notification.* A lost connection leaves the consumer deaf and the publisher mute
  until a restart (`mq.go:71`, `:135`); events published before a queue is bound are
  dropped. "Notification history disabled" (`cmd/main.go:61`) is a nil pointer in an
  interface that is not nil (`:49`, `handler.go:72`): each event ends the process.
* *Circuit breaker.* Calls in flight count as requests of the ratio, which is looked at
  only when a call fails. `README.md:277` has one probe, the code three. Streaming is not
  covered, as only the unary interceptor is installed (`README.md:292`). Errors that are
  answers (not found, invalid) count as failures.

## 6. Not modelled, and the plan

Not modelled, with the reason:

* Presence and `StreamMyLocation`: a stream is relayed sample by sample in one goroutine
  and appended to a table; no operation depends on an earlier one.
* Authentication, configuration, logging, tracing, connection set-up: no state that an
  interleaving could disturb.
* Generated gRPC code (`gen/`): it is most of the repository's lines, and has no logic of
  its own.
* The 24 hours after which Redis drops a key's record; malformed input; requests that only
  read.
* `GenerateBookingFeeInvoice`, `MarkInvoicePaid`, `PreviewBilling` (the gateway's preview
  returns an invoice that is there) and `pricing.CalculateCancellationFee`, which nobody
  calls; the cancellation fee, which is computed and not charged.

The plan of abstract specifications is complete: `Reservation`, `Booking`, `Payment`,
`Billing` and `Notification` each implement one. `CircuitBreaker`, `RateLimiter` and `Pricing` state
what they promise as invariants, over a history of what happened.
