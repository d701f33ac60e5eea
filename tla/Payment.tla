------------------------------- MODULE Payment -------------------------------
(***************************************************************************)
(* The payment service (services/payment), the payment provider behind it, *)
(* and the gateway handlers that act on its table: SimulateSettle and the  *)
(* part of ConfirmBookingPayment that marks the booking invoice as paid.   *)
(*                                                                         *)
(* A handler is a sequence of calls to the provider, PostgreSQL and Redis. *)
(* Each call is one action; pc[w] names the call that w makes next.        *)
(* The provider keeps a ledger of what happened to each order, and repeats *)
(* the notification of each entry until the service acknowledges it, in    *)
(* any order and any number of times, also after the acknowledgement.      *)
(***************************************************************************)
EXTENDS Naturals, Sequences, FiniteSets, SequencesExt

CONSTANTS
  Orders,     \* uuids: each one names a transaction, and its order at the provider;
              \* 'PP-' and the first eight characters of it (usecase.go:37) are the
              \* order's id, which are taken to differ where the uuids do
  Invoices,
  Keys,       \* idempotency keys clients send with CreateTransaction
  Workers,    \* request handlers in flight at the same time
  Faults,     \* which faults occur: "crash", "drop"
  MaxFaults,  \* bound on their number
  MaxEntries, \* bound on what happens to one order at the provider
  None        \* no order, no invoice, no key

ASSUME NoneAssumption == None \notin Orders \cup Invoices \cup Keys
ASSUME BoundsAssumption == MaxFaults \in Nat /\ MaxEntries \in Nat

VARIABLES
  ledger,   \* the provider: the statuses each order has had, in order
  acked,    \* the provider: which entries of the ledger are acknowledged
  tx,       \* the table transactions, Absent when there is no row
  paid,     \* the invoices whose status is 'paid'
  idem,     \* Redis key idempotency:<key>, the transaction saved there
  seen,     \* Redis keys webhook:<order>:<status>
  pc,       \* the next call of each handler
  job,      \* the local variables of each handler
  reached,  \* history: every status each transaction has been given
  plain,    \* history: the orders whose notifications met no irregularity
  faults    \* how many faults have occurred

provider == <<ledger, acked>>
db       == <<tx, paid, reached>>
redis    == <<idem, seen>>
local    == <<pc, job>>
vars     == <<provider, db, redis, local, plain, faults>>

\* What the provider reports.  "deny" stands for cancel and failure too, and
\* "partial_refund" for all that mapMidtransStatus does not know (chargeback,
\* authorize); "capture" is for cards, which the service never charges.
Reports == {"pending", "settlement", "deny", "expire", "refund", "partial_refund"}

\* Faulty variant: the provider's word is taken over as it is.
mapMidtransStatusRaw(txStatus, fraudStatus) == txStatus

mapMidtransStatus(txStatus, fraudStatus) ==
  CASE txStatus = "capture" -> IF fraudStatus = "accept" THEN "settled" ELSE "failed"
    [] txStatus = "settlement" -> "settled"
    [] txStatus \in {"deny", "cancel", "failure"} -> "failed"
    [] txStatus = "expire" -> "expired"
    [] txStatus = "refund" -> "refunded"
    [] OTHER -> "pending"

\* What the service makes of a report; without "capture" the fraud status is moot.
StatusOf(r) == mapMidtransStatus(r, "accept")

Statuses == {"pending", "settled", "failed", "expired", "refunded"}
Absent   == [status |-> "none", key |-> None, invoice |-> None]
Rows     == [status : Statuses, key : Keys, invoice : Invoices]
IdleJob  == [order |-> None, key |-> None, invoice |-> None, report |-> "none"]
Jobs     == [order : Orders \cup {None}, key : Keys \cup {None},
             invoice : Invoices \cup {None}, report : Reports \cup {"none"}]
Calls    == {"idle", "Charge", "Insert", "Save", "Update", "Remember", "Settle", "MarkPaid"}

Init ==
  /\ ledger = [o \in Orders |-> <<>>]
  /\ acked = [o \in Orders |-> {}]
  /\ tx = [o \in Orders |-> Absent]
  /\ paid = {}
  /\ idem = [k \in Keys |-> None]
  /\ seen = {}
  /\ pc = [w \in Workers |-> "idle"]
  /\ job = [w \in Workers |-> IdleJob]
  /\ reached = [o \in Orders |-> {}]
  /\ plain = Orders
  /\ faults = 0

-----------------------------------------------------------------------------
(* Building blocks.                                                         *)

Inserted(o) == tx[o] # Absent

Begin(w, call, j) ==
  /\ pc[w] = "idle"
  /\ pc' = [pc EXCEPT ![w] = call]
  /\ job' = [job EXCEPT ![w] = j]

Goto(w, call) ==
  /\ pc' = [pc EXCEPT ![w] = call]
  /\ job' = IF call = "idle" THEN [job EXCEPT ![w] = IdleJob] ELSE job

Fault(f) ==
  /\ f \in Faults /\ faults < MaxFaults
  /\ faults' = faults + 1

SetStatus(o, s) ==
  /\ tx' = [tx EXCEPT ![o].status = s]
  /\ reached' = [reached EXCEPT ![o] = @ \cup {s}]

-----------------------------------------------------------------------------
(* CreateTransaction: the provider is asked for the order before the row    *)
(* that tells of it is inserted.                                            *)

\* Uuids that nothing refers to, whose order ids have not been used either.
Fresh == {o \in Orders : ledger[o] = <<>> /\ \A w \in Workers : job[w].order # o}

CreateRequest(w, k, i) ==
  /\ idem[k] = None     \* a hit returns the stored transaction, and writes nothing
  /\ \E o \in Fresh :
       Begin(w, "Charge", [order |-> o, key |-> k, invoice |-> i, report |-> "none"])
  /\ UNCHANGED <<provider, db, redis, plain, faults>>

Charge(w) ==
  /\ pc[w] = "Charge"
  /\ ledger' = [ledger EXCEPT ![job[w].order] = <<"pending">>]
  /\ Goto(w, "Insert")
  /\ UNCHANGED <<acked, db, redis, plain, faults>>

KeyTaken(k) == \E o \in Orders : tx[o].key = k

Insert(w) ==
  /\ pc[w] = "Insert"
  /\ ~KeyTaken(job[w].key)
  /\ tx' = [tx EXCEPT ![job[w].order] =
              [status |-> "pending", key |-> job[w].key, invoice |-> job[w].invoice]]
  /\ reached' = [reached EXCEPT ![job[w].order] = {"pending"}]
  /\ Goto(w, "Save")
  /\ UNCHANGED <<provider, paid, redis, plain, faults>>

\* Faulty variant: the handler goes on after the error.
InsertFailsAndSaves(w) ==
  /\ pc[w] = "Insert"
  /\ KeyTaken(job[w].key)
  /\ Goto(w, "Save")
  /\ UNCHANGED <<provider, db, redis, plain, faults>>

\* The order stays at the provider, and no transaction tells of it.
InsertFails(w) ==
  /\ pc[w] = "Insert"
  /\ KeyTaken(job[w].key)
  /\ Goto(w, "idle")
  /\ UNCHANGED <<provider, db, redis, plain, faults>>

Save(w) ==
  /\ pc[w] = "Save"
  /\ idem' = [idem EXCEPT ![job[w].key] = job[w].order]
  /\ Goto(w, "idle")
  /\ UNCHANGED <<provider, db, seen, plain, faults>>

-----------------------------------------------------------------------------
(* The provider, and HandleWebhook.                                         *)

\* A settled order may be refunded, in parts first.  (A second partial refund would be
\* answered as a repetition of the first: the record knows the order and the status.)
Outcomes(r) == IF r = "pending" THEN {"settlement", "deny", "expire"}
               ELSE IF r = "settlement" THEN {"refund", "partial_refund"}
               ELSE IF r = "partial_refund" THEN {"refund"} ELSE {}

ProviderMoves(o) ==
  /\ ledger[o] # <<>> /\ Len(ledger[o]) < MaxEntries
  /\ \E r \in Outcomes(Last(ledger[o])) : ledger' = [ledger EXCEPT ![o] = Append(@, r)]
  /\ UNCHANGED <<acked, db, redis, local, plain, faults>>

Entries(o) == 1..Len(ledger[o])

\* No notification before this one is unacknowledged, or being handled.
InTurn(o, i) ==
  /\ 1..(i - 1) \subseteq acked[o]
  /\ \A w \in Workers : pc[w] \in {"Update", "Remember"} => job[w].order # o

Acknowledge(o, r) ==
  acked' = [acked EXCEPT ![o] = @ \cup {i \in Entries(o) : ledger[o][i] = r}]

\* The record of the notification is found: it is acknowledged, nothing is written.
Duplicate(o, i) ==
  /\ i \in Entries(o) /\ <<o, ledger[o][i]>> \in seen
  /\ Acknowledge(o, ledger[o][i])
  /\ UNCHANGED <<ledger, db, redis, local, plain, faults>>

\* Faulty variant: no look at the record.
DeliverAlways(w, o, i) ==
  /\ i \in Entries(o)
  /\ Inserted(o)
  /\ Begin(w, "Update", [order |-> o, key |-> None, invoice |-> None,
                         report |-> ledger[o][i]])
  /\ plain' = IF InTurn(o, i) THEN plain ELSE plain \ {o}
  /\ UNCHANGED <<provider, db, redis, faults>>

\* No record is found, and the row is.  Without the row the answer is an error,
\* and the provider will try again.
Deliver(w, o, i) ==
  /\ i \in Entries(o) /\ <<o, ledger[o][i]>> \notin seen
  /\ Inserted(o)
  /\ Begin(w, "Update", [order |-> o, key |-> None, invoice |-> None,
                         report |-> ledger[o][i]])
  /\ plain' = IF InTurn(o, i) THEN plain ELSE plain \ {o}
  /\ UNCHANGED <<provider, db, redis, faults>>

\* Faulty variant: a transaction that is not pending any more is left alone.
UpdatePendingOnly(w) ==
  /\ pc[w] = "Update"
  /\ IF tx[job[w].order].status = "pending"
     THEN SetStatus(job[w].order, StatusOf(job[w].report))
     ELSE UNCHANGED <<tx, reached>>
  /\ Goto(w, "Remember")
  /\ UNCHANGED <<provider, paid, redis, plain, faults>>

\* UPDATE transactions SET status ... WHERE id: whatever the status was before.
Update(w) ==
  /\ pc[w] = "Update"
  /\ SetStatus(job[w].order, StatusOf(job[w].report))
  /\ Goto(w, "Remember")
  /\ UNCHANGED <<provider, paid, redis, plain, faults>>

Remember(w) ==
  /\ pc[w] = "Remember"
  /\ seen' = seen \cup {<<job[w].order, job[w].report>>}
  /\ Acknowledge(job[w].order, job[w].report)
  /\ Goto(w, "idle")
  /\ UNCHANGED <<ledger, db, idem, plain, faults>>

\* The record is not saved, which the handler ignores.
RememberFails(w) ==
  /\ pc[w] = "Remember"
  /\ Fault("drop")
  /\ Acknowledge(job[w].order, job[w].report)
  /\ plain' = plain \ {job[w].order}
  /\ Goto(w, "idle")
  /\ UNCHANGED <<ledger, db, redis>>

-----------------------------------------------------------------------------
(* The gateway's handlers.                                                  *)

\* SimulateSettle settles a transaction itself, and then its invoice.
SettleRequest(w, o) ==
  /\ Inserted(o)
  /\ Begin(w, "Settle", [order |-> o, key |-> None, invoice |-> tx[o].invoice,
                         report |-> "none"])
  /\ UNCHANGED <<provider, db, redis, plain, faults>>

Settle(w) ==
  /\ pc[w] = "Settle"
  /\ SetStatus(job[w].order, "settled")
  /\ plain' = plain \ {job[w].order}
  /\ Goto(w, "MarkPaid")
  /\ UNCHANGED <<provider, paid, redis, faults>>

\* Faulty variant: any transaction will do.
ConfirmUnsettledRequest(w, o, i) ==
  /\ Inserted(o)
  /\ Begin(w, "MarkPaid", [order |-> o, key |-> None, invoice |-> i, report |-> "none"])
  /\ UNCHANGED <<provider, db, redis, plain, faults>>

\* ConfirmBookingPayment marks the invoice of the reservation it is asked for,
\* on the word of the transaction it is asked for.  (The rest of it, and the
\* reservation, are in module Reservation.)
ConfirmRequest(w, o, i) ==
  /\ Inserted(o) /\ tx[o].status = "settled"
  /\ Begin(w, "MarkPaid", [order |-> o, key |-> None, invoice |-> i, report |-> "none"])
  /\ UNCHANGED <<provider, db, redis, plain, faults>>

MarkPaid(w) ==
  /\ pc[w] = "MarkPaid"
  /\ paid' = paid \cup {job[w].invoice}
  /\ Goto(w, "idle")
  /\ UNCHANGED <<provider, tx, reached, redis, plain, faults>>

-----------------------------------------------------------------------------

\* A call whose error the code ignores fails, without effect.
Dropped(w) ==
  /\ Fault("drop")
  /\ pc[w] \in {"Save", "MarkPaid"}
  /\ Goto(w, "idle")
  /\ UNCHANGED <<provider, db, redis, plain>>

\* The handler makes none of its remaining calls: its process stops, or a call
\* fails with an error it returns.  The provider gets no acknowledgement.
Crash(w) ==
  /\ Fault("crash")
  /\ pc[w] # "idle"
  /\ Goto(w, "idle")
  /\ UNCHANGED <<provider, db, redis, plain>>

Request(w) ==
  \/ \E k \in Keys, i \in Invoices : CreateRequest(w, k, i)
  \/ \E o \in Orders : SettleRequest(w, o)
  \/ \E o \in Orders, i \in Invoices : ConfirmRequest(w, o, i)

Webhook(w) == \E o \in Orders : \E i \in Entries(o) : Deliver(w, o, i)

Step(w) ==
  \/ Charge(w) \/ Insert(w) \/ InsertFails(w) \/ Save(w)
  \/ Update(w) \/ Remember(w) \/ RememberFails(w)
  \/ Settle(w) \/ MarkPaid(w)
  \/ Dropped(w) \/ Crash(w)

Provider(o) == ProviderMoves(o) \/ \E i \in Entries(o) : Duplicate(o, i)

Next ==
  \/ \E w \in Workers : Request(w) \/ Webhook(w) \/ Step(w)
  \/ \E o \in Orders : Provider(o)

Spec == Init /\ [][Next]_vars

\* The provider repeats what is not acknowledged, and gets through now and then;
\* a handler that waits for a call goes on.
DeliverNext(o) ==
  \E i \in Entries(o) :
    /\ i \notin acked[o]
    /\ InTurn(o, i)
    /\ Duplicate(o, i) \/ \E w \in Workers : Deliver(w, o, i)

Fairness ==
  /\ \A w \in Workers : WF_vars(Step(w))
  /\ \A o \in Orders : SF_vars(DeliverNext(o))

FairSpec == Spec /\ Fairness

-----------------------------------------------------------------------------
(* Properties.                                                              *)

TypeOK ==
  /\ ledger \in [Orders -> Seq(Reports)]
  /\ acked \in [Orders -> SUBSET Nat]
  /\ \A o \in Orders : acked[o] \subseteq Entries(o)
  /\ tx \in [Orders -> Rows \cup {Absent}]
  /\ paid \subseteq Invoices
  /\ idem \in [Keys -> Orders \cup {None}]
  /\ seen \subseteq Orders \X Reports
  /\ pc \in [Workers -> Calls]
  /\ job \in [Workers -> Jobs]
  /\ reached \in [Orders -> SUBSET Statuses]
  /\ plain \subseteq Orders
  /\ faults \in 0..MaxFaults

\* What a repeated CreateTransaction is answered from (usecase.go:28-34): the
\* record saved for a key names the one transaction that was inserted with it,
\* and that transaction has an order at the provider, so the driver can pay it.
IdemTruthful ==
  \A k \in Keys : idem[k] # None => /\ tx[idem[k]].key = k
                                    /\ ledger[idem[k]] # <<>>

\* A notification that is acknowledged unseen (usecase.go:121-127) has had its
\* effect, even if the handler that saved its record overlapped with others,
\* was repeated after a crash, or ran late.
RememberedApplied ==
  \A o \in Orders, r \in Reports :
    <<o, r>> \in seen => StatusOf(r) \in reached[o]

\* No invoice is marked as paid before some money has come in: the provider has
\* reported a settlement, or one was simulated.
PaidByMoney ==
  paid # {} => \E o \in Orders : \/ "settlement" \in Range(ledger[o])
                                 \/ "settled" \in reached[o] /\ o \notin plain

\* The table keeps its contract: as long as the notifications of an order come one
\* at a time and in order, and their records are saved, its row goes along the ledger
\* one entry at a time, and back never, though the UPDATE is unconditional, and
\* notifications are repeated on their own and after crashes.
Told(o) == IF o \in plain THEN tx[o].status ELSE "any"

C == INSTANCE PaymentContract
       WITH course <- ledger, regular <- plain, paid <- paid,
            row <- [o \in Orders |-> Told(o)]
Contract == C!Spec

\* In the end the service tells what the provider tells, whatever crashes and
\* repetitions there are, as long as notifications come in order and their
\* records are saved.  An order whose insertion failed has no row to tell it.
Converges ==
  \A o \in Orders :
    <>[](Inserted(o) /\ o \in plain
           => tx[o].status = StatusOf(Last(ledger[o])))

=============================================================================
