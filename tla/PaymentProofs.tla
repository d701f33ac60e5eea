---------------------------- MODULE PaymentProofs ----------------------------
(***************************************************************************)
(* Theorems about Payment, for any number of orders, invoices, keys,       *)
(* handlers and faults.                                                    *)
(*                                                                         *)
(* The invariant Inv says what a handler knows between two of its calls,   *)
(* what a row has to do with the provider's ledger, and where money that   *)
(* was booked has come from.  OrderInv adds, for orders whose              *)
(* notifications met no irregularity, which of them have been handled, and *)
(* FollowInv how far their rows have followed the ledger.                  *)
(***************************************************************************)
EXTENDS Payment, SequenceTheorems, TLAPS

\* The provider has reported r of o.
Reported(o, r) == \E i \in Entries(o) : ledger[o][i] = r

\* Some money has come in.
Money ==
  \E o \in Orders : \/ Reported(o, "settlement")
                    \/ "settled" \in reached[o] /\ o \notin plain

\* The orders at the provider: pending, one outcome, and refunds of a settled one.
LedgerOK(s) ==
  /\ Len(s) \in 0..4
  /\ Len(s) >= 1 => s[1] = "pending"
  /\ Len(s) >= 2 => s[2] \in {"settlement", "deny", "expire"}
  /\ Len(s) >= 3 => s[2] = "settlement" /\ s[3] \in {"refund", "partial_refund"}
  /\ Len(s) = 4 => s[3] = "partial_refund" /\ s[4] = "refund"

\* A handler that creates a transaction has the order to itself until it inserts
\* the row; one that was notified repeats what the provider has reported.
Knows(w) ==
  /\ pc[w] # "idle" => job[w].order \in Orders
  /\ pc[w] \in {"Charge", "Insert", "Save"} => job[w].key \in Keys
  /\ pc[w] \in {"Charge", "Insert", "Settle", "MarkPaid"} => job[w].invoice \in Invoices
  /\ pc[w] \in {"Charge", "Insert"} => ~Inserted(job[w].order)
  /\ pc[w] = "Charge" => Len(ledger[job[w].order]) = 0
  /\ pc[w] = "Insert" => Len(ledger[job[w].order]) # 0
  /\ pc[w] = "Save" => Inserted(job[w].order) /\ tx[job[w].order].key = job[w].key
  /\ pc[w] \in {"Update", "Remember"} =>
       job[w].report \in Reports /\ Reported(job[w].order, job[w].report)
  /\ pc[w] \in {"Update", "Remember", "Settle"} => Inserted(job[w].order)
  /\ pc[w] = "Remember" => StatusOf(job[w].report) \in reached[job[w].order]
  /\ pc[w] = "MarkPaid" => Money

Handlers == \A w \in Workers : Knows(w)

OwnOrder ==
  \A v, w \in Workers :
    v # w /\ pc[w] \in {"Charge", "Insert"} => job[v].order # job[w].order

Ledgers == \A o \in Orders : LedgerOK(ledger[o])

\* A row belongs to an order at the provider; its status is the last one it was
\* given, and it was settled by the provider or by SimulateSettle.
Histories ==
  \A o \in Orders :
    /\ Inserted(o) => tx[o].status \in reached[o] /\ Len(ledger[o]) # 0
    /\ ~Inserted(o) => reached[o] = {}
    /\ "settled" \in reached[o] => Reported(o, "settlement") \/ o \notin plain

\* The record of a key names a row with that key.
Recorded == \A k \in Keys : idem[k] # None => Inserted(idem[k]) /\ tx[idem[k]].key = k

Bookings == paid # {} => Money

Inv == /\ TypeOK /\ Handlers /\ OwnOrder /\ Ledgers /\ Histories
       /\ Recorded /\ RememberedApplied /\ Bookings

USE NoneAssumption, BoundsAssumption
USE DEF Calls, Statuses, Reports

LEMMA InitInv == Init => Inv
<1> SUFFICES ASSUME Init PROVE Inv
  OBVIOUS
<1>1. TypeOK
  <2>1. \A o \in Orders : ledger[o] = <<>> /\ Entries(o) = {} /\ acked[o] = {}
    BY DEF Init, Entries
  <2> QED
    BY <2>1 DEF Init, TypeOK, Jobs, IdleJob
<1>2. Handlers /\ OwnOrder
  BY DEF Init, Handlers, Knows, OwnOrder
<1>3. Ledgers /\ Histories
  BY DEF Init, Ledgers, LedgerOK, Histories, Inserted
<1>4. Recorded /\ RememberedApplied /\ Bookings
  BY DEF Init, Recorded, RememberedApplied, Bookings
<1> QED
  BY <1>1, <1>2, <1>3, <1>4 DEF Inv

LEMMA MapTypes ==
  /\ \A r \in Reports : StatusOf(r) \in Statuses
  /\ \A r \in Reports : StatusOf(r) = "settled" <=> r = "settlement"
  BY DEF StatusOf, mapMidtransStatus

-----------------------------------------------------------------------------
(* What the building blocks do.                                            *)

LEMMA BeginStep ==
  ASSUME TypeOK, NEW w \in Workers, NEW call, NEW j, Begin(w, call, j)
  PROVE  /\ pc[w] = "idle" /\ pc'[w] = call /\ job'[w] = j
         /\ \A v \in Workers \ {w} : pc'[v] = pc[v] /\ job'[v] = job[v]
  BY DEF TypeOK, Begin

LEMMA GotoStep ==
  ASSUME TypeOK, NEW w \in Workers, NEW call, Goto(w, call)
  PROVE  /\ pc'[w] = call
         /\ call # "idle" => job'[w] = job[w]
         /\ call = "idle" => job'[w] = IdleJob
         /\ \A v \in Workers \ {w} : pc'[v] = pc[v] /\ job'[v] = job[v]
  BY DEF TypeOK, Goto

LEMMA BeginTypes ==
  ASSUME TypeOK, NEW w \in Workers, NEW call \in Calls, NEW j \in Jobs, Begin(w, call, j)
  PROVE  pc' \in [Workers -> Calls] /\ job' \in [Workers -> Jobs]
  BY DEF TypeOK, Begin

LEMMA GotoTypes ==
  ASSUME TypeOK, NEW w \in Workers, NEW call \in Calls, Goto(w, call)
  PROVE  pc' \in [Workers -> Calls] /\ job' \in [Workers -> Jobs]
<1>1. IdleJob \in Jobs
  BY DEF IdleJob, Jobs
<1> QED
  BY <1>1 DEF TypeOK, Goto

LEMMA FaultTypes ==
  ASSUME TypeOK, NEW f, Fault(f)
  PROVE  faults' \in 0..MaxFaults
  BY DEF TypeOK, Fault

LEMMA RowUpdate ==
  ASSUME NEW b \in Rows, NEW s \in Statuses
  PROVE  /\ [b EXCEPT !.status = s] \in Rows
         /\ [b EXCEPT !.status = s].status = s
         /\ [b EXCEPT !.status = s].key = b.key
  BY DEF Rows

LEMMA RowsInserted == \A b \in Rows : b # Absent
  BY DEF Rows, Absent

\* An UPDATE changes the status of one row, and nothing else of it.
LEMMA StatusStep ==
  ASSUME TypeOK, NEW o \in Orders, Inserted(o), NEW s \in Statuses, SetStatus(o, s)
  PROVE  /\ tx' \in [Orders -> Rows \cup {Absent}]
         /\ reached' \in [Orders -> SUBSET Statuses]
         /\ Inserted(o)' /\ tx'[o].status = s /\ tx'[o].key = tx[o].key
         /\ reached'[o] = reached[o] \cup {s}
         /\ \A x \in Orders \ {o} : tx'[x] = tx[x] /\ reached'[x] = reached[x]
<1> DEFINE n == [tx[o] EXCEPT !.status = s]
<1>1. tx[o] \in Rows
  BY DEF TypeOK, Inserted
<1>2. n \in Rows /\ n.status = s /\ n.key = tx[o].key
  BY <1>1, RowUpdate
<1>3. tx' = [tx EXCEPT ![o] = n]
  BY DEF SetStatus
<1> HIDE DEF n
<1>4. /\ tx' \in [Orders -> Rows \cup {Absent}] /\ tx'[o] = n
      /\ \A x \in Orders \ {o} : tx'[x] = tx[x]
  BY <1>2, <1>3 DEF TypeOK
<1>5. /\ reached' \in [Orders -> SUBSET Statuses] /\ reached'[o] = reached[o] \cup {s}
      /\ \A x \in Orders \ {o} : reached'[x] = reached[x]
  BY DEF TypeOK, SetStatus
<1> QED
  BY <1>2, <1>4, <1>5, RowsInserted DEF Inserted

LEMMA AcknowledgeTypes ==
  ASSUME TypeOK, NEW o \in Orders, NEW r, Acknowledge(o, r)
  PROVE  /\ acked' \in [Orders -> SUBSET Nat]
         /\ acked'[o] = acked[o] \cup {i \in Entries(o) : ledger[o][i] = r}
         /\ \A x \in Orders \ {o} : acked'[x] = acked[x]
         /\ \A x \in Orders : acked'[x] \subseteq Entries(x)
<1> DEFINE S == acked[o] \cup {i \in Entries(o) : ledger[o][i] = r}
<1>1. acked \in [Orders -> SUBSET Nat] /\ \A x \in Orders : acked[x] \subseteq Entries(x)
  BY DEF TypeOK
<1>2. Entries(o) \subseteq Nat
  BY DEF TypeOK, Entries
<1>3. S \subseteq Entries(o) /\ S \in SUBSET Nat
  BY <1>1, <1>2
<1>4. acked' = [acked EXCEPT ![o] = S]
  BY DEF Acknowledge
<1>5. S = acked[o] \cup {i \in Entries(o) : ledger[o][i] = r}
  OBVIOUS
<1> HIDE DEF S
<1> QED
  BY <1>1, <1>3, <1>4, <1>5

-----------------------------------------------------------------------------
(* What no step undoes.                                                    *)

Grows ==
  /\ \A o \in Orders : /\ Inserted(o) => Inserted(o)' /\ tx'[o].key = tx[o].key
                       /\ \A r \in Reports : Reported(o, r) => Reported(o, r)'
                       /\ Len(ledger[o]) # 0 => Len(ledger'[o]) # 0
                       /\ reached[o] \subseteq reached'[o]
  /\ plain' \subseteq plain

\* Nobody charges or inserts o.
Untouched(o) ==
  /\ Inserted(o)' => Inserted(o)
  /\ Len(ledger[o]) = 0 => Len(ledger'[o]) = 0

LEMMA MoneyStays == ASSUME Grows, Money PROVE Money'
  BY DEF Grows, Money

\* What a handler knows stays true while others work.
LEMMA KnowsStays ==
  ASSUME Grows, NEW v \in Workers, Knows(v), pc'[v] = pc[v], job'[v] = job[v],
         pc[v] \in {"Charge", "Insert"} => Untouched(job[v].order)
  PROVE  Knows(v)'
<1>1. pc[v] # "idle" => job[v].order \in Orders
  BY DEF Knows
<1> QED
  BY <1>1, MoneyStays DEF Knows, Grows, Untouched

\* An order that is at the provider and was inserted is none that is being created.
LEMMA OthersStay ==
  ASSUME Inv, Grows, NEW w \in Workers, NEW o,
         \A v \in Workers \ {w} : pc'[v] = pc[v] /\ job'[v] = job[v],
         \A x \in Orders \ {o} : Untouched(x),
         o \in Orders /\ ~Untouched(o) => pc[w] \in {"Charge", "Insert"} /\ job[w].order = o
  PROVE  \A v \in Workers \ {w} : Knows(v)'
<1> SUFFICES ASSUME NEW v \in Workers \ {w} PROVE Knows(v)'
  OBVIOUS
<1>1. Knows(v)
  BY DEF Inv, Handlers
<1>2. ASSUME pc[v] \in {"Charge", "Insert"} PROVE Untouched(job[v].order)
  <2>1. job[v].order \in Orders
    BY <1>1, <1>2 DEF Knows
  <2>2. CASE job[v].order # o
    BY <2>1, <2>2
  <2>3. CASE job[v].order = o /\ ~Untouched(o)
    BY <1>2, <2>1, <2>3 DEF Inv, OwnOrder
  <2> QED
    BY <2>2, <2>3
<1> QED
  BY <1>1, <1>2, KnowsStays

\* The history and the records, while rows and ledgers only grow.
LEMMA SameRows ==
  ASSUME Inv, UNCHANGED <<ledger, tx, reached>>, plain' \subseteq plain
  PROVE  /\ Grows /\ Ledgers' /\ Histories' /\ \A o \in Orders : Untouched(o)
         /\ Money => Money'
<1>1. Grows /\ \A o \in Orders : Untouched(o)
  BY DEF Grows, Untouched, Inserted, Reported, Entries
<1>2. Ledgers' /\ Histories'
  BY DEF Inv, Ledgers, LedgerOK, Histories, Inserted, Reported, Entries
<1> QED
  BY <1>1, <1>2, MoneyStays

-----------------------------------------------------------------------------
(* A request, or a notification, is taken up.                              *)

LEMMA RequestInv ==
  ASSUME Inv, NEW w \in Workers, Request(w) \/ Webhook(w)
  PROVE  Inv'
<1> USE DEF provider, db, redis
<1>1. /\ TypeOK /\ Handlers /\ OwnOrder /\ Ledgers /\ Histories /\ Recorded
      /\ RememberedApplied /\ Bookings
  BY DEF Inv
<1>2. UNCHANGED <<provider, db, redis, faults>> /\ plain' \subseteq plain
  BY DEF Request, CreateRequest, SettleRequest, ConfirmRequest, Webhook, Deliver
<1>3. Grows /\ Ledgers' /\ Histories' /\ (Money => Money') /\ \A x \in Orders : Untouched(x)
  BY <1>2, SameRows
<1>4. PICK call \in Calls, j \in Jobs :
        /\ Begin(w, call, j)
        /\ j.order \in Orders
        /\ \/ /\ call = "Charge" /\ j.key \in Keys /\ j.invoice \in Invoices
              /\ j.order \in Fresh
           \/ call = "Settle" /\ Inserted(j.order) /\ j.invoice \in Invoices
           \/ call = "MarkPaid" /\ j.invoice \in Invoices /\ Money
              /\ Inserted(j.order)
           \/ call = "Update" /\ Inserted(j.order) /\ j.report \in Reports
              /\ Reported(j.order, j.report)
  <2>1. CASE \E k \in Keys, i \in Invoices : CreateRequest(w, k, i)
    BY <2>1 DEF CreateRequest, Jobs, Fresh
  <2>2. CASE \E o \in Orders : SettleRequest(w, o)
    <3>1. PICK o \in Orders : SettleRequest(w, o)
      BY <2>2
    <3>2. tx[o].invoice \in Invoices
      BY <1>1, <3>1 DEF SettleRequest, TypeOK, Inserted, Rows
    <3> DEFINE j == [order |-> o, key |-> None, invoice |-> tx[o].invoice, report |-> "none"]
    <3>3. /\ j \in Jobs /\ j.order = o /\ j.invoice \in Invoices /\ Begin(w, "Settle", j)
          /\ Inserted(j.order)
      BY <3>1, <3>2 DEF SettleRequest, Jobs
    <3> QED
      BY <3>3
  <2>3. CASE \E o \in Orders, i \in Invoices : ConfirmRequest(w, o, i)
    <3>1. PICK o \in Orders, i \in Invoices : ConfirmRequest(w, o, i)
      BY <2>3
    <3>2. Money
      BY <1>1, <3>1 DEF ConfirmRequest, Histories, Money
    <3> DEFINE j == [order |-> o, key |-> None, invoice |-> i, report |-> "none"]
    <3>3. /\ j \in Jobs /\ j.order = o /\ j.invoice \in Invoices /\ Begin(w, "MarkPaid", j)
          /\ Inserted(j.order)
      BY <3>1 DEF ConfirmRequest, Jobs
    <3> QED
      BY <3>2, <3>3
  <2>4. CASE Webhook(w)
    <3>1. PICK o \in Orders : \E i \in Entries(o) : Deliver(w, o, i)
      BY <2>4 DEF Webhook
    <3>2. PICK i \in Entries(o) : Deliver(w, o, i)
      BY <3>1
    <3>3. ledger[o][i] \in Reports /\ Reported(o, ledger[o][i])
      BY <1>1 DEF TypeOK, Entries, Reported
    <3> DEFINE j == [order |-> o, key |-> None, invoice |-> None, report |-> ledger[o][i]]
    <3>4. /\ j \in Jobs /\ j.order = o /\ j.report = ledger[o][i] /\ Begin(w, "Update", j)
          /\ Inserted(j.order)
      BY <3>2, <3>3 DEF Deliver, Jobs
    <3> QED
      BY <3>3, <3>4
  <2> QED
    BY <2>1, <2>2, <2>3, <2>4 DEF Request
<1>5. /\ pc[w] = "idle" /\ pc'[w] = call /\ job'[w] = j
      /\ \A v \in Workers \ {w} : pc'[v] = pc[v] /\ job'[v] = job[v]
  BY <1>1, <1>4, BeginStep
<1>6. Knows(w)'
  <2>1. call = "Charge" => Len(ledger[j.order]) = 0 /\ ~Inserted(j.order)
    BY <1>1, <1>4 DEF Fresh, Histories
  <2> QED
    BY <1>2, <1>3, <1>4, <1>5, <2>1 DEF Knows, Inserted, Reported, Entries
<1>7. Handlers'
  BY <1>3, <1>5, <1>6, OthersStay DEF Handlers
<1>8. OwnOrder'
  <2>1. \A v \in Workers : pc[v] \in {"Charge", "Insert"} => ~Inserted(job[v].order)
    BY <1>1 DEF Handlers, Knows
  <2>2. call = "Charge" => \A v \in Workers : job[v].order # j.order
    BY <1>4 DEF Fresh
  <2> QED
    BY <1>1, <1>4, <1>5, <2>1, <2>2 DEF OwnOrder
<1>9. TypeOK'
  <2>1. pc' \in [Workers -> Calls] /\ job' \in [Workers -> Jobs]
    BY <1>1, <1>4, BeginTypes
  <2> QED
    BY <1>1, <1>2, <2>1 DEF TypeOK, Entries
<1>10. Recorded' /\ RememberedApplied' /\ Bookings'
  BY <1>1, <1>2, <1>3 DEF Recorded, RememberedApplied, Bookings, Inserted
<1> QED
  BY <1>3, <1>7, <1>8, <1>9, <1>10 DEF Inv

-----------------------------------------------------------------------------
(* The calls of a handler.                                                 *)

\* A handler that goes on, or ends, leaves the orders it does not have to others.
LEMMA OwnStays ==
  ASSUME Inv, NEW w \in Workers, NEW call, Goto(w, call),
         call \in {"Charge", "Insert"} => pc[w] \in {"Charge", "Insert"}
  PROVE  OwnOrder'
<1>1. /\ TypeOK /\ Handlers /\ OwnOrder
  BY DEF Inv
<1>2. /\ pc'[w] = call /\ (call # "idle" => job'[w] = job[w])
      /\ call = "idle" => job'[w].order = None
      /\ \A v \in Workers \ {w} : pc'[v] = pc[v] /\ job'[v] = job[v]
  BY <1>1, GotoStep DEF IdleJob
<1>3. \A v \in Workers : pc[v] \in {"Charge", "Insert"} => job[v].order # None
  BY <1>1 DEF Handlers, Knows
<1> QED
  BY <1>1, <1>2, <1>3 DEF OwnOrder

\* Steps that leave the rows and the ledger alone.
LEMMA QuietInv ==
  ASSUME Inv, NEW w \in Workers, NEW call \in Calls, Goto(w, call),
         UNCHANGED <<ledger, tx, reached>>, plain' \subseteq plain,
         call \notin {"Charge", "Insert"},
         Knows(w)', Recorded', RememberedApplied', Bookings',
         \A o \in Orders : acked'[o] \subseteq Entries(o),
         acked' \in [Orders -> SUBSET Nat], paid' \subseteq Invoices,
         idem' \in [Keys -> Orders \cup {None}], seen' \subseteq Orders \X Reports,
         faults' \in 0..MaxFaults
  PROVE  Inv'
<1>1. TypeOK
  BY DEF Inv
<1>2. Grows /\ Ledgers' /\ Histories' /\ \A x \in Orders : Untouched(x)
  BY SameRows
<1>3. \A v \in Workers \ {w} : pc'[v] = pc[v] /\ job'[v] = job[v]
  BY <1>1, GotoStep
<1>4. Handlers'
  BY <1>2, <1>3, OthersStay DEF Handlers
<1>5. TypeOK'
  BY <1>1, GotoTypes DEF TypeOK, Entries
<1>6. OwnOrder'
  BY OwnStays
<1> QED
  BY <1>2, <1>4, <1>5, <1>6 DEF Inv

LEMMA IdleKnows ==
  ASSUME TypeOK, NEW w \in Workers, Goto(w, "idle") PROVE Knows(w)'
  BY GotoStep DEF Knows

\* The handler ends without a trace, in a fault or after an error.
LEMMA GivesUpInv ==
  ASSUME Inv, NEW w \in Workers, InsertFails(w) \/ Dropped(w) \/ Crash(w)
  PROVE  Inv'
<1> USE DEF provider, db, redis
<1>1. /\ TypeOK /\ Recorded /\ RememberedApplied /\ Bookings
  BY DEF Inv
<1>2. Goto(w, "idle") /\ UNCHANGED <<provider, db, redis, plain>>
  BY DEF InsertFails, Dropped, Crash
<1>3. faults' \in 0..MaxFaults
  BY <1>1, FaultTypes DEF InsertFails, Dropped, Crash, TypeOK
<1>4. Money => Money'
  BY <1>2, SameRows
<1>5. Recorded' /\ RememberedApplied' /\ Bookings'
  BY <1>1, <1>2, <1>4 DEF Recorded, RememberedApplied, Bookings, Inserted
<1>6. Knows(w)'
  BY <1>1, <1>2, IdleKnows
<1> QED
  BY <1>1, <1>2, <1>3, <1>5, <1>6, QuietInv DEF TypeOK, Entries

LEMMA SaveInv ==
  ASSUME Inv, NEW w \in Workers, Save(w)
  PROVE  Inv'
<1> USE DEF provider, db, redis
<1>1. /\ TypeOK /\ Handlers /\ Recorded /\ RememberedApplied /\ Bookings
  BY DEF Inv
<1>2. Goto(w, "idle") /\ UNCHANGED <<provider, db, seen, plain, faults>>
  BY DEF Save
<1>3. /\ job[w].order \in Orders /\ job[w].key \in Keys
      /\ Inserted(job[w].order) /\ tx[job[w].order].key = job[w].key
  BY <1>1 DEF Save, Handlers, Knows
<1>4. idem' \in [Keys -> Orders \cup {None}] /\ Recorded'
  BY <1>1, <1>2, <1>3 DEF Save, TypeOK, Recorded, Inserted
<1>5. Money => Money'
  BY <1>2, SameRows
<1>6. RememberedApplied' /\ Bookings'
  BY <1>1, <1>2, <1>5 DEF RememberedApplied, Bookings
<1>7. Knows(w)'
  BY <1>1, <1>2, IdleKnows
<1> QED
  BY <1>1, <1>2, <1>4, <1>6, <1>7, QuietInv DEF TypeOK, Entries

LEMMA RememberInv ==
  ASSUME Inv, NEW w \in Workers, Remember(w) \/ RememberFails(w)
  PROVE  Inv'
<1> USE DEF provider, db, redis
<1>1. /\ TypeOK /\ Handlers /\ Recorded /\ RememberedApplied /\ Bookings
  BY DEF Inv
<1>2. /\ Goto(w, "idle") /\ UNCHANGED <<ledger, db, idem>> /\ plain' \subseteq plain
      /\ Acknowledge(job[w].order, job[w].report)
      /\ seen' \subseteq seen \cup {<<job[w].order, job[w].report>>}
  BY DEF Remember, RememberFails
<1>3. faults' \in 0..MaxFaults
  BY <1>1, FaultTypes DEF Remember, RememberFails, TypeOK
<1>4. /\ job[w].order \in Orders /\ job[w].report \in Reports
      /\ StatusOf(job[w].report) \in reached[job[w].order]
  BY <1>1 DEF Remember, RememberFails, Handlers, Knows
<1>5. acked' \in [Orders -> SUBSET Nat] /\ \A o \in Orders : acked'[o] \subseteq Entries(o)
  BY <1>1, <1>2, <1>4, AcknowledgeTypes
<1>6. seen' \subseteq Orders \X Reports /\ RememberedApplied'
  <2>1. <<job[w].order, job[w].report>> \in Orders \X Reports
    BY <1>4
  <2>2. seen' \subseteq Orders \X Reports
    BY <1>1, <1>2, <2>1 DEF TypeOK
  <2>3. RememberedApplied'
    BY <1>1, <1>2, <1>4 DEF RememberedApplied
  <2> QED
    BY <2>2, <2>3
<1>7. Money => Money'
  BY <1>2, SameRows
<1>8. Recorded' /\ Bookings'
  BY <1>1, <1>2, <1>7 DEF Recorded, Bookings, Inserted
<1>9. Knows(w)'
  BY <1>1, <1>2, IdleKnows
<1> QED
  BY <1>1, <1>2, <1>3, <1>5, <1>6, <1>8, <1>9, QuietInv DEF TypeOK

LEMMA MarkPaidInv ==
  ASSUME Inv, NEW w \in Workers, MarkPaid(w)
  PROVE  Inv'
<1> USE DEF provider, db, redis
<1>1. /\ TypeOK /\ Handlers /\ Recorded /\ RememberedApplied
  BY DEF Inv
<1>2. Goto(w, "idle") /\ UNCHANGED <<provider, tx, reached, redis, plain, faults>>
  BY DEF MarkPaid
<1>3. job[w].invoice \in Invoices /\ Money
  BY <1>1 DEF MarkPaid, Handlers, Knows
<1>4. paid' \subseteq Invoices /\ Bookings'
  BY <1>1, <1>2, <1>3, SameRows DEF MarkPaid, TypeOK, Bookings
<1>5. Recorded' /\ RememberedApplied'
  BY <1>1, <1>2 DEF Recorded, RememberedApplied, Inserted
<1>6. Knows(w)'
  BY <1>1, <1>2, IdleKnows
<1> QED
  BY <1>1, <1>2, <1>4, <1>5, <1>6, QuietInv DEF TypeOK, Entries

\* The order comes to the provider; its creator goes on to insert the row.
LEMMA ChargeInv ==
  ASSUME Inv, NEW w \in Workers, Charge(w)
  PROVE  Inv'
<1> USE DEF provider, db, redis
<1>1. /\ TypeOK /\ Handlers /\ OwnOrder /\ Ledgers /\ Histories /\ Recorded
      /\ RememberedApplied /\ Bookings
  BY DEF Inv
<1>2. /\ pc[w] = "Charge" /\ Goto(w, "Insert")
      /\ UNCHANGED <<acked, tx, paid, reached, redis, plain, faults>>
  BY DEF Charge
<1>3. PICK o \in Orders :
        /\ o = job[w].order /\ job[w].key \in Keys /\ job[w].invoice \in Invoices
        /\ ~Inserted(o) /\ Len(ledger[o]) = 0
  BY <1>1, <1>2 DEF Handlers, Knows
<1>4. /\ pc'[w] = "Insert" /\ job'[w] = job[w]
      /\ \A v \in Workers \ {w} : pc'[v] = pc[v] /\ job'[v] = job[v]
  BY <1>1, <1>2, GotoStep
<1>5. /\ ledger' \in [Orders -> Seq(Reports)] /\ Len(ledger'[o]) = 1
      /\ ledger'[o][1] = "pending" /\ \A x \in Orders \ {o} : ledger'[x] = ledger[x]
  <2>1. /\ <<"pending">> \in Seq(Reports) /\ Len(<<"pending">>) = 1
        /\ <<"pending">>[1] = "pending"
    OBVIOUS
  <2>2. ledger' = [ledger EXCEPT ![o] = <<"pending">>]
    BY <1>3 DEF Charge
  <2> QED
    BY <1>1, <1>3, <2>1, <2>2 DEF TypeOK
<1>6. Ledgers'
  BY <1>1, <1>5 DEF Ledgers, LedgerOK
<1>7. \A x \in Orders, r \in Reports : Reported(x, r) => Reported(x, r)'
  BY <1>3, <1>5 DEF Reported, Entries
<1>8. Grows /\ (Money => Money')
  BY <1>2, <1>3, <1>5, <1>7, MoneyStays DEF Grows, Inserted
<1>9. Histories'
  BY <1>1, <1>2, <1>3, <1>5, <1>7 DEF Histories, Inserted
<1>10. Knows(w)'
  BY <1>2, <1>3, <1>4, <1>5 DEF Knows, Inserted
<1>11. Handlers'
  <2>1. \A x \in Orders \ {o} : Untouched(x)
    BY <1>2, <1>5 DEF Untouched, Inserted
  <2> QED
    BY <1>2, <1>3, <1>4, <1>8, <1>10, <2>1, OthersStay DEF Handlers
<1>12. OwnOrder'
  BY <1>2, OwnStays
<1>13. TypeOK'
  <2>1. pc' \in [Workers -> Calls] /\ job' \in [Workers -> Jobs]
    BY <1>1, <1>2, GotoTypes
  <2>2. ASSUME NEW x \in Orders PROVE acked'[x] \subseteq Entries(x)'
    <3>1. acked'[x] = acked[x] /\ acked[x] \subseteq Entries(x)
      BY <1>1, <1>2 DEF TypeOK
    <3>2. x = o => Entries(x) = {}
      BY <1>3 DEF Entries
    <3>3. x # o => Entries(x)' = Entries(x)
      BY <1>5 DEF Entries
    <3> QED
      BY <3>1, <3>2, <3>3
  <2> QED
    BY <1>1, <1>2, <1>5, <2>1, <2>2 DEF TypeOK
<1>14. Recorded' /\ RememberedApplied' /\ Bookings'
  BY <1>1, <1>2, <1>8 DEF Recorded, RememberedApplied, Bookings, Inserted
<1> QED
  BY <1>6, <1>9, <1>11, <1>12, <1>13, <1>14 DEF Inv

LEMMA InsertInv ==
  ASSUME Inv, NEW w \in Workers, Insert(w)
  PROVE  Inv'
<1> USE DEF provider, db, redis
<1> DEFINE row == [status |-> "pending", key |-> job[w].key, invoice |-> job[w].invoice]
<1>1. /\ TypeOK /\ Handlers /\ OwnOrder /\ Ledgers /\ Histories /\ Recorded
      /\ RememberedApplied /\ Bookings
  BY DEF Inv
<1>2. /\ pc[w] = "Insert" /\ Goto(w, "Save")
      /\ UNCHANGED <<provider, paid, redis, plain, faults>>
  BY DEF Insert
<1>3. PICK o \in Orders :
        /\ o = job[w].order /\ job[w].key \in Keys /\ job[w].invoice \in Invoices
        /\ ~Inserted(o) /\ Len(ledger[o]) # 0
  BY <1>1, <1>2 DEF Handlers, Knows
<1>4. /\ pc'[w] = "Save" /\ job'[w] = job[w]
      /\ \A v \in Workers \ {w} : pc'[v] = pc[v] /\ job'[v] = job[v]
  BY <1>1, <1>2, GotoStep
<1>5. /\ tx' \in [Orders -> Rows \cup {Absent}] /\ reached' \in [Orders -> SUBSET Statuses]
      /\ Inserted(o)' /\ tx'[o].key = job[w].key /\ tx'[o].status = "pending"
      /\ reached'[o] = {"pending"} /\ reached[o] = {}
      /\ \A x \in Orders \ {o} : tx'[x] = tx[x] /\ reached'[x] = reached[x]
  <2>1. row \in Rows /\ row.key = job[w].key /\ row.status = "pending"
    BY <1>3 DEF Rows
  <2>2. tx' = [tx EXCEPT ![o] = row] /\ reached' = [reached EXCEPT ![o] = {"pending"}]
    BY <1>3 DEF Insert
  <2>3. reached[o] = {}
    BY <1>1, <1>3 DEF Histories
  <2> HIDE DEF row
  <2> QED
    BY <1>1, <1>3, <2>1, <2>2, <2>3, RowsInserted DEF TypeOK, Inserted
<1>6. \A x \in Orders : \A r : Reported(x, r)' <=> Reported(x, r)
  BY <1>2 DEF Reported, Entries
<1>7. Grows /\ (Money => Money')
  BY <1>2, <1>3, <1>5, <1>6, MoneyStays DEF Grows, Inserted
<1>8. Histories'
  BY <1>1, <1>2, <1>3, <1>5, <1>6 DEF Histories, Inserted
<1>9. Knows(w)'
  BY <1>3, <1>4, <1>5 DEF Knows
<1>10. Handlers'
  <2>1. \A x \in Orders \ {o} : Untouched(x)
    BY <1>2, <1>5 DEF Untouched, Inserted
  <2> QED
    BY <1>2, <1>3, <1>4, <1>7, <1>9, <2>1, OthersStay DEF Handlers
<1>11. OwnOrder' /\ Ledgers'
  BY <1>1, <1>2, OwnStays DEF Ledgers, LedgerOK
<1>12. TypeOK'
  <2>1. pc' \in [Workers -> Calls] /\ job' \in [Workers -> Jobs]
    BY <1>1, <1>2, GotoTypes
  <2> QED
    BY <1>1, <1>2, <1>5, <2>1 DEF TypeOK, Entries
<1>13. Recorded' /\ RememberedApplied' /\ Bookings'
  <2>1. Recorded'
    <3>1. idem' = idem /\ idem \in [Keys -> Orders \cup {None}]
      BY <1>1, <1>2 DEF TypeOK
    <3>2. \A x \in Orders : Inserted(x) => Inserted(x)' /\ tx'[x].key = tx[x].key
      BY <1>7 DEF Grows
    <3> QED
      BY <1>1, <3>1, <3>2 DEF Recorded
  <2>2. RememberedApplied'
    BY <1>1, <1>2, <1>7 DEF RememberedApplied, Grows
  <2>3. Bookings'
    BY <1>1, <1>2, <1>7 DEF Bookings
  <2> QED
    BY <2>1, <2>2, <2>3
<1> QED
  BY <1>8, <1>10, <1>11, <1>12, <1>13 DEF Inv

\* A notification or SimulateSettle sets the status, whatever it was.
LEMMA StatusInv ==
  ASSUME Inv, NEW w \in Workers, Update(w) \/ Settle(w)
  PROVE  Inv'
<1> USE DEF provider, db, redis
<1>1. /\ TypeOK /\ Handlers /\ OwnOrder /\ Ledgers /\ Histories /\ Recorded
      /\ RememberedApplied /\ Bookings
  BY DEF Inv
<1>2. UNCHANGED <<provider, paid, redis, faults>> /\ plain' \subseteq plain
  BY DEF Update, Settle
<1>3. PICK o \in Orders : o = job[w].order /\ Inserted(o)
  BY <1>1 DEF Update, Settle, Handlers, Knows
<1>4. PICK s \in Statuses, call \in {"Remember", "MarkPaid"} :
        /\ SetStatus(o, s) /\ Goto(w, call)
        /\ call = "Remember" => /\ job[w].report \in Reports /\ Reported(o, job[w].report)
                                /\ s = StatusOf(job[w].report)
        /\ call = "MarkPaid" => s = "settled" /\ o \notin plain' /\ job[w].invoice \in Invoices
  <2>1. CASE Update(w)
    <3>1. job[w].report \in Reports /\ Reported(o, job[w].report)
      BY <1>1, <1>3, <2>1 DEF Update, Handlers, Knows
    <3> QED
      BY <1>3, <2>1, <3>1, MapTypes DEF Update
  <2>2. CASE Settle(w)
    <3>1. job[w].invoice \in Invoices
      BY <1>1, <2>2 DEF Settle, Handlers, Knows
    <3> QED
      BY <1>3, <2>2, <3>1 DEF Settle
  <2> QED
    BY <2>1, <2>2
<1>5. /\ pc'[w] = call /\ job'[w] = job[w]
      /\ \A v \in Workers \ {w} : pc'[v] = pc[v] /\ job'[v] = job[v]
  BY <1>1, <1>4, GotoStep
<1>6. /\ tx' \in [Orders -> Rows \cup {Absent}] /\ reached' \in [Orders -> SUBSET Statuses]
      /\ Inserted(o)' /\ tx'[o].status = s /\ tx'[o].key = tx[o].key
      /\ reached'[o] = reached[o] \cup {s}
      /\ \A x \in Orders \ {o} : tx'[x] = tx[x] /\ reached'[x] = reached[x]
  BY <1>1, <1>3, <1>4, StatusStep
<1>7. \A x \in Orders : \A r : Reported(x, r)' <=> Reported(x, r)
  BY <1>2 DEF Reported, Entries
<1>8. Grows /\ (Money => Money')
  BY <1>2, <1>3, <1>6, <1>7, MoneyStays DEF Grows, Inserted
<1>9. s = "settled" => Reported(o, "settlement") \/ o \notin plain'
  BY <1>4, MapTypes
<1>10. Histories'
  BY <1>1, <1>2, <1>3, <1>6, <1>7, <1>9 DEF Histories, Inserted
<1>11. call = "MarkPaid" => Money'
  BY <1>3, <1>4, <1>6 DEF Money
<1>12. Knows(w)'
  BY <1>3, <1>4, <1>5, <1>6, <1>7, <1>11 DEF Knows
<1>13. Handlers'
  <2>1. \A x \in Orders : Untouched(x)
    BY <1>2, <1>3, <1>6 DEF Untouched, Inserted
  <2> QED
    BY <1>5, <1>8, <1>12, <2>1, OthersStay DEF Handlers
<1>14. OwnOrder' /\ Ledgers'
  BY <1>1, <1>2, <1>4, OwnStays DEF Ledgers, LedgerOK
<1>15. TypeOK'
  <2>1. pc' \in [Workers -> Calls] /\ job' \in [Workers -> Jobs]
    BY <1>1, <1>4, GotoTypes
  <2> QED
    BY <1>1, <1>2, <1>6, <2>1 DEF TypeOK, Entries
<1>16. Recorded' /\ RememberedApplied' /\ Bookings'
  <2>1. Recorded'
    <3> SUFFICES ASSUME NEW k \in Keys, idem[k] # None
                 PROVE  Inserted(idem[k])' /\ tx'[idem[k]].key = k
      BY <1>2 DEF Recorded
    <3>1. idem[k] \in Orders /\ Inserted(idem[k]) /\ tx[idem[k]].key = k
      BY <1>1 DEF Recorded, TypeOK
    <3>2. idem' = idem
      BY <1>2
    <3>3. \A x \in Orders : Inserted(x) => Inserted(x)' /\ tx'[x].key = tx[x].key
      BY <1>8 DEF Grows
    <3> QED
      BY <3>1, <3>2, <3>3 DEF Inserted
  <2>2. RememberedApplied'
    BY <1>1, <1>2, <1>8 DEF RememberedApplied, Grows
  <2>3. Bookings'
    BY <1>1, <1>2, <1>8 DEF Bookings
  <2> QED
    BY <2>1, <2>2, <2>3
<1> QED
  BY <1>10, <1>13, <1>14, <1>15, <1>16 DEF Inv

-----------------------------------------------------------------------------
(* The provider.                                                           *)

LEMMA LedgerAppend ==
  ASSUME NEW s \in Seq(Reports), LedgerOK(s), s # <<>>, NEW r \in Outcomes(Last(s))
  PROVE  /\ Append(s, r) \in Seq(Reports) /\ LedgerOK(Append(s, r))
         /\ Len(Append(s, r)) = Len(s) + 1
         /\ \A i \in 1..Len(s) : Append(s, r)[i] = s[i]
<1> DEFINE t == Append(s, r)
<1>1. Len(s) \in 1..3
  BY DEF LedgerOK, Outcomes, Last
<1>2. /\ r \in Reports
      /\ Len(s) = 1 => r \in {"settlement", "deny", "expire"}
      /\ Len(s) = 2 => s[2] = "settlement" /\ r \in {"refund", "partial_refund"}
      /\ Len(s) = 3 => s[2] = "settlement" /\ s[3] = "partial_refund" /\ r = "refund"
  BY <1>1 DEF LedgerOK, Outcomes, Last
<1>3. /\ t \in Seq(Reports) /\ Len(t) = Len(s) + 1
      /\ \A i \in 1..Len(s) : t[i] = s[i]
      /\ t[Len(s) + 1] = r
  BY <1>2, AppendProperties
<1> HIDE DEF t
<1>4. s[1] = "pending"
  BY <1>1 DEF LedgerOK
<1>5. CASE Len(s) = 1
  <2>1. Len(t) = 2 /\ t[1] = "pending" /\ t[2] = r
    BY <1>3, <1>4, <1>5
  <2> QED
    BY <1>2, <1>3, <1>5, <2>1 DEF LedgerOK, t
<1>6. CASE Len(s) = 2
  <2>1. Len(t) = 3 /\ t[1] = "pending" /\ t[2] = "settlement" /\ t[3] = r
    BY <1>2, <1>3, <1>4, <1>6
  <2>2. LedgerOK(t)
    BY <1>2, <1>6, <2>1 DEF LedgerOK
  <2> QED
    BY <1>3, <2>2 DEF t
<1>7. CASE Len(s) = 3
  <2>1. /\ Len(t) = 4 /\ t[1] = "pending" /\ t[2] = "settlement"
        /\ t[3] = "partial_refund" /\ t[4] = "refund"
    BY <1>2, <1>3, <1>4, <1>7
  <2>2. LedgerOK(t)
    BY <2>1 DEF LedgerOK
  <2> QED
    BY <1>3, <2>2 DEF t
<1> QED
  BY <1>1, <1>5, <1>6, <1>7

LEMMA ProviderInv ==
  ASSUME Inv, NEW o \in Orders, Provider(o)
  PROVE  Inv'
<1> USE DEF provider, db, redis, local
<1>1. /\ TypeOK /\ Handlers /\ OwnOrder /\ Ledgers /\ Histories /\ Recorded
      /\ RememberedApplied /\ Bookings
  BY DEF Inv
<1>2. UNCHANGED <<db, redis, local, plain, faults>>
  BY DEF Provider, ProviderMoves, Duplicate
<1>3. /\ ledger' \in [Orders -> Seq(Reports)]
      /\ \A x \in Orders : /\ LedgerOK(ledger'[x]) /\ Len(ledger[x]) <= Len(ledger'[x])
                           /\ \A i \in Entries(x) : ledger'[x][i] = ledger[x][i]
                           /\ Len(ledger[x]) = 0 => Len(ledger'[x]) = 0
  <2>1. CASE ProviderMoves(o)
    <3>1. PICK r \in Outcomes(Last(ledger[o])) : ledger' = [ledger EXCEPT ![o] = Append(@, r)]
      BY <2>1 DEF ProviderMoves
    <3>2. ledger[o] \in Seq(Reports) /\ ledger[o] # <<>> /\ LedgerOK(ledger[o])
      BY <1>1, <2>1 DEF ProviderMoves, TypeOK, Ledgers
    <3>3. /\ ledger'[o] = Append(ledger[o], r) /\ \A x \in Orders \ {o} : ledger'[x] = ledger[x]
          /\ Append(ledger[o], r) \in Seq(Reports) => ledger' \in [Orders -> Seq(Reports)]
      BY <1>1, <3>1 DEF TypeOK
    <3>4. /\ Len(ledger[o]) \in Nat /\ Len(ledger[o]) # 0
          /\ \A x \in Orders : Len(ledger[x]) \in Nat
      BY <1>1, <3>2 DEF TypeOK
    <3>5. /\ LedgerOK(ledger'[o]) /\ Len(ledger'[o]) = Len(ledger[o]) + 1
          /\ ledger' \in [Orders -> Seq(Reports)]
          /\ \A i \in 1..Len(ledger[o]) : ledger'[o][i] = ledger[o][i]
      BY <3>2, <3>3, LedgerAppend
    <3>6. ASSUME NEW x \in Orders
          PROVE  /\ LedgerOK(ledger'[x]) /\ Len(ledger[x]) <= Len(ledger'[x])
                 /\ \A i \in Entries(x) : ledger'[x][i] = ledger[x][i]
                 /\ Len(ledger[x]) = 0 => Len(ledger'[x]) = 0
      <4>1. CASE x = o
        BY <3>4, <3>5, <4>1 DEF Entries
      <4>2. CASE x # o
        <5>1. ledger'[x] = ledger[x] /\ LedgerOK(ledger[x]) /\ Len(ledger[x]) \in Nat
          BY <1>1, <3>3, <3>4, <4>2 DEF Ledgers
        <5> QED
          BY <5>1
      <4> QED
        BY <4>1, <4>2
    <3> QED
      BY <3>5, <3>6
  <2>2. CASE \E i \in Entries(o) : Duplicate(o, i)
    <3>1. ledger' = ledger
      BY <2>2 DEF Duplicate
    <3>2. \A x \in Orders : Len(ledger[x]) \in Nat
      BY <1>1 DEF TypeOK
    <3> QED
      BY <1>1, <3>1, <3>2 DEF TypeOK, Ledgers
  <2> QED
    BY <2>1, <2>2 DEF Provider
<1>4. \A x \in Orders : Entries(x) \subseteq Entries(x)'
  BY <1>1, <1>3 DEF Entries, TypeOK
<1>5. /\ acked' \in [Orders -> SUBSET Nat]
      /\ \A x \in Orders : acked'[x] \subseteq Entries(x)
  <2>1. CASE ProviderMoves(o)
    BY <1>1, <2>1 DEF ProviderMoves, TypeOK
  <2>2. CASE \E i \in Entries(o) : Duplicate(o, i)
    BY <1>1, <2>2, AcknowledgeTypes DEF Duplicate
  <2> QED
    BY <2>1, <2>2 DEF Provider
<1>6. TypeOK'
  BY <1>1, <1>2, <1>3, <1>4, <1>5 DEF TypeOK
<1>7. \A x \in Orders, r \in Reports : Reported(x, r) => Reported(x, r)'
  BY <1>3, <1>4 DEF Reported
<1>8. Grows /\ (Money => Money') /\ \A x \in Orders : Untouched(x)
  <2>1. \A x \in Orders : Len(ledger[x]) \in Nat /\ Len(ledger'[x]) \in Nat
    BY <1>1, <1>3 DEF TypeOK
  <2> QED
    BY <1>2, <1>3, <1>7, <2>1, MoneyStays DEF Grows, Untouched, Inserted
<1>9. Ledgers' /\ Histories'
  BY <1>1, <1>2, <1>3, <1>7, <1>8 DEF Ledgers, Histories, Inserted, Grows
<1>10. Handlers'
  <2> SUFFICES ASSUME NEW v \in Workers PROVE Knows(v)'
    BY DEF Handlers
  <2>1. Knows(v) /\ pc'[v] = pc[v] /\ job'[v] = job[v]
    BY <1>1, <1>2 DEF Handlers
  <2>2. pc[v] \in {"Charge", "Insert"} => job[v].order \in Orders
    BY <2>1 DEF Knows
  <2> QED
    BY <1>8, <2>1, <2>2, KnowsStays
<1>11. OwnOrder' /\ Recorded' /\ RememberedApplied' /\ Bookings'
  BY <1>1, <1>2, <1>8 DEF OwnOrder, Recorded, RememberedApplied, Bookings, Inserted
<1> QED
  BY <1>6, <1>9, <1>10, <1>11 DEF Inv

LEMMA NextInv == Inv /\ [Next]_vars => Inv'
<1>1. ASSUME Inv, UNCHANGED vars PROVE Inv'
  <2> USE DEF vars, provider, db, redis, local
  <2>1. Grows /\ Ledgers' /\ Histories' /\ (Money => Money') /\ \A x \in Orders : Untouched(x)
    BY <1>1, SameRows
  <2>2. TypeOK'
    BY <1>1 DEF Inv, TypeOK, Entries
  <2>3. Handlers'
    <3> SUFFICES ASSUME NEW v \in Workers PROVE Knows(v)'
      BY DEF Handlers
    <3>1. Knows(v) /\ (pc[v] \in {"Charge", "Insert"} => job[v].order \in Orders)
      BY <1>1 DEF Inv, Handlers, Knows
    <3> QED
      BY <1>1, <2>1, <3>1, KnowsStays
  <2>4. OwnOrder' /\ Recorded' /\ RememberedApplied' /\ Bookings'
    BY <1>1, <2>1 DEF Inv, OwnOrder, Recorded, RememberedApplied, Bookings, Inserted
  <2> QED
    BY <2>1, <2>2, <2>3, <2>4 DEF Inv
<1> QED
  BY <1>1, RequestInv, ChargeInv, InsertInv, GivesUpInv, SaveInv, StatusInv, RememberInv,
     MarkPaidInv, ProviderInv DEF Next, Step

LEMMA Invariance == Spec => []Inv
  BY InitInv, NextInv, PTL DEF Spec

\* Every variable keeps its type; the provider's acknowledged entries are entries
\* of its ledger.
THEOREM TypeCorrect == Spec => []TypeOK
<1>1. Inv => TypeOK
  BY DEF Inv
<1> QED
  BY <1>1, Invariance, PTL

\* A repeated CreateTransaction is answered with the transaction of its key, which
\* the provider knows and the driver can pay, whatever crashed or was lost.
THEOREM RecordsTruthful == Spec => []IdemTruthful
<1>1. ASSUME Inv PROVE IdemTruthful
  <2> SUFFICES ASSUME NEW k \in Keys, idem[k] # None
               PROVE  tx[idem[k]].key = k /\ ledger[idem[k]] # <<>>
    BY DEF IdemTruthful
  <2>1. /\ idem[k] \in Orders /\ Inserted(idem[k]) /\ tx[idem[k]].key = k
    BY <1>1 DEF Inv, TypeOK, Recorded
  <2>2. Len(ledger[idem[k]]) # 0
    BY <1>1, <2>1 DEF Inv, Histories
  <2> QED
    BY <2>1, <2>2
<1> QED
  BY <1>1, Invariance, PTL

\* A notification that is acknowledged as a duplicate has had its effect, however
\* the handlers that were given it overlapped, crashed or were repeated.
THEOREM DuplicatesApplied == Spec => []RememberedApplied
<1>1. Inv => RememberedApplied
  BY DEF Inv
<1> QED
  BY <1>1, Invariance, PTL

\* No invoice is paid before a settlement has been reported or simulated.
THEOREM PaidAfterMoney == Spec => []PaidByMoney
<1>1. ASSUME Inv PROVE PaidByMoney
  <2>1. \A o \in Orders : Reported(o, "settlement") => "settlement" \in Range(ledger[o])
    <3>1. \A o \in Orders : DOMAIN ledger[o] = Entries(o)
      BY <1>1 DEF Inv, TypeOK, Entries
    <3> QED
      BY <3>1 DEF Reported, Range
  <2> QED
    BY <1>1, <2>1 DEF Inv, Bookings, Money, PaidByMoney
<1> QED
  BY <1>1, Invariance, PTL

-----------------------------------------------------------------------------
(* A settlement stands until the provider reports what came after it.      *)

Handling(o, w) == pc[w] \in {"Update", "Remember"} /\ job[w].order = o

\* While the notifications of an order come in turn and are remembered, one
\* handler at a time is given one that is new, and what was acknowledged is
\* recorded; so "pending" is not handled again once the order is settled.
OrderOK(o) ==
  /\ \A v, w \in Workers : Handling(o, v) /\ Handling(o, w) => v = w
  /\ \A i \in acked[o] : <<o, ledger[o][i]>> \in seen
  /\ \A w \in Workers :
       /\ Handling(o, w) /\ pc[w] = "Update" => <<o, job[w].report>> \notin seen
       /\ Handling(o, w) /\ job[w].report = "settlement" => <<o, "pending">> \in seen
  /\ tx[o].status = "settled" => <<o, "pending">> \in seen

OrderInv == \A o \in plain : OrderOK(o)

LEMMA InitOrder == Init => OrderInv
<1> SUFFICES ASSUME Init, NEW o \in Orders PROVE OrderOK(o)
  BY DEF Init, OrderInv
<1>1. tx[o].status = "none" /\ acked[o] = {} /\ \A w \in Workers : ~Handling(o, w)
  BY DEF Init, Absent, Handling
<1> QED
  BY <1>1 DEF OrderOK

\* Steps without a new notification, an acknowledgement or a record.
LEMMA OrderStays ==
  ASSUME Inv, OrderInv, plain' \subseteq plain, UNCHANGED <<acked, seen>>,
         \A x \in Orders : \A i \in acked[x] : ledger'[x][i] = ledger[x][i],
         \A v \in Workers : pc'[v] \in {"Update", "Remember"} =>
            /\ pc[v] \in {"Update", "Remember"} /\ job'[v] = job[v]
            /\ pc'[v] = "Update" => pc[v] = "Update",
         \A x \in plain' : tx'[x].status = "settled" =>
            tx[x].status = "settled" \/ <<x, "pending">> \in seen
  PROVE  OrderInv'
<1> SUFFICES ASSUME NEW o \in plain' PROVE OrderOK(o)'
  BY DEF OrderInv
<1>1. o \in plain /\ o \in Orders /\ OrderOK(o)
  BY DEF OrderInv, Inv, TypeOK
<1>2. \A v \in Workers : Handling(o, v)' => Handling(o, v) /\ job'[v] = job[v]
  BY DEF Handling
<1>3. (\A v, w \in Workers : Handling(o, v) /\ Handling(o, w) => v = w)'
  BY <1>1, <1>2 DEF OrderOK
<1>4. (\A i \in acked[o] : <<o, ledger[o][i]>> \in seen)'
  BY <1>1 DEF OrderOK
<1>5. (\A w \in Workers :
         /\ Handling(o, w) /\ pc[w] = "Update" => <<o, job[w].report>> \notin seen
         /\ Handling(o, w) /\ job[w].report = "settlement" => <<o, "pending">> \in seen)'
  BY <1>1, <1>2 DEF OrderOK
<1>6. (tx[o].status = "settled" => <<o, "pending">> \in seen)'
  BY <1>1 DEF OrderOK
<1> QED
  BY <1>3, <1>4, <1>5, <1>6 DEF OrderOK

\* A handler that goes on, with another call than Remember's.
LEMMA OrderGoesOn ==
  ASSUME Inv, OrderInv, NEW w \in Workers,
         Charge(w) \/ Insert(w) \/ InsertFails(w) \/ Save(w) \/ Update(w) \/ Settle(w)
           \/ MarkPaid(w) \/ Dropped(w) \/ Crash(w)
  PROVE  OrderInv'
<1> USE DEF provider, db, redis
<1>1. TypeOK /\ Handlers
  BY DEF Inv
<1>2. plain' \subseteq plain /\ UNCHANGED <<acked, seen>>
  BY DEF Charge, Insert, InsertFails, Save, Update, Settle, MarkPaid, Dropped, Crash
<1>3. \A x \in Orders : \A i \in acked[x] : ledger'[x][i] = ledger[x][i]
  <2>1. CASE Charge(w)
    <3>1. job[w].order \in Orders /\ Len(ledger[job[w].order]) = 0
      BY <1>1, <2>1 DEF Charge, Handlers, Knows
    <3>2. acked[job[w].order] = {}
      BY <1>1, <3>1 DEF TypeOK, Entries
    <3> QED
      BY <1>1, <2>1, <3>2 DEF Charge, TypeOK
  <2>2. CASE ~Charge(w)
    BY <2>2 DEF Insert, InsertFails, Save, Update, Settle, MarkPaid, Dropped, Crash
  <2> QED
    BY <2>1, <2>2
<1>4. \A v \in Workers : pc'[v] \in {"Update", "Remember"} =>
         /\ pc[v] \in {"Update", "Remember"} /\ job'[v] = job[v]
         /\ pc'[v] = "Update" => pc[v] = "Update"
  BY <1>1, GotoStep
  DEF Charge, Insert, InsertFails, Save, Update, Settle, MarkPaid, Dropped, Crash
<1>5. \A x \in plain' : tx'[x].status = "settled" =>
         tx[x].status = "settled" \/ <<x, "pending">> \in seen
  <2>1. CASE Insert(w)
    <3> DEFINE row == [status |-> "pending", key |-> job[w].key, invoice |-> job[w].invoice]
    <3>1. job[w].order \in Orders /\ row.status = "pending"
      BY <1>1, <2>1 DEF Insert, Handlers, Knows
    <3>2. tx' = [tx EXCEPT ![job[w].order] = row]
      BY <2>1 DEF Insert
    <3> HIDE DEF row
    <3> QED
      BY <1>1, <1>2, <3>1, <3>2 DEF TypeOK
  <2>2. CASE Update(w)
    <3>1. /\ job[w].order \in Orders /\ Inserted(job[w].order) /\ job[w].report \in Reports
      BY <1>1, <2>2 DEF Update, Handlers, Knows
    <3>2. /\ tx'[job[w].order].status = StatusOf(job[w].report)
          /\ \A x \in Orders \ {job[w].order} : tx'[x] = tx[x]
      BY <1>1, <2>2, <3>1, MapTypes, StatusStep DEF Update
    <3>3. ASSUME job[w].order \in plain, job[w].report = "settlement"
          PROVE  <<job[w].order, "pending">> \in seen
      BY <2>2, <3>3 DEF Update, OrderInv, OrderOK, Handling
    <3> QED
      BY <1>1, <1>2, <3>1, <3>2, <3>3, MapTypes DEF TypeOK
  <2>3. CASE Settle(w)
    <3>1. job[w].order \in Orders /\ Inserted(job[w].order)
      BY <1>1, <2>3 DEF Settle, Handlers, Knows
    <3>2. \A x \in Orders \ {job[w].order} : tx'[x] = tx[x]
      BY <1>1, <2>3, <3>1, StatusStep DEF Settle
    <3> QED
      BY <1>1, <2>3, <3>2 DEF Settle, TypeOK
  <2>4. CASE ~Insert(w) /\ ~Update(w) /\ ~Settle(w)
    BY <2>4 DEF Charge, InsertFails, Save, MarkPaid, Dropped, Crash
  <2> QED
    BY <2>1, <2>2, <2>3, <2>4
<1> QED
  BY <1>2, <1>3, <1>4, <1>5, OrderStays

LEMMA RequestOrder ==
  ASSUME Inv, OrderInv, NEW w \in Workers, Request(w)
  PROVE  OrderInv'
<1> USE DEF provider, db, redis
<1>1. TypeOK
  BY DEF Inv
<1>2. UNCHANGED <<provider, db, redis, plain>>
  BY DEF Request, CreateRequest, SettleRequest, ConfirmRequest
<1>3. PICK call \in {"Charge", "Settle", "MarkPaid"} : \E j : Begin(w, call, j)
  BY DEF Request, CreateRequest, SettleRequest, ConfirmRequest
<1>4. pc'[w] = call /\ \A v \in Workers \ {w} : pc'[v] = pc[v] /\ job'[v] = job[v]
  BY <1>1, <1>3, BeginStep
<1> QED
  BY <1>2, <1>4, OrderStays

\* A notification in turn finds its predecessors recorded, and no other handler.
LEMMA DeliverOrder ==
  ASSUME Inv, OrderInv, NEW w \in Workers, NEW o \in Orders, NEW i \in Entries(o),
         Deliver(w, o, i)
  PROVE  OrderInv'
<1> USE DEF provider, db, redis
<1> DEFINE j == [order |-> o, key |-> None, invoice |-> None, report |-> ledger[o][i]]
<1>1. TypeOK /\ Ledgers
  BY DEF Inv
<1>2. /\ UNCHANGED <<provider, db, redis>> /\ plain' \subseteq plain
      /\ Begin(w, "Update", j) /\ <<o, ledger[o][i]>> \notin seen
      /\ o \in plain' => InTurn(o, i)
  BY DEF Deliver
<1>3. j.order = o /\ j.report = ledger[o][i]
  OBVIOUS
<1> HIDE DEF j
<1>4. /\ pc[w] = "idle" /\ pc'[w] = "Update" /\ job'[w].order = o
      /\ job'[w].report = ledger[o][i]
      /\ \A v \in Workers \ {w} : pc'[v] = pc[v] /\ job'[v] = job[v]
  BY <1>1, <1>2, <1>3, BeginStep
<1>5. ASSUME NEW x \in plain', x # o PROVE OrderOK(x)'
  <2>1. OrderOK(x)
    BY <1>2, <1>5 DEF OrderInv
  <2>2. ~Handling(x, w)' /\ \A v \in Workers \ {w} : Handling(x, v)' => Handling(x, v)
    BY <1>4, <1>5 DEF Handling
  <2> QED
    BY <1>2, <1>4, <2>1, <2>2 DEF OrderOK
<1>6. ASSUME o \in plain' PROVE OrderOK(o)'
  <2>1. OrderOK(o) /\ InTurn(o, i)
    BY <1>2, <1>6 DEF OrderInv
  <2>2. \A v \in Workers \ {w} : ~Handling(o, v)'
    BY <1>4, <2>1 DEF Handling, InTurn
  <2>3. ledger[o][i] = "settlement" => <<o, "pending">> \in seen
    <3>1. LedgerOK(ledger[o]) /\ i \in 1..Len(ledger[o])
      BY <1>1 DEF Ledgers, Entries
    <3>2. Len(ledger[o]) \in 0..4
      BY <3>1 DEF LedgerOK
    <3>3. i \in 1..4 /\ i <= Len(ledger[o])
      <4>1. PICK n \in 0..4 : n = Len(ledger[o])
        BY <3>2
      <4>2. i \in 1..n
        BY <3>1, <4>1
      <4>3. i \in 1..4 /\ i <= n
        BY <4>2
      <4> QED
        BY <4>1, <4>3
    <3>4. ledger[o][i] = "settlement" => i = 2 /\ ledger[o][1] = "pending"
      BY <3>1, <3>2, <3>3 DEF LedgerOK
    <3>5. i = 2 => 1 \in acked[o]
      BY <2>1 DEF InTurn
    <3> QED
      BY <2>1, <3>4, <3>5 DEF OrderOK
  <2> QED
    BY <1>2, <1>4, <2>1, <2>2, <2>3 DEF OrderOK
<1> QED
  BY <1>5, <1>6 DEF OrderInv

\* The record and the acknowledgement name the notification that was handled.
LEMMA RememberOrder ==
  ASSUME Inv, OrderInv, NEW w \in Workers, Remember(w) \/ RememberFails(w)
  PROVE  OrderInv'
<1> USE DEF provider, db, redis
<1>1. TypeOK /\ Handlers
  BY DEF Inv
<1>2. PICK o \in Orders : o = job[w].order
  BY <1>1 DEF Remember, RememberFails, Handlers, Knows
<1>3. /\ pc[w] = "Remember" /\ UNCHANGED <<ledger, tx>> /\ plain' \subseteq plain
      /\ Goto(w, "idle") /\ Acknowledge(o, job[w].report)
      /\ seen' \subseteq seen \cup {<<o, job[w].report>>} /\ seen \subseteq seen'
      /\ o \in plain' => <<o, job[w].report>> \in seen'
  BY <1>2 DEF Remember, RememberFails
<1>4. pc'[w] = "idle" /\ \A v \in Workers \ {w} : pc'[v] = pc[v] /\ job'[v] = job[v]
  BY <1>1, <1>3, GotoStep
<1>5. /\ acked'[o] = acked[o] \cup {i \in Entries(o) : ledger[o][i] = job[w].report}
      /\ \A x \in Orders \ {o} : acked'[x] = acked[x]
  BY <1>1, <1>3, AcknowledgeTypes
<1> SUFFICES ASSUME NEW x \in plain' PROVE OrderOK(x)'
  BY DEF OrderInv
<1>6. x \in Orders /\ OrderOK(x)
  BY <1>1, <1>3 DEF OrderInv, TypeOK
<1>7. \A v \in Workers : Handling(x, v)' => v # w /\ Handling(x, v)
  BY <1>4 DEF Handling
<1>8. (\A v, u \in Workers : Handling(x, v) /\ Handling(x, u) => v = u)'
  BY <1>6, <1>7 DEF OrderOK
<1>9. (\A i \in acked[x] : <<x, ledger[x][i]>> \in seen)'
  BY <1>3, <1>5, <1>6 DEF OrderOK
<1>10. (\A v \in Workers :
         /\ Handling(x, v) /\ pc[v] = "Update" => <<x, job[v].report>> \notin seen
         /\ Handling(x, v) /\ job[v].report = "settlement" => <<x, "pending">> \in seen)'
  <2>1. Handling(o, w)
    BY <1>2, <1>3 DEF Handling
  <2>2. \A v \in Workers : Handling(x, v)' => x # o
    BY <1>6, <1>7, <2>1 DEF OrderOK
  <2> QED
    BY <1>3, <1>4, <1>6, <1>7, <2>2 DEF OrderOK
<1>11. (tx[x].status = "settled" => <<x, "pending">> \in seen)'
  BY <1>3, <1>6 DEF OrderOK
<1> QED
  BY <1>8, <1>9, <1>10, <1>11 DEF OrderOK

LEMMA ProviderOrder ==
  ASSUME Inv, OrderInv, NEW o \in Orders, Provider(o)
  PROVE  OrderInv'
<1> USE DEF provider, db, redis, local
<1>1. TypeOK /\ \A x \in Orders : Len(ledger[x]) \in Nat
  BY DEF Inv, TypeOK
<1>2. CASE ProviderMoves(o)
  <2>1. PICK r : ledger' = [ledger EXCEPT ![o] = Append(@, r)] /\ r \in Outcomes(Last(ledger[o]))
    BY <1>2 DEF ProviderMoves
  <2>2. r \in Reports /\ ledger[o] \in Seq(Reports)
    BY <1>1, <2>1 DEF TypeOK, Outcomes
  <2>3. /\ \A i \in Entries(o) : ledger'[o][i] = ledger[o][i]
        /\ \A x \in Orders \ {o} : ledger'[x] = ledger[x]
    BY <1>1, <2>1, <2>2, AppendProperties DEF TypeOK, Entries
  <2>4. \A x \in Orders : \A i \in acked[x] : ledger'[x][i] = ledger[x][i]
    BY <1>1, <2>3 DEF TypeOK
  <2> QED
    BY <1>2, <2>4, OrderStays DEF ProviderMoves
<1>3. CASE \E i \in Entries(o) : Duplicate(o, i)
  <2>1. PICK i \in Entries(o) : Duplicate(o, i)
    BY <1>3
  <2>2. /\ UNCHANGED <<ledger, db, redis, local, plain>> /\ <<o, ledger[o][i]>> \in seen
        /\ Acknowledge(o, ledger[o][i])
    BY <2>1 DEF Duplicate
  <2>3. /\ acked'[o] = acked[o] \cup {n \in Entries(o) : ledger[o][n] = ledger[o][i]}
        /\ \A x \in Orders \ {o} : acked'[x] = acked[x]
    BY <1>1, <2>2, AcknowledgeTypes
  <2> SUFFICES ASSUME NEW x \in plain PROVE OrderOK(x)'
    BY <2>2 DEF OrderInv
  <2>4. x \in Orders /\ OrderOK(x)
    BY <1>1 DEF TypeOK, OrderInv
  <2>5. \A n \in acked'[x] : <<x, ledger[x][n]>> \in seen
    BY <2>2, <2>3, <2>4 DEF OrderOK
  <2> QED
    BY <2>2, <2>4, <2>5 DEF OrderOK, Handling
<1> QED
  BY <1>2, <1>3 DEF Provider

LEMMA NextOrder == Inv /\ OrderInv /\ [Next]_vars => OrderInv'
<1>1. ASSUME OrderInv, UNCHANGED vars PROVE OrderInv'
  <2> SUFFICES ASSUME NEW o \in plain PROVE OrderOK(o)'
    BY <1>1 DEF OrderInv, vars
  <2>1. OrderOK(o)
    BY <1>1 DEF OrderInv
  <2> QED
    BY <1>1, <2>1 DEF OrderOK, Handling, vars, provider, db, redis, local
<1>2. ASSUME Inv, OrderInv, NEW w \in Workers, Webhook(w) PROVE OrderInv'
  BY <1>2, DeliverOrder DEF Webhook
<1> QED
  BY <1>1, <1>2, RequestOrder, OrderGoesOn, RememberOrder, ProviderOrder DEF Next, Step

\* The entry that a handler is about to write, and that has come after a settlement.
After(o, w, i) ==
  /\ Handling(o, w) /\ job[w].report = ledger[o][i]
  /\ \E n \in Entries(o) : n < i /\ ledger[o][n] = "settlement"

\* Of the reports of a settled order that came before the settlement there is only
\* "pending", and that one has been recorded.
LEMMA NextSettled ==
  ASSUME Inv, OrderInv, [Next]_vars, NEW o \in Orders, o \in plain',
         tx[o].status = "settled", tx'[o].status # "settled"
  PROVE  \E i \in Entries(o), w \in Workers :
           After(o, w, i) /\ tx'[o].status = StatusOf(ledger[o][i])
<1> USE DEF provider, db, redis, local, vars
<1>1. TypeOK /\ Handlers /\ Ledgers /\ Histories
  BY DEF Inv
<1>3. ASSUME NEW w \in Workers, Insert(w) PROVE tx'[o] = tx[o]
  <2>1. job[w].order \in Orders /\ ~Inserted(job[w].order)
    BY <1>1, <1>3 DEF Insert, Handlers, Knows
  <2>2. job[w].order # o
    BY <2>1 DEF Inserted, Absent
  <2> QED
    BY <1>1, <1>3, <2>1, <2>2 DEF Insert, TypeOK
<1>4. ASSUME NEW w \in Workers, Settle(w) PROVE tx'[o] = tx[o]
  <2>1. job[w].order \in Orders /\ Inserted(job[w].order)
    BY <1>1, <1>4 DEF Settle, Handlers, Knows
  <2>2. job[w].order # o
    BY <1>4 DEF Settle
  <2> QED
    BY <1>1, <1>4, <2>1, <2>2, StatusStep DEF Settle
<1>5. ASSUME NEW w \in Workers, Update(w), job[w].order # o PROVE tx'[o] = tx[o]
  <2>1. job[w].order \in Orders /\ Inserted(job[w].order) /\ job[w].report \in Reports
    BY <1>1, <1>5 DEF Update, Handlers, Knows
  <2> QED
    BY <1>1, <1>5, <2>1, MapTypes, StatusStep DEF Update
<1>6. ASSUME NEW w \in Workers, Update(w), job[w].order = o
      PROVE  \E i \in Entries(o) : After(o, w, i) /\ tx'[o].status = StatusOf(ledger[o][i])
  <2>1. /\ Inserted(o) /\ job[w].report \in Reports /\ Reported(o, job[w].report)
        /\ pc[w] = "Update"
    BY <1>1, <1>6 DEF Update, Handlers, Knows
  <2>2. tx'[o].status = StatusOf(job[w].report) /\ o \in plain
    BY <1>1, <1>6, <2>1, MapTypes, StatusStep DEF Update
  <2>3. <<o, "pending">> \in seen /\ <<o, job[w].report>> \notin seen
    BY <1>6, <2>1, <2>2 DEF OrderInv, OrderOK, Handling
  <2>4. PICK m \in Entries(o) : ledger[o][m] = "settlement"
    BY <1>1, <2>1, <2>2 DEF Histories, Reported
  <2>5. PICK i \in Entries(o) : ledger[o][i] = job[w].report
    BY <2>1 DEF Reported
  <2>6. m < i
    <3>1. LedgerOK(ledger[o])
      BY <1>1 DEF Ledgers
    <3>2. PICK n \in 0..4 : n = Len(ledger[o])
      BY <3>1 DEF LedgerOK
    <3>3. m \in 1..4 /\ i \in 1..4 /\ m <= n /\ i <= n
      <4>1. m \in 1..n /\ i \in 1..n
        BY <3>2 DEF Entries
      <4> QED
        BY <4>1
    <3>4. m = 2
      BY <2>4, <3>1, <3>2, <3>3 DEF LedgerOK
    <3>5. i # 1
      BY <2>3, <2>5, <3>1, <3>2, <3>3 DEF LedgerOK
    <3>6. i # 2
      BY <2>2, <2>4, <2>5, <3>4, MapTypes
    <3> QED
      BY <3>3, <3>4, <3>5, <3>6
  <2>7. Handling(o, w)
    BY <1>6, <2>1 DEF Handling
  <2> QED
    BY <2>2, <2>4, <2>5, <2>6, <2>7 DEF After
<1>7. tx' = tx \/ \E w \in Workers : Insert(w) \/ Update(w) \/ Settle(w)
  BY DEF Next, Request, CreateRequest, SettleRequest, ConfirmRequest, Webhook, Deliver,
         Step, Charge, InsertFails, Save, Remember, RememberFails, MarkPaid, Dropped, Crash,
         Provider, ProviderMoves, Duplicate
<1> QED
  BY <1>3, <1>4, <1>5, <1>6, <1>7

\* Nothing takes a settlement back but an entry that came after it at the provider (a
\* refund, or one the service does not know and takes for "pending"), at the moment
\* its notification is handled.
SettledUntilReported ==
  [][\A o \in Orders :
       o \in plain' /\ tx[o].status = "settled" /\ tx'[o].status # "settled" =>
         \E i \in Entries(o), w \in Workers :
           After(o, w, i) /\ tx'[o].status = StatusOf(ledger[o][i])]_vars

\* The UPDATE is unconditional, and yet no notification from before the settlement,
\* repeated on its own or after a crash, takes it back, as long as those of the order
\* come in turn and are recorded, and nobody simulates a settlement.
THEOREM SettlementStands == Spec => SettledUntilReported
<1>1. Init => Inv /\ OrderInv
  BY InitInv, InitOrder
<1>2. Inv /\ OrderInv /\ [Next]_vars => (Inv /\ OrderInv)'
  BY NextInv, NextOrder
<1>3. Inv /\ OrderInv /\ [Next]_vars
        => [\A o \in Orders :
              o \in plain' /\ tx[o].status = "settled" /\ tx'[o].status # "settled" =>
                \E i \in Entries(o), w \in Workers :
                  After(o, w, i) /\ tx'[o].status = StatusOf(ledger[o][i])]_vars
  BY NextSettled
<1> QED
  BY <1>1, <1>2, <1>3, PTL DEF Spec, SettledUntilReported

-----------------------------------------------------------------------------
(* What the provider has delivered, the row tells.                         *)

\* The row has the status that entry i of the ledger stands for.
Applied(o, i) == tx[o].status = StatusOf(ledger[o][i])

\* The entries of a plain order are acknowledged from the first on; the next one is
\* being handled, if any; and the row tells the last one, acknowledged or not.
Follows(o) ==
  /\ \A i \in acked[o] : 1..i \subseteq acked[o]
  /\ \A w \in Workers : \A i \in Entries(o) :
       Handling(o, w) /\ job[w].report = ledger[o][i] =>
         /\ acked[o] = 1..(i - 1)
         /\ pc[w] = "Remember" => Applied(o, i)
  /\ Inserted(o) => \E i \in Entries(o) : /\ 1..(i - 1) \subseteq acked[o]
                                          /\ acked[o] \subseteq 1..i
                                          /\ Applied(o, i)

\* A record is that of a report, and each entry it stands for is acknowledged.
Seen ==
  \A o \in Orders, r \in Reports : <<o, r>> \in seen =>
    /\ Reported(o, r)
    /\ \A i \in Entries(o) : ledger[o][i] = r => i \in acked[o]

FollowInv == Seen /\ \A o \in plain : Follows(o)

\* No entry of a ledger is taken back, and none is repeated.
Kept == \A o \in Orders : \A i \in Entries(o) : i \in Entries(o)' /\ ledger'[o][i] = ledger[o][i]

LEMMA EntriesDiffer ==
  ASSUME NEW s, LedgerOK(s), NEW i \in 1..Len(s), NEW j \in 1..Len(s), s[i] = s[j]
  PROVE  i = j
<1>1. PICK n \in 0..4 : n = Len(s)
  BY DEF LedgerOK
<1>2. i \in 1..n /\ j \in 1..n
  BY <1>1
<1>3. i \in 1..4 /\ j \in 1..4 /\ i <= n /\ j <= n
  BY <1>2
<1> QED
  BY <1>1, <1>3 DEF LedgerOK

LEMMA NextKept == Inv /\ Next => Kept
<1> SUFFICES ASSUME Inv, Next PROVE Kept
  OBVIOUS
<1> USE DEF provider, db, redis, local
<1>1. TypeOK /\ Handlers /\ \A x \in Orders : Len(ledger[x]) \in Nat
  BY DEF Inv, TypeOK
<1>2. CASE ledger' = ledger
  BY <1>2 DEF Kept, Entries
<1>3. ASSUME NEW w \in Workers, Charge(w) PROVE Kept
  <2>1. job[w].order \in Orders /\ Len(ledger[job[w].order]) = 0
    BY <1>1, <1>3 DEF Charge, Handlers, Knows
  <2>2. Entries(job[w].order) = {}
    BY <2>1 DEF Entries
  <2>3. \A x \in Orders : x # job[w].order => ledger'[x] = ledger[x]
    BY <1>1, <1>3 DEF Charge, TypeOK
  <2> QED
    BY <2>2, <2>3 DEF Kept, Entries
<1>4. ASSUME NEW o \in Orders, ProviderMoves(o) PROVE Kept
  <2>1. PICK r : ledger' = [ledger EXCEPT ![o] = Append(@, r)] /\ r \in Outcomes(Last(ledger[o]))
    BY <1>4 DEF ProviderMoves
  <2>2. r \in Reports /\ ledger[o] \in Seq(Reports)
    BY <1>1, <2>1 DEF TypeOK, Outcomes
  <2>3. /\ \A i \in Entries(o) : i \in Entries(o)' /\ ledger'[o][i] = ledger[o][i]
        /\ \A x \in Orders \ {o} : ledger'[x] = ledger[x]
    BY <1>1, <2>1, <2>2, AppendProperties DEF TypeOK, Entries
  <2> QED
    BY <2>3 DEF Kept, Entries
<1>5. \/ ledger' = ledger
      \/ \E w \in Workers : Charge(w)
      \/ \E o \in Orders : ProviderMoves(o)
  BY DEF Next, Request, CreateRequest, SettleRequest, ConfirmRequest, Webhook, Deliver,
         Step, Insert, InsertFails, Save, Update, Remember, RememberFails, Settle, MarkPaid,
         Dropped, Crash, Provider, Duplicate
<1> QED
  BY <1>2, <1>3, <1>4, <1>5

\* An entry that is named by a report of old is an old entry.
LEMMA SameEntry ==
  ASSUME Kept, Ledgers', NEW o \in Orders, NEW r, Reported(o, r),
         NEW i \in Entries(o)', ledger'[o][i] = r
  PROVE  i \in Entries(o) /\ ledger[o][i] = r
<1>1. PICK n \in Entries(o) : ledger[o][n] = r
  BY DEF Reported
<1>2. n \in Entries(o)' /\ ledger'[o][n] = r
  BY <1>1 DEF Kept
<1>3. LedgerOK(ledger'[o])
  BY DEF Ledgers
<1>4. i = n
  BY <1>2, <1>3, EntriesDiffer DEF Entries
<1> QED
  BY <1>1, <1>4

LEMMA InitFollow == Init => FollowInv
<1> SUFFICES ASSUME Init PROVE FollowInv
  OBVIOUS
<1>1. seen = {} /\ \A o \in Orders : ~Inserted(o) /\ acked[o] = {} /\ \A w \in Workers : ~Handling(o, w)
  BY DEF Init, Inserted, Handling
<1> QED
  BY <1>1 DEF Init, FollowInv, Seen, Follows

\* Steps without a record.
LEMMA SeenStays ==
  ASSUME Inv, Inv', Kept, Seen, seen' = seen,
         \A o \in Orders : acked[o] \subseteq acked'[o]
  PROVE  Seen'
<1> SUFFICES ASSUME NEW o \in Orders, NEW r \in Reports, <<o, r>> \in seen
             PROVE  /\ Reported(o, r)'
                    /\ \A i \in Entries(o)' : ledger'[o][i] = r => i \in acked'[o]
  BY DEF Seen
<1>1. Reported(o, r) /\ \A i \in Entries(o) : ledger[o][i] = r => i \in acked[o]
  BY DEF Seen
<1>2. Reported(o, r)'
  BY <1>1 DEF Reported, Kept
<1>3. Ledgers'
  BY DEF Inv
<1> QED
  BY <1>1, <1>2, <1>3, SameEntry

\* An order whose row, handlers and acknowledgements are as they were.
LEMMA FollowStays ==
  ASSUME Inv, Inv', Kept, NEW o \in Orders, Follows(o),
         tx'[o] = tx[o], acked'[o] = acked[o],
         \A v \in Workers : Handling(o, v)' =>
            /\ Handling(o, v) /\ job'[v] = job[v]
            /\ pc'[v] = "Remember" => pc[v] = "Remember"
  PROVE  Follows(o)'
<1>1. TypeOK /\ Handlers /\ Ledgers'
  BY DEF Inv
<1>2. (\A i \in acked[o] : 1..i \subseteq acked[o])'
  BY DEF Follows
<1>3. \A i \in Entries(o) : Applied(o, i) => Applied(o, i)'
  BY DEF Applied, Kept
<1>4. (\A w \in Workers : \A i \in Entries(o) :
         Handling(o, w) /\ job[w].report = ledger[o][i] =>
           /\ acked[o] = 1..(i - 1)
           /\ pc[w] = "Remember" => Applied(o, i))'
  <2> SUFFICES ASSUME NEW v \in Workers, NEW i \in Entries(o)', Handling(o, v)',
                      job'[v].report = ledger'[o][i]
               PROVE  acked[o] = 1..(i - 1) /\ (pc'[v] = "Remember" => Applied(o, i)')
    OBVIOUS
  <2>1. Handling(o, v) /\ job'[v] = job[v] /\ (pc'[v] = "Remember" => pc[v] = "Remember")
    OBVIOUS
  <2>2. Reported(o, job[v].report)
    BY <1>1, <2>1 DEF Handling, Handlers, Knows
  <2>3. i \in Entries(o) /\ ledger[o][i] = job[v].report
    BY <1>1, <2>1, <2>2, SameEntry
  <2> QED
    BY <1>3, <2>1, <2>3 DEF Follows
<1>5. (Inserted(o) => \E i \in Entries(o) : /\ 1..(i - 1) \subseteq acked[o]
                                            /\ acked[o] \subseteq 1..i
                                            /\ Applied(o, i))'
  BY <1>3 DEF Follows, Inserted, Kept
<1> QED
  BY <1>2, <1>4, <1>5 DEF Follows

\* An order without a row has no record, no acknowledgement and no handler of its
\* notifications.
LEMMA NoRowNoAck ==
  ASSUME Inv, OrderInv, NEW o \in plain, ~Inserted(o)
  PROVE  acked[o] = {} /\ \A w \in Workers : ~Handling(o, w)
<1>1. /\ TypeOK /\ Handlers /\ Histories /\ RememberedApplied /\ o \in Orders /\ OrderOK(o)
  BY DEF Inv, TypeOK, OrderInv
<1>2. \A i \in acked[o] : i \in Entries(o) /\ ledger[o][i] \in Reports
  BY <1>1 DEF TypeOK, Entries
<1>3. \A i \in acked[o] : <<o, ledger[o][i]>> \in seen
  BY <1>1 DEF OrderOK
<1>4. reached[o] = {}
  BY <1>1 DEF Histories
<1>5. acked[o] = {}
  BY <1>1, <1>2, <1>3, <1>4 DEF RememberedApplied
<1>6. \A w \in Workers : ~Handling(o, w)
  BY <1>1 DEF Handlers, Knows, Handling
<1> QED
  BY <1>5, <1>6

\* The row is inserted: it tells the first entry, which nobody has heard of yet.
LEMMA InsertFollow ==
  ASSUME Inv, Inv', OrderInv, Kept, FollowInv, NEW w \in Workers, Insert(w)
  PROVE  FollowInv'
<1> USE DEF provider, db, redis
<1>1. TypeOK /\ Handlers /\ Ledgers /\ Ledgers'
  BY DEF Inv
<1>2. PICK o \in Orders : o = job[w].order
  BY <1>1 DEF Insert, Handlers, Knows
<1>3. /\ pc[w] = "Insert" /\ Goto(w, "Save") /\ UNCHANGED <<ledger, acked, seen, plain>>
      /\ ~Inserted(o) /\ Len(ledger[o]) # 0
  BY <1>1, <1>2 DEF Insert, Handlers, Knows
<1>4. pc'[w] = "Save" /\ \A v \in Workers \ {w} : pc'[v] = pc[v] /\ job'[v] = job[v]
  BY <1>1, <1>3, GotoStep
<1>5. tx'[o].status = "pending" /\ \A x \in Orders \ {o} : tx'[x] = tx[x]
  <2> DEFINE row == [status |-> "pending", key |-> job[w].key, invoice |-> job[w].invoice]
  <2>1. tx' = [tx EXCEPT ![o] = row] /\ row.status = "pending"
    BY <1>2 DEF Insert
  <2> HIDE DEF row
  <2> QED
    BY <1>1, <2>1 DEF TypeOK
<1>6. Seen'
  BY <1>3, SeenStays DEF FollowInv
<1>7. \A x \in Orders, v \in Workers : Handling(x, v)' =>
        Handling(x, v) /\ job'[v] = job[v] /\ pc'[v] = pc[v]
  BY <1>4 DEF Handling
<1>8. ASSUME NEW x \in plain, x # o PROVE Follows(x)'
  BY <1>1, <1>3, <1>5, <1>7, <1>8, FollowStays DEF TypeOK, FollowInv
<1>9. ASSUME o \in plain PROVE Follows(o)'
  <2>1. acked'[o] = {} /\ \A v \in Workers : ~Handling(o, v)'
    BY <1>3, <1>7, <1>9, NoRowNoAck
  <2>2. 1 \in Entries(o)' /\ ledger'[o][1] = "pending"
    <3>1. LedgerOK(ledger[o])
      BY <1>1 DEF Ledgers
    <3> QED
      BY <1>3, <3>1 DEF Entries, LedgerOK
  <2>3. Applied(o, 1)'
    BY <1>5, <2>2 DEF Applied, StatusOf, mapMidtransStatus
  <2>4. 1..(1 - 1) = {}
    OBVIOUS
  <2> QED
    BY <2>1, <2>2, <2>3, <2>4 DEF Follows
<1> QED
  BY <1>3, <1>6, <1>8, <1>9 DEF FollowInv

\* The row follows the entry that is handled, which is the next one.
LEMMA UpdateFollow ==
  ASSUME Inv, Inv', Kept, FollowInv, NEW w \in Workers, Update(w), OrderInv
  PROVE  FollowInv'
<1> USE DEF provider, db, redis
<1>1. TypeOK /\ Handlers /\ Ledgers
  BY DEF Inv
<1>2. PICK o \in Orders : o = job[w].order
  BY <1>1 DEF Update, Handlers, Knows
<1>3. /\ pc[w] = "Update" /\ Goto(w, "Remember") /\ UNCHANGED <<ledger, acked, seen, plain>>
      /\ Inserted(o) /\ job[w].report \in Reports /\ Reported(o, job[w].report)
  BY <1>1, <1>2 DEF Update, Handlers, Knows
<1>4. /\ pc'[w] = "Remember" /\ job'[w] = job[w]
      /\ \A v \in Workers \ {w} : pc'[v] = pc[v] /\ job'[v] = job[v]
  BY <1>1, <1>3, GotoStep
<1>5. /\ tx'[o].status = StatusOf(job[w].report) /\ Inserted(o)'
      /\ \A x \in Orders \ {o} : tx'[x] = tx[x]
  BY <1>1, <1>2, <1>3, MapTypes, StatusStep DEF Update
<1>6. Seen'
  BY <1>3, SeenStays DEF FollowInv
<1>7. ASSUME NEW x \in plain, x # o PROVE Follows(x)'
  <2>1. \A v \in Workers : Handling(x, v)' => v # w
    BY <1>2, <1>4, <1>7 DEF Handling
  <2>2. \A v \in Workers : Handling(x, v)' =>
          Handling(x, v) /\ job'[v] = job[v] /\ pc'[v] = pc[v]
    BY <1>4, <2>1 DEF Handling
  <2> QED
    BY <1>1, <1>3, <1>5, <1>7, <2>2, FollowStays DEF TypeOK, FollowInv
<1>8. ASSUME o \in plain PROVE Follows(o)'
  <2>1. Follows(o) /\ OrderOK(o) /\ Handling(o, w)
    BY <1>2, <1>3, <1>8 DEF FollowInv, OrderInv, Handling
  <2>2. \A v \in Workers : Handling(o, v)' => v = w
    BY <1>2, <1>4, <2>1 DEF OrderOK, Handling
  <2>3. PICK i \in Entries(o) : ledger[o][i] = job[w].report
    BY <1>3 DEF Reported
  <2>4. acked[o] = 1..(i - 1) /\ i \in Nat
    BY <1>1, <2>1, <2>3 DEF Follows, Entries, TypeOK
  <2>5. Applied(o, i)' /\ Entries(o)' = Entries(o)
    BY <1>3, <1>5, <2>3 DEF Applied, Entries
  <2>6. \A j \in Entries(o) : ledger[o][j] = job[w].report => j = i
    BY <1>1, <2>3, EntriesDiffer DEF Ledgers, Entries
  <2>7. acked'[o] = 1..(i - 1) /\ acked'[o] \subseteq 1..i
    BY <1>3, <2>4
  <2>8. \A j \in acked'[o] : 1..j \subseteq acked'[o]
    BY <1>3, <2>1 DEF Follows
  <2>9. \A v \in Workers : \A j \in Entries(o)' :
          Handling(o, v)' /\ job'[v].report = ledger'[o][j] =>
            acked'[o] = 1..(j - 1) /\ (pc'[v] = "Remember" => Applied(o, j)')
    BY <1>3, <1>4, <2>2, <2>5, <2>6, <2>7
  <2> QED
    BY <2>5, <2>7, <2>8, <2>9 DEF Follows
<1> QED
  BY <1>3, <1>6, <1>7, <1>8 DEF FollowInv

\* The entry that was handled is acknowledged, and recorded or the order not plain.
LEMMA RememberFollow ==
  ASSUME Inv, Inv', OrderInv, Kept, FollowInv, NEW w \in Workers,
         Remember(w) \/ RememberFails(w)
  PROVE  FollowInv'
<1> USE DEF provider, db, redis
<1>1. TypeOK /\ Handlers /\ Ledgers
  BY DEF Inv
<1>2. PICK o \in Orders : o = job[w].order
  BY <1>1 DEF Remember, RememberFails, Handlers, Knows
<1>3. /\ pc[w] = "Remember" /\ UNCHANGED <<ledger, tx>> /\ plain' \subseteq plain
      /\ Goto(w, "idle") /\ Acknowledge(o, job[w].report)
      /\ seen' \subseteq seen \cup {<<o, job[w].report>>}
      /\ job[w].report \in Reports /\ Reported(o, job[w].report)
  BY <1>1, <1>2 DEF Remember, RememberFails, Handlers, Knows
<1>4. pc'[w] = "idle" /\ \A v \in Workers \ {w} : pc'[v] = pc[v] /\ job'[v] = job[v]
  BY <1>1, <1>3, GotoStep
<1>5. /\ acked'[o] = acked[o] \cup {i \in Entries(o) : ledger[o][i] = job[w].report}
      /\ \A x \in Orders \ {o} : acked'[x] = acked[x]
  BY <1>1, <1>3, AcknowledgeTypes
<1>6. Seen'
  <2> SUFFICES ASSUME NEW x \in Orders, NEW r \in Reports, <<x, r>> \in seen'
               PROVE  /\ Reported(x, r)'
                      /\ \A i \in Entries(x)' : ledger'[x][i] = r => i \in acked'[x]
    BY DEF Seen
  <2>1. Entries(x)' = Entries(x) /\ (Reported(x, r) => Reported(x, r)') /\ acked[x] \subseteq acked'[x]
    BY <1>3, <1>5 DEF Reported, Entries
  <2>2. CASE <<x, r>> \in seen
    BY <1>3, <2>1, <2>2 DEF FollowInv, Seen
  <2>3. CASE x = o /\ r = job[w].report
    BY <1>3, <1>5, <2>1, <2>3
  <2> QED
    BY <1>3, <2>2, <2>3
<1>7. \A x \in Orders, v \in Workers : Handling(x, v)' =>
        v # w /\ Handling(x, v) /\ job'[v] = job[v] /\ pc'[v] = pc[v]
  BY <1>4 DEF Handling
<1>8. ASSUME NEW x \in plain', x # o PROVE Follows(x)'
  BY <1>1, <1>3, <1>5, <1>7, <1>8, FollowStays DEF TypeOK, FollowInv
<1>9. ASSUME o \in plain' PROVE Follows(o)'
  <2>1. Follows(o) /\ OrderOK(o) /\ Handling(o, w)
    BY <1>2, <1>3, <1>9 DEF FollowInv, OrderInv, Handling
  <2>2. \A v \in Workers : ~Handling(o, v)'
    BY <1>7, <2>1 DEF OrderOK
  <2>3. PICK i \in Entries(o) : ledger[o][i] = job[w].report
    BY <1>3 DEF Reported
  <2>4. acked[o] = 1..(i - 1) /\ i \in Nat \ {0} /\ Applied(o, i)
    BY <1>1, <1>3, <2>1, <2>3 DEF Follows, Entries, TypeOK
  <2>5. {j \in Entries(o) : ledger[o][j] = job[w].report} = {i}
    BY <1>1, <2>3, EntriesDiffer DEF Ledgers, Entries
  <2>6. acked'[o] = 1..i
    BY <1>5, <2>4, <2>5
  <2>7. Applied(o, i)' /\ i \in Entries(o)'
    BY <1>3, <2>3, <2>4 DEF Applied, Entries
  <2>8. \A j \in acked'[o] : 1..j \subseteq acked'[o]
    BY <2>4, <2>6
  <2>9. 1..(i - 1) \subseteq acked'[o] /\ acked'[o] \subseteq 1..i
    BY <2>4, <2>6
  <2> QED
    BY <2>2, <2>7, <2>8, <2>9 DEF Follows
<1> QED
  BY <1>6, <1>8, <1>9 DEF FollowInv

\* A notification that is taken up in turn is the one after those acknowledged.
LEMMA DeliverFollow ==
  ASSUME Inv, Inv', OrderInv, Kept, FollowInv,
         NEW w \in Workers, NEW o \in Orders, NEW i \in Entries(o), Deliver(w, o, i)
  PROVE  FollowInv'
<1> USE DEF provider, db, redis
<1> DEFINE j == [order |-> o, key |-> None, invoice |-> None, report |-> ledger[o][i]]
<1>1. TypeOK /\ Ledgers
  BY DEF Inv
<1>2. /\ UNCHANGED <<ledger, acked, tx, seen>> /\ plain' \subseteq plain
      /\ Begin(w, "Update", j) /\ <<o, ledger[o][i]>> \notin seen
      /\ o \in plain' => InTurn(o, i)
  BY DEF Deliver
<1>3. j.order = o /\ j.report = ledger[o][i]
  OBVIOUS
<1> HIDE DEF j
<1>4. /\ pc[w] = "idle" /\ pc'[w] = "Update" /\ job'[w].order = o
      /\ job'[w].report = ledger[o][i]
      /\ \A v \in Workers \ {w} : pc'[v] = pc[v] /\ job'[v] = job[v]
  BY <1>1, <1>2, <1>3, BeginStep
<1>5. Seen'
  BY <1>2, SeenStays DEF FollowInv
<1>6. ASSUME NEW x \in plain', x # o PROVE Follows(x)'
  <2>1. \A v \in Workers : Handling(x, v)' => v # w
    BY <1>4, <1>6 DEF Handling
  <2>2. \A v \in Workers : Handling(x, v)' =>
          Handling(x, v) /\ job'[v] = job[v] /\ pc'[v] = pc[v]
    BY <1>4, <2>1 DEF Handling
  <2> QED
    BY <1>1, <1>2, <1>6, <2>2, FollowStays DEF TypeOK, FollowInv
<1>7. ASSUME o \in plain' PROVE Follows(o)'
  <2>1. Follows(o) /\ OrderOK(o) /\ InTurn(o, i)
    BY <1>2, <1>7 DEF FollowInv, OrderInv
  <2>2. \A v \in Workers \ {w} : ~Handling(o, v)'
    BY <1>4, <2>1 DEF Handling, InTurn
  <2>3. i \notin acked[o] /\ 1..(i - 1) \subseteq acked[o] /\ i \in Nat \ {0}
    BY <1>1, <1>2, <2>1 DEF OrderOK, InTurn, Entries, TypeOK
  <2>4. acked[o] = 1..(i - 1)
    <3> SUFFICES ASSUME NEW n \in acked[o] PROVE n \in 1..(i - 1)
      BY <2>3
    <3>1. n \in Nat \ {0} /\ 1..n \subseteq acked[o]
      BY <1>1, <2>1 DEF Follows, TypeOK, Entries
    <3>2. i \notin 1..n
      BY <2>3, <3>1
    <3> QED
      BY <2>3, <3>1, <3>2
  <2>5. \A n \in Entries(o) : ledger[o][n] = ledger[o][i] => n = i
    BY <1>1, EntriesDiffer DEF Ledgers, Entries
  <2>6. \A v \in Workers : \A n \in Entries(o)' :
          Handling(o, v)' /\ job'[v].report = ledger'[o][n] =>
            acked'[o] = 1..(n - 1) /\ (pc'[v] = "Remember" => Applied(o, n)')
    <3> SUFFICES ASSUME NEW v \in Workers, NEW n \in Entries(o)', Handling(o, v)',
                        job'[v].report = ledger'[o][n]
                 PROVE  acked'[o] = 1..(n - 1) /\ pc'[v] # "Remember"
      OBVIOUS
    <3>1. v = w
      BY <2>2
    <3>2. n = i
      BY <1>2, <1>4, <2>5, <3>1 DEF Entries
    <3> QED
      BY <1>2, <1>4, <2>4, <3>1, <3>2
  <2>7. (\A n \in acked[o] : 1..n \subseteq acked[o])'
    BY <1>2, <2>1 DEF Follows
  <2>8. (Inserted(o) => \E n \in Entries(o) : /\ 1..(n - 1) \subseteq acked[o]
                                              /\ acked[o] \subseteq 1..n
                                              /\ Applied(o, n))'
    BY <1>2, <2>1 DEF Follows, Inserted, Entries, Applied
  <2> QED
    BY <2>6, <2>7, <2>8 DEF Follows
<1> QED
  BY <1>5, <1>6, <1>7 DEF FollowInv

\* Steps that write no row, and after which nobody handles what he did not before.
LEMMA QuietFollow ==
  ASSUME Inv, Inv', Kept, FollowInv, UNCHANGED <<acked, seen>>, plain' \subseteq plain,
         \A x \in plain' : tx'[x] = tx[x],
         \A v \in Workers : pc'[v] \in {"Update", "Remember"} =>
            pc'[v] = pc[v] /\ job'[v] = job[v]
  PROVE  FollowInv'
<1>1. Seen'
  BY SeenStays DEF FollowInv
<1>2. ASSUME NEW x \in plain' PROVE Follows(x)'
  <2>1. x \in Orders /\ Follows(x)
    BY DEF Inv, TypeOK, FollowInv
  <2>2. \A v \in Workers : Handling(x, v)' =>
          Handling(x, v) /\ job'[v] = job[v] /\ pc'[v] = pc[v]
    BY DEF Handling
  <2> QED
    BY <2>1, <2>2, FollowStays
<1> QED
  BY <1>1, <1>2 DEF FollowInv

LEMMA RestFollow ==
  ASSUME Inv, Inv', Kept, FollowInv, NEW w \in Workers,
         Request(w) \/ Charge(w) \/ InsertFails(w) \/ Save(w) \/ Settle(w) \/ MarkPaid(w)
           \/ Dropped(w) \/ Crash(w)
  PROVE  FollowInv'
<1> USE DEF provider, db, redis
<1>1. TypeOK /\ Handlers
  BY DEF Inv
<1>2. CASE Request(w)
  <2>1. UNCHANGED <<provider, db, redis, plain>>
    BY <1>2 DEF Request, CreateRequest, SettleRequest, ConfirmRequest
  <2>2. PICK call \in {"Charge", "Settle", "MarkPaid"} : \E n : Begin(w, call, n)
    BY <1>2 DEF Request, CreateRequest, SettleRequest, ConfirmRequest
  <2>3. pc'[w] = call /\ \A v \in Workers \ {w} : pc'[v] = pc[v] /\ job'[v] = job[v]
    BY <1>1, <2>2, BeginStep
  <2> QED
    BY <2>1, <2>3, QuietFollow
<1>3. CASE ~Request(w)
  <2>1. PICK call \in {"Insert", "MarkPaid", "idle"} : Goto(w, call)
    BY <1>3 DEF Charge, InsertFails, Save, Settle, MarkPaid, Dropped, Crash
  <2>2. pc'[w] = call /\ \A v \in Workers \ {w} : pc'[v] = pc[v] /\ job'[v] = job[v]
    BY <1>1, <2>1, GotoStep
  <2>3. UNCHANGED <<acked, seen>> /\ plain' \subseteq plain
    BY <1>3 DEF Charge, InsertFails, Save, Settle, MarkPaid, Dropped, Crash
  <2>4. \A x \in plain' : tx'[x] = tx[x]
    <3>1. CASE Settle(w)
      <4>1. job[w].order \in Orders /\ Inserted(job[w].order)
        BY <1>1, <3>1 DEF Settle, Handlers, Knows
      <4>2. \A x \in Orders \ {job[w].order} : tx'[x] = tx[x]
        BY <1>1, <3>1, <4>1, StatusStep DEF Settle
      <4> QED
        BY <1>1, <3>1, <4>2 DEF Settle, TypeOK
    <3>2. CASE ~Settle(w)
      BY <1>3, <3>2 DEF Charge, InsertFails, Save, MarkPaid, Dropped, Crash
    <3> QED
      BY <3>1, <3>2
  <2> QED
    BY <2>2, <2>3, <2>4, QuietFollow
<1> QED
  BY <1>2, <1>3

LEMMA ProviderFollow ==
  ASSUME Inv, Inv', Kept, FollowInv, NEW o \in Orders, Provider(o)
  PROVE  FollowInv'
<1> USE DEF provider, db, redis, local
<1>1. TypeOK
  BY DEF Inv
<1>2. CASE ProviderMoves(o)
  BY <1>2, QuietFollow DEF ProviderMoves
<1>3. CASE \E i \in Entries(o) : Duplicate(o, i)
  <2>1. PICK i \in Entries(o) : Duplicate(o, i)
    BY <1>3
  <2>2. /\ UNCHANGED <<ledger, db, redis, local, plain>> /\ <<o, ledger[o][i]>> \in seen
        /\ Acknowledge(o, ledger[o][i])
    BY <2>1 DEF Duplicate
  <2>3. /\ acked' \in [Orders -> SUBSET Nat]
        /\ acked'[o] = acked[o] \cup {n \in Entries(o) : ledger[o][n] = ledger[o][i]}
        /\ \A x \in Orders \ {o} : acked'[x] = acked[x]
    BY <1>1, <2>2, AcknowledgeTypes
  <2>4. ledger[o][i] \in Reports
    BY <1>1 DEF TypeOK, Entries
  <2>5. acked'[o] = acked[o]
    BY <2>2, <2>3, <2>4 DEF FollowInv, Seen
  <2>6. acked' = acked
    <3>1. \A x \in Orders : acked'[x] = acked[x]
      BY <2>3, <2>5
    <3>2. acked \in [Orders -> SUBSET Nat]
      BY <1>1 DEF TypeOK
    <3> QED
      BY <2>3, <3>1, <3>2
  <2> QED
    BY <2>2, <2>6, QuietFollow
<1> QED
  BY <1>2, <1>3 DEF Provider

LEMMA NextFollow == Inv /\ OrderInv /\ FollowInv /\ [Next]_vars => FollowInv'
<1> SUFFICES ASSUME Inv, OrderInv, FollowInv, [Next]_vars PROVE FollowInv'
  OBVIOUS
<1>1. CASE UNCHANGED vars
  <2>1. /\ ledger' = ledger /\ acked' = acked /\ tx' = tx /\ seen' = seen /\ pc' = pc
        /\ job' = job /\ plain' = plain
    BY <1>1 DEF vars, provider, db, redis, local
  <2>2. Seen'
    <3>1. \A o \in Orders, r \in Reports : Reported(o, r)' <=> Reported(o, r)
      BY <2>1 DEF Reported, Entries
    <3>2. \A o \in Orders : Entries(o)' = Entries(o)
      BY <2>1 DEF Entries
    <3>3. Seen
      BY DEF FollowInv
    <3> SUFFICES ASSUME NEW o \in Orders, NEW r \in Reports, <<o, r>> \in seen
                 PROVE  (Reported(o, r) /\ \A i \in Entries(o) : ledger[o][i] = r => i \in acked[o])'
      BY <2>1 DEF Seen
    <3> QED
      BY <2>1, <3>1, <3>2, <3>3 DEF Seen
  <2>3. \A o \in plain : Follows(o)'
    BY <2>1 DEF FollowInv, Follows, Handling, Applied, Entries, Inserted
  <2> QED
    BY <2>1, <2>2, <2>3 DEF FollowInv
<1>2. CASE Next
  <2>1. Inv' /\ Kept
    BY <1>2, NextInv, NextKept
  <2>2. ASSUME NEW w \in Workers, Webhook(w) PROVE FollowInv'
    BY <2>1, <2>2, DeliverFollow DEF Webhook
  <2> QED
    BY <1>2, <2>1, <2>2, RestFollow, InsertFollow, UpdateFollow, RememberFollow, ProviderFollow
    DEF Next, Step
<1> QED
  BY <1>1, <1>2

\* When the provider has delivered all it has to tell of an order, the service tells
\* the same: no crash, no repetition and no race with the next notification leaves
\* the row behind.  (Converges is about the way there, which takes fairness.)
DeliveredTold ==
  \A o \in plain :
    Inserted(o) /\ acked[o] = Entries(o)
      => tx[o].status = StatusOf(Last(ledger[o]))

LEMMA FollowTold == Inv /\ FollowInv => DeliveredTold
<1> SUFFICES ASSUME Inv, FollowInv, NEW o \in plain, Inserted(o), acked[o] = Entries(o)
             PROVE  tx[o].status = StatusOf(Last(ledger[o]))
  BY DEF DeliveredTold
<1>1. Follows(o) /\ LedgerOK(ledger[o])
  BY DEF Inv, TypeOK, FollowInv, Ledgers
<1>2. PICK i \in Entries(o) : Entries(o) \subseteq 1..i /\ Applied(o, i)
  BY <1>1 DEF Follows
<1>3. PICK n \in Nat : n = Len(ledger[o])
  BY <1>1 DEF LedgerOK
<1>4. i \in 1..n /\ 1..n \subseteq 1..i
  BY <1>2, <1>3 DEF Entries
<1>5. i = n
  <2>1. i <= n /\ 1 <= n
    BY <1>4
  <2>2. n \in 1..i
    BY <1>4, <2>1
  <2> QED
    BY <1>4, <2>1, <2>2
<1> QED
  BY <1>2, <1>3, <1>5 DEF Applied, Last

\* The row tells what was delivered, for plain orders.
THEOREM DeliveredIsTold == Spec => []DeliveredTold
<1>1. Init => Inv /\ OrderInv /\ FollowInv
  BY InitInv, InitOrder, InitFollow
<1>2. Inv /\ OrderInv /\ FollowInv /\ [Next]_vars => (Inv /\ OrderInv /\ FollowInv)'
  BY NextInv, NextOrder, NextFollow
<1>3. Inv /\ FollowInv => DeliveredTold
  BY FollowTold
<1> QED
  BY <1>1, <1>2, <1>3, PTL DEF Spec

-----------------------------------------------------------------------------
(* The table keeps its contract: each step of the service, and of the      *)
(* provider, is a step of PaymentContract or leaves the mapped state as it *)
(* is.                                                                     *)

Table == [x \in Orders |-> Told(x)]

LEMMA TableSame ==
  ASSUME \A x \in Orders : Told(x)' = Told(x)
  PROVE  Table' = Table
BY DEF Table

LEMMA TableChange ==
  ASSUME NEW o \in Orders, NEW s, Told(o)' = s, \A x \in Orders \ {o} : Told(x)' = Told(x)
  PROVE  Table' = [Table EXCEPT ![o] = s]
BY DEF Table

\* Both modules read the provider in the same way.
LEMMA SameMeaning ==
  /\ \A r \in Reports : C!Meaning[r] = StatusOf(r)
  /\ \A r \in Reports : C!After[r] = Outcomes(r)
BY DEF C!Meaning, C!After, StatusOf, mapMidtransStatus, Outcomes

\* The order is placed at the provider.
LEMMA ChargePlaces ==
  ASSUME Inv, NEW w \in Workers, Charge(w)
  PROVE  \E o \in Orders : C!Place(o)
<1> USE DEF db
<1>1. PICK o \in Orders : o = job[w].order /\ Len(ledger[o]) = 0
  BY DEF Inv, Charge, Handlers, Knows
<1>2. ledger[o] = <<>>
  BY <1>1, EmptySeq DEF Inv, TypeOK
<1>3. Table' = Table
  BY TableSame DEF Charge, Told
<1> QED
  BY <1>1, <1>2, <1>3 DEF Charge, C!Place, Table

\* Something happens to the order at the provider.
LEMMA ProviderHappens ==
  ASSUME Inv, NEW o \in Orders, ProviderMoves(o)
  PROVE  C!Happen(o)
<1> USE DEF db
<1>1. PICK r \in Outcomes(Last(ledger[o])) : ledger' = [ledger EXCEPT ![o] = Append(@, r)]
  BY DEF ProviderMoves
<1>2. ledger[o] # <<>> /\ ledger[o] \in Seq(Reports) /\ UNCHANGED <<tx, plain, paid>>
  BY DEF Inv, TypeOK, ProviderMoves
<1>3. Last(ledger[o]) = ledger[o][Len(ledger[o])] /\ Last(ledger[o]) \in Reports
  BY <1>2 DEF Last
<1>4. r \in C!After[ledger[o][Len(ledger[o])]]
  BY <1>1, <1>3, SameMeaning
<1>5. Table' = Table
  BY <1>2, TableSame DEF Told
<1> QED
  BY <1>1, <1>2, <1>4, <1>5 DEF C!Happen, Table

\* The row of a plain order is given the status of the entry after the one it told.
LEMMA TellsNext ==
  ASSUME Inv, NEW o \in plain, NEW i \in Entries(o), UNCHANGED <<ledger, plain, paid>>,
         tx[o].status = IF i = 1 THEN "none" ELSE StatusOf(ledger[o][i - 1]),
         tx'[o].status = StatusOf(ledger[o][i]),
         \A x \in Orders \ {o} : tx'[x] = tx[x]
  PROVE  C!Tell(o)
<1>1. o \in Orders
  BY DEF Inv, TypeOK
<1>2. Table' = [Table EXCEPT ![o] = StatusOf(ledger[o][i])]
  BY <1>1, TableChange DEF Told
<1>3. Table[o] = tx[o].status
  BY <1>1 DEF Table, Told
<1>4. /\ i \in 1..Len(ledger[o]) /\ Len(ledger[o]) \in Nat
      /\ \A n \in 1..Len(ledger[o]) : ledger[o][n] \in Reports
  BY <1>1 DEF Inv, TypeOK, Entries
<1>5. /\ C!Meaning[ledger[o][i]] = StatusOf(ledger[o][i])
      /\ i # 1 => C!Meaning[ledger[o][i - 1]] = StatusOf(ledger[o][i - 1])
  BY <1>4, SameMeaning
<1>6. /\ Table[o] = IF i = 1 THEN "none" ELSE C!Meaning[ledger[o][i - 1]]
      /\ Table' = [Table EXCEPT ![o] = C!Meaning[ledger[o][i]]]
  BY <1>2, <1>3, <1>5
<1> QED
  BY <1>4, <1>6 DEF C!Tell, Table

\* A row that is inserted tells the first entry, if its order is plain.
LEMMA InsertTells ==
  ASSUME Inv, NEW w \in Workers, Insert(w)
  PROVE  (\E o \in Orders : C!Tell(o)) \/ UNCHANGED <<ledger, Table, plain, paid>>
<1> USE DEF provider
<1>1. PICK o \in Orders : o = job[w].order /\ ~Inserted(o) /\ Len(ledger[o]) # 0
  BY DEF Inv, Insert, Handlers, Knows
<1>2. tx'[o].status = "pending" /\ \A x \in Orders \ {o} : tx'[x] = tx[x]
  <2> DEFINE row == [status |-> "pending", key |-> job[w].key, invoice |-> job[w].invoice]
  <2>1. tx' = [tx EXCEPT ![o] = row] /\ row.status = "pending"
    BY <1>1 DEF Insert
  <2> HIDE DEF row
  <2> QED
    BY <1>1, <2>1 DEF Inv, TypeOK
<1>3. UNCHANGED <<ledger, plain, paid>> /\ tx[o].status = "none"
  BY <1>1 DEF Insert, Inserted, Absent
<1>4. 1 \in Entries(o) /\ ledger[o][1] = "pending"
  BY <1>1 DEF Inv, Ledgers, LedgerOK, Entries
<1>5. tx'[o].status = StatusOf(ledger[o][1])
  BY <1>2, <1>4 DEF StatusOf, mapMidtransStatus
<1>6. CASE o \in plain
  BY <1>1, <1>2, <1>3, <1>4, <1>5, <1>6, TellsNext
<1>7. CASE o \notin plain
  BY <1>2, <1>3, <1>7, TableSame DEF Told
<1> QED
  BY <1>6, <1>7

\* An update gives the row of a plain order the status of the entry that is handled:
\* the one it told already, when a crash came before the acknowledgement, or the next.
LEMMA UpdateTells ==
  ASSUME Inv, FollowInv, NEW w \in Workers, Update(w)
  PROVE  (\E o \in Orders : C!Tell(o)) \/ UNCHANGED <<ledger, Table, plain, paid>>
<1> USE DEF provider
<1>1. PICK o \in Orders : o = job[w].order
  BY DEF Inv, Update, Handlers, Knows
<1>2. /\ pc[w] = "Update" /\ UNCHANGED <<ledger, plain, paid>>
      /\ Inserted(o) /\ job[w].report \in Reports /\ Reported(o, job[w].report)
  BY <1>1 DEF Inv, Update, Handlers, Knows
<1>3. /\ tx'[o].status = StatusOf(job[w].report)
      /\ \A x \in Orders \ {o} : tx'[x] = tx[x]
  BY <1>1, <1>2, MapTypes, StatusStep DEF Inv, Update
<1>4. CASE o \notin plain
  BY <1>2, <1>3, <1>4, TableSame DEF Told
<1>5. CASE o \in plain
  <2>1. PICK i \in Entries(o) : ledger[o][i] = job[w].report
    BY <1>2 DEF Reported
  <2>2. acked[o] = 1..(i - 1)
    BY <1>1, <1>2, <1>5, <2>1 DEF FollowInv, Follows, Handling
  <2>3. PICK k \in Entries(o) : /\ 1..(k - 1) \subseteq acked[o]
                                /\ acked[o] \subseteq 1..k
                                /\ Applied(o, k)
    BY <1>2, <1>5 DEF FollowInv, Follows
  <2>4. i \in Nat \ {0} /\ k \in Nat \ {0}
    BY DEF Inv, TypeOK, Entries
  <2>5. k = i \/ k = i - 1
    <3>1. k - 1 = 0 \/ k - 1 \in 1..(i - 1)
      BY <2>2, <2>3, <2>4
    <3>2. i - 1 = 0 \/ i - 1 \in 1..k
      BY <2>2, <2>3, <2>4
    <3> QED
      BY <2>4, <3>1, <3>2
  <2>6. CASE k = i
    <3>1. tx'[o].status = tx[o].status
      BY <1>3, <2>1, <2>3, <2>6 DEF Applied
    <3> QED
      BY <1>2, <1>3, <3>1, TableSame DEF Told
  <2>7. CASE k = i - 1
    <3>1. i # 1 /\ tx[o].status = StatusOf(ledger[o][i - 1])
      BY <2>3, <2>4, <2>7 DEF Applied
    <3> QED
      BY <1>1, <1>2, <1>3, <1>5, <2>1, <3>1, TellsNext
  <2> QED
    BY <2>5, <2>6, <2>7
<1> QED
  BY <1>4, <1>5

\* An order that meets an irregularity is doubted from then on.
LEMMA Doubts ==
  ASSUME Inv, NEW o \in Orders, UNCHANGED <<ledger, paid>>, plain' = plain \ {o},
         \A x \in Orders \ {o} : tx'[x] = tx[x]
  PROVE  C!Doubt(o)
<1>1. Told(o)' = "any" /\ \A x \in Orders \ {o} : Told(x)' = Told(x)
  BY DEF Told
<1>2. Table' = [Table EXCEPT ![o] = "any"]
  BY <1>1, TableChange
<1> QED
  BY <1>2 DEF C!Doubt, Table

LEMMA IrregularDoubts ==
  ASSUME Inv, NEW w \in Workers, Webhook(w) \/ RememberFails(w) \/ Settle(w)
  PROVE  (\E o \in Orders : C!Doubt(o)) \/ UNCHANGED <<ledger, Table, plain, paid>>
<1> USE DEF provider, db
<1>1. CASE Webhook(w)
  <2>1. PICK o \in Orders : \E i \in Entries(o) : Deliver(w, o, i)
    BY <1>1 DEF Webhook
  <2>2. UNCHANGED <<ledger, tx, paid>> /\ (plain' = plain \/ plain' = plain \ {o})
    BY <2>1 DEF Deliver
  <2> QED
    BY <2>2, Doubts, TableSame DEF Told
<1>2. CASE RememberFails(w)
  <2>1. job[w].order \in Orders
    BY <1>2 DEF Inv, RememberFails, Handlers, Knows
  <2> QED
    BY <1>2, <2>1, Doubts DEF RememberFails
<1>3. CASE Settle(w)
  <2>1. job[w].order \in Orders /\ Inserted(job[w].order)
    BY <1>3 DEF Inv, Settle, Handlers, Knows
  <2>2. \A x \in Orders \ {job[w].order} : tx'[x] = tx[x]
    BY <1>3, <2>1, StatusStep DEF Inv, Settle
  <2> QED
    BY <1>3, <2>1, <2>2, Doubts DEF Settle
<1> QED
  BY <1>1, <1>2, <1>3

\* An invoice is marked as paid.
LEMMA MarkPaidPays ==
  ASSUME Inv, NEW w \in Workers, MarkPaid(w)
  PROVE  \E i \in Invoices : C!Pay(i)
<1> USE DEF provider
<1>1. job[w].invoice \in Invoices /\ Money
  BY DEF Inv, MarkPaid, Handlers, Knows
<1>2. \E o \in Orders : C!Money(o)
  BY <1>1 DEF Money, Reported, Entries, C!Money
<1>3. Table' = Table
  BY TableSame DEF MarkPaid, Told
<1> QED
  BY <1>1, <1>2, <1>3 DEF MarkPaid, C!Pay, Table

LEMMA NextKeepsContract ==
  ASSUME Inv, FollowInv, [Next]_vars
  PROVE  [C!Next]_(C!vars)
<1>1. CASE UNCHANGED <<ledger, Table, plain, paid>>
  BY <1>1 DEF C!vars, Table
<1>2. CASE UNCHANGED <<ledger, tx, plain, paid>>
  BY <1>1, <1>2, TableSame DEF Told
<1>3. ASSUME NEW o \in Orders, Provider(o)
      PROVE  C!Happen(o) \/ UNCHANGED <<ledger, tx, plain, paid>>
  BY <1>3, ProviderHappens DEF Provider, Duplicate, db
<1>4. ASSUME NEW w \in Workers,
             \/ Request(w) \/ InsertFails(w) \/ Save(w) \/ Remember(w)
             \/ Dropped(w) \/ Crash(w)
      PROVE  UNCHANGED <<ledger, tx, plain, paid>>
  BY <1>4 DEF Request, CreateRequest, SettleRequest, ConfirmRequest, InsertFails, Save,
              Remember, Dropped, Crash, provider, db
<1>5. CASE UNCHANGED vars
  BY <1>2, <1>5 DEF vars, provider, db
<1>6. CASE Next
  <2>1. ASSUME NEW w \in Workers, Webhook(w) \/ Step(w) \/ Request(w)
        PROVE  C!Next \/ UNCHANGED <<ledger, Table, plain, paid>>
                      \/ UNCHANGED <<ledger, tx, plain, paid>>
    BY <2>1, <1>4, ChargePlaces, InsertTells, UpdateTells, IrregularDoubts, MarkPaidPays
    DEF Step, C!Next
  <2>2. ASSUME NEW o \in Orders, Provider(o)
        PROVE  C!Next \/ UNCHANGED <<ledger, tx, plain, paid>>
    BY <2>2, <1>3 DEF C!Next
  <2> QED
    BY <1>1, <1>2, <1>6, <2>1, <2>2 DEF Next
<1> QED
  BY <1>5, <1>6

\* The handlers of the service and of the gateway, and the provider, in any
\* interleaving and with any crashes and lost calls, implement the contract of the
\* table: the row of an order whose notifications were regular goes along the order's
\* course one entry at a time, and no invoice is paid before there is money.
THEOREM ContractKept == Spec => Contract
<1>1. Init => C!Init
  <2> SUFFICES ASSUME Init PROVE C!Init
    OBVIOUS
  <2>1. \A o \in Orders : Told(o) = "none"
    BY DEF Init, Told, Absent
  <2> QED
    BY <2>1 DEF Init, C!Init
<1>2. Init => Inv /\ OrderInv /\ FollowInv
  BY InitInv, InitOrder, InitFollow
<1>3. Inv /\ OrderInv /\ FollowInv /\ [Next]_vars => (Inv /\ OrderInv /\ FollowInv)'
  BY NextInv, NextOrder, NextFollow
<1>4. Inv /\ FollowInv /\ [Next]_vars => [C!Next]_(C!vars)
  BY NextKeepsContract
<1> QED
  BY <1>1, <1>2, <1>3, <1>4, PTL DEF Spec, Contract, C!Spec
=============================================================================
