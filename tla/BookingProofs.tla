---------------------------- MODULE BookingProofs ----------------------------
(***************************************************************************)
(* Theorems about Booking, for any number of keys, handlers and faults.    *)
(*                                                                         *)
(* The invariant Inv says what a handler knows between two of its calls,   *)
(* who answers for a booking that is half done, and what the history of a  *)
(* booking has to do with its status.                                      *)
(***************************************************************************)
EXTENDS Booking, TLAPS

\* What w has read or written stays true: rows are never deleted.
Knows(w) ==
  /\ pc[w] \notin {"idle", "InsertRes"} => status[job[w]] # "none"
  /\ pc[w] \in {"Pay", "InsertTx", "SaveTx"} => job[w] \in invoices
  /\ pc[w] = "SaveTx" => job[w] \in txs
  /\ pc[w] = "CheckIn" => job[w] \in wasConfirmed
  /\ pc[w] = "Confirm" => settled # {}

Handlers == \A w \in Workers : Knows(w)

Listed == \A k \in due : status[k] # "none"

\* A booking that cannot be paid for is in the hands of a handler that has seen
\* its row: the one that goes on with it, or one that cancels it.
Owning == Saga \ {"InsertRes"}

InHand(k) == \E w \in Workers : job[w] = k /\ pc[w] \in Owning

Owned ==
  \A k \in Keys \ disturbed :
    status[k] \in {"pending", "confirmed"} /\ k \notin txs => InHand(k)

\* What has become of a booking, and whether it was ever confirmed.
Histories ==
  /\ settled \subseteq txs
  /\ \A k \in Keys :
       /\ status[k] \in {"confirmed", "active"} => k \in wasConfirmed
       /\ status[k] \in {"none", "pending"} => k \notin wasConfirmed

Inv == TypeOK /\ Handlers /\ Listed /\ AnsweredPayable /\ Owned /\ Histories

USE NoneAssumption, MaxFaultsAssumption
USE DEF Statuses, Calls, Saga

LEMMA InitInv == Init => Inv
<1> SUFFICES ASSUME Init PROVE Inv
  OBVIOUS
<1>1. TypeOK
  BY DEF Init, TypeOK
<1>2. Handlers /\ Listed
  BY DEF Init, Handlers, Knows, Listed
<1>3. AnsweredPayable /\ Owned /\ Histories
  BY DEF Init, AnsweredPayable, Owned, Histories
<1> QED
  BY <1>1, <1>2, <1>3 DEF Inv

-----------------------------------------------------------------------------
(* Type correctness.                                                       *)

LocalOK ==
  /\ pc \in [Workers -> Calls]
  /\ job \in [Workers -> Keys \cup {None}]
  /\ \A w \in Workers : pc[w] = "idle" <=> job[w] = None

LEMMA BeginTypes ==
  ASSUME LocalOK, NEW w \in Workers, NEW k \in Keys, NEW call \in Calls \ {"idle"},
         Begin(w, call, k)
  PROVE  LocalOK'
  BY DEF LocalOK, Begin

LEMMA GotoTypes ==
  ASSUME LocalOK, NEW w \in Workers, NEW call \in Calls, pc[w] # "idle", Goto(w, call)
  PROVE  LocalOK'
<1>1. CASE call = "idle"
  BY <1>1 DEF LocalOK, Goto
<1>2. CASE call # "idle"
  BY <1>2 DEF LocalOK, Goto
<1> QED
  BY <1>1, <1>2

LEMMA FaultTypes ==
  ASSUME TypeOK, NEW f, Fault(f)
  PROVE  faults' \in 0..MaxFaults
  BY DEF TypeOK, Fault

LEMMA JobIsKey ==
  ASSUME TypeOK, NEW w \in Workers, pc[w] # "idle"
  PROVE  job[w] \in Keys
  BY DEF TypeOK

LEMMA StatusTypes ==
  ASSUME TypeOK, NEW k \in Keys, NEW s \in Statuses, SetStatus(k, s)
  PROVE  status' \in [Keys -> Statuses]
  BY DEF TypeOK, SetStatus

\* The tables, the records, the job and the history.
TablesOK ==
  /\ status \in [Keys -> Statuses]
  /\ invoices \subseteq Keys /\ txs \subseteq Keys /\ settled \subseteq Keys
  /\ resIdem \subseteq Keys /\ txIdem \subseteq Keys
  /\ due \subseteq Keys /\ wasConfirmed \subseteq Keys
  /\ answered \subseteq Keys /\ disturbed \subseteq Keys

LEMMA TypesApart == TypeOK <=> LocalOK /\ TablesOK /\ faults \in 0..MaxFaults
  BY DEF TypeOK, LocalOK, TablesOK

LEMMA RequestTypes ==
  ASSUME TypeOK, NEW w \in Workers, Request(w)
  PROVE  TypeOK'
<1> USE DEF rows, redis, history
<1>1. LocalOK'
  BY BeginTypes, TypesApart
  DEF Request, BookingRequest, BookingAgain, CancelRequest, ConfirmRequest, CheckInRequest
<1>2. UNCHANGED <<rows, redis, due, history, faults>>
  BY DEF Request, BookingRequest, BookingAgain, CancelRequest, ConfirmRequest, CheckInRequest
<1> QED
  BY <1>1, <1>2 DEF TypeOK, LocalOK

LEMMA StepTypes ==
  ASSUME TypeOK, NEW w \in Workers, Step(w)
  PROVE  TypeOK'
<1> USE DEF rows, redis, history
<1>0. /\ LocalOK /\ TablesOK /\ faults \in 0..MaxFaults
      /\ pc[w] # "idle" => job[w] \in Keys
  BY TypesApart, JobIsKey
<1>1. pc[w] # "idle" /\ \E call \in Calls : Goto(w, call)
  BY DEF Step, InsertRes, InsertResFails, SaveRes, InvoiceCheck, InsertInvoice, InsertInvoiceFails,
         PayAgain, Charge, PayFails, InsertTx, InsertTxFails, SaveTx, CancelRead, Cancel,
         CancelFails, Confirm, CheckIn, Crash
<1>2. LocalOK'
  BY <1>0, <1>1, GotoTypes
<1>3. faults' \in 0..MaxFaults
  BY <1>0, FaultTypes
  DEF Step, InsertRes, InsertResFails, SaveRes, InvoiceCheck, InsertInvoice, InsertInvoiceFails,
      PayAgain, Charge, PayFails, InsertTx, InsertTxFails, SaveTx, CancelRead, Cancel,
      CancelFails, Confirm, CheckIn, Crash, InsertionFails
<1>4. status' \in [Keys -> Statuses]
  <2>1. UNCHANGED status \/ \E s \in Statuses : SetStatus(job[w], s)
    BY DEF Step, InsertRes, InsertResFails, SaveRes, InvoiceCheck, InsertInvoice,
           InsertInvoiceFails, PayAgain, Charge, PayFails, InsertTx, InsertTxFails, SaveTx,
           CancelRead, Cancel, CancelFails, Confirm, CheckIn, Crash, InsertionFails, InsertRow
  <2> QED
    BY <1>0, <1>1, <2>1, StatusTypes DEF TablesOK
<1>5. /\ invoices' \subseteq Keys /\ txs' \subseteq Keys /\ settled' \subseteq Keys
      /\ resIdem' \subseteq Keys /\ txIdem' \subseteq Keys
      /\ due' \subseteq Keys /\ wasConfirmed' \subseteq Keys
      /\ answered' \subseteq Keys /\ disturbed' \subseteq Keys
  BY <1>0, <1>1
  DEF Step, InsertRes, InsertResFails, SaveRes, InvoiceCheck, InsertInvoice, InsertInvoiceFails,
      PayAgain, Charge, PayFails, InsertTx, InsertTxFails, SaveTx, CancelRead, Cancel,
      CancelFails, Confirm, CheckIn, Crash, InsertionFails, AddInvoice, AddTx, TablesOK
<1> QED
  BY <1>2, <1>3, <1>4, <1>5 DEF TypeOK, LocalOK

LEMMA ElsewhereTypes ==
  ASSUME TypeOK, NEW k \in Keys, Elsewhere(k)
  PROVE  TypeOK'
<1> USE DEF rows, redis, local, history
<1>1. UNCHANGED <<invoices, txs, wasConfirmed, redis, local, history>> /\ settled' \subseteq Keys
  BY DEF Elsewhere, Settle, ExpireList, Expire, TypeOK
<1>2. due' \subseteq Keys /\ faults' \in 0..MaxFaults
  BY FaultTypes DEF Elsewhere, Settle, ExpireList, Expire, TypeOK
<1>3. UNCHANGED status \/ SetStatus(k, "expired")
  BY DEF Elsewhere, Settle, ExpireList, Expire
<1>4. status' \in [Keys -> Statuses]
  BY <1>3, StatusTypes DEF TypeOK
<1> QED
  BY <1>1, <1>2, <1>4 DEF TypeOK

LEMMA TypeNext == TypeOK /\ [Next]_vars => TypeOK'
<1>1. ASSUME TypeOK, UNCHANGED vars PROVE TypeOK'
  BY <1>1 DEF TypeOK, vars, rows, redis, local, history
<1> QED
  BY <1>1, RequestTypes, StepTypes, ElsewhereTypes DEF Next
-----------------------------------------------------------------------------
(* What every step leaves alone.                                           *)

\* Rows stay, and so does what has been settled or confirmed.
Grows ==
  /\ \A k \in Keys : status[k] # "none" => status'[k] # "none"
  /\ invoices \subseteq invoices' /\ txs \subseteq txs'
  /\ settled \subseteq settled' /\ wasConfirmed \subseteq wasConfirmed'

\* Only w's program counter and local variable change.
Alone(w) == \A v \in Workers \ {w} : pc'[v] = pc[v] /\ job'[v] = job[v]

LEMMA StatusStep ==
  ASSUME TypeOK, NEW k \in Keys, NEW s, SetStatus(k, s)
  PROVE  status'[k] = s /\ \A x \in Keys \ {k} : status'[x] = status[x]
  BY DEF TypeOK, SetStatus

LEMMA GotoStep ==
  ASSUME TypeOK, NEW w \in Workers, NEW call, Goto(w, call)
  PROVE  /\ Alone(w) /\ pc'[w] = call
         /\ call # "idle" => job'[w] = job[w]
         /\ call = "idle" => job'[w] = None
  BY DEF TypeOK, Goto, Alone

LEMMA BeginStep ==
  ASSUME TypeOK, NEW w \in Workers, NEW k, NEW call, Begin(w, call, k)
  PROVE  Alone(w) /\ pc[w] = "idle" /\ pc'[w] = call /\ job'[w] = k
  BY DEF TypeOK, Begin, Alone

LEMMA StatusGrows ==
  ASSUME TypeOK, NEW k \in Keys, NEW s \in Statuses \ {"none"}, SetStatus(k, s)
  PROVE  \A x \in Keys : status[x] # "none" => status'[x] # "none"
<1>1. status'[k] = s /\ \A x \in Keys \ {k} : status'[x] = status[x]
  BY StatusStep
<1> QED
  BY <1>1

LEMMA NextGrows ==
  ASSUME TypeOK, Next
  PROVE  Grows
<1> USE DEF rows, redis, history, local
<1>1. ASSUME NEW w \in Workers, Request(w) PROVE Grows
  BY <1>1 DEF Request, BookingRequest, BookingAgain, CancelRequest, ConfirmRequest,
              CheckInRequest, Grows
<1>2. ASSUME NEW w \in Workers, Step(w) PROVE Grows
  <2>1. pc[w] # "idle" /\ job[w] \in Keys
    BY <1>2, JobIsKey
    DEF Step, InsertRes, InsertResFails, SaveRes, InvoiceCheck, InsertInvoice,
        InsertInvoiceFails, PayAgain, Charge, PayFails, InsertTx, InsertTxFails, SaveTx,
        CancelRead, Cancel, CancelFails, Confirm, CheckIn, Crash
  <2>2. UNCHANGED status \/ \E s \in Statuses \ {"none"} : SetStatus(job[w], s)
    BY <1>2
    DEF Step, InsertRes, InsertResFails, SaveRes, InvoiceCheck, InsertInvoice,
        InsertInvoiceFails, PayAgain, Charge, PayFails, InsertTx, InsertTxFails, SaveTx,
        CancelRead, Cancel, CancelFails, Confirm, CheckIn, Crash, InsertionFails, InsertRow
  <2>3. \A k \in Keys : status[k] # "none" => status'[k] # "none"
    BY <2>1, <2>2, StatusGrows
  <2>4. /\ invoices \subseteq invoices' /\ txs \subseteq txs'
        /\ settled \subseteq settled' /\ wasConfirmed \subseteq wasConfirmed'
    BY <1>2
    DEF Step, InsertRes, InsertResFails, SaveRes, InvoiceCheck, InsertInvoice,
        InsertInvoiceFails, PayAgain, Charge, PayFails, InsertTx, InsertTxFails, SaveTx,
        CancelRead, Cancel, CancelFails, Confirm, CheckIn, Crash, InsertionFails, AddInvoice, AddTx
  <2> QED
    BY <2>3, <2>4 DEF Grows
<1>3. ASSUME NEW k \in Keys, Elsewhere(k) PROVE Grows
  <2>1. UNCHANGED status \/ SetStatus(k, "expired")
    BY <1>3 DEF Elsewhere, Settle, ExpireList, Expire
  <2>2. \A x \in Keys : status[x] # "none" => status'[x] # "none"
    BY <2>1, StatusGrows
  <2> QED
    BY <1>3, <2>2 DEF Elsewhere, Settle, ExpireList, Expire, Grows
<1> QED
  BY <1>1, <1>2, <1>3 DEF Next

-----------------------------------------------------------------------------
(* What handlers know, and what the job has listed.                        *)

LEMMA OthersKnow ==
  ASSUME Inv, Grows, NEW w, Alone(w), NEW v \in Workers \ {w}
  PROVE  Knows(v)'
<1>1. Knows(v) /\ pc'[v] = pc[v] /\ job'[v] = job[v]
  BY DEF Inv, Handlers, Alone
<1>2. pc[v] # "idle" => job[v] \in Keys
  BY JobIsKey DEF Inv
<1> QED
  BY <1>1, <1>2 DEF Knows, Grows

LEMMA RequestKnows ==
  ASSUME Inv, NEW w \in Workers, Request(w)
  PROVE  Knows(w)' /\ Alone(w)
<1> USE DEF rows, history
<1>1. PICK k \in Keys : \/ BookingRequest(w, k) \/ BookingAgain(w, k)
                        \/ CancelRequest(w, k) \/ ConfirmRequest(w, k) \/ CheckInRequest(w, k)
  BY DEF Request
<1>2. TypeOK /\ AnsweredPayable /\ Histories
  BY DEF Inv
<1>3. CASE BookingRequest(w, k)
  BY <1>2, <1>3, BeginStep DEF BookingRequest, Knows
<1>4. CASE BookingAgain(w, k)
  BY <1>2, <1>4, BeginStep DEF BookingAgain, Knows, AnsweredPayable
<1>5. CASE CancelRequest(w, k)
  BY <1>2, <1>5, BeginStep DEF CancelRequest, Knows, Cancellable
<1>6. CASE ConfirmRequest(w, k)
  BY <1>2, <1>6, BeginStep DEF ConfirmRequest, Knows
<1>7. CASE CheckInRequest(w, k)
  BY <1>2, <1>7, BeginStep DEF CheckInRequest, Knows, Histories
<1> QED
  BY <1>1, <1>3, <1>4, <1>5, <1>6, <1>7

\* A handler that ends its request knows nothing; one that goes on with it knows
\* what it knew, and what it has just done.
LEMMA StepKnows ==
  ASSUME Inv, NEW w \in Workers, Step(w)
  PROVE  Knows(w)' /\ Alone(w)
<1> USE DEF rows, redis, history
<1>1. TypeOK /\ Knows(w) /\ Grows
  BY NextGrows DEF Inv, Handlers, Next
<1>2. pc[w] # "idle" => job[w] \in Keys
  BY <1>1, JobIsKey
<1>3. ASSUME Goto(w, "idle") PROVE Knows(w)' /\ Alone(w)
  BY <1>1, <1>3, GotoStep DEF Knows
<1>4. CASE InsertRes(w)
  <2>1. status'[job[w]] = "pending"
    BY <1>1, <1>2, <1>4, StatusStep DEF InsertRes, InsertRow
  <2> QED
    BY <1>1, <1>4, <2>1, GotoStep DEF InsertRes, Knows
<1>5. CASE SaveRes(w)
  BY <1>1, <1>2, <1>5, GotoStep DEF SaveRes, Knows, Grows
<1>6. CASE InvoiceCheck(w)
  BY <1>1, <1>2, <1>6, GotoStep DEF InvoiceCheck, Knows, Grows
<1>7. CASE InsertInvoice(w)
  BY <1>1, <1>2, <1>7, GotoStep DEF InsertInvoice, AddInvoice, Knows, Grows
<1>8. CASE InsertInvoiceFails(w)
  BY <1>1, <1>2, <1>8, GotoStep DEF InsertInvoiceFails, Knows, Grows
<1>9. CASE Charge(w)
  BY <1>1, <1>2, <1>9, GotoStep DEF Charge, Knows, Grows
<1>10. CASE PayFails(w)
  BY <1>1, <1>2, <1>10, GotoStep DEF PayFails, Knows, Grows
<1>11. CASE InsertTx(w)
  BY <1>1, <1>2, <1>11, GotoStep DEF InsertTx, AddTx, Knows, Grows
<1>12. CASE InsertTxFails(w)
  BY <1>1, <1>2, <1>12, GotoStep DEF InsertTxFails, Knows, Grows
<1>13. CASE CancelRead(w)
  <2>1. CASE Cancellable(job[w])
    BY <1>1, <1>2, <1>13, <2>1, GotoStep DEF CancelRead, Knows, Grows
  <2>2. CASE ~Cancellable(job[w])
    BY <1>3, <1>13, <2>2 DEF CancelRead
  <2> QED
    BY <2>1, <2>2
<1>14. CASE \/ InsertResFails(w) \/ PayAgain(w) \/ SaveTx(w) \/ Cancel(w) \/ CancelFails(w)
            \/ Confirm(w) \/ CheckIn(w) \/ Crash(w)
  BY <1>3, <1>14 DEF InsertResFails, PayAgain, SaveTx, Cancel, CancelFails, Confirm, CheckIn, Crash
<1> QED
  BY <1>4, <1>5, <1>6, <1>7, <1>8, <1>9, <1>10, <1>11, <1>12, <1>13, <1>14 DEF Step

LEMMA HandlersNext ==
  ASSUME Inv, Next
  PROVE  Handlers'
<1>1. Grows
  BY NextGrows DEF Inv
<1>2. ASSUME NEW w \in Workers, Request(w) \/ Step(w) PROVE Handlers'
  BY <1>1, <1>2, RequestKnows, StepKnows, OthersKnow DEF Handlers
<1>3. ASSUME NEW k \in Keys, Elsewhere(k), NEW w \in Workers PROVE Knows(w)'
  <2>1. UNCHANGED local /\ Knows(w)
    BY <1>3 DEF Elsewhere, Settle, ExpireList, Expire, Inv, Handlers
  <2>2. pc[w] # "idle" => job[w] \in Keys
    BY JobIsKey DEF Inv
  <2> QED
    BY <1>1, <2>1, <2>2 DEF local, Knows, Grows
<1> QED
  BY <1>2, <1>3 DEF Next, Handlers

LEMMA ListedNext ==
  ASSUME Inv, Next
  PROVE  Listed'
<1>1. Grows /\ TypeOK /\ Listed
  BY NextGrows DEF Inv
<1>2. due' \subseteq due \/ \E k \in Keys : ExpireList(k)
  BY DEF Next, Request, BookingRequest, BookingAgain, CancelRequest, ConfirmRequest,
         CheckInRequest, Step, InsertRes, InsertResFails, SaveRes, InvoiceCheck, InsertInvoice,
         InsertInvoiceFails, PayAgain, Charge, PayFails, InsertTx, InsertTxFails, SaveTx,
         CancelRead, Cancel, CancelFails, Confirm, CheckIn, Crash, Elsewhere, Settle, Expire
<1>3. CASE due' \subseteq due
  BY <1>1, <1>3 DEF Listed, Grows, TypeOK
<1>4. ASSUME NEW k \in Keys, ExpireList(k) PROVE Listed'
  BY <1>1, <1>4 DEF Listed, Grows, TypeOK, ExpireList
<1> QED
  BY <1>2, <1>3, <1>4

-----------------------------------------------------------------------------
(* Records and rows.                                                       *)

LEMMA PayableNext ==
  ASSUME Inv, Next
  PROVE  AnsweredPayable'
<1> USE DEF rows, redis, history, local
<1>1. Grows /\ TypeOK /\ AnsweredPayable /\ Handlers
  BY NextGrows DEF Inv
<1>2. CASE UNCHANGED <<invoices, txs, resIdem, txIdem, answered>>
  BY <1>1, <1>2 DEF AnsweredPayable, Grows, TypeOK
<1>3. ASSUME NEW w \in Workers,
             \/ SaveRes(w) \/ InsertInvoice(w) \/ InsertInvoiceFails(w) \/ PayAgain(w)
             \/ InsertTx(w) \/ InsertTxFails(w) \/ SaveTx(w)
      PROVE  AnsweredPayable'
  <2>1. Knows(w) /\ job[w] \in Keys
    BY <1>1, <1>3, JobIsKey
    DEF Handlers, SaveRes, InsertInvoice, InsertInvoiceFails, PayAgain, InsertTx,
        InsertTxFails, SaveTx
  <2>2. CASE SaveRes(w)
    BY <1>1, <2>1, <2>2 DEF SaveRes, Knows, AnsweredPayable
  <2>3. CASE InsertInvoice(w) \/ InsertInvoiceFails(w)
    <3>1. /\ UNCHANGED <<status, txs, redis, answered>> /\ pc[w] = "InsertInvoice"
          /\ invoices' = invoices \/ invoices' = invoices \cup {job[w]}
      BY <2>3 DEF InsertInvoice, InsertInvoiceFails, InsertionFails, AddInvoice
    <3> QED
      BY <1>1, <2>1, <3>1 DEF Knows, AnsweredPayable
  <2>4. CASE PayAgain(w)
    BY <1>1, <2>1, <2>4 DEF PayAgain, AnsweredPayable
  <2>5. CASE InsertTx(w) \/ InsertTxFails(w)
    <3>1. /\ UNCHANGED <<status, invoices, redis, answered>> /\ pc[w] = "InsertTx"
          /\ txs' = txs \/ txs' = txs \cup {job[w]}
      BY <2>5 DEF InsertTx, InsertTxFails, InsertionFails, AddTx
    <3> QED
      BY <1>1, <2>1, <3>1 DEF Knows, AnsweredPayable
  <2>6. CASE SaveTx(w)
    BY <1>1, <2>1, <2>6 DEF SaveTx, Knows, AnsweredPayable
  <2> QED
    BY <1>3, <2>2, <2>3, <2>4, <2>5, <2>6
<1>4. ASSUME NEW w \in Workers,
             \/ Request(w) \/ InsertRes(w) \/ InsertResFails(w) \/ InvoiceCheck(w)
             \/ Charge(w) \/ PayFails(w) \/ CancelRead(w) \/ Cancel(w) \/ CancelFails(w)
             \/ Confirm(w) \/ CheckIn(w) \/ Crash(w)
      PROVE  UNCHANGED <<invoices, txs, resIdem, txIdem, answered>>
  BY <1>4 DEF Request, BookingRequest, BookingAgain, CancelRequest, ConfirmRequest,
              CheckInRequest, InsertRes, InsertResFails, InvoiceCheck, Charge, PayFails,
              CancelRead, Cancel, CancelFails, Confirm, CheckIn, Crash
<1>5. ASSUME NEW k \in Keys, Elsewhere(k)
      PROVE  UNCHANGED <<invoices, txs, resIdem, txIdem, answered>>
  BY <1>5 DEF Elsewhere, Settle, ExpireList, Expire
<1> QED
  BY <1>2, <1>3, <1>4, <1>5 DEF Next, Step

-----------------------------------------------------------------------------
(* Half-done bookings.                                                     *)

\* The status of a booking becomes "pending" or "confirmed" only by its own
\* insertion, and by the confirmation of a pending one.
LEMMA StepHolds ==
  ASSUME Inv, NEW w \in Workers, Step(w), NEW k \in Keys,
         status'[k] \in {"pending", "confirmed"},
         status[k] \notin {"pending", "confirmed"}
  PROVE  job[w] = k /\ (InsertRes(w) \/ k \in disturbed')
<1> USE DEF rows, redis, history
<1>1. TypeOK /\ status' # status
  BY DEF Inv
<1>2. \/ InsertRes(w) \/ InsertResFails(w) \/ Cancel(w) \/ Confirm(w) \/ CheckIn(w)
  BY <1>1
  DEF Step, SaveRes, InvoiceCheck, InsertInvoice, InsertInvoiceFails, PayAgain, Charge, PayFails,
      InsertTx, InsertTxFails, SaveTx, CancelRead, CancelFails, Crash
<1>3. job[w] \in Keys
  BY <1>1, <1>2, JobIsKey DEF InsertRes, InsertResFails, Cancel, Confirm, CheckIn
<1>4. PICK s : SetStatus(job[w], s)
  BY <1>1, <1>2
  DEF InsertRes, InsertResFails, Cancel, Confirm, CheckIn, InsertRow, InsertionFails
<1>5. job[w] = k /\ status'[k] = s
  BY <1>1, <1>3, <1>4, StatusStep
<1>6. CASE InsertRes(w)
  BY <1>5, <1>6
<1>7. CASE InsertResFails(w)
  BY <1>1, <1>5, <1>7 DEF InsertResFails
<1>8. CASE Cancel(w) \/ CheckIn(w)
  BY <1>1, <1>5, <1>8, StatusStep DEF Cancel, CheckIn
<1>9. CASE Confirm(w)
  BY <1>1, <1>5, <1>9 DEF Confirm
<1> QED
  BY <1>2, <1>6, <1>7, <1>8, <1>9

\* A handler that has a half-done booking in hand lets go of it only when it can
\* be paid for, is cancelled, or is marked as disturbed.
LEMMA StepKeeps ==
  ASSUME Inv, NEW w \in Workers, Step(w), pc[w] \in Owning,
         job[w] \notin disturbed', job[w] \notin txs',
         status[job[w]] \in {"pending", "confirmed"},
         status'[job[w]] \in {"pending", "confirmed"}
  PROVE  job'[w] = job[w] /\ pc'[w] \in Owning
<1> USE DEF rows, redis, history, Owning
<1>1. TypeOK /\ Knows(w) /\ AnsweredPayable /\ job[w] \in Keys
  BY JobIsKey DEF Inv, Handlers
<1>2. CASE SaveRes(w) \/ InvoiceCheck(w) \/ InsertInvoice(w) \/ InsertInvoiceFails(w)
  BY <1>1, <1>2, GotoStep DEF SaveRes, InvoiceCheck, InsertInvoice, InsertInvoiceFails
<1>3. CASE Charge(w) \/ PayFails(w) \/ InsertTx(w) \/ InsertTxFails(w)
  BY <1>1, <1>3, GotoStep DEF Charge, PayFails, InsertTx, InsertTxFails
<1>4. CASE PayAgain(w) \/ SaveTx(w)
  BY <1>1, <1>4 DEF PayAgain, SaveTx, AnsweredPayable, Knows
<1>5. CASE CancelRead(w)
  <2>1. Goto(w, "Cancel")
    BY <1>5 DEF CancelRead, Cancellable
  <2> QED
    BY <1>1, <2>1, GotoStep
<1>6. CASE Cancel(w)
  BY <1>1, <1>6, StatusStep DEF Cancel
<1>7. CASE CancelFails(w) \/ Crash(w)
  BY <1>7 DEF CancelFails, Crash
<1>8. CASE InsertRes(w) \/ InsertResFails(w) \/ Confirm(w) \/ CheckIn(w)
  BY <1>8 DEF InsertRes, InsertResFails, Confirm, CheckIn
<1> QED
  BY <1>2, <1>3, <1>4, <1>5, <1>6, <1>7, <1>8 DEF Step

LEMMA OwnedNext ==
  ASSUME Inv, Next
  PROVE  Owned'
<1> USE DEF rows, redis, history, local
<1> SUFFICES ASSUME NEW k \in Keys, k \notin disturbed', k \notin txs',
                    status'[k] \in {"pending", "confirmed"}
             PROVE  InHand(k)'
  BY DEF Owned
<1>1. TypeOK /\ Owned /\ Grows
  BY NextGrows DEF Inv
<1>2. disturbed \subseteq disturbed'
  BY DEF Next, Request, BookingRequest, BookingAgain, CancelRequest, ConfirmRequest,
         CheckInRequest, Step, InsertRes, InsertResFails, SaveRes, InvoiceCheck, InsertInvoice,
         InsertInvoiceFails, PayAgain, Charge, PayFails, InsertTx, InsertTxFails, SaveTx,
         CancelRead, Cancel, CancelFails, Confirm, CheckIn, Crash, Elsewhere, Settle,
         ExpireList, Expire
<1>3. status[k] \in {"pending", "confirmed"} => InHand(k)
  BY <1>1, <1>2 DEF Owned, Grows
<1>4. ASSUME NEW w \in Workers, Step(w) PROVE InHand(k)'
  <2>1. Alone(w)
    BY <1>4, StepKnows
  <2>2. CASE status[k] \notin {"pending", "confirmed"}
    <3>1. InsertRes(w) /\ job[w] = k
      BY <1>4, <2>2, StepHolds
    <3> QED
      BY <1>1, <3>1, GotoStep DEF InsertRes, InHand, Owning
  <2>3. CASE status[k] \in {"pending", "confirmed"}
    <3>1. PICK v \in Workers : job[v] = k /\ pc[v] \in Owning
      BY <1>3, <2>3 DEF InHand
    <3>2. CASE v = w
      BY <1>4, <2>3, <3>1, <3>2, StepKeeps DEF InHand
    <3>3. CASE v # w
      BY <2>1, <3>1, <3>3 DEF Alone, InHand
    <3> QED
      BY <3>2, <3>3
  <2> QED
    BY <2>2, <2>3
<1>5. ASSUME NEW w \in Workers, Request(w) PROVE InHand(k)'
  <2>1. Alone(w) /\ pc[w] = "idle" /\ UNCHANGED status
    BY <1>5, RequestKnows
    DEF Request, BookingRequest, BookingAgain, CancelRequest, ConfirmRequest, CheckInRequest, Begin
  <2>2. PICK v \in Workers : job[v] = k /\ pc[v] \in Owning
    BY <1>3, <2>1 DEF InHand
  <2> QED
    BY <2>1, <2>2 DEF Alone, InHand, Owning
<1>6. ASSUME NEW x \in Keys, Elsewhere(x) PROVE InHand(k)'
  <2>1. UNCHANGED <<pc, job>> /\ (UNCHANGED status \/ SetStatus(x, "expired"))
    BY <1>6 DEF Elsewhere, Settle, ExpireList, Expire
  <2>2. status[k] \in {"pending", "confirmed"}
    BY <1>1, <2>1, StatusStep
  <2> QED
    BY <1>3, <2>1, <2>2 DEF InHand
<1> QED
  BY <1>4, <1>5, <1>6 DEF Next

-----------------------------------------------------------------------------
(* The history of a booking, and the contract.                             *)

\* The ways the status of a booking changes.
Change(k) ==
  \/ status[k] = "none" /\ SetStatus(k, "pending") /\ UNCHANGED wasConfirmed
  \/ /\ status[k] = "pending" /\ SetStatus(k, "confirmed")
     /\ settled # {} /\ wasConfirmed' = wasConfirmed \cup {k}
  \/ /\ SetStatus(k, "cancelled") \/ SetStatus(k, "expired")
     /\ status[k] # "none" /\ UNCHANGED wasConfirmed
  \/ k \in wasConfirmed /\ SetStatus(k, "active") /\ UNCHANGED wasConfirmed

\* A transaction is inserted for a booking that is there, or one is settled.
Payment(k) ==
  \/ status[k] # "none" /\ AddTx(k) /\ UNCHANGED settled
  \/ k \in txs /\ settled' = settled \cup {k} /\ UNCHANGED txs

\* No step changes more than one of these, of more than one booking.
LEMMA NextChanges ==
  ASSUME Inv, Next
  PROVE  \/ \E k \in Keys : Change(k) /\ UNCHANGED <<txs, settled>>
         \/ \E k \in Keys : Payment(k) /\ UNCHANGED <<status, wasConfirmed>>
         \/ UNCHANGED <<status, wasConfirmed, txs, settled>>
<1> USE DEF rows, redis, history
<1>1. TypeOK
  BY DEF Inv
<1>2. ASSUME NEW w \in Workers, InsertRes(w) \/ InsertResFails(w)
      PROVE  \/ Change(job[w]) /\ job[w] \in Keys
             \/ UNCHANGED <<status, wasConfirmed>>
  BY <1>1, <1>2, JobIsKey DEF InsertRes, InsertResFails, InsertionFails, InsertRow, Change
<1>3. ASSUME NEW w \in Workers, Cancel(w) \/ Confirm(w) \/ CheckIn(w)
      PROVE  \/ Change(job[w]) /\ job[w] \in Keys
             \/ UNCHANGED <<status, wasConfirmed>>
  <2>1. Knows(w)
    BY DEF Inv, Handlers
  <2> QED
    BY <1>1, <1>3, <2>1, JobIsKey DEF Cancel, Confirm, CheckIn, Knows, Change
<1>4. ASSUME NEW w \in Workers, InsertTx(w) \/ InsertTxFails(w)
      PROVE  /\ \/ Payment(job[w]) /\ job[w] \in Keys
                \/ UNCHANGED <<txs, settled>>
             /\ UNCHANGED <<status, wasConfirmed>>
  <2>1. Knows(w)
    BY DEF Inv, Handlers
  <2> QED
    BY <1>1, <1>4, <2>1, JobIsKey DEF InsertTx, InsertTxFails, InsertionFails, Knows, Payment
<1>5. ASSUME NEW w \in Workers,
             \/ Request(w) \/ SaveRes(w) \/ InvoiceCheck(w) \/ InsertInvoice(w)
             \/ InsertInvoiceFails(w) \/ PayAgain(w) \/ Charge(w) \/ PayFails(w) \/ SaveTx(w)
             \/ CancelRead(w) \/ CancelFails(w) \/ Crash(w)
      PROVE  UNCHANGED <<status, wasConfirmed, txs, settled>>
  BY <1>5 DEF Request, BookingRequest, BookingAgain, CancelRequest, ConfirmRequest,
              CheckInRequest, SaveRes, InvoiceCheck, InsertInvoice, InsertInvoiceFails, PayAgain,
              Charge, PayFails, SaveTx, CancelRead, CancelFails, Crash
<1>6. ASSUME NEW w \in Workers,
             \/ InsertRes(w) \/ InsertResFails(w) \/ Cancel(w) \/ Confirm(w) \/ CheckIn(w)
      PROVE  UNCHANGED <<txs, settled>>
  BY <1>6 DEF InsertRes, InsertResFails, Cancel, Confirm, CheckIn
<1>7. ASSUME NEW k \in Keys, Settle(k) PROVE Payment(k) /\ UNCHANGED <<status, wasConfirmed>>
  BY <1>7 DEF Settle, Payment
<1>8. ASSUME NEW k \in Keys, Expire(k)
      PROVE  /\ Change(k) \/ UNCHANGED <<status, wasConfirmed>>
             /\ UNCHANGED <<txs, settled>>
  BY <1>8 DEF Expire, Change, Inv, Listed
<1>9. ASSUME NEW k \in Keys, ExpireList(k)
      PROVE  UNCHANGED <<status, wasConfirmed, txs, settled>>
  BY <1>9 DEF ExpireList
<1>10. ASSUME NEW w \in Workers, Step(w)
       PROVE  \/ \E k \in Keys : Change(k) /\ UNCHANGED <<txs, settled>>
              \/ \E k \in Keys : Payment(k) /\ UNCHANGED <<status, wasConfirmed>>
              \/ UNCHANGED <<status, wasConfirmed, txs, settled>>
  BY <1>2, <1>3, <1>4, <1>5, <1>6, <1>10, Zenon DEF Step
<1> QED
  BY <1>5, <1>7, <1>8, <1>9, <1>10 DEF Next, Elsewhere

LEMMA HistoriesNext ==
  ASSUME Inv, Next
  PROVE  Histories'
<1>1. TypeOK /\ Histories
  BY DEF Inv
<1>2. ASSUME NEW k \in Keys, Change(k), UNCHANGED <<txs, settled>> PROVE Histories'
  BY <1>1, <1>2, StatusStep DEF Change, Histories
<1>3. ASSUME NEW k \in Keys, Payment(k), UNCHANGED <<status, wasConfirmed>> PROVE Histories'
  BY <1>1, <1>3 DEF Payment, AddTx, Histories
<1>4. CASE UNCHANGED <<status, wasConfirmed, txs, settled>>
  BY <1>1, <1>4 DEF Histories
<1> QED
  BY <1>2, <1>3, <1>4, NextChanges

LEMMA NextInv == Inv /\ [Next]_vars => Inv'
<1> SUFFICES ASSUME Inv, [Next]_vars PROVE Inv'
  OBVIOUS
<1>1. TypeOK'
  BY TypeNext DEF Inv
<1>2. CASE Next
  BY <1>1, <1>2, HandlersNext, ListedNext, PayableNext, OwnedNext, HistoriesNext DEF Inv
<1>3. CASE UNCHANGED vars
  <2> USE <1>3 DEF vars, rows, redis, local, history
  <2>1. Handlers' /\ Listed'
    BY DEF Inv, Handlers, Knows, Listed
  <2>2. AnsweredPayable' /\ Owned' /\ Histories'
    BY DEF Inv, AnsweredPayable, Owned, InHand, Histories
  <2> QED
    BY <1>1, <2>1, <2>2 DEF Inv
<1> QED
  BY <1>2, <1>3

LEMMA StageTable ==
  ASSUME NEW k
  PROVE  /\ status[k] = "none" => Stage(k) = "nothing"
         /\ status[k] = "pending" => Stage(k) = IF k \in txs THEN "payable" ELSE "held"
         /\ status[k] = "confirmed" => Stage(k) = "confirmed"
         /\ status[k] = "active" => Stage(k) = "parked"
         /\ status[k] \in {"cancelled", "expired"} =>
              Stage(k) = IF k \in wasConfirmed THEN "ended" ELSE "abandoned"
  BY DEF Stage, StageOf

LEMMA StageTableNext ==
  ASSUME NEW k
  PROVE  /\ status'[k] = "none" => Stage(k)' = "nothing"
         /\ status'[k] = "pending" => Stage(k)' = IF k \in txs' THEN "payable" ELSE "held"
         /\ status'[k] = "confirmed" => Stage(k)' = "confirmed"
         /\ status'[k] = "active" => Stage(k)' = "parked"
         /\ status'[k] \in {"cancelled", "expired"} =>
              Stage(k)' = IF k \in wasConfirmed' THEN "ended" ELSE "abandoned"
  BY DEF Stage, StageOf

\* Only the stage of k changes.
OthersStay(k) == \A x \in Keys \ {k} : Stage(x)' = Stage(x)

LEMMA StageMove ==
  ASSUME NEW k \in Keys, OthersStay(k), UNCHANGED settled,
         NEW from, NEW to, Stage(k) \in from, Stage(k)' = to
  PROVE  C!Move(k, from, to)
  BY DEF OthersStay, C!Move

LEMMA StageStays ==
  ASSUME \A x \in Keys : Stage(x)' = Stage(x)
  PROVE  [x \in Keys |-> Stage(x)]' = [x \in Keys |-> Stage(x)]
  OBVIOUS

\* Each change of a status is a step of the contract, or not seen by it.
LEMMA ChangeKeepsContract ==
  ASSUME Inv, NEW k \in Keys, Change(k), UNCHANGED <<txs, settled>>
  PROVE  [C!Next]_(C!vars)
<1>1. TypeOK /\ Histories /\ AnsweredPayable
  BY DEF Inv
<1>2. OthersStay(k)
  <2>1. \A x \in Keys \ {k} : status'[x] = status[x] /\ (x \in wasConfirmed' <=> x \in wasConfirmed)
    BY <1>1, StatusStep DEF Change
  <2> QED
    BY <2>1 DEF OthersStay, Stage
<1>3. CASE status[k] = "none" /\ SetStatus(k, "pending") /\ UNCHANGED wasConfirmed
  <2>1. Stage(k) = "nothing" /\ Stage(k)' = "held"
    BY <1>1, <1>3, StatusStep, StageTable, StageTableNext DEF AnsweredPayable
  <2>2. C!Hold(k)
    BY <1>2, <2>1, StageMove DEF C!Hold
  <2> QED
    BY <2>2 DEF C!Next
<1>4. CASE /\ status[k] = "pending" /\ SetStatus(k, "confirmed")
           /\ settled # {} /\ wasConfirmed' = wasConfirmed \cup {k}
  <2>1. Stage(k) \in {"held", "payable"} /\ Stage(k)' = "confirmed"
    BY <1>1, <1>4, StatusStep, StageTable, StageTableNext
  <2>2. C!Confirm(k)
    BY <1>2, <1>4, <2>1, StageMove DEF C!Confirm
  <2> QED
    BY <2>2 DEF C!Next
<1>5. CASE /\ SetStatus(k, "cancelled") \/ SetStatus(k, "expired")
           /\ status[k] # "none" /\ UNCHANGED wasConfirmed
  <2>1. status'[k] \in {"cancelled", "expired"} /\ status[k] \in Statuses
    BY <1>1, <1>5, StatusStep DEF TypeOK
  <2>2. CASE k \in wasConfirmed
    <3>1. Stage(k)' = "ended" /\ Stage(k) \in {"confirmed", "parked", "ended"}
      BY <1>1, <1>5, <2>1, <2>2, StageTable, StageTableNext DEF Histories
    <3>2. CASE Stage(k) = "ended"
      <4>1. [x \in Keys |-> Stage(x)]' = [x \in Keys |-> Stage(x)]
        BY <1>2, <3>1, <3>2, StageStays DEF OthersStay
      <4> QED
        BY <4>1 DEF C!vars
    <3>3. CASE Stage(k) # "ended"
      <4>1. C!End(k)
        BY <1>2, <3>1, <3>3, StageMove DEF C!End
      <4> QED
        BY <4>1 DEF C!Next
    <3> QED
      BY <3>2, <3>3
  <2>3. CASE k \notin wasConfirmed
    <3>1. Stage(k)' = "abandoned" /\ Stage(k) \in {"held", "payable", "abandoned"}
      BY <1>1, <1>5, <2>1, <2>3, StageTable, StageTableNext DEF Histories
    <3>2. CASE Stage(k) = "abandoned"
      <4>1. [x \in Keys |-> Stage(x)]' = [x \in Keys |-> Stage(x)]
        BY <1>2, <3>1, <3>2, StageStays DEF OthersStay
      <4> QED
        BY <4>1 DEF C!vars
    <3>3. CASE Stage(k) # "abandoned"
      <4>1. C!Abandon(k)
        BY <1>2, <3>1, <3>3, StageMove DEF C!Abandon
      <4> QED
        BY <4>1 DEF C!Next
    <3> QED
      BY <3>2, <3>3
  <2> QED
    BY <2>2, <2>3
<1>6. CASE k \in wasConfirmed /\ SetStatus(k, "active") /\ UNCHANGED wasConfirmed
  <2>1. Stage(k)' = "parked" /\ Stage(k) \in {"confirmed", "ended", "parked"}
    BY <1>1, <1>6, StatusStep, StageTable, StageTableNext DEF Histories, TypeOK
  <2>2. CASE Stage(k) = "parked"
    <3>1. [x \in Keys |-> Stage(x)]' = [x \in Keys |-> Stage(x)]
      BY <1>2, <2>1, <2>2, StageStays DEF OthersStay
    <3> QED
      BY <3>1 DEF C!vars
  <2>3. CASE Stage(k) # "parked"
    <3>1. C!Park(k)
      BY <1>2, <2>1, <2>3, StageMove DEF C!Park
    <3> QED
      BY <3>1 DEF C!Next
  <2> QED
    BY <2>2, <2>3
<1> QED
  BY <1>3, <1>4, <1>5, <1>6 DEF Change

LEMMA PaymentKeepsContract ==
  ASSUME Inv, NEW k \in Keys, Payment(k), UNCHANGED <<status, wasConfirmed>>
  PROVE  [C!Next]_(C!vars)
<1>1. TypeOK /\ Histories /\ AnsweredPayable
  BY DEF Inv
<1>2. CASE status[k] # "none" /\ AddTx(k) /\ UNCHANGED settled
  <2>1. OthersStay(k)
    BY <1>2 DEF AddTx, OthersStay, Stage
  <2>2. CASE status[k] = "pending"
    <3>1. Stage(k) = "held" /\ Stage(k)' = "payable"
      BY <1>2, <2>2, StageTable, StageTableNext DEF AddTx
    <3>2. C!Offer(k)
      BY <1>2, <2>1, <3>1, StageMove DEF C!Offer
    <3> QED
      BY <3>2 DEF C!Next
  <2>3. CASE status[k] # "pending"
    <3>1. Stage(k)' = Stage(k)
      BY <2>3 DEF Stage
    <3>2. [x \in Keys |-> Stage(x)]' = [x \in Keys |-> Stage(x)]
      BY <2>1, <3>1, StageStays DEF OthersStay
    <3> QED
      BY <1>2, <3>2 DEF C!vars
  <2> QED
    BY <2>2, <2>3
<1>3. CASE k \in txs /\ settled' = settled \cup {k} /\ UNCHANGED txs
  <2>1. [x \in Keys |-> Stage(x)]' = [x \in Keys |-> Stage(x)]
    BY <1>3 DEF Stage
  <2>2. status[k] \in Statuses \ {"none"}
    BY <1>1, <1>3 DEF TypeOK, AnsweredPayable
  <2>3. Stage(k) \notin {"nothing", "held"}
    BY <1>3, <2>2, StageTable
  <2>4. C!Settle(k)
    BY <1>3, <2>1, <2>3 DEF C!Settle
  <2> QED
    BY <2>4 DEF C!Next
<1> QED
  BY <1>2, <1>3 DEF Payment

LEMMA NextKeepsContract ==
  ASSUME Inv, [Next]_vars
  PROVE  [C!Next]_(C!vars)
<1>1. CASE UNCHANGED <<status, wasConfirmed, txs, settled>>
  <2>1. [x \in Keys |-> Stage(x)]' = [x \in Keys |-> Stage(x)]
    BY <1>1 DEF Stage
  <2> QED
    BY <1>1, <2>1 DEF C!vars
<1>2. CASE Next
  BY <1>1, <1>2, NextChanges, ChangeKeepsContract, PaymentKeepsContract
<1>3. CASE UNCHANGED vars
  BY <1>1, <1>3 DEF vars, rows
<1> QED
  BY <1>2, <1>3

-----------------------------------------------------------------------------
(* Theorems.                                                               *)

\* Every variable keeps its type, and a handler has a key exactly while it works.
THEOREM TypeCorrect == Spec => []TypeOK
<1>1. Inv => TypeOK
  BY DEF Inv
<1> QED
  BY <1>1, InitInv, NextInv, PTL DEF Spec

\* CreateReservation never answers with success a booking that lacks its row, its
\* invoice or its transaction, and no record or row points to one that is missing,
\* whatever handlers overlap, and whatever calls and replies are lost.
THEOREM AnswersPayable == Spec => []AnsweredPayable
<1>1. Inv => AnsweredPayable
  BY DEF Inv
<1> QED
  BY <1>1, InitInv, NextInv, PTL DEF Spec

\* CreateReservation and its compensation are all or nothing, as long as the
\* compensation itself is not stopped: with any number of overlapping requests of
\* one key, of which each may cancel what another has made.
THEOREM AllOrNothing == Spec => []NoHalfBooking
<1>1. Inv => NoHalfBooking
  <2> SUFFICES ASSUME Inv, NEW k \in Keys \ disturbed,
                      \A w \in Workers : job[w] = k => pc[w] \notin Saga,
                      status[k] \in {"pending", "confirmed"}
               PROVE  k \in invoices /\ k \in txs
    BY DEF NoHalfBooking
  <2>1. k \in txs
    BY DEF Inv, Owned, InHand, Owning
  <2> QED
    BY <2>1 DEF Inv, AnsweredPayable
<1> QED
  BY <1>1, InitInv, NextInv, PTL DEF Spec

\* The tables of the reservation, billing and payment services, written by the
\* gateway, its confirmation, the expiry job and drivers' cancellations in any
\* interleaving, implement the contract of a booking.
THEOREM ContractKept == Spec => Contract
<1>1. Init => C!Init
  <2> SUFFICES ASSUME Init PROVE C!Init
    OBVIOUS
  <2>1. \A k \in Keys : Stage(k) = "nothing"
    BY StageTable DEF Init
  <2> QED
    BY <2>1 DEF Init, C!Init
<1>2. Inv /\ [Next]_vars => [C!Next]_(C!vars)
  BY NextKeepsContract
<1> QED
  BY <1>1, <1>2, InitInv, NextInv, PTL DEF Spec, Contract, C!Spec

=============================================================================
