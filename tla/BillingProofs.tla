---------------------------- MODULE BillingProofs ----------------------------
(***************************************************************************)
(* Theorems about Billing, for any number of reservations, keys, check-out *)
(* requests in flight and faults.                                          *)
(*                                                                         *)
(* The invariant Inv says what a handler knows of the reservation it works *)
(* for, and BilledInv, for reservations whose check-outs did not overlap   *)
(* and whose keys served for nothing else, which one key they are checked  *)
(* out with and how many events of them there are on the way.  TwoWays     *)
(* says that a check-out is billed on both paths until there is a fault.   *)
(***************************************************************************)
EXTENDS Billing, FiniteSetTheorems, TLAPS

\* A handler that has completed the reservation, or found its key, knows that it
\* is completed; one that has inserted the invoice knows that it is there.
Knows(w) ==
  /\ pc[w] # "idle" => job[w].key \in Keys /\ job[w].res \in sent[job[w].key]
  /\ pc[w] \notin {"idle", "Complete"} => job[w].res \in completed
  /\ pc[w] = "SaveInv" => byKey[job[w].key] = job[w].res

Handlers == \A w \in Workers : Knows(w)

\* So do the consumer and the events it is handed.
Events ==
  /\ pc[Consumer] \in {"idle", "Insert", "Ack"}
  /\ pc[Consumer] # "idle" => job[Consumer].res \in completed
  /\ \A r \in Reservations : queue[r] > 0 \/ byEvent[r] > 0 => r \in completed

\* An invoice of the gateway is for a completed reservation that its key was sent for.
Invoiced == \A k \in Keys : byKey[k] # None => byKey[k] \in completed \cap sent[k]

Inv == TypeOK /\ Handlers /\ Events /\ Invoiced /\ IdemTruthful

USE NamesAssumption, MaxFaultsAssumption
USE DEF Procs, Calls

LEMMA InitInv == Init => Inv
<1> SUFFICES ASSUME Init PROVE Inv
  OBVIOUS
<1>1. TypeOK
  BY DEF Init, TypeOK, Jobs, IdleJob
<1>2. Handlers /\ Events /\ Invoiced /\ IdemTruthful
  BY DEF Init, Handlers, Knows, Events, Invoiced, IdemTruthful
<1> QED
  BY <1>1, <1>2 DEF Inv

-----------------------------------------------------------------------------
(* Type correctness.                                                       *)

LocalOK ==
  /\ pc \in [Procs -> Calls]
  /\ job \in [Procs -> Jobs]
  /\ \A p \in Procs : pc[p] = "idle" <=> job[p].res = None

LEMMA BeginTypes ==
  ASSUME LocalOK, NEW p \in Procs, NEW call \in Calls \ {"idle"},
         NEW r \in Reservations, NEW k \in Keys \cup {None}, Begin(p, call, r, k)
  PROVE  LocalOK'
  BY DEF LocalOK, Begin, Jobs

LEMMA GotoTypes ==
  ASSUME LocalOK, NEW p \in Procs, NEW call \in Calls, pc[p] # "idle", Goto(p, call)
  PROVE  LocalOK'
<1>1. CASE call = "idle"
  BY <1>1 DEF LocalOK, Goto, Jobs, IdleJob
<1>2. CASE call # "idle"
  BY <1>2 DEF LocalOK, Goto
<1> QED
  BY <1>1, <1>2

LEMMA BeginStep ==
  ASSUME TypeOK, NEW p \in Procs, NEW call, NEW r, NEW k, Begin(p, call, r, k)
  PROVE  /\ pc[p] = "idle" /\ pc'[p] = call
         /\ job'[p].res = r /\ job'[p].key = k
         /\ \A q \in Procs \ {p} : pc'[q] = pc[q] /\ job'[q] = job[q]
  BY DEF TypeOK, Begin

LEMMA GotoStep ==
  ASSUME TypeOK, NEW p \in Procs, NEW call, Goto(p, call)
  PROVE  /\ pc'[p] = call
         /\ call # "idle" => job'[p] = job[p]
         /\ \A q \in Procs \ {p} : pc'[q] = pc[q] /\ job'[q] = job[q]
  BY DEF TypeOK, Goto

LEMMA FaultTypes ==
  ASSUME TypeOK, NEW f, Fault(f)
  PROVE  faults' \in 0..MaxFaults /\ faults' = faults + 1
  BY DEF TypeOK, Fault

\* A handler that is not idle works for a reservation, with a key.
LEMMA JobTypes ==
  ASSUME TypeOK, Handlers, NEW w \in Workers, pc[w] # "idle"
  PROVE  /\ job[w].res \in Reservations /\ job[w].key \in Keys
         /\ job[w].res \in sent[job[w].key]
<1>1. job[w] \in Jobs /\ job[w].res # None
  BY DEF TypeOK
<1>2. job[w].res \in Reservations
  BY <1>1 DEF Jobs
<1>3. job[w].key \in Keys /\ job[w].res \in sent[job[w].key]
  BY DEF Handlers, Knows
<1> QED
  BY <1>2, <1>3

LEMMA ConsumerTypes ==
  ASSUME TypeOK, pc[Consumer] # "idle"
  PROVE  job[Consumer].res \in Reservations
<1>1. job[Consumer] \in Jobs /\ job[Consumer].res # None
  BY DEF TypeOK
<1> QED
  BY <1>1 DEF Jobs

LEMMA RequestTypes ==
  ASSUME Inv, NEW w \in Workers, Request(w)
  PROVE  TypeOK'
<1> USE DEF redis, table
<1>1. LocalOK /\ TypeOK
  BY DEF Inv, TypeOK, LocalOK
<1>2. LocalOK'
  BY <1>1, BeginTypes DEF Request, CheckOutRequest, CheckOutAgain
<1>3. UNCHANGED <<completed, redis, table, queue, faults>>
  BY DEF Request, CheckOutRequest, CheckOutAgain
<1>4. overlapped' \subseteq Reservations
  BY <1>1 DEF TypeOK, Request, CheckOutRequest, CheckOutAgain
<1>5. sent' \in [Keys -> SUBSET (Reservations \cup {Creation})]
  BY <1>1 DEF TypeOK, Request, CheckOutRequest, CheckOutAgain, Use
<1> QED
  BY <1>1, <1>2, <1>3, <1>4, <1>5 DEF TypeOK, LocalOK

LEMMA StepTypes ==
  ASSUME Inv, NEW w \in Workers, Step(w)
  PROVE  TypeOK'
<1> USE DEF redis, table
<1>1. LocalOK /\ TypeOK /\ Handlers
  BY DEF Inv, TypeOK, LocalOK
<1>2. pc[w] # "idle" /\ \E call \in Calls : Goto(w, call)
  BY DEF Step, Complete, SaveRes, Publish, Bill, InsertInvoice, InsertFails, SaveInv, Dropped, Crash
<1>3. job[w].res \in Reservations /\ job[w].key \in Keys
  BY <1>1, <1>2, JobTypes
<1>4. LocalOK'
  BY <1>1, <1>2, GotoTypes
<1>5. faults' \in 0..MaxFaults
  BY <1>1, FaultTypes
  DEF TypeOK, Step, Complete, SaveRes, Publish, Bill, InsertInvoice, InsertFails, SaveInv,
      Dropped, Crash
<1>6. /\ completed' \subseteq Reservations /\ resIdem' \subseteq Keys
      /\ invIdem' \subseteq Keys /\ byKey' \in [Keys -> Reservations \cup {None}]
      /\ overlapped' \subseteq Reservations /\ sent' = sent
  BY <1>1, <1>3
  DEF TypeOK, Step, Complete, SaveRes, Publish, Bill, InsertInvoice, InsertFails, SaveInv,
      Dropped, Crash
<1>7. byEvent' \in [Reservations -> Nat] /\ queue' \in [Reservations -> Nat]
  BY <1>1, <1>3
  DEF TypeOK, Step, Complete, SaveRes, Publish, Bill, InsertInvoice, InsertFails, SaveInv,
      Dropped, Crash
<1> QED
  BY <1>1, <1>4, <1>5, <1>6, <1>7 DEF TypeOK, LocalOK

LEMMA SubscriberTypes ==
  ASSUME Inv, Subscriber
  PROVE  TypeOK'
<1> USE DEF redis, table
<1>1. LocalOK /\ TypeOK /\ pc[Consumer] \in {"idle", "Insert", "Ack"}
  BY DEF Inv, TypeOK, LocalOK, Events
<1>2. LocalOK'
  BY <1>1, BeginTypes, GotoTypes DEF Subscriber, Receive, InsertEventInvoice, Nack, Ack, ConsumerCrash
<1>3. faults' \in 0..MaxFaults
  BY <1>1, FaultTypes
  DEF TypeOK, Subscriber, Receive, InsertEventInvoice, Nack, Ack, ConsumerCrash
<1>4. UNCHANGED <<completed, redis, byKey, sent, overlapped>>
  BY DEF Subscriber, Receive, InsertEventInvoice, Nack, Ack, ConsumerCrash
<1>5. byEvent' \in [Reservations -> Nat] /\ queue' \in [Reservations -> Nat]
  BY <1>1, ConsumerTypes
  DEF TypeOK, Subscriber, Receive, InsertEventInvoice, Nack, Ack, ConsumerCrash
<1> QED
  BY <1>1, <1>2, <1>3, <1>4, <1>5 DEF TypeOK, LocalOK

-----------------------------------------------------------------------------
(* The invariant.                                                          *)

\* A request adds to what its key was sent for.
LEMMA RequestSent ==
  ASSUME Inv, NEW w \in Workers, NEW r \in Reservations, NEW k \in Keys,
         CheckOutRequest(w, r, k) \/ CheckOutAgain(w, r, k)
  PROVE  /\ sent'[k] = sent[k] \cup {r} /\ r \in sent'[k]
         /\ \A l \in Keys \ {k} : sent'[l] = sent[l]
         /\ \A l \in Keys : sent[l] \subseteq sent'[l]
  BY DEF Inv, TypeOK, CheckOutRequest, CheckOutAgain, Use

LEMMA RequestInv ==
  ASSUME Inv, NEW w \in Workers, Request(w)
  PROVE  Inv'
<1> USE DEF redis, table
<1>1. TypeOK /\ Handlers /\ Events /\ Invoiced /\ IdemTruthful /\ TypeOK'
  BY RequestTypes DEF Inv
<1>2. UNCHANGED <<completed, redis, table, queue>>
  BY DEF Request, CheckOutRequest, CheckOutAgain
<1>3. PICK r \in Reservations, k \in Keys :
        CheckOutRequest(w, r, k) \/ CheckOutAgain(w, r, k)
  BY DEF Request
<1>4. /\ pc'[w] \in {"Complete", "Bill"} /\ job'[w].key = k /\ job'[w].res = r
      /\ \A q \in Procs \ {w} : pc'[q] = pc[q] /\ job'[q] = job[q]
  BY <1>1, <1>3, BeginStep DEF CheckOutRequest, CheckOutAgain
<1>5. pc'[w] = "Bill" => r \in completed
  <2>1. CASE CheckOutRequest(w, r, k)
    BY <1>1, <2>1, BeginStep DEF CheckOutRequest
  <2>2. CASE CheckOutAgain(w, r, k)
    BY <2>2 DEF CheckOutAgain
  <2> QED
    BY <1>3, <2>1, <2>2
<1>6. r \in sent'[k] /\ \A l \in Keys : sent[l] \subseteq sent'[l]
  BY <1>3, RequestSent
<1>7. Handlers'
  <2>1. Knows(w)'
    BY <1>2, <1>4, <1>5, <1>6 DEF Knows
  <2>2. ASSUME NEW v \in Workers \ {w} PROVE Knows(v)'
    BY <1>1, <1>2, <1>4, <1>6, <2>2 DEF Handlers, Knows
  <2> QED
    BY <2>1, <2>2 DEF Handlers
<1>8. Events' /\ Invoiced'
  BY <1>1, <1>2, <1>4, <1>6 DEF Events, Invoiced
<1>9. IdemTruthful'
  BY <1>1, <1>2, <1>6 DEF IdemTruthful, TypeOK
<1> QED
  BY <1>1, <1>7, <1>8, <1>9 DEF Inv

LEMMA StepInv ==
  ASSUME Inv, NEW w \in Workers, Step(w)
  PROVE  Inv'
<1> USE DEF redis, table
<1>1. TypeOK /\ Handlers /\ Events /\ Invoiced /\ IdemTruthful /\ TypeOK'
  BY StepTypes DEF Inv
<1>2. pc[w] # "idle" /\ \E call \in Calls : Goto(w, call)
  BY DEF Step, Complete, SaveRes, Publish, Bill, InsertInvoice, InsertFails, SaveInv, Dropped, Crash
<1>3. /\ \A q \in Procs \ {w} : pc'[q] = pc[q] /\ job'[q] = job[q]
      /\ pc'[w] # "idle" => job'[w] = job[w]
  BY <1>1, <1>2, GotoStep
<1>4. /\ job[w].res \in Reservations /\ job[w].key \in Keys
      /\ job[w].res \in sent[job[w].key]
      /\ pc[w] # "Complete" => job[w].res \in completed
      /\ pc[w] = "SaveInv" => byKey[job[w].key] = job[w].res
  BY <1>1, <1>2, JobTypes DEF Handlers, Knows
<1>5. /\ completed \subseteq completed' /\ byEvent' = byEvent /\ sent' = sent
      /\ \A k \in Keys : \/ byKey'[k] = byKey[k]
                         \/ /\ pc[w] = "Insert" /\ byKey[k] = None
                            /\ k = job[w].key /\ byKey'[k] = job[w].res
  BY <1>1
  DEF TypeOK, Step, Complete, SaveRes, Publish, Bill, InsertInvoice, InsertFails, SaveInv,
      Dropped, Crash
<1>6. /\ pc'[w] \notin {"idle", "Complete"} => job[w].res \in completed'
      /\ pc'[w] = "SaveInv" => byKey'[job[w].key] = job[w].res
  BY <1>1, <1>4, GotoStep
  DEF TypeOK, Step, Complete, SaveRes, Publish, Bill, InsertInvoice, InsertFails, SaveInv,
      Dropped, Crash
<1>7. Handlers'
  <2>1. Knows(w)'
    BY <1>3, <1>4, <1>5, <1>6 DEF Knows
  <2>2. ASSUME NEW v \in Workers \ {w} PROVE Knows(v)'
    <3>1. pc[v] # "idle" => job[v].res # None
      BY <1>1, JobTypes DEF TypeOK
    <3> QED
      BY <1>1, <1>3, <1>5, <3>1 DEF Handlers, Knows
  <2> QED
    BY <2>1, <2>2 DEF Handlers
<1>8. \A r \in Reservations : queue'[r] = queue[r] \/ (r \in completed /\ queue'[r] = queue[r] + 1)
  BY <1>1, <1>4
  DEF TypeOK, Step, Complete, SaveRes, Publish, Bill, InsertInvoice, InsertFails, SaveInv,
      Dropped, Crash
<1>9. Events'
  BY <1>1, <1>3, <1>5, <1>8 DEF Events, TypeOK
<1>10. Invoiced'
  BY <1>1, <1>4, <1>5 DEF Invoiced
<1>11. IdemTruthful'
  <2>1. /\ \A k \in invIdem' : k \in invIdem \/ (k = job[w].key /\ byKey[k] = job[w].res)
        /\ \A k \in resIdem' : k \in resIdem \/ (k = job[w].key /\ job[w].res \in completed)
    BY <1>4
    DEF Step, Complete, SaveRes, Publish, Bill, InsertInvoice, InsertFails, SaveInv, Dropped, Crash
  <2>2. \A k \in Keys : byKey[k] \in sent[k] => byKey'[k] \in sent[k]
    BY <1>4, <1>5
  <2> QED
    BY <1>1, <1>4, <1>5, <2>1, <2>2 DEF IdemTruthful, TypeOK
<1> QED
  BY <1>1, <1>7, <1>9, <1>10, <1>11 DEF Inv

LEMMA SubscriberInv ==
  ASSUME Inv, Subscriber
  PROVE  Inv'
<1> USE DEF redis, table
<1>1. TypeOK /\ Handlers /\ Events /\ Invoiced /\ IdemTruthful /\ TypeOK'
  BY SubscriberTypes DEF Inv
<1>2. UNCHANGED <<completed, redis, byKey, sent>>
  BY DEF Subscriber, Receive, InsertEventInvoice, Nack, Ack, ConsumerCrash
<1>3. \A q \in Workers : pc'[q] = pc[q] /\ job'[q] = job[q]
  BY <1>1, BeginStep, GotoStep DEF Subscriber, Receive, InsertEventInvoice, Nack, Ack, ConsumerCrash
<1>4. Handlers' /\ Invoiced' /\ IdemTruthful'
  BY <1>1, <1>2, <1>3 DEF Handlers, Knows, Invoiced, IdemTruthful
<1>5. Events'
  <2>1. CASE \E r \in Reservations : Receive(r)
    <3>1. PICK r \in Reservations : Receive(r)
      BY <2>1
    <3>2. /\ pc'[Consumer] = "Insert" /\ job'[Consumer].res = r /\ r \in completed
          /\ byEvent' = byEvent
      BY <1>1, <3>1, BeginStep DEF Receive, Events
    <3>3. \A x \in Reservations : queue'[x] > 0 => queue[x] > 0
      BY <1>1, <3>1 DEF Receive, TypeOK
    <3> QED
      BY <1>1, <1>2, <3>2, <3>3 DEF Events
  <2>2. CASE InsertEventInvoice
    <3>1. /\ pc'[Consumer] = "Ack" /\ job'[Consumer] = job[Consumer] /\ queue' = queue
          /\ job[Consumer].res \in completed
      BY <1>1, <2>2, GotoStep DEF InsertEventInvoice, Events
    <3>2. \A x \in Reservations : byEvent'[x] > 0 => byEvent[x] > 0 \/ x = job[Consumer].res
      BY <1>1, <2>2 DEF InsertEventInvoice, TypeOK
    <3> QED
      BY <1>1, <1>2, <3>1, <3>2 DEF Events
  <2>3. CASE Nack \/ Ack \/ ConsumerCrash
    <3>1. pc'[Consumer] = "idle" /\ byEvent' = byEvent /\ pc[Consumer] # "idle"
      BY <1>1, <2>3, GotoStep DEF Nack, Ack, ConsumerCrash
    <3>2. \A x \in Reservations : queue'[x] > 0 => queue[x] > 0 \/ x = job[Consumer].res
      BY <1>1, <2>3 DEF Nack, Ack, ConsumerCrash, TypeOK
    <3> QED
      BY <1>1, <1>2, <3>1, <3>2 DEF Events
  <2> QED
    BY <2>1, <2>2, <2>3 DEF Subscriber
<1> QED
  BY <1>1, <1>4, <1>5 DEF Inv

LEMMA NextInv == Inv /\ [Next]_vars => Inv'
<1>1. ASSUME Inv, UNCHANGED vars PROVE Inv'
  BY <1>1
  DEF Inv, TypeOK, Handlers, Knows, Events, Invoiced, IdemTruthful, vars, redis, table, local
<1> QED
  BY <1>1, RequestInv, StepInv, SubscriberInv DEF Next

LEMMA Invariance == Spec => []Inv
  BY InitInv, NextInv, PTL DEF Spec

\* Every variable keeps its type, and a handler without a request has no
\* reservation and no key left over from the one before.
THEOREM TypeCorrect == Spec => []TypeOK
<1>1. Inv => TypeOK
  BY DEF Inv
<1> QED
  BY <1>1, Invariance, PTL

\* What repeated check-outs are answered from is true, whatever crashed or was lost: a
\* key in the billing service is recorded for an invoice of a reservation it was sent
\* for, and one in the reservation service when such a reservation is completed.
THEOREM RecordsTruthful == Spec => []IdemTruthful
<1>1. Inv => IdemTruthful
  BY DEF Inv
<1> QED
  BY <1>1, Invariance, PTL

\* Nobody is billed who has not checked out, on neither of the two paths.
BilledAfterCheckOut ==
  \A r \in Reservations : Invoices(r) > 0 => r \in completed

\* Nobody is billed who has not checked out: neither the gateway's call nor an
\* event, however late or often it is delivered, makes an invoice of a
\* reservation that is still active.
THEOREM NobodyBilledEarly == Spec => []BilledAfterCheckOut
<1>1. ASSUME Inv PROVE BilledAfterCheckOut
  <2> SUFFICES ASSUME NEW r \in Reservations, r \notin completed
               PROVE  ~(Invoices(r) > 0)
    BY DEF BilledAfterCheckOut
  <2>1. Bills(r) = {}
    BY <1>1 DEF Inv, Invoiced, Bills
  <2>2. byEvent[r] = 0
    BY <1>1 DEF Inv, Events, TypeOK
  <2> QED
    BY <2>1, <2>2, FS_EmptySet DEF Invoices
<1> QED
  BY <1>1, Invariance, PTL

-----------------------------------------------------------------------------
(* One charge on each path, unless check-outs overlapped.                  *)

\* The reservations whose invoices of the gateway are counted.
Counting == Reservations \ (overlapped \cup Shared)

\* The keys a reservation is being checked out with, or has been.
InUse(r) ==
  {k \in Keys : /\ r \in sent[k]
                /\ \/ k \in resIdem \/ byKey[k] # None
                   \/ \E w \in Workers : pc[w] # "idle" /\ job[w].key = k}

OneKey == \A r \in Counting : \A k, l \in InUse(r) : k = l

\* One request at most is still to publish the event of the check-out.
OneEarly ==
  \A r \in Reservations \ overlapped : \A v, w \in Workers : Early(v, r) /\ Early(w, r) => v = w

\* The invoices the event of r has made and will make.
Counted ==
  \A r \in Reservations \ overlapped :
    Due(r) + queue[r] + Consuming(r) + byEvent[r] <= 1 + faults

BilledInv == OneKey /\ OneEarly /\ Counted

LEMMA InitBilled == Init => BilledInv
<1> SUFFICES ASSUME Init PROVE BilledInv
  OBVIOUS
<1>1. \A r \in Reservations : InUse(r) = {}
  BY DEF Init, InUse
<1>2. OneKey /\ OneEarly
  BY <1>1 DEF Init, OneKey, Counting, OneEarly, Early
<1>3. Counted
  BY DEF Init, Counted, Due, Early, Consuming
<1> QED
  BY <1>2, <1>3 DEF BilledInv

\* A key of a reservation that does not share it was sent for nothing else.
LEMMA OwnKeys ==
  ASSUME NEW r \in Reservations \ Shared, NEW k \in Keys, r \in sent[k]
  PROVE  sent[k] = {r}
BY DEF Shared

LEMMA SharedSame ==
  ASSUME sent' = sent
  PROVE  Shared' = Shared
BY DEF Shared

LEMMA SharedGrows ==
  ASSUME Inv, NEW w \in Workers, Request(w)
  PROVE  Shared \subseteq Shared'
<1>1. PICK r \in Reservations, k \in Keys : CheckOutRequest(w, r, k) \/ CheckOutAgain(w, r, k)
  BY DEF Request
<1>2. \A l \in Keys : sent[l] \subseteq sent'[l]
  BY <1>1, RequestSent
<1> QED
  BY <1>2 DEF Shared

\* A request for r with a key in use, or for a reservation that nobody has
\* touched, leaves one key in use; or it is recorded as an overlap.
LEMMA RequestBilled ==
  ASSUME Inv, BilledInv, NEW w \in Workers, Request(w)
  PROVE  BilledInv'
<1> USE DEF redis, table
<1>1. /\ TypeOK /\ Handlers /\ Events /\ Invoiced /\ IdemTruthful
      /\ OneKey /\ OneEarly /\ Counted
  BY DEF Inv, BilledInv
<1>2. UNCHANGED <<completed, redis, table, queue, faults>> /\ overlapped \subseteq overlapped'
  BY DEF Request, CheckOutRequest, CheckOutAgain
<1>3. PICK r \in Reservations, k \in Keys :
        CheckOutRequest(w, r, k) \/ CheckOutAgain(w, r, k)
  BY DEF Request
<1>4. /\ pc[w] = "idle" /\ job'[w].key = k /\ job'[w].res = r
      /\ \A q \in Procs \ {w} : pc'[q] = pc[q] /\ job'[q] = job[q]
  BY <1>1, <1>3, BeginStep DEF CheckOutRequest, CheckOutAgain
<1>5. /\ sent'[k] = sent[k] \cup {r}
      /\ \A l \in Keys \ {k} : sent'[l] = sent[l]
      /\ Counting' \subseteq Counting
  BY <1>2, <1>3, RequestSent, SharedGrows DEF Counting
<1>6. \A x \in Reservations : Consuming(x)' = Consuming(x)
  BY <1>4 DEF Consuming
\* Whoever counts has no key that is sent for another reservation.
<1>7. \A x \in Counting' \ {r} : InUse(x)' = InUse(x)
  <2> SUFFICES ASSUME NEW x \in Counting' \ {r}, NEW l \in Keys
               PROVE  l \in InUse(x)' <=> l \in InUse(x)
    BY DEF InUse
  <2>1. x \in Reservations /\ x \notin Shared'
    BY DEF Counting
  <2>2. CASE l = k
    <3>1. x \notin sent'[k] /\ x \notin sent[k]
      BY <1>5, <2>1 DEF Shared
    <3> QED
      BY <2>2, <3>1 DEF InUse
  <2>3. CASE l # k
    BY <1>2, <1>4, <1>5, <2>3 DEF InUse
  <2> QED
    BY <2>2, <2>3
<1>8. CASE CheckOutAgain(w, r, k)
  <2>1. k \in resIdem /\ pc'[w] = "Bill"
    BY <1>1, <1>8, BeginStep DEF CheckOutAgain
  <2>2. ASSUME r \in Counting' PROVE InUse(r)' = InUse(r)
    <3>1. r \in Reservations /\ r \notin Shared'
      BY <2>2 DEF Counting
    <3>2. sent'[k] = {r}
      BY <1>5, <3>1 DEF Shared
    <3>3. r \in sent[k]
      BY <1>1, <1>5, <2>1, <3>2 DEF IdemTruthful
    <3> QED
      BY <1>2, <1>4, <1>5, <2>1, <3>3 DEF InUse
  <2>3. \A v \in Workers, x \in Reservations : Early(v, x)' <=> Early(v, x)
    BY <1>4, <2>1 DEF Early
  <2>4. \A x \in Reservations : Due(x)' = Due(x)
    BY <2>3 DEF Due
  <2>5. OneKey'
    BY <1>1, <1>5, <1>7, <2>2 DEF OneKey
  <2> QED
    BY <1>1, <1>2, <1>6, <2>3, <2>4, <2>5 DEF BilledInv, OneEarly, Counted
<1>9. CASE CheckOutRequest(w, r, k)
  <2>1. /\ r \notin completed /\ pc'[w] = "Complete"
        /\ r \notin overlapped' => \A v \in Workers : pc[v] = "Complete" => job[v].res # r
    BY <1>1, <1>9, BeginStep DEF CheckOutRequest, Overtakes
  <2>2. \A x \in Reservations \ {r} : Due(x)' = Due(x)
    BY <1>4, <2>1 DEF Due, Early
  <2>3. ASSUME r \notin overlapped'
        PROVE  /\ \A v \in Workers : pc[v] # "idle" => job[v].res # r
               /\ queue[r] = 0 /\ byEvent[r] = 0 /\ Consuming(r) = 0
    <3>1. \A v \in Workers : pc[v] # "idle" => job[v].res # r
      BY <1>1, <2>1, <2>3 DEF Handlers, Knows
    <3>2. queue[r] = 0 /\ byEvent[r] = 0
      BY <1>1, <2>1 DEF Events, TypeOK
    <3>3. Consuming(r) = 0
      BY <1>1, <2>1 DEF Consuming, Events
    <3> QED
      BY <3>1, <3>2, <3>3
  <2>4. OneKey'
    <3>1. ASSUME r \in Counting', NEW l \in InUse(r)' PROVE l = k
      <4> SUFFICES ASSUME l # k PROVE FALSE
        OBVIOUS
      <4>1. /\ r \in Reservations \ Shared /\ r \notin overlapped' /\ l \in Keys
            /\ r \in sent[l]
        BY <1>5, <3>1 DEF Counting, InUse
      <4>2. sent[l] = {r}
        BY <4>1, OwnKeys
      <4>3. l \notin resIdem /\ byKey[l] = None
        BY <1>1, <2>1, <4>1, <4>2 DEF IdemTruthful, Invoiced
      <4>4. \A v \in Workers : pc[v] # "idle" => job[v].key # l
        BY <1>1, <2>3, <4>1, <4>2, JobTypes
      <4> QED
        BY <1>2, <1>4, <3>1, <4>3, <4>4 DEF InUse
    <3>2. \A x \in Counting' : \A l, m \in InUse(x)' : l = m
      <4>1. \A x \in Counting' \ {r} : \A l, m \in InUse(x)' : l = m
        BY <1>1, <1>5, <1>7 DEF OneKey
      <4> QED
        BY <3>1, <4>1
    <3> QED
      BY <3>2 DEF OneKey
  <2>5. OneEarly'
    BY <1>1, <1>2, <1>4, <2>3 DEF OneEarly, Early
  <2>6. Counted'
    <3>1. ASSUME r \notin overlapped'
          PROVE  (Due(r) + queue[r] + Consuming(r) + byEvent[r])' <= 1 + faults'
      <4>1. Due(r)' \in {0, 1} /\ queue'[r] = 0 /\ byEvent'[r] = 0 /\ Consuming(r)' = 0
        BY <1>2, <1>6, <2>3, <3>1 DEF Due
      <4>2. faults' \in Nat
        BY <1>1, <1>2 DEF TypeOK
      <4> QED
        BY <4>1, <4>2
    <3> QED
      BY <1>1, <1>2, <1>6, <2>2, <3>1 DEF Counted
  <2> QED
    BY <2>4, <2>5, <2>6 DEF BilledInv
<1> QED
  BY <1>3, <1>8, <1>9

\* A handler goes on with its key, and publishes at most the event it was due.
LEMMA StepBilled ==
  ASSUME Inv, BilledInv, NEW w \in Workers, Step(w)
  PROVE  BilledInv'
<1> USE DEF redis, table
<1>1. /\ TypeOK /\ Handlers /\ OneKey /\ OneEarly /\ Counted
  BY DEF Inv, BilledInv
<1>2. pc[w] # "idle" /\ \E call \in Calls : Goto(w, call)
  BY DEF Step, Complete, SaveRes, Publish, Bill, InsertInvoice, InsertFails, SaveInv, Dropped, Crash
<1>3. /\ \A q \in Procs \ {w} : pc'[q] = pc[q] /\ job'[q] = job[q]
      /\ pc'[w] # "idle" => job'[w] = job[w]
  BY <1>1, <1>2, GotoStep
<1>4. job[w].res \in Reservations /\ job[w].key \in Keys
  BY <1>1, <1>2, JobTypes
<1>5. UNCHANGED <<byEvent, sent, overlapped>> /\ (faults' = faults \/ faults' = faults + 1)
  BY <1>1, FaultTypes
  DEF Step, Complete, SaveRes, Publish, Bill, InsertInvoice, InsertFails, SaveInv, Dropped, Crash
<1>6. /\ resIdem' \subseteq resIdem \cup {job[w].key}
      /\ \A k \in Keys \ {job[w].key} : byKey'[k] = byKey[k]
  BY <1>1 DEF TypeOK, Step, Complete, SaveRes, Publish, Bill, InsertInvoice, InsertFails, SaveInv, Dropped, Crash
<1>7. \A r \in Reservations : InUse(r)' \subseteq InUse(r)
  <2>1. \A v \in Workers : pc'[v] # "idle" => pc[v] # "idle" /\ job'[v] = job[v]
    BY <1>2, <1>3
  <2> QED
    BY <1>2, <1>4, <1>5, <1>6, <2>1 DEF InUse
<1>8. OneKey'
  BY <1>1, <1>5, <1>7, SharedSame DEF OneKey, Counting
<1>9. \A v \in Workers, r \in Reservations : Early(v, r)' => Early(v, r)
  <2>1. pc'[w] \in {"Complete", "SaveRes", "Publish"}
          => pc[w] \in {"Complete", "SaveRes", "Publish"}
    BY <1>1, GotoStep
    DEF Step, Complete, SaveRes, Publish, Bill, InsertInvoice, InsertFails, SaveInv, Dropped, Crash
  <2> QED
    BY <1>3, <2>1 DEF Early
<1>10. OneEarly'
  BY <1>1, <1>5, <1>9 DEF OneEarly
<1>11. \A r \in Reservations :
         /\ Consuming(r)' = Consuming(r) /\ Consuming(r) \in {0, 1}
         /\ Due(r) \in {0, 1} /\ Due(r)' \in {0, 1} /\ Due(r)' <= Due(r)
  BY <1>3, <1>9 DEF Consuming, Due
<1>12. Counted'
  <2> SUFFICES ASSUME NEW r \in Reservations \ overlapped
               PROVE  Due(r)' + queue'[r] + Consuming(r) + byEvent[r] <= 1 + faults'
    BY <1>5, <1>11 DEF Counted
  <2>1. /\ Due(r) + queue[r] + Consuming(r) + byEvent[r] <= 1 + faults
        /\ queue[r] \in Nat /\ byEvent[r] \in Nat /\ faults \in Nat
    BY <1>1 DEF Counted, TypeOK
  <2>2. CASE queue'[r] = queue[r]
    BY <1>5, <1>11, <2>1, <2>2
  <2>3. CASE queue'[r] # queue[r]
    <3>1. /\ pc[w] = "Publish" /\ r = job[w].res /\ queue'[r] = queue[r] + 1
          /\ pc'[w] = "Bill"
      BY <1>1, <1>2, <2>3, GotoStep
      DEF TypeOK, Step, Complete, SaveRes, Publish, Bill, InsertInvoice, InsertFails, SaveInv,
          Dropped, Crash
    <3>2. Early(w, r) /\ ~Early(w, r)'
      BY <3>1 DEF Early
    <3>3. Due(r) = 1 /\ Due(r)' = 0
      BY <1>1, <1>9, <3>2 DEF Due, OneEarly
    <3> QED
      BY <1>5, <1>11, <2>1, <3>1, <3>3
  <2> QED
    BY <2>2, <2>3
<1> QED
  BY <1>8, <1>10, <1>12 DEF BilledInv

\* The consumer turns events into invoices one by one; one that comes back is
\* paid for by the fault that sent it back.
LEMMA SubscriberBilled ==
  ASSUME Inv, BilledInv, Subscriber
  PROVE  BilledInv'
<1> USE DEF redis, table
<1>1. /\ TypeOK /\ Events /\ OneKey /\ OneEarly /\ Counted
  BY DEF Inv, BilledInv
<1>2. UNCHANGED <<completed, redis, byKey, sent, overlapped>>
  BY DEF Subscriber, Receive, InsertEventInvoice, Nack, Ack, ConsumerCrash
<1>3. \A q \in Workers : pc'[q] = pc[q] /\ job'[q] = job[q]
  BY <1>1, BeginStep, GotoStep DEF Subscriber, Receive, InsertEventInvoice, Nack, Ack, ConsumerCrash
<1>4. OneKey' /\ OneEarly' /\ \A r \in Reservations : Due(r)' = Due(r)
  <2>1. Counting' = Counting /\ \A r \in Reservations : InUse(r)' = InUse(r)
    BY <1>2, <1>3, SharedSame DEF Counting, InUse
  <2> QED
    BY <1>1, <1>2, <1>3, <2>1 DEF OneKey, Counting, OneEarly, Early, Due
<1>5. Counted'
  <2> SUFFICES ASSUME NEW r \in Reservations \ overlapped
               PROVE  Due(r) + queue'[r] + Consuming(r)' + byEvent'[r] <= 1 + faults'
    BY <1>2, <1>4 DEF Counted
  <2>1. /\ Due(r) + queue[r] + Consuming(r) + byEvent[r] <= 1 + faults
        /\ queue[r] \in Nat /\ byEvent[r] \in Nat /\ faults \in Nat
        /\ Due(r) \in {0, 1} /\ Consuming(r) \in {0, 1}
    BY <1>1 DEF Counted, TypeOK, Due, Consuming
  <2>2. CASE \E x \in Reservations : Receive(x)
    <3>1. PICK x \in Reservations : Receive(x)
      BY <2>2
    <3>2. /\ pc[Consumer] = "idle" /\ pc'[Consumer] = "Insert" /\ job'[Consumer].res = x
          /\ UNCHANGED <<byEvent, faults>>
      BY <1>1, <3>1, BeginStep DEF Receive
    <3>3. queue'[r] = IF r = x THEN queue[r] - 1 ELSE queue[r]
      BY <1>1, <3>1 DEF Receive, TypeOK
    <3>4. Consuming(r) = 0 /\ Consuming(r)' = IF r = x THEN 1 ELSE 0
      BY <3>2 DEF Consuming
    <3> QED
      BY <2>1, <3>2, <3>3, <3>4
  <2>3. CASE InsertEventInvoice
    <3>1. /\ pc[Consumer] = "Insert" /\ pc'[Consumer] = "Ack" /\ UNCHANGED <<queue, faults>>
      BY <1>1, <2>3, GotoStep DEF InsertEventInvoice
    <3>2. byEvent'[r] = byEvent[r] + Consuming(r)
      BY <1>1, <2>1, <2>3, <3>1 DEF InsertEventInvoice, TypeOK, Consuming
    <3>3. Consuming(r)' = 0
      BY <3>1 DEF Consuming
    <3> QED
      BY <2>1, <3>1, <3>2, <3>3
  <2>4. CASE Nack \/ Ack \/ ConsumerCrash
    <3>1. /\ pc'[Consumer] = "idle" /\ byEvent' = byEvent
          /\ \/ queue'[r] = queue[r] /\ faults' \in {faults, faults + 1}
             \/ queue'[r] = queue[r] + 1 /\ faults' = faults + 1
      BY <1>1, <2>1, <2>4, GotoStep, FaultTypes DEF Nack, Ack, ConsumerCrash, TypeOK
    <3>2. Consuming(r)' = 0
      BY <3>1 DEF Consuming
    <3> QED
      BY <2>1, <3>1, <3>2
  <2> QED
    BY <2>2, <2>3, <2>4 DEF Subscriber
<1> QED
  BY <1>4, <1>5 DEF BilledInv

LEMMA NextBilled == Inv /\ BilledInv /\ [Next]_vars => BilledInv'
<1>1. ASSUME BilledInv, UNCHANGED vars PROVE BilledInv'
  <2>1. Counting' = Counting /\ \A r \in Reservations : InUse(r)' = InUse(r)
    BY <1>1, SharedSame DEF Counting, InUse, vars, redis, table, local
  <2> QED
    BY <1>1, <2>1
    DEF BilledInv, OneKey, Counting, OneEarly, Early, Counted, Due, Consuming, vars, table, local
<1> QED
  BY <1>1, RequestBilled, StepBilled, SubscriberBilled DEF Next

LEMMA SmallSet ==
  ASSUME NEW S, \A k, l \in S : k = l
  PROVE  Cardinality(S) <= 1
<1>1. CASE S = {}
  BY <1>1, FS_EmptySet
<1>2. CASE S # {}
  <2>1. PICK k \in S : TRUE
    BY <1>2
  <2>2. S = {k}
    BY <2>1
  <2> QED
    BY <2>2, FS_Singleton
<1> QED
  BY <1>1, <1>2

\* A session whose check-outs did not overlap has at most one invoice from the
\* gateway, however often the check-out is repeated and with whatever keys, if
\* these served for nothing else; and at most one more from the event than there
\* were crashes to redeliver it.
THEOREM OneChargePerPath == Spec => []ChargedOncePerPath
<1>1. ASSUME Inv, BilledInv PROVE ChargedOncePerPath
  <2> SUFFICES ASSUME NEW r \in Reservations \ overlapped
               PROVE  /\ r \notin Shared => Cardinality(Bills(r)) <= 1
                      /\ byEvent[r] <= 1 + faults
    BY DEF ChargedOncePerPath
  <2>1. ASSUME r \notin Shared PROVE \A k, l \in Bills(r) : k = l
    <3>1. r \in Counting /\ r # None
      BY <2>1 DEF Counting
    <3>2. Bills(r) \subseteq InUse(r)
      BY <1>1, <3>1 DEF Inv, Invoiced, Bills, InUse
    <3> QED
      BY <1>1, <3>1, <3>2 DEF BilledInv, OneKey
  <2>2. Due(r) + queue[r] + Consuming(r) + byEvent[r] <= 1 + faults
    BY <1>1 DEF BilledInv, Counted
  <2>3. /\ Due(r) \in {0, 1} /\ Consuming(r) \in {0, 1}
        /\ queue[r] \in Nat /\ byEvent[r] \in Nat /\ faults \in Nat
    BY <1>1 DEF Due, Consuming, Inv, TypeOK
  <2>4. byEvent[r] <= 1 + faults
    BY <2>2, <2>3
  <2> QED
    BY <2>1, <2>4, SmallSet
<1>2. Init => Inv /\ BilledInv
  BY InitInv, InitBilled
<1>3. Inv /\ BilledInv /\ [Next]_vars => (Inv /\ BilledInv)'
  BY NextInv, NextBilled
<1> QED
  BY <1>1, <1>2, <1>3, PTL DEF Spec

-----------------------------------------------------------------------------
(* No single fault loses a bill.                                           *)

Billed(r) == Bills(r) # {} \/ byEvent[r] > 0

\* Three things lead to an invoice of r: a request that has yet to publish the event
\* and to bill, one that has yet to bill, and an event.
PublishDue(r) == \E w \in Workers : pc[w] \in {"SaveRes", "Publish"} /\ job[w].res = r
BillDue(r)    == \E w \in Workers : pc[w] \in {"Bill", "Insert"} /\ job[w].res = r
EventDue(r)   == queue[r] > 0 \/ (pc[Consumer] = "Insert" /\ job[Consumer].res = r)

\* Until there is a fault, a check-out is billed on both paths, unless its key served
\* for something else.
TwoWays ==
  faults = 0 =>
    \A r \in completed \ Shared : Billed(r) \/ PublishDue(r) \/ (EventDue(r) /\ BillDue(r))

ToBeBilled(r) == Billed(r) \/ PublishDue(r) \/ EventDue(r) \/ BillDue(r)

\* What a step leaves of the ways to a bill when nothing fails.
WaysKept ==
  \A r \in Reservations \ Shared :
    /\ Billed(r) => Billed(r)'
    /\ EventDue(r) => EventDue(r)' \/ Billed(r)'
    /\ PublishDue(r) => PublishDue(r)' \/ (EventDue(r)' /\ BillDue(r)')
    /\ BillDue(r) => BillDue(r)' \/ Billed(r)'
    /\ r \in completed' => r \in completed \/ PublishDue(r)'

LEMMA RequestWays ==
  ASSUME Inv, NEW w \in Workers, Request(w)
  PROVE  WaysKept /\ faults' = faults
<1> USE DEF redis, table
<1>1. TypeOK /\ Consumer \in Procs
  BY DEF Inv
<1>2. UNCHANGED <<completed, redis, table, queue, faults>>
  BY DEF Request, CheckOutRequest, CheckOutAgain
<1>3. pc[w] = "idle" /\ \A q \in Procs \ {w} : pc'[q] = pc[q] /\ job'[q] = job[q]
  BY <1>1, BeginStep DEF Request, CheckOutRequest, CheckOutAgain
<1>4. ASSUME NEW r \in Reservations
      PROVE  /\ Billed(r) => Billed(r)'
             /\ PublishDue(r) => PublishDue(r)'
             /\ BillDue(r) => BillDue(r)'
             /\ EventDue(r) => EventDue(r)'
  BY <1>1, <1>2, <1>3 DEF Billed, Bills, PublishDue, BillDue, EventDue
<1> QED
  BY <1>2, <1>4 DEF WaysKept

\* A handler that publishes goes on to bill, and one that bills finds an invoice or
\* makes one.
LEMMA StepWays ==
  ASSUME Inv, NEW w \in Workers, Step(w), faults' = faults
  PROVE  WaysKept
<1> USE DEF redis, table
<1>1. TypeOK /\ Handlers /\ Invoiced /\ IdemTruthful /\ faults \in Nat
  BY DEF Inv, TypeOK
<1>2. /\ pc[w] # "idle" /\ ~Dropped(w) /\ ~Crash(w)
      /\ \E call \in Calls : Goto(w, call)
  BY <1>1, FaultTypes
  DEF Step, Complete, SaveRes, Publish, Bill, InsertInvoice, InsertFails, SaveInv, Dropped, Crash
<1>3. /\ \A q \in Procs \ {w} : pc'[q] = pc[q] /\ job'[q] = job[q]
      /\ pc'[w] # "idle" => job'[w] = job[w]
  BY <1>1, <1>2, GotoStep
<1>4. /\ job[w].res \in Reservations /\ job[w].key \in Keys
      /\ job[w].res \in sent[job[w].key]
  BY <1>1, <1>2, JobTypes
<1>5. /\ \A k \in Keys : byKey[k] # None => byKey'[k] = byKey[k]
      /\ byEvent' = byEvent
      /\ \A r \in Reservations : queue[r] > 0 => queue'[r] > 0
      /\ completed' \subseteq completed \cup {job[w].res}
  BY <1>1, <1>2, <1>4
  DEF TypeOK, Step, Complete, SaveRes, Publish, Bill, InsertInvoice, InsertFails, SaveInv
<1>6. /\ pc[w] = "Complete" => pc'[w] = "SaveRes"
      /\ pc[w] # "Complete" => completed' = completed
      /\ pc[w] = "SaveRes" => pc'[w] = "Publish"
      /\ pc[w] = "Publish" => pc'[w] = "Bill" /\ queue'[job[w].res] > 0
      /\ pc[w] \in {"Bill", "Insert"} /\ job[w].res \notin Shared
           => pc'[w] = "Insert" \/ byKey'[job[w].key] = job[w].res
  <2>1. CASE Complete(w) \/ SaveRes(w) \/ SaveInv(w)
    BY <1>1, <2>1, GotoStep DEF Complete, SaveRes, SaveInv
  <2>2. CASE Publish(w)
    BY <1>1, <1>4, <2>2, GotoStep DEF Publish, TypeOK
  <2>3. CASE Bill(w)
    <3>1. /\ pc[w] = "Bill" /\ (pc'[w] = "Insert" \/ job[w].key \in invIdem)
          /\ UNCHANGED <<completed, byKey>>
      BY <1>1, <2>3, GotoStep DEF Bill, table
    <3>2. ASSUME job[w].res \notin Shared, job[w].key \in invIdem
          PROVE  byKey[job[w].key] = job[w].res
      <4>1. sent[job[w].key] = {job[w].res}
        BY <1>4, <3>2, OwnKeys
      <4>2. byKey[job[w].key] \in sent[job[w].key]
        BY <1>1, <3>2 DEF IdemTruthful
      <4> QED
        BY <4>1, <4>2
    <3> QED
      BY <3>1, <3>2
  <2>4. CASE InsertInvoice(w)
    BY <1>1, <1>4, <2>4 DEF InsertInvoice, TypeOK
  <2>5. CASE InsertFails(w)
    <3>1. pc[w] = "Insert" /\ byKey[job[w].key] # None /\ UNCHANGED <<completed, byKey>>
      BY <2>5 DEF InsertFails, table
    <3>2. ASSUME job[w].res \notin Shared PROVE byKey[job[w].key] = job[w].res
      <4>1. sent[job[w].key] = {job[w].res}
        BY <1>4, <3>2, OwnKeys
      <4>2. byKey[job[w].key] \in sent[job[w].key]
        BY <1>1, <1>4, <3>1 DEF Invoiced
      <4> QED
        BY <4>1, <4>2
    <3> QED
      BY <3>1, <3>2
  <2> QED
    BY <1>2, <2>1, <2>2, <2>3, <2>4, <2>5 DEF Step
<1> SUFFICES ASSUME NEW r \in Reservations \ Shared
             PROVE  /\ Billed(r) => Billed(r)'
                    /\ EventDue(r) => EventDue(r)'
                    /\ PublishDue(r) => PublishDue(r)' \/ (EventDue(r)' /\ BillDue(r)')
                    /\ BillDue(r) => BillDue(r)' \/ Billed(r)'
                    /\ r \in completed' => r \in completed \/ PublishDue(r)'
  BY DEF WaysKept
<1>7. Billed(r) => Billed(r)'
  BY <1>5 DEF Billed, Bills
<1>8. EventDue(r) => EventDue(r)'
  BY <1>3, <1>5 DEF EventDue
<1>9. PublishDue(r) => PublishDue(r)' \/ (EventDue(r)' /\ BillDue(r)')
  <2> SUFFICES ASSUME NEW v \in Workers, pc[v] \in {"SaveRes", "Publish"}, job[v].res = r
               PROVE  PublishDue(r)' \/ (EventDue(r)' /\ BillDue(r)')
    BY DEF PublishDue
  <2>1. CASE v # w
    BY <1>3, <2>1 DEF PublishDue
  <2>2. CASE v = w
    BY <1>3, <1>6, <2>2 DEF PublishDue, EventDue, BillDue
  <2> QED
    BY <2>1, <2>2
<1>10. BillDue(r) => BillDue(r)' \/ Billed(r)'
  <2> SUFFICES ASSUME NEW v \in Workers, pc[v] \in {"Bill", "Insert"}, job[v].res = r
               PROVE  BillDue(r)' \/ Billed(r)'
    BY DEF BillDue
  <2>1. CASE v # w
    BY <1>3, <2>1 DEF BillDue
  <2>2. CASE v = w /\ pc'[w] = "Insert"
    BY <1>3, <2>2 DEF BillDue
  <2>3. CASE v = w /\ byKey'[job[w].key] = job[w].res
    BY <1>4, <2>3 DEF Billed, Bills
  <2> QED
    BY <1>6, <2>1, <2>2, <2>3
<1>11. r \in completed' => r \in completed \/ PublishDue(r)'
  BY <1>3, <1>5, <1>6 DEF PublishDue
<1> QED
  BY <1>7, <1>8, <1>9, <1>10, <1>11

LEMMA SubscriberWays ==
  ASSUME Inv, Subscriber
  PROVE  /\ \A r \in Reservations : /\ Billed(r) => Billed(r)'
                                    /\ PublishDue(r) => PublishDue(r)'
                                    /\ BillDue(r) => BillDue(r)'
         /\ completed' = completed
         /\ faults' = faults => WaysKept
<1> USE DEF redis, table
<1>1. TypeOK /\ Events /\ faults \in Nat
  BY DEF Inv, TypeOK
<1>2. UNCHANGED <<completed, byKey>>
  BY DEF Subscriber, Receive, InsertEventInvoice, Nack, Ack, ConsumerCrash
<1>3. \A q \in Workers : pc'[q] = pc[q] /\ job'[q] = job[q]
  BY <1>1, BeginStep, GotoStep DEF Subscriber, Receive, InsertEventInvoice, Nack, Ack, ConsumerCrash
<1>4. \A r \in Reservations : byEvent[r] > 0 => byEvent'[r] > 0
  BY <1>1, ConsumerTypes
  DEF TypeOK, Subscriber, Receive, InsertEventInvoice, Nack, Ack, ConsumerCrash
<1>5. \A r \in Reservations : /\ Billed(r) => Billed(r)'
                              /\ PublishDue(r) => PublishDue(r)'
                              /\ BillDue(r) => BillDue(r)'
  BY <1>2, <1>3, <1>4 DEF Billed, Bills, PublishDue, BillDue
<1>6. ASSUME faults' = faults, NEW r \in Reservations, EventDue(r)
      PROVE  EventDue(r)' \/ Billed(r)'
  <2>1. CASE \E x \in Reservations : Receive(x)
    <3>1. PICK x \in Reservations : Receive(x)
      BY <2>1
    <3>2. pc[Consumer] = "idle" /\ pc'[Consumer] = "Insert" /\ job'[Consumer].res = x
      BY <1>1, <3>1, BeginStep DEF Receive
    <3>3. r # x => queue'[r] = queue[r]
      BY <1>1, <3>1 DEF Receive, TypeOK
    <3> QED
      BY <1>6, <3>2, <3>3 DEF EventDue
  <2>2. CASE InsertEventInvoice
    <3>1. queue' = queue /\ job[Consumer].res \in Reservations
      BY <1>1, <2>2, ConsumerTypes DEF InsertEventInvoice
    <3>2. byEvent'[job[Consumer].res] > 0
      BY <1>1, <2>2, <3>1 DEF InsertEventInvoice, TypeOK
    <3> QED
      BY <1>6, <3>1, <3>2 DEF EventDue, Billed
  <2>3. CASE Ack
    BY <1>6, <2>3 DEF Ack, EventDue
  <2>4. ~Nack /\ ~ConsumerCrash
    BY <1>1, <1>6, FaultTypes DEF Nack, ConsumerCrash
  <2> QED
    BY <2>1, <2>2, <2>3, <2>4 DEF Subscriber
<1> QED
  BY <1>2, <1>5, <1>6 DEF WaysKept

\* A fault blocks one of the ways.
LEMMA FaultWays ==
  ASSUME Inv, NEW w \in Workers, Dropped(w) \/ Crash(w), NEW r \in Reservations
  PROVE  /\ Billed(r) => Billed(r)'
         /\ EventDue(r) => EventDue(r)'
         /\ PublishDue(r) /\ BillDue(r) => PublishDue(r)' \/ BillDue(r)'
<1> USE DEF redis, table
<1>1. TypeOK
  BY DEF Inv
<1>2. /\ UNCHANGED <<table, queue>>
      /\ \A q \in Procs \ {w} : pc'[q] = pc[q] /\ job'[q] = job[q]
  BY <1>1, GotoStep DEF Dropped, Crash
<1>3. (Billed(r) => Billed(r)') /\ (EventDue(r) => EventDue(r)')
  BY <1>2 DEF Billed, Bills, EventDue
<1>4. ASSUME PublishDue(r), BillDue(r) PROVE PublishDue(r)' \/ BillDue(r)'
  <2>1. PICK u \in Workers : pc[u] \in {"SaveRes", "Publish"} /\ job[u].res = r
    BY <1>4 DEF PublishDue
  <2>2. PICK v \in Workers : pc[v] \in {"Bill", "Insert"} /\ job[v].res = r
    BY <1>4 DEF BillDue
  <2>3. CASE u # w
    BY <1>2, <2>1, <2>3 DEF PublishDue
  <2>4. CASE v # w
    BY <1>2, <2>2, <2>4 DEF BillDue
  <2> QED
    BY <2>1, <2>2, <2>3, <2>4
<1> QED
  BY <1>3, <1>4

LEMMA NextWays ==
  ASSUME Inv, [Next]_vars, faults' = faults
  PROVE  WaysKept
<1>1. CASE UNCHANGED vars
  BY <1>1 DEF WaysKept, Billed, Bills, PublishDue, BillDue, EventDue, vars, table, local
<1> QED
  BY <1>1, RequestWays, StepWays, SubscriberWays DEF Next

LEMMA NextShared ==
  ASSUME Inv, [Next]_vars
  PROVE  Shared \subseteq Shared'
<1>1. ASSUME NEW w \in Workers, Step(w) PROVE sent' = sent
  BY <1>1
  DEF Step, Complete, SaveRes, Publish, Bill, InsertInvoice, InsertFails, SaveInv, Dropped, Crash
<1>2. ASSUME Subscriber PROVE sent' = sent
  BY <1>2 DEF Subscriber, Receive, InsertEventInvoice, Nack, Ack, ConsumerCrash
<1>3. ASSUME UNCHANGED vars PROVE sent' = sent
  BY <1>3 DEF vars
<1> QED
  BY <1>1, <1>2, <1>3, SharedGrows, SharedSame DEF Next

LEMMA NextTwoWays == Inv /\ TwoWays /\ [Next]_vars => TwoWays'
<1> SUFFICES ASSUME Inv, TwoWays, [Next]_vars, faults' = 0, NEW r \in (completed \ Shared)'
             PROVE  Billed(r)' \/ PublishDue(r)' \/ (EventDue(r)' /\ BillDue(r)')
  BY DEF TwoWays
<1>1. faults \in Nat /\ r \in Reservations \ Shared
  BY NextInv, NextShared DEF Inv, TypeOK
<1>2. faults' = faults \/ faults' = faults + 1
  BY FaultTypes
  DEF Inv, Next, Request, CheckOutRequest, CheckOutAgain, Step, Complete, SaveRes, Publish,
      Bill, InsertInvoice, InsertFails, SaveInv, Dropped, Crash, Subscriber, Receive,
      InsertEventInvoice, Nack, Ack, ConsumerCrash, vars
<1>3. faults = 0 /\ WaysKept
  BY <1>1, <1>2, NextWays
<1> QED
  BY <1>1, <1>3 DEF TwoWays, WaysKept

\* A check-out that has got as far as the billing does not lose its bill to a fault,
\* be it a lost call, a stopped process or a rejected event; and what was due after
\* it stays due, as long as no second fault follows.  (If its key served for something
\* else, the bill may be lost without a fault.)
BillNotLost ==
  [][\A r \in Reservations \ Shared :
       (ToBeBilled(r) /\ faults' = faults) \/ (BillDue(r) /\ faults = 0)
         => ToBeBilled(r)']_vars

LEMMA NextBillNotLost ==
  ASSUME Inv, TwoWays, [Next]_vars, NEW r \in Reservations \ Shared,
         (ToBeBilled(r) /\ faults' = faults) \/ (BillDue(r) /\ faults = 0)
  PROVE  ToBeBilled(r)'
<1>1. CASE faults' = faults
  <2>1. ToBeBilled(r)
    BY <1>1 DEF ToBeBilled
  <2> QED
    BY <1>1, <2>1, NextWays DEF WaysKept, ToBeBilled
<1>2. CASE faults' # faults
  <2>1. r \in completed /\ BillDue(r) /\ faults = 0
    BY <1>2 DEF BillDue, Inv, Handlers, Knows
  <2>2. Billed(r) \/ (PublishDue(r) /\ BillDue(r)) \/ (EventDue(r) /\ BillDue(r))
    BY <2>1 DEF TwoWays
  <2>3. ASSUME NEW w \in Workers, Dropped(w) \/ Crash(w) PROVE ToBeBilled(r)'
    BY <2>2, <2>3, FaultWays DEF ToBeBilled
  <2>4. CASE Subscriber
    BY <2>1, <2>4, SubscriberWays DEF ToBeBilled
  <2>5. Subscriber \/ \E w \in Workers : Dropped(w) \/ Crash(w)
    BY <1>2
    DEF Next, Request, CheckOutRequest, CheckOutAgain, Step, Complete, SaveRes, Publish,
        Bill, InsertInvoice, InsertFails, SaveInv, vars
  <2> QED
    BY <2>3, <2>4, <2>5
<1> QED
  BY <1>1, <1>2

\* The safety behind BilledDespiteOneFault: the two paths back each other up.
THEOREM NoBillLost == Spec => BillNotLost
<1>1. Init => Inv /\ TwoWays
  BY InitInv DEF Init, TwoWays
<1>2. Inv /\ TwoWays /\ [Next]_vars => (Inv /\ TwoWays)'
  BY NextInv, NextTwoWays
<1>3. Inv /\ TwoWays /\ [Next]_vars
        => [\A r \in Reservations \ Shared :
              (ToBeBilled(r) /\ faults' = faults) \/ (BillDue(r) /\ faults = 0)
                => ToBeBilled(r)']_vars
  BY NextBillNotLost
<1> QED
  BY <1>1, <1>2, <1>3, PTL DEF Spec, BillNotLost

-----------------------------------------------------------------------------
(* The contract of billing is kept: each step is a step of BillingContract *)
(* or leaves the mapped state as it is.                                    *)

Account == [r \in Reservations |-> Owed(r)]

\* The invoices of the gateway, as the contract sees them.
Billings == {<<byKey[k], k>> : k \in {j \in Keys : byKey[j] # None}}

LEMMA BillingsSame ==
  ASSUME byKey' = byKey
  PROVE  Billings' = Billings
BY DEF Billings

LEMMA AccountSame ==
  ASSUME \A r \in Reservations : Owed(r)' = Owed(r)
  PROVE  Account' = Account
BY DEF Account

LEMMA AccountChange ==
  ASSUME NEW r \in Reservations, NEW n, Owed(r)' = n,
         \A x \in Reservations \ {r} : Owed(x)' = Owed(x)
  PROVE  Account' = [Account EXCEPT ![r] = n]
BY DEF Account

LEMMA OwedTypes ==
  ASSUME TypeOK, NEW r \in Reservations
  PROVE  /\ Due(r) \in {0, 1} /\ Consuming(r) \in {0, 1} /\ queue[r] \in Nat
         /\ Account[r] = Owed(r) /\ Owed(r) \in Nat
BY DEF TypeOK, Due, Consuming, Owed, Account

\* What a request that begins adds to an account is not seen before the check-out.
LEMMA RequestContract ==
  ASSUME Inv, NEW w \in Workers, Request(w)
  PROVE  C!Next
<1> USE DEF redis, table
<1>1. TypeOK /\ Handlers
  BY DEF Inv
<1>2. UNCHANGED <<completed, byKey, byEvent, queue, faults>>
  BY DEF Request, CheckOutRequest, CheckOutAgain
<1>3. PICK r \in Reservations, k \in Keys :
        CheckOutRequest(w, r, k) \/ CheckOutAgain(w, r, k)
  BY DEF Request
<1>4. /\ pc[w] = "idle" /\ job'[w].res = r
      /\ \A q \in Procs \ {w} : pc'[q] = pc[q] /\ job'[q] = job[q]
      /\ CheckOutAgain(w, r, k) => pc'[w] = "Bill"
  BY <1>1, <1>3, BeginStep DEF CheckOutRequest, CheckOutAgain
<1>5. \A x \in Reservations : Consuming(x)' = Consuming(x)
  BY <1>4 DEF Consuming
<1>6. Shared \subseteq Shared' /\ Shared' \subseteq Reservations /\ Billings' = Billings
  BY <1>2, SharedGrows, BillingsSame DEF Shared
<1>7. CASE CheckOutAgain(w, r, k)
  <2>1. \A x \in Reservations : Due(x)' = Due(x)
    BY <1>4, <1>7 DEF Due, Early
  <2>2. overlapped' = overlapped
    BY <1>7 DEF CheckOutAgain
  <2>3. Account' = Account
    BY <1>2, <1>5, <2>1, <2>2, AccountSame DEF Owed
  <2> QED
    BY <1>2, <1>6, <2>2, <2>3 DEF C!Next, C!Use, Account, Billings
<1>8. CASE CheckOutRequest(w, r, k)
  <2>1. r \notin completed /\ (overlapped' = overlapped \/ overlapped' = overlapped \cup {r})
    BY <1>8 DEF CheckOutRequest
  <2>2. \A x \in Reservations \ {r} : Due(x)' = Due(x)
    BY <1>4 DEF Due, Early
  <2>3. \A x \in Reservations : Owed(x)' = Owed(x)
    BY <1>2, <1>5, <2>1, <2>2 DEF Owed
  <2>4. Account' = Account
    BY <2>3, AccountSame
  <2> QED
    BY <1>2, <1>6, <2>1, <2>4 DEF C!Next, C!Use, Account, Billings
<1> QED
  BY <1>3, <1>7, <1>8

\* Steps of a handler, seen from the account: those of others stay, its own does not
\* grow but by the check-out itself.
LEMMA StepAccount ==
  ASSUME Inv, BilledInv, NEW w \in Workers, Step(w)
  PROVE  /\ UNCHANGED <<sent, overlapped, byEvent>> /\ job[w].res \in Reservations
         /\ \A r \in Reservations : Consuming(r)' = Consuming(r)
         /\ \A r \in Reservations \ {job[w].res} : Due(r)' = Due(r) /\ queue'[r] = queue[r]
         /\ pc'[w] # "idle" => job'[w] = job[w]
         /\ \A r \in Reservations \ overlapped : r = job[w].res =>
              Due(r)' = IF Early(w, r) THEN IF Early(w, r)' THEN 1 ELSE 0 ELSE Due(r)
<1> USE DEF redis, table
<1>1. TypeOK /\ Handlers /\ OneEarly
  BY DEF Inv, BilledInv
<1>2. pc[w] # "idle" /\ \E call \in Calls : Goto(w, call)
  BY DEF Step, Complete, SaveRes, Publish, Bill, InsertInvoice, InsertFails, SaveInv, Dropped, Crash
<1>3. /\ \A q \in Procs \ {w} : pc'[q] = pc[q] /\ job'[q] = job[q]
      /\ pc'[w] # "idle" => job'[w] = job[w]
  BY <1>1, <1>2, GotoStep
<1>4. job[w].res \in Reservations
  BY <1>1, <1>2, JobTypes
<1>5. UNCHANGED <<sent, overlapped, byEvent>>
  BY DEF Step, Complete, SaveRes, Publish, Bill, InsertInvoice, InsertFails, SaveInv, Dropped, Crash
<1>6. \A r \in Reservations \ {job[w].res} : queue'[r] = queue[r]
  BY <1>1, <1>4
  DEF TypeOK, Step, Complete, SaveRes, Publish, Bill, InsertInvoice, InsertFails, SaveInv,
      Dropped, Crash
<1>7. \A v \in Workers \ {w}, r \in Reservations : Early(v, r)' <=> Early(v, r)
  BY <1>3 DEF Early
<1>8. pc'[w] \in {"Complete", "SaveRes", "Publish"}
        => pc[w] \in {"Complete", "SaveRes", "Publish"}
  BY <1>1, GotoStep
  DEF Step, Complete, SaveRes, Publish, Bill, InsertInvoice, InsertFails, SaveInv, Dropped, Crash
<1>9. \A r \in Reservations \ {job[w].res} : Due(r)' = Due(r)
  <2>1. \A r \in Reservations \ {job[w].res} : ~Early(w, r) /\ ~Early(w, r)'
    BY <1>3 DEF Early
  <2> QED
    BY <1>7, <2>1 DEF Due
<1>10. ASSUME NEW r \in Reservations \ overlapped, r = job[w].res
       PROVE  Due(r)' = IF Early(w, r) THEN IF Early(w, r)' THEN 1 ELSE 0 ELSE Due(r)
  <2>1. Early(w, r)' => Early(w, r)
    BY <1>3, <1>8, <1>10 DEF Early
  <2>2. Early(w, r) => \A v \in Workers \ {w} : ~Early(v, r)
    BY <1>1, <1>10 DEF OneEarly
  <2> QED
    BY <1>7, <2>1, <2>2 DEF Due
<1>11. \A r \in Reservations : Consuming(r)' = Consuming(r)
  BY <1>3 DEF Consuming
<1> QED
  BY <1>3, <1>4, <1>5, <1>6, <1>9, <1>10, <1>11

\* A check-out that is completed twice was completed by two requests that overlapped,
\* or still owes its event.
LEMMA CompleteContract ==
  ASSUME Inv, BilledInv, NEW w \in Workers, Complete(w)
  PROVE  [C!Next]_(C!vars)
<1> USE DEF redis, table
<1>1. TypeOK /\ Events /\ Step(w)
  BY DEF Inv, Step
<1>2. PICK r \in Reservations : r = job[w].res
  BY <1>1, StepAccount
<1>3. /\ completed' = completed \cup {r} /\ UNCHANGED <<byKey, queue, faults>>
      /\ pc[w] = "Complete" /\ pc'[w] = "SaveRes"
  BY <1>1, <1>2, GotoStep DEF Complete
<1>4. Early(w, r) /\ Early(w, r)'
  BY <1>1, <1>2, <1>3, StepAccount DEF Early
<1>5. /\ UNCHANGED <<overlapped, byEvent, Shared>>
      /\ \A x \in Reservations : Consuming(x)' = Consuming(x)
      /\ \A x \in Reservations \ {r} : Due(x)' = Due(x)
      /\ r \notin overlapped => Due(r)' = 1 /\ Due(r) = 1
  BY <1>1, <1>2, <1>4, StepAccount, SharedSame DEF Due
<1>6. \A x \in Reservations \ {r} : Owed(x)' = Owed(x)
  BY <1>3, <1>5 DEF Owed
<1>7. CASE r \in completed \/ r \in overlapped
  <2>1. Owed(r)' = Owed(r)
    BY <1>3, <1>5, <1>7 DEF Owed
  <2>2. Account' = Account
    BY <1>6, <2>1, AccountSame
  <2>3. CASE r \in completed
    BY <1>3, <1>5, <2>2, <2>3 DEF C!vars, Account
  <2>4. CASE r \notin completed
    BY <1>3, <1>5, <1>7, <2>2, <2>4 DEF C!Next, C!Leave, Account
  <2> QED
    BY <2>3, <2>4
<1>8. CASE r \notin completed /\ r \notin overlapped
  <2>1. queue[r] = 0 /\ Consuming(r) = 0
    BY <1>1, <1>8 DEF Events, TypeOK, Consuming
  <2>2. Owed(r)' = 1
    BY <1>3, <1>5, <1>8, <2>1 DEF Owed
  <2>3. Account' = [Account EXCEPT ![r] = 1]
    BY <1>6, <2>2, AccountChange
  <2> QED
    BY <1>3, <1>5, <1>8, <2>3 DEF C!Next, C!Leave, Account
<1> QED
  BY <1>7, <1>8

\* The event is in the queue when the request no longer has it.
LEMMA PublishContract ==
  ASSUME Inv, BilledInv, NEW w \in Workers, Publish(w)
  PROVE  UNCHANGED C!vars
<1> USE DEF redis, table
<1>1. TypeOK /\ Step(w)
  BY DEF Inv, Step
<1>2. PICK r \in Reservations : r = job[w].res
  BY <1>1, StepAccount
<1>3. /\ UNCHANGED <<completed, byKey, faults>> /\ queue'[r] = queue[r] + 1
      /\ pc[w] = "Publish" /\ pc'[w] = "Bill"
  BY <1>1, <1>2, GotoStep DEF Publish, TypeOK
<1>4. Early(w, r) /\ ~Early(w, r)'
  BY <1>2, <1>3 DEF Early
<1>5. /\ UNCHANGED <<overlapped, byEvent, Shared>>
      /\ \A x \in Reservations : Consuming(x)' = Consuming(x)
      /\ \A x \in Reservations \ {r} : Due(x)' = Due(x) /\ queue'[x] = queue[x]
      /\ r \notin overlapped => Due(r)' = 0 /\ Due(r) = 1
  BY <1>1, <1>2, <1>4, StepAccount, SharedSame DEF Due
<1>6. \A x \in Reservations \ {r} : Owed(x)' = Owed(x)
  BY <1>3, <1>5 DEF Owed
<1>7. Owed(r)' = Owed(r)
  BY <1>1, <1>3, <1>5, OwedTypes DEF Owed
<1>8. Account' = Account
  BY <1>6, <1>7, AccountSame
<1> QED
  BY <1>3, <1>5, <1>8 DEF C!vars, Account

\* The gateway's invoice is the first one of the session.
LEMMA InsertContract ==
  ASSUME Inv, BilledInv, NEW w \in Workers, InsertInvoice(w)
  PROVE  C!Next
<1> USE DEF redis, table
<1>1. TypeOK /\ Handlers /\ Invoiced /\ OneKey /\ Step(w)
  BY DEF Inv, Step, BilledInv
<1>2. PICK r \in Reservations : r = job[w].res
  BY <1>1, StepAccount
<1>3. PICK k \in Keys : k = job[w].key
  BY <1>1 DEF InsertInvoice, Handlers, Knows
<1>4. /\ byKey' = [byKey EXCEPT ![k] = r] /\ UNCHANGED <<completed, queue, faults>>
      /\ byKey[k] = None /\ pc[w] = "Insert" /\ pc'[w] = "SaveInv"
      /\ r \in completed /\ r \in sent[k]
  BY <1>1, <1>2, <1>3, GotoStep DEF InsertInvoice, Handlers, Knows
<1>5. ~Early(w, r) /\ ~Early(w, r)'
  BY <1>4 DEF Early
<1>6. /\ UNCHANGED <<overlapped, byEvent, Shared>>
      /\ \A x \in Reservations : Consuming(x)' = Consuming(x)
      /\ \A x \in Reservations \ {r} : Due(x)' = Due(x)
      /\ r \notin overlapped => Due(r)' = Due(r)
  BY <1>1, <1>2, <1>5, StepAccount, SharedSame
<1>7. Account' = Account
  BY <1>4, <1>6, AccountSame DEF Owed
<1>8. Billings' = Billings \cup {<<r, k>>}
  <2>1. byKey \in [Keys -> Reservations \cup {None}] /\ r # None
    BY <1>1 DEF TypeOK
  <2>2. /\ byKey'[k] = r
        /\ \A l \in Keys \ {k} : byKey'[l] = byKey[l]
    BY <1>4, <2>1
  <2> QED
    BY <1>4, <2>1, <2>2 DEF Billings
<1>9. ASSUME r \notin overlapped \cup Shared, NEW l \in Keys, <<r, l>> \in Billings PROVE FALSE
  <2>1. r \in Counting /\ byKey[l] = r /\ byKey[l] # None
    BY <1>9 DEF Counting, Billings
  <2>2. l \in InUse(r)
    BY <1>1, <2>1 DEF InUse, Invoiced
  <2>3. k \in InUse(r)
    BY <1>3, <1>4 DEF InUse
  <2>4. l = k
    BY <1>1, <2>1, <2>2, <2>3 DEF OneKey
  <2> QED
    BY <1>4, <2>1, <2>4
<1>10. C!Charge(r)
  BY <1>4, <1>6, <1>7, <1>8, <1>9 DEF C!Charge, Account, Billings
<1> QED
  BY <1>10 DEF C!Next

\* A fault of a handler loses the event that the handler was to publish, if any.
LEMMA FaultContract ==
  ASSUME Inv, BilledInv, NEW w \in Workers, Dropped(w) \/ Crash(w)
  PROVE  C!Fault
<1> USE DEF redis, table
<1>1. TypeOK /\ Step(w)
  BY DEF Inv, Step
<1>2. PICK r \in Reservations : r = job[w].res
  BY <1>1, StepAccount
<1>3. /\ UNCHANGED <<completed, byKey, queue>> /\ faults' = faults + 1
  BY <1>1, FaultTypes DEF Dropped, Crash
<1>4. /\ UNCHANGED <<overlapped, byEvent, Shared>>
      /\ \A x \in Reservations : Consuming(x)' = Consuming(x)
      /\ \A x \in Reservations \ {r} : Due(x)' = Due(x)
      /\ r \notin overlapped => Due(r)' = Due(r) \/ (Due(r) = 1 /\ Due(r)' = 0)
  BY <1>1, <1>2, StepAccount, SharedSame DEF Due
<1>5. \A x \in Reservations \ {r} : Owed(x)' = Owed(x)
  BY <1>3, <1>4 DEF Owed
<1>6. CASE Owed(r)' = Owed(r)
  <2>1. Account' = Account
    BY <1>5, <1>6, AccountSame
  <2> QED
    BY <1>3, <1>4, <2>1 DEF C!Fault, Account
<1>7. CASE Owed(r)' # Owed(r)
  <2>1. Owed(r) > 0 /\ Owed(r)' = Owed(r) - 1
    BY <1>1, <1>3, <1>4, <1>7, OwedTypes DEF Owed
  <2>2. Account' = [Account EXCEPT ![r] = Owed(r) - 1]
    BY <1>5, <2>1, AccountChange
  <2>3. Account[r] = Owed(r)
    BY DEF Account
  <2> QED
    BY <1>3, <1>4, <2>1, <2>2, <2>3 DEF C!Fault, C!Loses, Account
<1> QED
  BY <1>6, <1>7

LEMMA StepContract ==
  ASSUME Inv, BilledInv, NEW w \in Workers, Step(w)
  PROVE  [C!Next]_(C!vars)
<1> USE DEF redis, table
<1>1. CASE SaveRes(w) \/ Bill(w) \/ InsertFails(w) \/ SaveInv(w)
  <2>1. TypeOK
    BY DEF Inv
  <2>2. PICK r \in Reservations : r = job[w].res
    BY StepAccount
  <2>3. UNCHANGED <<completed, byKey, queue, faults>>
    BY <1>1 DEF SaveRes, Bill, InsertFails, SaveInv
  <2>4. (pc[w] = "SaveRes" /\ pc'[w] = "Publish") \/ pc[w] \in {"Bill", "Insert", "SaveInv"}
    BY <1>1, <2>1, GotoStep DEF SaveRes, Bill, InsertFails, SaveInv
  <2>5. Early(w, r) => Early(w, r)'
    BY <2>2, <2>4, StepAccount DEF Early
  <2>6. /\ UNCHANGED <<overlapped, byEvent, Shared>>
        /\ \A x \in Reservations : Consuming(x)' = Consuming(x)
        /\ \A x \in Reservations \ {r} : Due(x)' = Due(x)
        /\ r \notin overlapped => Due(r)' = Due(r)
    BY <2>2, <2>5, StepAccount, SharedSame DEF Due
  <2>7. Account' = Account
    BY <2>3, <2>6, AccountSame DEF Owed
  <2> QED
    BY <2>3, <2>6, <2>7 DEF C!vars, Account
<1> QED
  BY <1>1, CompleteContract, PublishContract, InsertContract, FaultContract DEF Step, C!Next

\* The subscriber: what it takes from the queue it still owes; an invoice pays it off.
LEMMA SubscriberContract ==
  ASSUME Inv, Subscriber
  PROVE  [C!Next]_(C!vars)
<1> USE DEF redis, table
<1>1. TypeOK /\ Events
  BY DEF Inv
<1>2. UNCHANGED <<completed, byKey, overlapped, Shared>>
  BY SharedSame DEF Subscriber, Receive, InsertEventInvoice, Nack, Ack, ConsumerCrash
<1>3. \A q \in Workers : pc'[q] = pc[q] /\ job'[q] = job[q]
  BY <1>1, BeginStep, GotoStep DEF Subscriber, Receive, InsertEventInvoice, Nack, Ack, ConsumerCrash
<1>4. \A x \in Reservations : Due(x)' = Due(x)
  BY <1>3 DEF Due, Early
<1>5. CASE \E r \in Reservations : Receive(r)
  <2>1. PICK r \in Reservations : Receive(r)
    BY <1>5
  <2>2. /\ pc[Consumer] = "idle" /\ pc'[Consumer] = "Insert" /\ job'[Consumer].res = r
        /\ UNCHANGED <<byEvent, faults>>
    BY <1>1, <2>1, BeginStep DEF Receive
  <2>3. /\ queue[r] > 0 /\ queue'[r] = queue[r] - 1
        /\ \A x \in Reservations \ {r} : queue'[x] = queue[x]
    BY <1>1, <2>1 DEF Receive, TypeOK
  <2>4. Consuming(r) = 0 /\ Consuming(r)' = 1
    BY <2>2 DEF Consuming
  <2>5. \A x \in Reservations \ {r} : Consuming(x)' = Consuming(x)
    BY <2>2 DEF Consuming
  <2>6. \A x \in Reservations \ {r} : Owed(x)' = Owed(x)
    BY <1>2, <1>4, <2>3, <2>5 DEF Owed
  <2>7. Owed(r)' = Owed(r)
    BY <1>1, <1>2, <1>4, <2>3, <2>4, OwedTypes DEF Owed
  <2>8. Account' = Account
    BY <2>6, <2>7, AccountSame
  <2> QED
    BY <1>2, <2>2, <2>8 DEF C!vars, Account
<1>6. CASE ~\E r \in Reservations : Receive(r)
  <2>1. PICK r \in Reservations : r = job[Consumer].res
    BY <1>1, <1>6, ConsumerTypes DEF Subscriber, InsertEventInvoice, Nack, Ack, ConsumerCrash
  <2>2. /\ pc[Consumer] \in {"Insert", "Ack"} /\ pc'[Consumer] \in {"idle", "Ack"}
        /\ r \in completed
    BY <1>1, <1>6, <2>1, GotoStep
    DEF Events, Subscriber, InsertEventInvoice, Nack, Ack, ConsumerCrash
  <2>3. \A x \in Reservations : Consuming(x)' = 0
    BY <2>2 DEF Consuming
  <2>4. \A x \in Reservations \ {r} : Consuming(x) = 0
    BY <2>1 DEF Consuming
  <2>5. \A x \in Reservations \ {r} : queue'[x] = queue[x]
    BY <1>1, <1>6, <2>1 DEF TypeOK, Subscriber, InsertEventInvoice, Nack, Ack, ConsumerCrash
  <2>6. \A x \in Reservations \ {r} : Owed(x)' = Owed(x)
    BY <1>2, <1>4, <2>3, <2>4, <2>5 DEF Owed
  <2>7. Account[r] = Owed(r) /\ Owed(r) \in Nat
    BY <1>1, OwedTypes
  <2>8. CASE Ack
    <3>1. UNCHANGED <<queue, byEvent, faults>> /\ Consuming(r) = 0
      BY <2>8 DEF Ack, Consuming
    <3>2. Account' = Account
      BY <1>2, <1>4, <2>3, <2>6, <3>1, AccountSame DEF Owed
    <3> QED
      BY <1>2, <3>1, <3>2 DEF C!vars, Account
  <2>9. CASE InsertEventInvoice
    <3>1. /\ UNCHANGED <<queue, faults>> /\ byEvent' = [byEvent EXCEPT ![r] = @ + 1]
          /\ Consuming(r) = 1
      BY <2>1, <2>9 DEF InsertEventInvoice, Consuming
    <3>2. CASE r \in overlapped
      <4>1. Account' = Account
        BY <1>2, <2>6, <3>2, AccountSame DEF Owed
      <4> QED
        BY <1>2, <2>2, <3>1, <3>2, <4>1 DEF C!Next, C!ChargeForEvent, Account
    <3>3. CASE r \notin overlapped
      <4>1. Owed(r) > 0 /\ Owed(r)' = Owed(r) - 1
        BY <1>1, <1>2, <1>4, <2>2, <2>3, <3>1, <3>3, OwedTypes DEF Owed
      <4>2. Account' = [Account EXCEPT ![r] = Owed(r) - 1]
        BY <2>6, <4>1, AccountChange
      <4> QED
        BY <1>2, <2>2, <2>7, <3>1, <4>1, <4>2 DEF C!Next, C!ChargeForEvent, Account
    <3> QED
      BY <3>2, <3>3
  <2>10. CASE Nack \/ ConsumerCrash
    <3>1. faults' = faults + 1 /\ byEvent' = byEvent
      BY <1>1, <2>10, FaultTypes DEF Nack, ConsumerCrash
    <3>2. queue'[r] = queue[r] \/ queue'[r] = queue[r] + 1
      BY <1>1, <2>1, <2>10 DEF Nack, ConsumerCrash, TypeOK
    <3>3. Nack => Consuming(r) = 1 /\ queue'[r] = queue[r]
      BY <2>1 DEF Nack, Consuming
    <3>4. \/ Owed(r)' = Owed(r)
          \/ Owed(r) > 0 /\ Owed(r)' = Owed(r) - 1
          \/ Owed(r)' = Owed(r) + 1
      BY <1>1, <1>2, <1>4, <2>2, <2>3, <3>2, <3>3, OwedTypes DEF Owed
    <3>5. CASE Owed(r)' = Owed(r)
      <4>1. Account' = Account
        BY <2>6, <3>5, AccountSame
      <4> QED
        BY <1>2, <3>1, <4>1 DEF C!Next, C!Fault, Account
    <3>6. CASE Owed(r) > 0 /\ Owed(r)' = Owed(r) - 1
      <4>1. Account' = [Account EXCEPT ![r] = Owed(r) - 1]
        BY <2>6, <3>6, AccountChange
      <4> QED
        BY <1>2, <2>7, <3>1, <3>6, <4>1 DEF C!Next, C!Fault, C!Loses, Account
    <3>7. CASE Owed(r)' = Owed(r) + 1
      <4>1. Account' = [Account EXCEPT ![r] = Account[r] + 1]
        BY <2>6, <2>7, <3>7, AccountChange
      <4>2. C!Repeats(r)
        BY <2>2, <4>1 DEF C!Repeats, Account
      <4> QED
        BY <1>2, <3>1, <4>2 DEF C!Next, C!Fault
    <3> QED
      BY <3>4, <3>5, <3>6, <3>7
  <2> QED
    BY <1>6, <2>8, <2>9, <2>10 DEF Subscriber
<1> QED
  BY <1>5, <1>6

LEMMA NextContract ==
  ASSUME Inv, BilledInv, [Next]_vars
  PROVE  [C!Next]_(C!vars)
<1>1. CASE UNCHANGED vars
  <2>1. UNCHANGED <<completed, table, queue, local, overlapped, faults, Shared>>
    BY <1>1, SharedSame DEF vars
  <2>2. Account' = Account
    BY <2>1, AccountSame DEF Owed, Due, Early, Consuming, local
  <2> QED
    BY <2>1, <2>2 DEF C!vars, Account, table
<1> QED
  BY <1>1, RequestContract, StepContract, SubscriberContract DEF Next

\* The check-out, its two paths to the billing service and the broker implement the
\* contract of billing: nobody is billed early, the gateway bills a session once, and
\* what the event owes is paid off by an invoice, or changed by a fault, and by nothing
\* else.
THEOREM ContractKept == Spec => Contract
<1>1. Init => C!Init
  <2> SUFFICES ASSUME Init PROVE C!Init
    OBVIOUS
  <2>1. \A r \in Reservations : Owed(r) = 0
    BY DEF Init, Owed
  <2>2. Billings = {}
    BY DEF Init, Billings
  <2>3. Shared = {}
    BY DEF Init, Shared
  <2> QED
    BY <2>1, <2>2, <2>3 DEF Init, C!Init, Billings
<1>2. Init => Inv /\ BilledInv
  BY InitInv, InitBilled
<1>3. Inv /\ BilledInv /\ [Next]_vars => (Inv /\ BilledInv)'
  BY NextInv, NextBilled
<1>4. Inv /\ BilledInv /\ [Next]_vars => [C!Next]_(C!vars)
  BY NextContract
<1> QED
  BY <1>1, <1>2, <1>3, <1>4, PTL DEF Spec, Contract, C!Spec
=============================================================================
