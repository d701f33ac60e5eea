------------------------- MODULE NotificationProofs -------------------------
(***************************************************************************)
(* Theorems about Notification, for any events and any number of faults.   *)
(*                                                                         *)
(* The invariant Inv places what the broker holds in the order of          *)
(* publication: the first Behind events are done with, then come those     *)
(* that are handed out, then those that are queued.  The goroutine works   *)
(* for the first of them, even when its connection is gone and the broker  *)
(* has taken the event back; and every message is about that event or one  *)
(* before it.                                                              *)
(***************************************************************************)
EXTENDS Notification, FiniteSetTheorems, TLAPS

Published ==
  /\ \A i, j \in 1..Len(published) : published[i] = published[j] => i = j
  /\ \A i \in 1..Len(published) : published[i] \notin lost

Aligned ==
  /\ Behind \in Nat
  /\ \A i \in 1..Len(unacked) : unacked[i] = published[Behind + i]
  /\ \A i \in 1..Len(queue) : queue[i] = published[Behind + Len(unacked) + i]

\* A process that does not run receives nothing; one without connection has
\* nothing to acknowledge.
Connected ==
  /\ ~up => ~listening /\ pc = "idle"
  /\ ~listening => unacked = <<>>
  /\ listening => bound
  /\ ~bound => published = <<>>

\* What the goroutine knows between two of its calls.
Knows ==
  /\ pc # "idle" => /\ Behind < Len(published) /\ current = published[Behind + 1]
                    /\ listening => unacked # <<>>
  /\ pc = "LogSent" => current \in Range(sent)
  /\ pc = "Ack" => \/ current \in unlogged
                   \/ \E r \in Results : <<current, r>> \in logs

\* Every message is about an event that is done with, or the one after them.
Reached ==
  \A i \in 1..Len(sent) :
    \E j \in 1..Len(published) : j <= Behind + 1 /\ published[j] = sent[i]

Logged ==
  /\ \A i \in 1..Behind : \/ published[i] \in unlogged
                          \/ \E r \in Results : <<published[i], r>> \in logs
  /\ \A e \in Events : <<e, "sent">> \in logs => e \in Range(sent)

Inv ==
  TypeOK /\ Published /\ Aligned /\ Connected /\ Knows /\ Reached /\ Logged /\ ToldInOrder

\* The messages about an event that is not done with are paid for by faults: by
\* the start without database, by the loss of the connection it was handed out on,
\* or, in the midst of it, by the fault or the acknowledgement to come.
Finished(e) == \E i \in 1..Behind : published[i] = e

Owed(e) ==
  (IF up /\ repo = "nil" THEN 1 ELSE 0) + (IF ~listening /\ pc = "Send" /\ e = current THEN 1 ELSE 0)

Excused(e) ==
  IF listening /\ pc \in {"LogSent", "LogFailed", "Ack"} /\ e = current THEN 1 ELSE 0

Told(e) == Cardinality(MessagesOf(e))

PaidFor ==
  \A e \in Events :
    IF Finished(e) THEN Told(e) <= 1 + faults
    ELSE Told(e) + Owed(e) <= faults + Excused(e)

USE NoneAssumption, MaxFaultsAssumption
USE DEF Results, Calls

LEMMA InitInv == Init => Inv
<1> SUFFICES ASSUME Init PROVE Inv
  OBVIOUS
<1>1. TypeOK
  <2>1. published \in Seq(Events) /\ queue \in Seq(Events) /\ unacked \in Seq(Events)
        /\ sent \in Seq(Events)
    BY DEF Init
  <2>2. /\ lost \subseteq Events /\ bound \in BOOLEAN /\ up \in BOOLEAN
        /\ listening \in BOOLEAN /\ repo \in {"pool", "nil"}
    BY DEF Init
  <2>3. /\ pc \in Calls /\ current \in Events \cup {None}
        /\ pc = "idle" <=> current = None
    BY DEF Init
  <2>4. logs \subseteq Events \X Results /\ unlogged \subseteq Events /\ faults \in 0..MaxFaults
    BY DEF Init
  <2> QED
    BY <2>1, <2>2, <2>3, <2>4 DEF TypeOK
<1>2. Published /\ Aligned /\ Connected /\ Knows
  BY DEF Init, Published, Aligned, Behind, Connected, Knows
<1>3. Reached /\ Logged /\ ToldInOrder
  BY DEF Init, Reached, Logged, Behind, ToldInOrder
<1> QED
  BY <1>1, <1>2, <1>3 DEF Inv

-----------------------------------------------------------------------------
(* Groups of variables that a step leaves alone.                            *)

\* Types, where the broker and the goroutine keep to their events.
LEMMA Lengths ==
  ASSUME TypeOK
  PROVE  /\ Len(published) \in Nat /\ Len(unacked) \in Nat /\ Len(queue) \in Nat
         /\ Len(sent) \in Nat /\ Behind \in Int
  BY DEF TypeOK, Behind

\* The broker puts back what it had handed out, and nothing is done with.
LEMMA TakenBack ==
  ASSUME TypeOK, Aligned, TakeBack, UNCHANGED published
  PROVE  /\ Aligned' /\ Behind' = Behind
         /\ queue' \in Seq(Events) /\ unacked' = <<>> /\ bound' = bound
<1>1. /\ queue' = unacked \o queue /\ unacked' = <<>> /\ bound' = bound
      /\ queue' \in Seq(Events) /\ Len(queue') = Len(unacked) + Len(queue)
  BY DEF TakeBack, TypeOK
<1>2. Behind' = Behind
  BY <1>1, Lengths DEF Behind
<1>3. ASSUME NEW i \in 1..Len(queue')
      PROVE  queue'[i] = published[Behind + i]
  <2>1. CASE i <= Len(unacked)
    <3>1. queue'[i] = unacked[i]
      BY <1>1, <2>1 DEF TypeOK
    <3> QED
      BY <3>1, <2>1, Lengths DEF Aligned
  <2>2. CASE i > Len(unacked)
    <3>1. queue'[i] = queue[i - Len(unacked)]
      BY <1>1, <1>3, <2>2 DEF TypeOK
    <3>2. i - Len(unacked) \in 1..Len(queue)
      BY <1>1, <1>3, <2>2, Lengths
    <3>3. queue[i - Len(unacked)] = published[Behind + Len(unacked) + (i - Len(unacked))]
      BY <3>2 DEF Aligned
    <3>4. Behind + Len(unacked) + (i - Len(unacked)) = Behind + i
      BY Lengths
    <3> QED
      BY <3>1, <3>3, <3>4
  <2> QED
    BY <2>1, <2>2, Lengths
<1>4. Behind' \in Nat
  BY <1>2 DEF Aligned
<1>5. \A i \in 1..Len(queue') : queue'[i] = published'[Behind' + Len(unacked') + i]
  <2> SUFFICES ASSUME NEW i \in 1..Len(queue')
               PROVE  queue'[i] = published'[Behind' + Len(unacked') + i]
    OBVIOUS
  <2>1. Behind' + Len(unacked') + i = Behind + i
    BY <1>1, <1>2, <1>4
  <2> QED
    BY <1>3, <2>1
<1>6. \A i \in 1..Len(unacked') : unacked'[i] = published'[Behind' + i]
  BY <1>1
<1>7. Aligned'
  BY <1>4, <1>5, <1>6 DEF Aligned
<1> QED
  BY <1>1, <1>2, <1>7

\* What is said of the messages and the log goes on to hold when neither changes.
LEMMA SameEffects ==
  ASSUME Inv, UNCHANGED <<published, effects>>, Behind' = Behind
  PROVE  Reached' /\ Logged' /\ ToldInOrder'
  BY DEF Inv, effects, Reached, Logged, ToldInOrder, Before

-----------------------------------------------------------------------------
(* Each action keeps the invariant.                                         *)

LEMMA PublishInv ==
  ASSUME Inv, NEW e \in Events, Publish(e)
  PROVE  Inv'
<1>1. /\ published' = Append(published, e) /\ queue' = Append(queue, e)
      /\ e \notin lost /\ e \notin Range(published) /\ bound
      /\ UNCHANGED <<lost, bound, unacked, up, listening, repo, pc, current, sent, logs,
                     unlogged, faults>>
  BY DEF Publish, New, process, worker, effects
<1>2. /\ published' \in Seq(Events) /\ queue' \in Seq(Events)
      /\ Len(published') = Len(published) + 1 /\ Len(queue') = Len(queue) + 1
      /\ \A i \in 1..Len(published) : published'[i] = published[i]
      /\ published'[Len(published) + 1] = e
      /\ \A i \in 1..Len(queue) : queue'[i] = queue[i]
      /\ queue'[Len(queue) + 1] = e
  BY <1>1 DEF Inv, TypeOK
<1>3. \A i \in 1..Len(published) : published[i] # e
  BY <1>1 DEF Range, Inv, TypeOK
<1>4. Behind' = Behind
  BY <1>1, <1>2, Lengths DEF Inv, Behind
<1>5. TypeOK'
  BY <1>1, <1>2 DEF Inv, TypeOK
<1>6. Published'
  BY <1>1, <1>2, <1>3, Lengths DEF Inv, Published
<1>7. Aligned'
  <2>1. Behind \in Nat /\ Behind + Len(unacked) + Len(queue) = Len(published)
    BY Lengths DEF Inv, Aligned, Behind
  <2>2. \A i \in 1..Len(unacked) : unacked'[i] = published'[Behind' + i]
    BY <2>1, <1>1, <1>2, <1>4, Lengths DEF Inv, Aligned
  <2>3. ASSUME NEW i \in 1..Len(queue')
        PROVE  queue'[i] = published'[Behind' + Len(unacked') + i]
    <3>1. CASE i <= Len(queue)
      <4>1. i \in 1..Len(queue) /\ Behind + Len(unacked) + i \in 1..Len(published)
        BY <2>1, <3>1, <1>2, Lengths DEF Inv
      <4> QED
        BY <4>1, <1>1, <1>2, <1>4 DEF Inv, Aligned
    <3>2. CASE i = Len(queue) + 1
      <4>1. Behind + Len(unacked) + i = Len(published) + 1
        BY <2>1, <3>2, Lengths DEF Inv
      <4> QED
        BY <4>1, <3>2, <1>1, <1>2, <1>4
    <3> QED
      BY <3>1, <3>2, <1>2, Lengths DEF Inv
  <2> QED
    BY <2>1, <2>2, <2>3, <1>1, <1>4 DEF Aligned
<1>8. Connected'
  BY <1>1 DEF Inv, Connected
<1>9. Knows'
  <2>1. Behind \in Nat /\ Behind < Len(published) => Behind + 1 \in 1..Len(published)
    BY Lengths DEF Inv
  <2> QED
    BY <2>1, <1>1, <1>2, <1>4, Lengths DEF Inv, Knows, Aligned
<1>10. Reached'
  BY <1>1, <1>2, <1>4, Lengths DEF Inv, Reached
<1>11. Logged'
  <2>1. Behind <= Len(published) /\ Behind \in Nat
    BY Lengths DEF Inv, Aligned, Behind
  <2>2. \A i \in 1..Behind : published'[i] = published[i]
    BY <2>1, <1>2, Lengths DEF Inv
  <2> QED
    BY <2>2, <1>1, <1>4 DEF Inv, Logged
<1>12. ToldInOrder'
  <2>1. ASSUME NEW a, NEW b, Before(a, b)
        PROVE  Before(a, b)'
    <3>1. PICK i, j \in 1..Len(published) : i < j /\ published[i] = a /\ published[j] = b
      BY <2>1 DEF Before, Inv, TypeOK
    <3>2. i \in DOMAIN published' /\ j \in DOMAIN published'
      BY <1>2, Lengths DEF Inv
    <3> QED
      BY <3>1, <3>2, <1>2 DEF Before
  <2> QED
    BY <2>1, <1>1 DEF Inv, ToldInOrder
<1> QED
  BY <1>5, <1>6, <1>7, <1>8, <1>9, <1>10, <1>11, <1>12 DEF Inv

LEMMA PublishLostInv ==
  ASSUME Inv, NEW e \in Events, PublishLost(e)
  PROVE  Inv'
<1>1. /\ lost' = lost \cup {e} /\ e \notin Range(published) /\ faults' \in 0..MaxFaults
      /\ UNCHANGED <<published, bound, queue, unacked, up, listening, repo, pc, current, sent,
                     logs, unlogged>>
  BY DEF PublishLost, New, Fault, Inv, TypeOK, broker, process, worker, effects
<1>2. Behind' = Behind
  BY <1>1 DEF Behind
<1>3. TypeOK'
  BY <1>1 DEF Inv, TypeOK
<1>4. \A i \in 1..Len(published) : published[i] # e
  BY <1>1 DEF Range, Inv, TypeOK
<1>5. Published'
  BY <1>1, <1>4 DEF Inv, Published
<1>6. Aligned' /\ Connected' /\ Knows'
  BY <1>1, <1>2 DEF Inv, Aligned, Connected, Knows
<1> QED
  BY <1>1, <1>2, <1>3, <1>5, <1>6, SameEffects DEF Inv, effects

LEMMA StartedInv ==
  ASSUME Inv, NEW database \in BOOLEAN, NEW subscribed \in BOOLEAN,
         Started(database, subscribed), faults' \in 0..MaxFaults
  PROVE  Inv'
<1>1. /\ ~up /\ up' = TRUE /\ repo' \in {"pool", "nil"} /\ listening' = subscribed
      /\ bound' = (bound \/ subscribed)
      /\ UNCHANGED <<published, lost, queue, unacked, pc, current, sent, logs, unlogged>>
  BY DEF Started, past, worker, effects
<1>2. Behind' = Behind
  BY <1>1 DEF Behind
<1>3. TypeOK'
  BY <1>1 DEF Inv, TypeOK
<1>4. pc = "idle" /\ unacked = <<>>
  BY <1>1 DEF Inv, Connected
<1>5. Published' /\ Aligned' /\ Knows'
  BY <1>1, <1>2, <1>4 DEF Inv, Published, Aligned, Knows
<1>6. Connected'
  BY <1>1, <1>4 DEF Inv, Connected
<1> QED
  BY <1>1, <1>2, <1>3, <1>5, <1>6, SameEffects DEF Inv, effects

LEMMA StoppedInv ==
  ASSUME Inv, Stopped, faults' \in 0..MaxFaults
  PROVE  Inv'
<1>1. /\ up' = FALSE /\ listening' = FALSE /\ pc' = "idle" /\ current' = None /\ TakeBack
      /\ UNCHANGED <<published, lost, repo, sent, logs, unlogged>>
  BY DEF Stopped, past, effects
<1>2. /\ Aligned' /\ Behind' = Behind
      /\ queue' \in Seq(Events) /\ unacked' = <<>> /\ bound' = bound
  BY <1>1, TakenBack DEF Inv
<1>3. TypeOK'
  <2>1. /\ published' \in Seq(Events) /\ lost' \subseteq Events /\ sent' \in Seq(Events)
        /\ logs' \subseteq Events \X Results /\ unlogged' \subseteq Events
    BY <1>1 DEF Inv, TypeOK
  <2>2. /\ bound' \in BOOLEAN /\ up' \in BOOLEAN /\ listening' \in BOOLEAN
        /\ repo' \in {"pool", "nil"}
    BY <1>1, <1>2 DEF Inv, TypeOK
  <2>3. /\ pc' \in Calls /\ current' \in Events \cup {None}
        /\ pc' = "idle" <=> current' = None
    BY <1>1 DEF Inv, TypeOK
  <2>4. queue' \in Seq(Events) /\ unacked' \in Seq(Events) /\ faults' \in 0..MaxFaults
    BY <1>1, <1>2
  <2> QED
    BY <2>1, <2>2, <2>3, <2>4 DEF TypeOK
<1>4. Published' /\ Knows'
  BY <1>1 DEF Inv, Published, Knows
<1>5. Connected'
  BY <1>1, <1>2 DEF Inv, Connected
<1> QED
  BY <1>1, <1>2, <1>3, <1>4, <1>5, SameEffects DEF Inv, effects

LEMMA DisconnectInv ==
  ASSUME Inv, Disconnect
  PROVE  Inv'
<1>1. /\ listening' = FALSE /\ TakeBack /\ faults' \in 0..MaxFaults
      /\ listening /\ UNCHANGED <<published, lost, up, repo, pc, current, sent, logs, unlogged>>
  BY DEF Disconnect, Fault, Inv, TypeOK, past, worker, effects
<1>2. /\ Aligned' /\ Behind' = Behind
      /\ queue' \in Seq(Events) /\ unacked' = <<>> /\ bound' = bound
  BY <1>1, TakenBack DEF Inv
<1>3. TypeOK'
  <2>1. /\ published' \in Seq(Events) /\ lost' \subseteq Events /\ sent' \in Seq(Events)
        /\ logs' \subseteq Events \X Results /\ unlogged' \subseteq Events
    BY <1>1 DEF Inv, TypeOK
  <2>2. /\ bound' \in BOOLEAN /\ up' \in BOOLEAN /\ listening' \in BOOLEAN
        /\ repo' \in {"pool", "nil"}
    BY <1>1, <1>2 DEF Inv, TypeOK
  <2>3. /\ pc' \in Calls /\ current' \in Events \cup {None}
        /\ pc' = "idle" <=> current' = None
    BY <1>1 DEF Inv, TypeOK
  <2>4. queue' \in Seq(Events) /\ unacked' \in Seq(Events) /\ faults' \in 0..MaxFaults
    BY <1>1, <1>2
  <2> QED
    BY <2>1, <2>2, <2>3, <2>4 DEF TypeOK
<1>4. Published' /\ Knows'
  BY <1>1, <1>2 DEF Inv, Published, Knows
<1>5. Connected'
  BY <1>1, <1>2 DEF Inv, Connected
<1> QED
  BY <1>1, <1>2, <1>3, <1>4, <1>5, SameEffects DEF Inv, effects

LEMMA DeliverInv ==
  ASSUME Inv, Deliver
  PROVE  Inv'
<1>1. /\ listening /\ queue # <<>>
      /\ unacked' = Append(unacked, Head(queue)) /\ queue' = Tail(queue)
      /\ UNCHANGED <<published, lost, bound, up, listening, repo, pc, current, sent, logs,
                     unlogged, faults>>
  BY DEF Deliver, past, process, worker, effects
<1>2. /\ unacked' \in Seq(Events) /\ queue' \in Seq(Events)
      /\ Len(unacked') = Len(unacked) + 1 /\ Len(queue') = Len(queue) - 1
      /\ \A i \in 1..Len(unacked) : unacked'[i] = unacked[i]
      /\ unacked'[Len(unacked) + 1] = queue[1]
      /\ \A i \in 1..Len(queue') : queue'[i] = queue[i + 1]
      /\ 1 \in 1..Len(queue)
  BY <1>1 DEF Inv, TypeOK
<1>3. Behind' = Behind
  BY <1>1, <1>2, Lengths DEF Inv, Behind
<1>4. TypeOK'
  BY <1>1, <1>2 DEF Inv, TypeOK
<1>5. Aligned'
  <2>1. Behind \in Nat /\ Len(unacked) \in Nat /\ Len(queue) \in Nat
    BY Lengths DEF Inv, Aligned
  <2>2. ASSUME NEW i \in 1..Len(unacked')
        PROVE  unacked'[i] = published'[Behind' + i]
    <3>1. CASE i \in 1..Len(unacked)
      BY <3>1, <1>1, <1>2, <1>3 DEF Inv, Aligned
    <3>2. CASE i = Len(unacked) + 1
      <4>1. queue[1] = published[Behind + Len(unacked) + 1]
        BY <1>2 DEF Inv, Aligned
      <4>2. Behind + Len(unacked) + 1 = Behind + i
        BY <2>1, <3>2
      <4> QED
        BY <4>1, <4>2, <3>2, <1>1, <1>2, <1>3
    <3> QED
      BY <3>1, <3>2, <1>2, <2>1
  <2>3. ASSUME NEW i \in 1..Len(queue')
        PROVE  queue'[i] = published'[Behind' + Len(unacked') + i]
    <3>1. i + 1 \in 1..Len(queue)
      BY <1>2, <2>1
    <3>2. queue[i + 1] = published[Behind + Len(unacked) + (i + 1)]
      BY <3>1 DEF Inv, Aligned
    <3>3. Behind + Len(unacked) + (i + 1) = Behind + (Len(unacked) + 1) + i
      BY <2>1
    <3> QED
      BY <3>2, <3>3, <1>1, <1>2, <1>3
  <2> QED
    BY <2>1, <2>2, <2>3, <1>3 DEF Aligned
<1>6. Published' /\ Connected' /\ Knows'
  <2>1. unacked' # <<>>
    BY <1>2, Lengths DEF Inv
  <2> QED
    BY <2>1, <1>1, <1>3 DEF Inv, Published, Connected, Knows
<1> QED
  BY <1>1, <1>3, <1>4, <1>5, <1>6, SameEffects DEF Inv, effects

LEMMA ReceiveInv ==
  ASSUME Inv, Receive
  PROVE  Inv'
<1>1. /\ listening /\ unacked # <<>>
      /\ pc' = "Send" /\ current' = Head(unacked)
      /\ UNCHANGED <<published, lost, bound, queue, unacked, up, listening, repo, sent, logs,
                     unlogged, faults>>
  BY DEF Receive, past, broker, process, effects
<1>2. Behind' = Behind
  BY <1>1 DEF Behind
<1>3. current' = unacked[1] /\ 1 \in 1..Len(unacked) /\ current' \in Events
  BY <1>1 DEF Inv, TypeOK
<1>4. TypeOK'
  BY <1>1, <1>3 DEF Inv, TypeOK
<1>5. Published' /\ Aligned' /\ Connected'
  BY <1>1, <1>2 DEF Inv, Published, Aligned, Connected
<1>6. Knows'
  <2>1. current' = published[Behind + 1]
    BY <1>3 DEF Inv, Aligned
  <2>2. Behind < Len(published)
    BY <1>3, Lengths DEF Inv, Behind
  <2> QED
    BY <2>1, <2>2, <1>1, <1>2 DEF Knows
<1> QED
  BY <1>1, <1>2, <1>4, <1>5, <1>6, SameEffects DEF Inv, effects

\* A message about the first event that is not done with keeps the order.
LEMMA SendInOrder ==
  ASSUME Inv, pc = "Send", sent' = Append(sent, current), UNCHANGED <<published, queue, unacked>>
  PROVE  Reached' /\ ToldInOrder' /\ current \in Range(sent') /\ Range(sent) \subseteq Range(sent')
<1>1. /\ Behind \in Nat /\ Behind + 1 \in 1..Len(published) /\ current = published[Behind + 1]
      /\ current \in Events
  BY Lengths DEF Inv, TypeOK, Knows, Aligned
<1>2. /\ Len(sent) \in Nat /\ Len(sent') = Len(sent) + 1 /\ sent' \in Seq(Events)
      /\ \A i \in 1..Len(sent) : sent'[i] = sent[i]
      /\ sent'[Len(sent) + 1] = current
  BY <1>1 DEF Inv, TypeOK
<1>3. DOMAIN sent = 1..Len(sent) /\ DOMAIN sent' = 1..Len(sent')
      /\ DOMAIN published = 1..Len(published)
  BY <1>2 DEF Inv, TypeOK
<1>4. Behind' = Behind
  BY DEF Behind
<1>5. Reached'
  <2> SUFFICES ASSUME NEW i \in 1..Len(sent')
               PROVE  \E j \in 1..Len(published) : j <= Behind + 1 /\ published[j] = sent'[i]
    BY <1>4 DEF Reached
  <2>1. CASE i \in 1..Len(sent)
    BY <2>1, <1>2 DEF Inv, Reached
  <2>2. CASE i = Len(sent) + 1
    BY <2>2, <1>1, <1>2
  <2> QED
    BY <2>1, <2>2, <1>2
<1>6. ToldInOrder'
  <2> SUFFICES ASSUME NEW j \in 1..Len(sent'), \A i \in 1..(j - 1) : sent'[i] # sent'[j],
                      NEW i \in 1..(j - 1)
               PROVE  Before(sent'[i], sent'[j])
    <3>1. \A a, b : Before(a, b)' <=> Before(a, b)
      BY DEF Before
    <3> QED
      BY <3>1, <1>3, Zenon DEF ToldInOrder
  <2>1. i \in 1..Len(sent) /\ sent'[i] = sent[i]
    BY <1>2
  <2>2. CASE j \in 1..Len(sent)
    <3>1. \A k \in 1..(j - 1) : sent[k] # sent[j]
      BY <2>2, <1>2
    <3> QED
      BY <3>1, <2>1, <2>2, <1>2, <1>3 DEF Inv, ToldInOrder
  <2>3. CASE j = Len(sent) + 1
    <3>1. sent[i] # current /\ sent'[j] = current
      BY <2>1, <2>3, <1>2
    <3>2. PICK k \in 1..Len(published) : k <= Behind + 1 /\ published[k] = sent[i]
      BY <2>1 DEF Inv, Reached
    <3>3. k < Behind + 1
      BY <3>1, <3>2, <1>1
    <3> QED
      BY <3>1, <3>2, <3>3, <2>1, <1>1, <1>3 DEF Before
  <2> QED
    BY <2>2, <2>3, <1>2
<1>7. current \in Range(sent') /\ Range(sent) \subseteq Range(sent')
  BY <1>2, <1>3 DEF Range
<1> QED
  BY <1>5, <1>6, <1>7

LEMMA SendInv ==
  ASSUME Inv, Send
  PROVE  Inv'
<1>1. /\ pc = "Send" /\ faults' \in 0..MaxFaults
      /\ UNCHANGED <<published, lost, bound, queue, unacked, up, listening, repo, current, logs,
                     unlogged>>
      /\ \/ pc' = "LogSent" /\ sent' = Append(sent, current)
         \/ pc' = "LogFailed" /\ sent' = sent
  BY DEF Send, Fault, Inv, TypeOK, past, broker, process
<1>2. Behind' = Behind
  BY <1>1 DEF Behind
<1>3. /\ Reached' /\ ToldInOrder' /\ Range(sent) \subseteq Range(sent')
      /\ pc' = "LogSent" => current \in Range(sent')
  <2>1. CASE sent' = sent /\ pc' # "LogSent"
    BY <2>1, <1>1, <1>2 DEF Inv, Reached, ToldInOrder, Before
  <2>2. CASE sent' = Append(sent, current)
    BY <2>2, <1>1, SendInOrder
  <2> QED
    BY <2>1, <2>2, <1>1
<1>4. TypeOK'
  <2>0. current \in Events /\ sent \in Seq(Events)
    BY <1>1 DEF Inv, TypeOK
  <2>1. current \in Events /\ sent' \in Seq(Events)
    BY <2>0, <1>1
  <2>2. pc' \in Calls /\ current' \in Events \cup {None} /\ (pc' = "idle" <=> current' = None)
    BY <1>1, <2>1
  <2> QED
    BY <2>1, <2>2, <1>1 DEF Inv, TypeOK
<1>5. Published' /\ Aligned' /\ Connected'
  BY <1>1, <1>2 DEF Inv, Published, Aligned, Connected
<1>6. Knows'
  BY <1>1, <1>2, <1>3 DEF Inv, Knows
<1>7. Logged'
  BY <1>1, <1>2, <1>3 DEF Inv, Logged
<1> QED
  BY <1>3, <1>4, <1>5, <1>6, <1>7 DEF Inv

LEMMA LogInv ==
  ASSUME Inv, Log
  PROVE  Inv'
<1>1. /\ pc \in {"LogSent", "LogFailed"} /\ pc' = "Ack" /\ faults' \in 0..MaxFaults
      /\ UNCHANGED <<published, lost, bound, queue, unacked, up, listening, repo, current, sent>>
      /\ \/ /\ logs' = logs \cup {<<current, IF pc = "LogSent" THEN "sent" ELSE "failed">>}
            /\ unlogged' = unlogged
         \/ unlogged' = unlogged \cup {current} /\ logs' = logs
  BY DEF Log, Fault, Inv, TypeOK, past, broker, process
<1>2. Behind' = Behind
  BY <1>1 DEF Behind
<1>3. current \in Events
  BY <1>1 DEF Inv, TypeOK
<1>4. TypeOK'
  <2>1. pc' \in Calls /\ current' \in Events \cup {None} /\ (pc' = "idle" <=> current' = None)
    BY <1>1, <1>3
  <2>2. logs' \subseteq Events \X Results /\ unlogged' \subseteq Events
    BY <1>1, <1>3 DEF Inv, TypeOK
  <2> QED
    BY <2>1, <2>2, <1>1 DEF Inv, TypeOK
<1>5. Published' /\ Aligned' /\ Connected' /\ Reached' /\ ToldInOrder'
  BY <1>1, <1>2 DEF Inv, Published, Aligned, Connected, Reached, ToldInOrder, Before
<1>6. /\ logs \subseteq logs' /\ unlogged \subseteq unlogged'
      /\ current \in unlogged' \/ \E r \in Results : <<current, r>> \in logs'
  BY <1>1
<1>7. Knows'
  BY <1>1, <1>2, <1>6 DEF Inv, Knows
<1>8. Logged'
  <2>1. \A i \in 1..Behind' : \/ published'[i] \in unlogged'
                               \/ \E r \in Results : <<published'[i], r>> \in logs'
    BY <1>1, <1>2, <1>6 DEF Inv, Logged
  <2>2. ASSUME NEW e \in Events, <<e, "sent">> \in logs'
        PROVE  e \in Range(sent')
    <3>1. CASE <<e, "sent">> \in logs
      BY <3>1, <1>1 DEF Inv, Logged
    <3>2. CASE <<e, "sent">> \notin logs
      <4>1. <<e, "sent">> = <<current, IF pc = "LogSent" THEN "sent" ELSE "failed">>
        BY <3>2, <2>2, <1>1
      <4>2. e = current /\ pc = "LogSent"
        BY <4>1
      <4> QED
        BY <4>2, <1>1 DEF Inv, Knows
    <3> QED
      BY <3>1, <3>2
  <2> QED
    BY <2>1, <2>2 DEF Logged
<1> QED
  BY <1>4, <1>5, <1>7, <1>8 DEF Inv

LEMMA AckInv ==
  ASSUME Inv, Ack
  PROVE  Inv'
<1>1. /\ pc = "Ack" /\ pc' = "idle" /\ current' = None
      /\ unacked' = IF listening THEN Tail(unacked) ELSE unacked
      /\ UNCHANGED <<published, lost, bound, queue, up, listening, repo, sent, logs, unlogged,
                     faults>>
  BY DEF Ack, past, process, effects
<1>2. CASE ~listening
  <2>1. unacked' = unacked /\ Behind' = Behind
    BY <1>1, <1>2 DEF Behind
  <2>2. TypeOK'
    BY <1>1, <2>1 DEF Inv, TypeOK
  <2>3. Published' /\ Aligned' /\ Connected' /\ Knows'
    BY <1>1, <2>1 DEF Inv, Published, Aligned, Connected, Knows
  <2> QED
    BY <1>1, <2>1, <2>2, <2>3, SameEffects DEF Inv, effects
<1>3. CASE listening
  <2>1. /\ unacked' = Tail(unacked) /\ unacked # <<>>
        /\ Behind < Len(published) /\ current = published[Behind + 1]
    BY <1>1, <1>3 DEF Inv, Knows
  <2>2. /\ unacked' \in Seq(Events) /\ Len(unacked') = Len(unacked) - 1
        /\ \A i \in 1..Len(unacked') : unacked'[i] = unacked[i + 1]
    BY <2>1 DEF Inv, TypeOK
  <2>3. Behind \in Nat /\ Behind' = Behind + 1
    <3>1. Behind \in Nat
      BY DEF Inv, Aligned
    <3>2. Behind' = Len(published) - Len(unacked') - Len(queue)
      BY <1>1 DEF Behind
    <3> QED
      BY <3>1, <3>2, <2>2, Lengths DEF Inv, Behind
  <2>4. TypeOK'
    BY <1>1, <2>2 DEF Inv, TypeOK
  <2>5. Aligned'
    <3>1. ASSUME NEW i \in 1..Len(unacked')
          PROVE  unacked'[i] = published'[Behind' + i]
      <4>1. i + 1 \in 1..Len(unacked)
        BY <2>2, Lengths DEF Inv
      <4>2. unacked[i + 1] = published[Behind + (i + 1)]
        BY <4>1 DEF Inv, Aligned
      <4>3. Behind + (i + 1) = Behind' + i
        BY <2>3
      <4> QED
        BY <4>2, <4>3, <2>2, <1>1
    <3>2. ASSUME NEW i \in 1..Len(queue')
          PROVE  queue'[i] = published'[Behind' + Len(unacked') + i]
      <4>1. queue[i] = published[Behind + Len(unacked) + i]
        BY <1>1 DEF Inv, Aligned
      <4>2. Behind + Len(unacked) + i = Behind' + Len(unacked') + i
        BY <2>2, <2>3, Lengths DEF Inv
      <4> QED
        BY <4>1, <4>2, <1>1
    <3> QED
      BY <3>1, <3>2, <2>3 DEF Aligned
  <2>6. Published' /\ Connected' /\ Knows'
    BY <1>1, <1>3 DEF Inv, Published, Connected, Knows
  <2>7. Reached' /\ ToldInOrder'
    <3>1. ASSUME NEW i \in 1..Len(sent)
          PROVE  \E j \in 1..Len(published) : j <= Behind' + 1 /\ published[j] = sent[i]
      BY <2>3, Lengths DEF Inv, Reached
    <3> QED
      BY <3>1, <1>1 DEF Inv, Reached, ToldInOrder, Before
  <2>8. Logged'
    <3>1. \/ published[Behind + 1] \in unlogged
          \/ \E r \in Results : <<published[Behind + 1], r>> \in logs
      BY <1>1, <2>1 DEF Inv, Knows
    <3>2. \A i \in 1..(Behind + 1) : i \in 1..Behind \/ i = Behind + 1
      BY <2>3
    <3> QED
      BY <3>1, <3>2, <2>3, <1>1 DEF Inv, Logged
  <2> QED
    BY <2>4, <2>5, <2>6, <2>7, <2>8 DEF Inv
<1> QED
  BY <1>2, <1>3

LEMMA NextInv == Inv /\ [Next]_vars => Inv'
<1> SUFFICES ASSUME Inv, [Next]_vars PROVE Inv'
  OBVIOUS
<1>0. faults \in 0..MaxFaults /\ \A f : Fault(f) => faults' \in 0..MaxFaults
  BY DEF Inv, TypeOK, Fault
<1>1. ASSUME NEW e \in Events, Publish(e) \/ PublishLost(e) PROVE Inv'
  BY <1>1, PublishInv, PublishLostInv
<1>2. CASE Start \/ StartWithoutDatabase \/ StartWithoutBroker
  BY <1>0, <1>2, StartedInv DEF Start, StartWithoutDatabase, StartWithoutBroker
<1>3. CASE Crash \/ Panic
  BY <1>0, <1>3, StoppedInv DEF Crash, Panic
<1>4. CASE Disconnect
  BY <1>4, DisconnectInv
<1>5. CASE Deliver
  BY <1>5, DeliverInv
<1>6. CASE Handle
  <2>1. Receive \/ Send \/ Log \/ Panic \/ Ack
    BY <1>6 DEF Handle
  <2> QED
    BY <2>1, <1>3, ReceiveInv, SendInv, LogInv, AckInv
<1>7. CASE UNCHANGED vars
  <2>1. /\ UNCHANGED <<published, lost, bound, queue, unacked, up, listening, repo, pc, current,
                       sent, logs, unlogged, faults>>
    BY <1>7 DEF vars, past, broker, process, worker, effects
  <2>2. Behind' = Behind
    BY <2>1 DEF Behind
  <2>3. TypeOK'
    BY <2>1 DEF Inv, TypeOK
  <2>4. Published' /\ Aligned' /\ Connected' /\ Knows'
    BY <2>1, <2>2 DEF Inv, Published, Aligned, Connected, Knows
  <2> QED
    BY <2>1, <2>2, <2>3, <2>4, SameEffects DEF Inv, effects
<1> QED
  BY <1>1, <1>2, <1>3, <1>4, <1>5, <1>6, <1>7 DEF Next

\* The broker, the process and the handler keep their types.
THEOREM TypeCorrect == Spec => []TypeOK
<1>1. Inv => TypeOK
  BY DEF Inv
<1> QED
  BY <1>1, InitInv, NextInv, PTL DEF Spec

\* Handle pushes the first message about each event in the order of publication,
\* whatever the broker takes back.
THEOREM MessagesInOrder == Spec => []ToldInOrder
<1>1. Inv => ToldInOrder
  BY DEF Inv
<1> QED
  BY <1>1, InitInv, NextInv, PTL DEF Spec

\* What the broker no longer holds is among the first Behind events.
LEMMA DoneIsBehind ==
  ASSUME Inv, NEW e \in Events, Done(e)
  PROVE  \E i \in 1..Behind : published[i] = e
<1>1. PICK i \in 1..Len(published) : published[i] = e
  BY DEF Done, Range, Inv, TypeOK
<1>2. /\ Behind \in Nat /\ Len(unacked) \in Nat /\ Len(queue) \in Nat
      /\ Len(published) = Behind + Len(unacked) + Len(queue)
  BY Lengths DEF Inv, Aligned, Behind
<1>3. /\ \A k \in 1..Len(unacked) : unacked[k] # e
      /\ \A k \in 1..Len(queue) : queue[k] # e
  BY DEF Done, Waiting, Range, Inv, TypeOK
<1>4. CASE i > Behind /\ i <= Behind + Len(unacked)
  <2>1. i - Behind \in 1..Len(unacked) /\ Behind + (i - Behind) = i
    BY <1>2, <1>4
  <2>2. unacked[i - Behind] = published[Behind + (i - Behind)]
    BY <2>1 DEF Inv, Aligned
  <2> QED
    BY <1>1, <1>3, <2>1, <2>2
<1>5. CASE i > Behind + Len(unacked)
  <2> DEFINE k == i - (Behind + Len(unacked))
  <2>1. k \in 1..Len(queue) /\ Behind + Len(unacked) + k = i
    BY <1>2, <1>5
  <2>2. queue[k] = published[Behind + Len(unacked) + k]
    BY <2>1 DEF Inv, Aligned
  <2> QED
    BY <1>1, <1>3, <2>1, <2>2
<1> QED
  BY <1>1, <1>2, <1>4, <1>5

\* The log tells of every event that is done with, unless its insertion failed,
\* and never of a message that was not pushed.
LogComplete ==
  /\ \A e \in Events : Done(e) => \/ e \in unlogged
                                  \/ \E r \in Results : <<e, r>> \in logs
  /\ \A e \in Events : <<e, "sent">> \in logs => e \in Range(sent)

\* SendNotification's rows tell of every event that was acknowledged, and are true.
THEOREM LogTellsAll == Spec => []LogComplete
<1>1. Inv => LogComplete
  BY DoneIsBehind DEF Inv, Logged, LogComplete
<1> QED
  BY <1>1, InitInv, NextInv, PTL DEF Spec

-----------------------------------------------------------------------------
(* Counting messages.                                                       *)

LEMMA ToldType ==
  ASSUME Inv, NEW e
  PROVE  IsFiniteSet(MessagesOf(e)) /\ Told(e) \in Nat
<1>1. Len(sent) \in Nat /\ MessagesOf(e) \in SUBSET (1..Len(sent))
  BY DEF MessagesOf, Inv, TypeOK
<1>2. IsFiniteSet(1..Len(sent))
  BY <1>1, FS_Interval
<1> QED
  BY <1>1, <1>2, FS_Subset, FS_CardinalityType DEF Told

LEMMA ToldMore ==
  ASSUME Inv, pc = "Send", sent' = Append(sent, current), NEW e \in Events
  PROVE  Told(e)' = IF e = current THEN Told(e) + 1 ELSE Told(e)
<1>1. current \in Events /\ sent \in Seq(Events) /\ Len(sent) \in Nat
  BY DEF Inv, TypeOK
<1>2. /\ DOMAIN sent = 1..Len(sent) /\ DOMAIN sent' = 1..(Len(sent) + 1)
      /\ \A i \in 1..Len(sent) : sent'[i] = sent[i]
      /\ sent'[Len(sent) + 1] = current
  BY <1>1
<1>3. CASE e = current
  <2>1. MessagesOf(e)' = MessagesOf(e) \cup {Len(sent) + 1}
    BY <1>1, <1>2, <1>3 DEF MessagesOf
  <2>2. Len(sent) + 1 \notin MessagesOf(e)
    BY <1>1, <1>2 DEF MessagesOf
  <2> QED
    BY <1>3, <2>1, <2>2, ToldType, FS_AddElement DEF Told
<1>4. CASE e # current
  <2>1. MessagesOf(e)' = MessagesOf(e)
    BY <1>1, <1>2, <1>4 DEF MessagesOf
  <2> QED
    BY <1>4, <2>1 DEF Told
<1> QED
  BY <1>3, <1>4

\* The event that is worked for is not done with, and the process is up.
LEMMA AtWork ==
  ASSUME Inv, pc # "idle"
  PROVE  ~Finished(current) /\ up
<1>1. Behind \in Nat /\ Behind + 1 \in 1..Len(published) /\ current = published[Behind + 1]
  BY Lengths DEF Inv, Knows, Aligned
<1>2. ASSUME NEW i \in 1..Behind PROVE published[i] # current
  BY <1>1, <1>2, Lengths DEF Inv, Published
<1> QED
  BY <1>2 DEF Finished, Inv, Connected

\* Unless an acknowledgement is received, what is done with stays the same.
LEMMA SameFinished ==
  ASSUME Inv, NEW e \in Events, Behind' = Behind,
         UNCHANGED published \/ \E f \in Events : published' = Append(published, f)
  PROVE  Finished(e)' <=> Finished(e)
<1>1. Behind \in Nat /\ Behind <= Len(published)
  BY Lengths DEF Inv, Aligned, Behind
<1>2. \A i \in 1..Len(published) : published'[i] = published[i]
  <2>1. published \in Seq(Events)
    BY DEF Inv, TypeOK
  <2>2. CASE \E f \in Events : published' = Append(published, f)
    BY <2>1, <2>2
  <2>3. CASE UNCHANGED published
    BY <2>3
  <2> QED
    BY <2>2, <2>3
<1>3. \A i \in 1..Behind : published'[i] = published[i]
  BY <1>1, <1>2, Lengths DEF Inv
<1> QED
  BY <1>3 DEF Finished

LEMMA InitPaidFor == Init => PaidFor
<1> SUFFICES ASSUME Init, NEW e \in Events
             PROVE  Told(e) = 0 /\ Owed(e) = 0 /\ Excused(e) = 0 /\ faults = 0
  BY DEF PaidFor
<1>1. MessagesOf(e) = {}
  BY DEF Init, MessagesOf
<1> QED
  BY <1>1, FS_EmptySet DEF Init, Told, Owed, Excused

LEMMA NextPaidFor == Inv /\ PaidFor /\ [Next]_vars => PaidFor'
<1> SUFFICES ASSUME Inv, PaidFor, [Next]_vars, NEW e \in Events
             PROVE  (IF Finished(e) THEN Told(e) <= 1 + faults
                     ELSE Told(e) + Owed(e) <= faults + Excused(e))'
  BY DEF PaidFor
<1>1. /\ Told(e) \in Nat /\ faults \in Nat
      /\ Owed(e) \in 0..2 /\ Excused(e) \in 0..1
  BY ToldType DEF Inv, TypeOK, Owed, Excused
<1>2. IF Finished(e) THEN Told(e) <= 1 + faults ELSE Told(e) + Owed(e) <= faults + Excused(e)
  BY DEF PaidFor
<1>3. \A f : Fault(f) => faults' = faults + 1
  BY DEF Fault
<1>4. ASSUME UNCHANGED sent PROVE Told(e)' = Told(e)
  BY <1>4 DEF Told, MessagesOf
<1>5. ASSUME NEW f \in Events, Publish(f) \/ PublishLost(f)
      PROVE  /\ UNCHANGED sent /\ faults' \in {faults, faults + 1} /\ Behind' = Behind
             /\ UNCHANGED published \/ published' = Append(published, f)
             /\ UNCHANGED <<up, repo, listening, pc, current>>
  <2>1. CASE Publish(f)
    <3>1. /\ published' = Append(published, f) /\ queue' = Append(queue, f)
          /\ UNCHANGED <<unacked, up, repo, listening, pc, current, sent, faults>>
      BY <2>1 DEF Publish, process, worker, effects
    <3>2. Len(published') = Len(published) + 1 /\ Len(queue') = Len(queue) + 1
      BY <3>1 DEF Inv, TypeOK
    <3> QED
      BY <3>1, <3>2, Lengths DEF Inv, Behind
  <2>2. CASE PublishLost(f)
    BY <2>2, <1>3 DEF PublishLost, broker, process, worker, effects, Behind
  <2> QED
    BY <1>5, <2>1, <2>2
<1>6. ASSUME NEW f \in Events, Publish(f) \/ PublishLost(f)
      PROVE  (IF Finished(e) THEN Told(e) <= 1 + faults
              ELSE Told(e) + Owed(e) <= faults + Excused(e))'
  <2>1. Finished(e)' <=> Finished(e)
    BY <1>5, <1>6, SameFinished
  <2>2. Owed(e)' = Owed(e) /\ Excused(e)' = Excused(e) /\ Told(e)' = Told(e)
    BY <1>5, <1>6, <1>4 DEF Owed, Excused
  <2> QED
    BY <2>1, <2>2, <1>1, <1>2, <1>5, <1>6
<1>7. CASE Start \/ StartWithoutDatabase \/ StartWithoutBroker
  <2>1. /\ ~up /\ UNCHANGED <<published, queue, unacked, sent, pc, current>>
        /\ faults' \in {faults, faults + 1}
        /\ repo' = "nil" => faults' = faults + 1
    BY <1>3, <1>7 DEF Start, StartWithoutDatabase, StartWithoutBroker, Started, past, worker,
                     effects
  <2>2. pc = "idle" /\ Owed(e) = 0 /\ Excused(e) = 0
    BY <2>1 DEF Inv, Connected, Owed, Excused
  <2>3. /\ Owed(e)' \in 0..1 /\ (Owed(e)' = 1 => repo' = "nil") /\ Excused(e)' = 0
    BY <2>1, <2>2 DEF Owed, Excused
  <2>4. Finished(e)' <=> Finished(e)
    BY <2>1, SameFinished DEF Behind
  <2>5. Told(e)' = Told(e)
    BY <2>1, <1>4
  <2> QED
    BY <2>1, <2>2, <2>3, <2>4, <2>5, <1>1, <1>2
<1>8. ASSUME Stopped
      PROVE  /\ Owed(e)' = 0 /\ Excused(e)' = 0 /\ Told(e)' = Told(e)
             /\ Finished(e)' <=> Finished(e)
  <2>1. /\ up' = FALSE /\ pc' = "idle" /\ TakeBack /\ UNCHANGED <<published, sent>>
    BY <1>8 DEF Stopped, past, effects
  <2>2. Behind' = Behind
    BY <2>1, TakenBack DEF Inv
  <2> QED
    BY <2>1, <2>2, <1>4, SameFinished DEF Owed, Excused
<1>9. CASE Crash
  BY <1>1, <1>2, <1>3, <1>8, <1>9 DEF Crash
<1>10. CASE Panic
  <2>1. /\ pc \in {"LogSent", "LogFailed"} /\ repo = "nil" /\ Stopped /\ faults' = faults
    BY <1>10 DEF Panic
  <2>2. up
    BY <2>1, AtWork
  <2>3. Owed(e) >= 1
    BY <2>1, <2>2 DEF Owed
  <2> QED
    BY <2>1, <2>3, <1>1, <1>2, <1>8
<1>11. CASE Disconnect
  <2>1. /\ listening /\ listening' = FALSE /\ TakeBack /\ faults' = faults + 1
        /\ UNCHANGED <<published, up, repo, pc, current, sent>>
    BY <1>3, <1>11 DEF Disconnect, past, worker, effects
  <2>2. Behind' = Behind
    BY <2>1, TakenBack DEF Inv
  <2>3. Finished(e)' <=> Finished(e)
    BY <2>1, <2>2, SameFinished
  <2>4. Owed(e)' - Excused(e)' <= Owed(e) - Excused(e) + 1 /\ Owed(e)' \in 0..2 /\ Excused(e)' = 0
    BY <2>1 DEF Owed, Excused
  <2>5. Told(e)' = Told(e)
    BY <2>1, <1>4
  <2> QED
    BY <2>1, <2>3, <2>4, <2>5, <1>1, <1>2
<1>12. CASE Deliver
  <2>1. /\ listening /\ queue # <<>>
        /\ unacked' = Append(unacked, Head(queue)) /\ queue' = Tail(queue)
        /\ UNCHANGED <<published, up, repo, listening, pc, current, sent, faults>>
    BY <1>12 DEF Deliver, past, process, worker, effects
  <2>2. Len(unacked') = Len(unacked) + 1 /\ Len(queue') = Len(queue) - 1
    BY <2>1 DEF Inv, TypeOK
  <2>3. Behind' = Behind
    BY <2>1, <2>2, Lengths DEF Inv, Behind
  <2> QED
    BY <2>1, <2>3, <1>1, <1>2, <1>4, SameFinished DEF Owed, Excused
<1>13. CASE Receive
  <2>1. /\ pc = "idle" /\ pc' = "Send" /\ listening
        /\ UNCHANGED <<published, queue, unacked, up, repo, listening, sent, faults>>
    BY <1>13 DEF Receive, past, broker, process, effects
  <2>2. Owed(e)' = Owed(e) /\ Excused(e) = 0 /\ Excused(e)' = 0
    BY <2>1 DEF Owed, Excused
  <2>3. Finished(e)' <=> Finished(e)
    BY <2>1, SameFinished DEF Behind
  <2> QED
    BY <2>1, <2>2, <2>3, <1>1, <1>2, <1>4
<1>14. CASE Send
  <2>1. /\ pc = "Send" /\ UNCHANGED <<published, queue, unacked, up, repo, listening, current>>
        /\ pc' \in {"LogSent", "LogFailed"}
        /\ \/ sent' = Append(sent, current) /\ faults' = faults
           \/ sent' = sent /\ faults' = faults + 1
    BY <1>3, <1>14 DEF Send, past, broker, process
  <2>2. Finished(e)' <=> Finished(e)
    BY <2>1, SameFinished DEF Behind
  <2>3. ~Finished(current)
    BY <2>1, AtWork
  <2>4. CASE e = current
    <3>1. (Owed(e) - Excused(e)) - (Owed(e)' - Excused(e)') = 1
          /\ Owed(e)' \in 0..2 /\ Excused(e)' \in 0..1
      BY <2>1, <2>4 DEF Owed, Excused
    <3>2. Told(e)' + faults - faults' <= Told(e) + 1 /\ Told(e)' \in Nat /\ faults' \in Nat
      BY <2>1, <2>4, <1>1, <1>4, ToldMore
    <3> QED
      BY <3>1, <3>2, <2>2, <2>3, <2>4, <1>1, <1>2
  <2>5. CASE e # current
    <3>1. Owed(e)' = Owed(e) /\ Excused(e)' = Excused(e)
      BY <2>1, <2>5 DEF Owed, Excused
    <3>2. Told(e)' = Told(e) /\ faults' \in {faults, faults + 1}
      BY <2>1, <2>5, <1>4, ToldMore
    <3> QED
      BY <3>1, <3>2, <2>2, <1>1, <1>2
  <2> QED
    BY <2>4, <2>5
<1>15. CASE Log
  <2>1. /\ pc \in {"LogSent", "LogFailed"} /\ pc' = "Ack" /\ faults' \in {faults, faults + 1}
        /\ UNCHANGED <<published, queue, unacked, up, repo, listening, current, sent>>
    BY <1>3, <1>15 DEF Log, past, broker, process
  <2>2. Owed(e)' = Owed(e) /\ Excused(e)' = Excused(e)
    BY <2>1 DEF Owed, Excused
  <2>3. Finished(e)' <=> Finished(e)
    BY <2>1, SameFinished DEF Behind
  <2> QED
    BY <2>1, <2>2, <2>3, <1>1, <1>2, <1>4
<1>16. CASE Ack
  <2>1. /\ pc = "Ack" /\ pc' = "idle" /\ unacked' = IF listening THEN Tail(unacked) ELSE unacked
        /\ UNCHANGED <<published, queue, up, repo, listening, sent, faults>>
    BY <1>16 DEF Ack, past, process, effects
  <2>2. Told(e)' = Told(e) /\ Owed(e)' = Owed(e) /\ Excused(e)' = 0
    BY <2>1, <1>4 DEF Owed, Excused
  <2>3. CASE ~listening
    <3>1. Finished(e)' <=> Finished(e)
      BY <2>1, <2>3, SameFinished DEF Behind
    <3>2. Excused(e) = 0
      BY <2>3 DEF Excused
    <3> QED
      BY <3>1, <3>2, <2>1, <2>2, <1>1, <1>2
  <2>4. CASE listening
    <3>1. unacked # <<>> /\ Behind + 1 \in 1..Len(published) /\ current = published[Behind + 1]
      BY <2>1, <2>4, Lengths DEF Inv, Knows, Aligned
    <3>2. Len(unacked') = Len(unacked) - 1
      BY <2>1, <2>4, <3>1 DEF Inv, TypeOK
    <3>3. Behind' = Behind + 1 /\ Behind \in Nat
      BY <3>2, <2>1, Lengths DEF Inv, Aligned, Behind
    <3>4. Finished(e)' <=> Finished(e) \/ e = current
      BY <3>1, <3>3, <2>1 DEF Finished
    <3>5. e # current => Excused(e) = 0
      BY DEF Excused
    <3> QED
      BY <3>4, <3>5, <2>1, <2>2, <1>1, <1>2
  <2> QED
    BY <2>3, <2>4
<1>17. CASE UNCHANGED vars
  <2>1. UNCHANGED <<published, queue, unacked, up, repo, listening, pc, current, sent, faults>>
    BY <1>17 DEF vars, past, broker, process, worker, effects
  <2>2. Finished(e)' <=> Finished(e)
    BY <2>1, SameFinished DEF Behind
  <2> QED
    BY <2>1, <2>2, <1>1, <1>2, <1>4 DEF Owed, Excused
<1> QED
  BY <1>6, <1>7, <1>9, <1>10, <1>11, <1>12, <1>13, <1>14, <1>15, <1>16, <1>17 DEF Next, Handle

\* Handle pushes a message again only for an event that a fault has kept from being
\* acknowledged: for each message beyond the first, one fault has occurred.
THEOREM RetoldForFaults == Spec => []ToldOncePerFault
<1>1. Inv /\ PaidFor => ToldOncePerFault
  <2> SUFFICES ASSUME Inv, PaidFor, NEW e \in Events
               PROVE  Told(e) <= 1 + faults
    BY DEF ToldOncePerFault, Told
  <2>1. Told(e) \in Nat /\ faults \in Nat /\ Owed(e) \in 0..2 /\ Excused(e) \in 0..1
    BY ToldType DEF Inv, TypeOK, Owed, Excused
  <2> QED
    BY <2>1 DEF PaidFor
<1> QED
  BY <1>1, InitInv, NextInv, InitPaidFor, NextPaidFor, PTL DEF Spec

-----------------------------------------------------------------------------
(* What is done with.                                                       *)

\* The first Behind events are the ones the broker no longer holds.
LEMMA BehindIsDone ==
  ASSUME Inv, NEW i \in 1..Behind
  PROVE  Done(published[i])
<1>1. /\ Behind \in Nat /\ Len(unacked) \in Nat /\ Len(queue) \in Nat
      /\ Len(published) = Behind + Len(unacked) + Len(queue)
  BY Lengths DEF Inv, Aligned, Behind
<1>2. published \in Seq(Events) /\ unacked \in Seq(Events) /\ queue \in Seq(Events)
  BY DEF Inv, TypeOK
<1>3. i \in 1..Len(published)
  BY <1>1
<1>4. \A k \in 1..Len(published) : published[k] = published[i] => k = i
  BY <1>3 DEF Inv, Published
<1>5. \A k \in 1..Len(unacked) : unacked[k] # published[i]
  <2> SUFFICES ASSUME NEW k \in 1..Len(unacked) PROVE published[Behind + k] # published[i]
    BY DEF Inv, Aligned
  <2>1. Behind + k \in 1..Len(published) /\ Behind + k # i
    BY <1>1
  <2> QED
    BY <1>4, <2>1
<1>6. \A k \in 1..Len(queue) : queue[k] # published[i]
  <2> SUFFICES ASSUME NEW k \in 1..Len(queue)
               PROVE  published[Behind + Len(unacked) + k] # published[i]
    BY DEF Inv, Aligned
  <2>1. Behind + Len(unacked) + k \in 1..Len(published) /\ Behind + Len(unacked) + k # i
    BY <1>1
  <2> QED
    BY <1>4, <2>1
<1> QED
  BY <1>2, <1>3, <1>5, <1>6 DEF Done, Waiting, Range

\* Only an acknowledgement advances, by one event; publishing, delivering and taking
\* back do not.
LEMMA BehindGrows ==
  ASSUME Inv, [Next]_vars
  PROVE  /\ Behind \in Nat
         /\ Behind' = Behind \/ (Ack /\ Behind' = Behind + 1)
         /\ \A i \in 1..Len(published) : published'[i] = published[i]
<1> USE DEF past, broker, process, worker, effects
<1>1. /\ Behind \in Nat /\ Len(published) \in Nat /\ Len(unacked) \in Nat /\ Len(queue) \in Nat
      /\ published \in Seq(Events) /\ unacked \in Seq(Events) /\ queue \in Seq(Events)
  BY Lengths DEF Inv, TypeOK, Aligned
<1>2. ASSUME NEW e \in Events, Publish(e)
      PROVE  /\ Behind' = Behind
             /\ \A i \in 1..Len(published) : published'[i] = published[i]
  <2>1. /\ Len(published') = Len(published) + 1 /\ Len(queue') = Len(queue) + 1
        /\ unacked' = unacked
        /\ \A i \in 1..Len(published) : published'[i] = published[i]
    BY <1>1, <1>2 DEF Publish
  <2> QED
    BY <1>1, <2>1 DEF Behind
<1>3. ASSUME TakeBack, published' = published PROVE Behind' = Behind
  <2>1. Len(queue') = Len(unacked) + Len(queue) /\ Len(unacked') = 0
    BY <1>1, <1>3 DEF TakeBack
  <2> QED
    BY <1>1, <1>3, <2>1 DEF Behind
<1>4. CASE Deliver
  <2>1. /\ Len(queue') = Len(queue) - 1 /\ Len(unacked') = Len(unacked) + 1
        /\ published' = published
    BY <1>1, <1>4 DEF Deliver
  <2> QED
    BY <1>1, <2>1 DEF Behind
<1>5. CASE Ack
  <2>1. published' = published /\ queue' = queue
    BY <1>5 DEF Ack
  <2>2. CASE listening
    <3>1. unacked # <<>> /\ unacked' = Tail(unacked)
      BY <1>5, <2>2 DEF Ack, Inv, Knows
    <3>2. Len(unacked') = Len(unacked) - 1
      BY <1>1, <3>1
    <3>3. Behind' = Behind + 1
      BY <1>1, <2>1, <3>2 DEF Behind
    <3> QED
      BY <1>1, <1>5, <2>1, <3>3
  <2>3. CASE ~listening
    BY <1>1, <1>5, <2>1, <2>3 DEF Ack, Behind
  <2> QED
    BY <2>2, <2>3
<1>6. CASE Crash \/ Disconnect \/ Panic
  BY <1>1, <1>3, <1>6 DEF Crash, Disconnect, Panic, Stopped
<1>7. CASE UNCHANGED <<published, unacked, queue>>
  BY <1>1, <1>7 DEF Behind
<1>8. \/ \E e \in Events : Publish(e)
      \/ Deliver \/ Ack \/ Crash \/ Disconnect \/ Panic
      \/ UNCHANGED <<published, unacked, queue>>
  BY DEF Next, PublishLost, Start, StartWithoutDatabase, StartWithoutBroker, Started, Handle,
         Receive, Send, Log, vars
<1> QED
  BY <1>1, <1>2, <1>4, <1>5, <1>6, <1>7, <1>8

\* An event is done with only when all before it are, though the broker hands out
\* many at once and takes them back.
DoneInOrder == \A e, f \in Events : Before(e, f) /\ Done(f) => Done(e)

\* The consumer works for the first of the events that are not done with, and Ack is
\* about that one.
THEOREM AcknowledgedInOrder == Spec => []DoneInOrder
<1>1. ASSUME Inv, NEW e \in Events, NEW f \in Events, Before(e, f), Done(f)
      PROVE  Done(e)
  <2>1. published \in Seq(Events) /\ Len(published) \in Nat /\ Behind \in Nat
        /\ Behind <= Len(published)
    BY <1>1, Lengths DEF Inv, TypeOK, Aligned, Behind
  <2>2. PICK i, j \in 1..Len(published) : i < j /\ published[i] = e /\ published[j] = f
    BY <1>1, <2>1 DEF Before
  <2>3. PICK n \in 1..Behind : published[n] = f
    BY <1>1, DoneIsBehind
  <2>4. n = j
    BY <1>1, <2>1, <2>2, <2>3 DEF Inv, Published
  <2>5. i \in 1..Behind
    BY <2>1, <2>2, <2>4
  <2> QED
    BY <1>1, <2>2, <2>5, BehindIsDone
<1>2. Inv => DoneInOrder
  BY <1>1 DEF DoneInOrder
<1> QED
  BY <1>2, InitInv, NextInv, PTL DEF Spec

\* What is done with is never handed out again: no crash, lost connection or failed
\* acknowledgement brings an acknowledged event back.
DoneForGood == [][\A e \in Events : Done(e) => Done(e)']_vars

\* The converse of DoneIsBehind.
AllBehindDone == \A i \in 1..Behind : Done(published[i])

LEMMA NextDone ==
  ASSUME Inv, AllBehindDone', [Next]_vars, NEW e \in Events, Done(e)
  PROVE  Done(e)'
<1>1. PICK i \in 1..Behind : published[i] = e
  BY DoneIsBehind
<1>2. Inv'
  BY NextInv
<1>3. Behind \in Nat /\ Behind <= Len(published)
  BY Lengths DEF Inv, Aligned, Behind
<1>4. i \in 1..Behind' /\ published'[i] = e
  BY <1>1, <1>3, BehindGrows, Lengths DEF Inv, TypeOK
<1> QED
  BY <1>4 DEF AllBehindDone

\* The broker takes back only what was handed out and is unacknowledged.
THEOREM AcknowledgedForGood == Spec => DoneForGood
<1>1. Inv => AllBehindDone
  BY BehindIsDone DEF AllBehindDone
<1>2. Inv /\ AllBehindDone' /\ [Next]_vars => [\A e \in Events : Done(e) => Done(e)']_vars
  BY NextDone
<1> QED
  BY <1>1, <1>2, InitInv, NextInv, PTL DEF Spec, DoneForGood

-----------------------------------------------------------------------------
(* The contract.                                                            *)

\* What the goroutine works for is the contract's current event.
LEMMA WorkContract ==
  ASSUME Inv, pc # "idle"
  PROVE  C!AtWork /\ C!Current = current /\ current \in Events
  BY DEF Inv, TypeOK, Knows, C!AtWork, C!Current

\* Where nothing is done with, a step that leaves messages, log and faults alone is a
\* stutter, and one that is only a fault is the contract's.
LEMMA QuietContract ==
  ASSUME Behind' = Behind, UNCHANGED <<published, sent, logs, unlogged>>,
         faults' \in {faults, faults + 1}
  PROVE  [C!Next]_(C!vars)
  BY DEF C!Next, C!Fault, C!vars

LEMMA PublishContract ==
  ASSUME Inv, Behind' = Behind, NEW e \in Events, Publish(e)
  PROVE  C!Next
<1>1. /\ published' = Append(published, e) /\ e \notin Range(published)
      /\ UNCHANGED <<sent, logs, unlogged, faults>>
  BY DEF Publish, New, effects
<1>2. \A i \in 1..Len(published) : published[i] # e
  BY <1>1 DEF Range, Inv, TypeOK
<1> QED
  BY <1>1, <1>2 DEF C!Next, C!Happen

\* A message is about the current event, and by PaidFor no more of them were pushed
\* than faults have occurred.
LEMMA SendContract ==
  ASSUME Inv, PaidFor, Behind' = Behind, Send
  PROVE  [C!Next]_(C!vars)
<1>1. pc = "Send" /\ UNCHANGED <<published, logs, unlogged>>
  BY DEF Send, past, broker, process
<1>2. C!AtWork /\ C!Current = current /\ current \in Events
  BY <1>1, WorkContract
<1>3. CASE sent' = sent /\ Fault("push")
  BY <1>1, <1>3, QuietContract DEF Fault
<1>4. CASE sent' = Append(sent, current) /\ faults' = faults
  <2>1. Told(current) + Owed(current) <= faults + Excused(current)
    BY <1>1, <1>2, AtWork DEF PaidFor
  <2>2. Told(current) \in Nat /\ faults \in Nat /\ Owed(current) \in Nat /\ Excused(current) = 0
    BY <1>1, ToldType DEF Inv, TypeOK, Owed, Excused
  <2>3. Told(current) <= faults
    BY <2>1, <2>2
  <2>4. {i \in 1..Len(sent) : sent[i] = C!Current} = MessagesOf(current)
    BY <1>2 DEF MessagesOf, Inv, TypeOK
  <2>5. C!Cardinality(MessagesOf(current)) = Told(current)
    BY DEF C!Cardinality, Cardinality, Told
  <2>6. C!Tell
    BY <1>1, <1>2, <1>4, <2>3, <2>4, <2>5 DEF C!Tell
  <2> QED
    BY <2>6 DEF C!Next
<1> QED
  BY <1>3, <1>4 DEF Send

LEMMA LogContract ==
  ASSUME Inv, Behind' = Behind, Log
  PROVE  C!Next
<1>1. pc \in {"LogSent", "LogFailed"} /\ UNCHANGED <<published, sent>>
  BY DEF Log, past
<1>2. C!AtWork /\ C!Current = current
  BY <1>1, WorkContract
<1>3. CASE UNCHANGED <<unlogged, faults>>
  <2> DEFINE r == IF pc = "LogSent" THEN "sent" ELSE "failed"
  <2>1. logs' = logs \cup {<<current, r>>} \/ Fault("insert")
    BY DEF Log
  <2>2. ~Fault("insert")
    BY <1>3 DEF Fault, Inv, TypeOK
  <2>3. r = "sent" => \E i \in 1..Len(sent) : sent[i] = current
    BY DEF Inv, TypeOK, Knows, Range
  <2>4. C!Record(r)
    BY <1>1, <1>2, <1>3, <2>1, <2>2, <2>3 DEF C!Record
  <2>5. r \in {"sent", "failed"}
    OBVIOUS
  <2> QED
    BY <2>4, <2>5 DEF C!Next
<1>4. CASE Fault("insert") /\ unlogged' = unlogged \cup {current} /\ logs' = logs
  <2>1. C!Fault
    BY <1>1, <1>2, <1>4 DEF C!Fault, Fault
  <2> QED
    BY <2>1 DEF C!Next
<1> QED
  BY <1>3, <1>4 DEF Log

LEMMA AckContract ==
  ASSUME Inv, Behind' = Behind + 1, Ack
  PROVE  C!Next
<1>1. pc = "Ack" /\ UNCHANGED <<published, sent, logs, unlogged, faults>>
  BY DEF Ack, past, effects
<1>2. C!AtWork /\ C!Current = current
  BY <1>1, WorkContract
<1>3. current \in unlogged \/ \E r \in Results : <<current, r>> \in logs
  BY <1>1 DEF Inv, Knows
<1>4. C!Finish
  BY <1>1, <1>2, <1>3 DEF C!Finish
<1> QED
  BY <1>4 DEF C!Next

LEMMA NextContract == Inv /\ PaidFor /\ [Next]_vars => [C!Next]_(C!vars)
<1> SUFFICES ASSUME Inv, PaidFor, [Next]_vars
             PROVE  [C!Next]_(C!vars)
  OBVIOUS
<1>1. CASE Ack /\ Behind' = Behind + 1
  BY <1>1, AckContract
<1>2. CASE Behind' = Behind
  <2>1. ASSUME NEW e \in Events, Publish(e) PROVE [C!Next]_(C!vars)
    BY <1>2, <2>1, PublishContract
  <2>2. CASE Send
    BY <1>2, <2>2, SendContract
  <2>3. CASE Log
    BY <1>2, <2>3, LogContract
  <2>4. CASE UNCHANGED <<published, sent, logs, unlogged>> /\ faults' \in {faults, faults + 1}
    BY <1>2, <2>4, QuietContract
  <2>5. \/ \E e \in Events : Publish(e)
        \/ Send \/ Log
        \/ UNCHANGED <<published, sent, logs, unlogged>> /\ faults' \in {faults, faults + 1}
    BY DEF Next, PublishLost, Start, StartWithoutDatabase, StartWithoutBroker, Started,
           Crash, Disconnect, Deliver, Handle, Receive, Panic, Stopped, Ack, Fault, vars,
           past, effects
  <2> QED
    BY <2>1, <2>2, <2>3, <2>4, <2>5
<1> QED
  BY <1>1, <1>2, BehindGrows

\* Publisher, broker, process and goroutine implement the contract of notification:
\* events are told in order, each is left behind only with its row or a failed
\* insertion, and whatever is pushed again was paid for by a fault.
THEOREM ContractKept == Spec => Contract
<1>1. Init => C!Init
  <2> SUFFICES ASSUME Init PROVE C!Init
    OBVIOUS
  <2>1. Len(published) = 0 /\ Len(unacked) = 0 /\ Len(queue) = 0
    BY DEF Init
  <2>2. Behind = 0
    BY <2>1 DEF Behind
  <2> QED
    BY <2>2 DEF Init, C!Init
<1>2. Init => Inv /\ PaidFor
  BY InitInv, InitPaidFor
<1>3. Inv /\ PaidFor /\ [Next]_vars => (Inv /\ PaidFor)'
  BY NextInv, NextPaidFor
<1>4. Inv /\ PaidFor /\ [Next]_vars => [C!Next]_(C!vars)
  BY NextContract
<1> QED
  BY <1>1, <1>2, <1>3, <1>4, PTL DEF Spec, Contract, C!Spec
=============================================================================
