---------------------------- MODULE Notification ----------------------------
(***************************************************************************)
(* How drivers are told what becomes of their reservations: the events     *)
(* that the reservation service publishes, queue notification.all of the   *)
(* broker, the goroutine that consumes it (pkg/mq), and the notification   *)
(* service's handler, which pushes a message and inserts a row in its log. *)
(*                                                                         *)
(* The broker hands out events in order, as many as there are, keeps them  *)
(* until they are acknowledged, and takes back what the connection it gave *)
(* them to leaves unacknowledged.  What it holds survives a restart.       *)
(***************************************************************************)
EXTENDS Naturals, Sequences, FiniteSets, SequencesExt

CONSTANTS
  Events,     \* what happens to reservations, each published once
  Faults,     \* which faults occur: "crash", "disconnect", "noDatabase", "push", "insert"
  MaxFaults,  \* bound on their number
  None        \* no event

ASSUME NoneAssumption == None \notin Events
ASSUME MaxFaultsAssumption == MaxFaults \in Nat

VARIABLES
  published,  \* history: the events the queue has received, in order
  lost,       \* history: the events that no queue has received
  bound,      \* the queue exists, and is bound to the exchange
  queue,      \* the broker: the events to be handed out
  unacked,    \* the broker: the events handed out and not acknowledged
  up,         \* the process of the notification service runs
  listening,  \* its connection to the broker is open, and its goroutine receives
  repo,       \* "pool", or the nil pointer the process has when it started without database
  pc,         \* the next call of the goroutine
  current,    \* the event it works for
  sent,       \* the messages pushed to drivers, in order
  logs,       \* the rows of table notification_logs
  unlogged,   \* history: the events for which an insertion failed
  faults      \* how many faults have occurred

broker  == <<bound, queue, unacked>>
process == <<up, listening, repo>>
worker  == <<pc, current>>
effects == <<sent, logs, unlogged>>
past    == <<published, lost>>
vars    == <<past, broker, process, worker, effects, faults>>

Results == {"sent", "failed"}
Calls   == {"idle", "Send", "LogSent", "LogFailed", "Ack"}

Init ==
  /\ published = <<>> /\ lost = {}
  /\ bound = FALSE /\ queue = <<>> /\ unacked = <<>>
  /\ up = FALSE /\ listening = FALSE /\ repo = "nil"
  /\ pc = "idle" /\ current = None
  /\ sent = <<>> /\ logs = {} /\ unlogged = {}
  /\ faults = 0

-----------------------------------------------------------------------------

Fault(f) ==
  /\ f \in Faults /\ faults < MaxFaults
  /\ faults' = faults + 1

\* Faulty variant: what was handed out goes to the end of the queue.
TakeBackLast ==
  /\ queue' = queue \o unacked
  /\ unacked' = <<>>
  /\ UNCHANGED bound

\* The broker puts the events it has handed out back to where they were.
TakeBack ==
  /\ queue' = unacked \o queue
  /\ unacked' = <<>>
  /\ UNCHANGED bound

-----------------------------------------------------------------------------
(* The reservation service's publisher.                                     *)

New(e) == e \notin lost \cup Range(published)

Publish(e) ==
  /\ New(e) /\ bound
  /\ queue' = Append(queue, e)
  /\ published' = Append(published, e)
  /\ UNCHANGED <<lost, bound, unacked, process, worker, effects, faults>>

\* Nobody has bound a queue yet, so the exchange drops it; or the publisher has
\* lost its connection, which the service only logs.
PublishLost(e) ==
  /\ New(e)
  /\ \/ ~bound /\ UNCHANGED faults
     \/ Fault("disconnect")
  /\ lost' = lost \cup {e}
  /\ UNCHANGED <<published, broker, process, worker, effects>>

-----------------------------------------------------------------------------
(* The process: started by docker compose whenever it is not running.       *)

Started(database, subscribed) ==
  /\ ~up
  /\ up' = TRUE
  /\ repo' = IF database THEN "pool" ELSE "nil"
  /\ listening' = subscribed
  /\ bound' = (bound \/ subscribed)
  /\ UNCHANGED <<past, queue, unacked, worker, effects>>

\* Faulty variant: the repository is assigned to a variable of the inner block.
StartShadowed == Started(FALSE, TRUE) /\ UNCHANGED faults

Start == Started(TRUE, TRUE) /\ UNCHANGED faults

\* "notification history disabled".
StartWithoutDatabase == Fault("noDatabase") /\ Started(FALSE, TRUE)

\* "notification subscriber disabled": it is not tried again.
StartWithoutBroker == Fault("disconnect") /\ Started(TRUE, FALSE)

\* Faulty variant: the process starts again in the midst of an event.
StoppedMidway ==
  /\ up' = FALSE /\ listening' = FALSE
  /\ TakeBack
  /\ pc' = "idle" /\ UNCHANGED current
  /\ UNCHANGED <<past, repo, effects>>

Stopped ==
  /\ up' = FALSE /\ listening' = FALSE
  /\ TakeBack
  /\ pc' = "idle" /\ current' = None
  /\ UNCHANGED <<past, repo, effects>>

Crash == up /\ Fault("crash") /\ Stopped

\* The channel of deliveries is closed, and the goroutine ends after the event
\* it works for.  Nothing opens another connection as long as the process runs.
Disconnect ==
  /\ listening /\ Fault("disconnect")
  /\ listening' = FALSE
  /\ TakeBack
  /\ UNCHANGED <<past, up, repo, worker, effects>>

-----------------------------------------------------------------------------
(* The goroutine of Subscribe, and Handle with SendNotification.            *)

Deliver ==
  /\ listening /\ queue # <<>>
  /\ unacked' = Append(unacked, Head(queue))
  /\ queue' = Tail(queue)
  /\ UNCHANGED <<past, bound, process, worker, effects, faults>>

Receive ==
  /\ pc = "idle" /\ listening /\ unacked # <<>>
  /\ pc' = "Send" /\ current' = Head(unacked)
  /\ UNCHANGED <<past, broker, process, effects, faults>>

\* Faulty variant: an event whose message cannot be pushed is requeued.
SendOrRequeue ==
  /\ pc = "Send"
  /\ \/ pc' = "LogSent" /\ sent' = Append(sent, current) /\ UNCHANGED current
     \/ pc' = "idle" /\ current' = None /\ UNCHANGED sent
  /\ UNCHANGED <<past, broker, process, logs, unlogged, faults>>

Send ==
  /\ pc = "Send"
  /\ \/ pc' = "LogSent" /\ sent' = Append(sent, current) /\ UNCHANGED faults
     \/ pc' = "LogFailed" /\ UNCHANGED sent /\ Fault("push")
  /\ UNCHANGED <<past, broker, process, current, logs, unlogged>>

\* Faulty variant: a message that could not be pushed is not logged.
LogSentOnly ==
  /\ pc \in {"LogSent", "LogFailed"} /\ repo = "pool"
  /\ \/ /\ logs' = IF pc = "LogSent" THEN logs \cup {<<current, "sent">>} ELSE logs
        /\ UNCHANGED <<unlogged, faults>>
     \/ Fault("insert") /\ unlogged' = unlogged \cup {current} /\ UNCHANGED logs
  /\ pc' = "Ack"
  /\ UNCHANGED <<past, broker, process, current, sent>>

\* An error of the insertion is only logged.
Log ==
  /\ pc \in {"LogSent", "LogFailed"} /\ repo = "pool"
  /\ \/ /\ logs' = logs \cup {<<current, IF pc = "LogSent" THEN "sent" ELSE "failed">>}
        /\ UNCHANGED <<unlogged, faults>>
     \/ Fault("insert") /\ unlogged' = unlogged \cup {current} /\ UNCHANGED logs
  /\ pc' = "Ack"
  /\ UNCHANGED <<past, broker, process, current, sent>>

\* The interface that holds the nil pointer is not nil: Insert is called, and
\* dereferences it.  The panic, in a goroutine, ends the process.
Panic ==
  /\ pc \in {"LogSent", "LogFailed"} /\ repo = "nil"
  /\ Stopped
  /\ UNCHANGED faults

\* The handler returns no error, whatever became of the message.  On a closed
\* connection the acknowledgement fails, which is ignored.
Ack ==
  /\ pc = "Ack"
  /\ unacked' = IF listening THEN Tail(unacked) ELSE unacked
  /\ pc' = "idle" /\ current' = None
  /\ UNCHANGED <<past, bound, queue, process, effects, faults>>

-----------------------------------------------------------------------------

Handle == Receive \/ Send \/ Log \/ Panic \/ Ack

Next ==
  \/ \E e \in Events : Publish(e) \/ PublishLost(e)
  \/ Start \/ StartWithoutDatabase \/ StartWithoutBroker
  \/ Crash \/ Disconnect
  \/ Deliver \/ Handle

Spec == Init /\ [][Next]_vars

\* The restart policy, the broker, and a goroutine that goes on.
Fairness == WF_vars(Start) /\ WF_vars(Deliver) /\ WF_vars(Handle)

FairSpec == Spec /\ Fairness

-----------------------------------------------------------------------------
(* Properties.                                                              *)

TypeOK ==
  /\ published \in Seq(Events) /\ lost \subseteq Events
  /\ bound \in BOOLEAN /\ queue \in Seq(Events) /\ unacked \in Seq(Events)
  /\ up \in BOOLEAN /\ listening \in BOOLEAN /\ repo \in {"pool", "nil"}
  /\ pc \in Calls /\ current \in Events \cup {None}
  /\ pc = "idle" <=> current = None
  /\ sent \in Seq(Events) /\ logs \subseteq Events \X Results /\ unlogged \subseteq Events
  /\ faults \in 0..MaxFaults

Waiting == Range(queue) \cup Range(unacked)

\* Done with: the broker has forgotten the event.
Done(e) == e \in Range(published) \ Waiting

\* A driver is told once, and once more for each fault at most: only what is
\* interrupted before its acknowledgement is told again.
MessagesOf(e) == {i \in DOMAIN sent : sent[i] = e}

ToldOncePerFault == \A e \in Events : Cardinality(MessagesOf(e)) <= 1 + faults

\* Drivers hear of things in the order in which they happened, however often the
\* broker takes events back: when a message is the first about its event, all
\* messages before it are about earlier events.
Before(e, f) ==
  \E i, j \in DOMAIN published : i < j /\ published[i] = e /\ published[j] = f

ToldInOrder ==
  \A j \in DOMAIN sent :
    (\A i \in 1..(j - 1) : sent[i] # sent[j])
      => \A i \in 1..(j - 1) : Before(sent[i], sent[j])

\* How many of the events are done with: what the broker holds are the last ones.
Behind == Len(published) - Len(unacked) - Len(queue)

\* Publisher, broker, process and goroutine together tell of one event after the other,
\* in order.  None is left before the log tells of it, unless its insertion failed; no
\* row is about a message that was not pushed; and what is pushed again is owed to a
\* fault.  The mapping forgets where an event is and who works for it.
C == INSTANCE NotificationContract WITH
       happened <- published, told <- sent, done <- Behind, rows <- logs, gaps <- unlogged

Contract == C!Spec

\* An event the queue has received is handled in the end, though the process
\* stops, or cannot log; unless the process runs without connection from some time
\* on: it then stays so, and the events wait for somebody to restart it.
Deaf == up /\ ~listening

HandledUnlessDeaf ==
  []<>~Deaf => \A e \in Events : e \in Range(published) ~> Done(e)

=============================================================================
