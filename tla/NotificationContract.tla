------------------------- MODULE NotificationContract -------------------------
(***************************************************************************)
(* What drivers can count on: they are told of one event after the other,  *)
(* in the order in which things happened.  The service works for the first *)
(* event it has not done with, and leaves it only with a row in the log,   *)
(* or a fault in place of the row.  Faults make it tell an event again,    *)
(* each of them at most once.                                              *)
(***************************************************************************)
EXTENDS Naturals, Sequences, FiniteSets

CONSTANT Events

VARIABLES
  happened,  \* the events, in order
  told,      \* what the drivers have been told, in order
  done,      \* how many of the events are done with
  rows,      \* the log: events with what became of their messages
  gaps,      \* the events for which a row could not be written
  faults     \* how many faults have occurred

vars == <<happened, told, done, rows, gaps, faults>>

Init ==
  /\ happened = <<>> /\ told = <<>> /\ done = 0
  /\ rows = {} /\ gaps = {}
  /\ faults = 0

AtWork  == done < Len(happened)
Current == happened[done + 1]

Happen(e) ==
  /\ \A i \in 1..Len(happened) : happened[i] # e
  /\ happened' = Append(happened, e)
  /\ UNCHANGED <<told, done, rows, gaps, faults>>

Tell ==
  /\ AtWork
  /\ Cardinality({i \in 1..Len(told) : told[i] = Current}) <= faults
  /\ told' = Append(told, Current)
  /\ UNCHANGED <<happened, done, rows, gaps, faults>>

Record(result) ==
  /\ AtWork
  /\ result = "sent" => \E i \in 1..Len(told) : told[i] = Current
  /\ rows' = rows \cup {<<Current, result>>}
  /\ UNCHANGED <<happened, told, done, gaps, faults>>

Fault ==
  /\ faults' = faults + 1
  /\ \/ AtWork /\ gaps' = gaps \cup {Current}
     \/ UNCHANGED gaps
  /\ UNCHANGED <<happened, told, done, rows>>

Finish ==
  /\ AtWork
  /\ Current \in gaps \/ \E result \in {"sent", "failed"} : <<Current, result>> \in rows
  /\ done' = done + 1
  /\ UNCHANGED <<happened, told, rows, gaps, faults>>

Next ==
  \/ \E e \in Events : Happen(e)
  \/ Tell \/ \E result \in {"sent", "failed"} : Record(result)
  \/ Fault \/ Finish

Spec == Init /\ [][Next]_vars
=============================================================================
