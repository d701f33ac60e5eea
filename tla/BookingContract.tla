-------------------------- MODULE BookingContract --------------------------
(***************************************************************************)
(* What a driver may rely on who books a spot and pays for it, whichever   *)
(* services the gateway calls for that, and whatever fails in between: the *)
(* stages a booking goes through, identified by the key the client chose.  *)
(***************************************************************************)
CONSTANT Keys

VARIABLES
  stage,    \* the stage of each booking
  settled   \* the bookings whose payment has been settled

vars == <<stage, settled>>

\* "held" and "payable" bookings have a spot, and "payable" ones can be paid
\* for; "confirmed" ones wait for the driver; "abandoned" ones were never
\* confirmed, and "ended" ones were.
Stages == {"nothing", "held", "payable", "confirmed", "parked", "abandoned", "ended"}

Init ==
  /\ stage = [k \in Keys |-> "nothing"]
  /\ settled = {}

Move(k, from, to) ==
  /\ stage[k] \in from
  /\ stage' = [stage EXCEPT ![k] = to]
  /\ UNCHANGED settled

Hold(k)    == Move(k, {"nothing"}, "held")
Offer(k)   == Move(k, {"held"}, "payable")
Abandon(k) == Move(k, {"held", "payable"}, "abandoned")

Settle(k) ==
  /\ stage[k] \notin {"nothing", "held"}
  /\ settled' = settled \cup {k}
  /\ UNCHANGED stage

\* No spot is confirmed before some payment is settled.
Confirm(k) == settled # {} /\ Move(k, {"held", "payable"}, "confirmed")

\* A driver who is about to check in while his booking ends comes in all the
\* same, and one who has just come in may lose it: but only if it was confirmed.
Park(k) == Move(k, {"confirmed", "ended"}, "parked")
End(k)  == Move(k, {"confirmed", "parked"}, "ended")

Next == \E k \in Keys :
  \/ Hold(k) \/ Offer(k) \/ Abandon(k) \/ Settle(k)
  \/ Confirm(k) \/ Park(k) \/ End(k)

Spec == Init /\ [][Next]_vars
=============================================================================
