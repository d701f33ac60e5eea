------------------------- MODULE ReservationProgress -------------------------
(***************************************************************************)
(* What the reservation service promises about one reservation whatever    *)
(* the interleaving of its handlers and whatever fails: the statuses the   *)
(* row has been given so far.  No status is ever reached before the        *)
(* statuses it presupposes, and none is forgotten.                         *)
(*                                                                         *)
(* This is weaker than the state machine of ReservationLifecycle, which    *)
(* the service implements only when its handlers do not overlap: here a    *)
(* reservation may reach both "expired" and "active", in either order.     *)
(***************************************************************************)
CONSTANT Ids
VARIABLE reached

\* The milestones a reservation must have passed before it may reach another:
\* it is paid for before the driver parks, and he parks before he leaves.
Presupposes ==
  [pending   |-> {},
   confirmed |-> {"pending"},
   cancelled |-> {"pending"},
   expired   |-> {"pending"},
   active    |-> {"confirmed"},
   completed |-> {"active"}]

Milestones == DOMAIN Presupposes

Init == reached = [r \in Ids |-> {}]

Reach(r, m) ==
  /\ Presupposes[m] \subseteq reached[r]
  /\ reached' = [reached EXCEPT ![r] = @ \cup {m}]

Next == \E r \in Ids, m \in Milestones : Reach(r, m)

Spec == Init /\ [][Next]_reached
=============================================================================
