------------------------ MODULE ReservationLifecycle -------------------------
(***************************************************************************)
(* The reservation state machine of the documentation, with the edges the  *)
(* code adds to it (a reservation that has not been paid for can be        *)
(* cancelled and expires).  "none" means that there is no row.             *)
(***************************************************************************)
CONSTANT Ids
VARIABLE status

Move(r, from, to) ==
  /\ status[r] \in from
  /\ status' = [status EXCEPT ![r] = to]

Init == status = [r \in Ids |-> "none"]

Reserve(r)  == Move(r, {"none"}, "pending")
Confirm(r)  == Move(r, {"pending"}, "confirmed")
CheckIn(r)  == Move(r, {"confirmed"}, "active")
CheckOut(r) == Move(r, {"active"}, "completed")
Cancel(r)   == Move(r, {"pending", "confirmed"}, "cancelled")
Expire(r)   == Move(r, {"pending", "confirmed"}, "expired")

Next == \E r \in Ids :
  \/ Reserve(r) \/ Confirm(r) \/ CheckIn(r) \/ CheckOut(r)
  \/ Cancel(r) \/ Expire(r)

Spec == Init /\ [][Next]_status
=============================================================================
