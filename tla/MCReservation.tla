---------------------------- MODULE MCReservation ----------------------------
(***************************************************************************)
(* The instances of Reservation that TLC checks.                           *)
(***************************************************************************)
EXTENDS ReservationSchedules, TLC

Symmetry ==
  UNION {Permutations(S) : S \in {Ids, Drivers, Keys, Workers}}
=============================================================================
