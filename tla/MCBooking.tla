----------------------------- MODULE MCBooking -----------------------------
(***************************************************************************)
(* The instance of Booking that TLC checks.                                *)
(***************************************************************************)
EXTENDS Booking, TLC

Symmetry == Permutations(Keys) \cup Permutations(Workers)
=============================================================================
