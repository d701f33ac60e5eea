------------------------- MODULE ReservationSchedules -------------------------
(***************************************************************************)
(* Reservation under two kinder schedules than the program's own.  Each    *)
(* only takes behaviours away, and what holds under it alone tells which   *)
(* promises of the service rest on its requests being few and far between. *)
(***************************************************************************)
EXTENDS Reservation

Busy == {p \in Procs : pc[p] # "idle"}

\* Handlers take no time, and neither do drivers: the clock moves only while no
\* handler is at work and every reservation has been paid for and checked in.
PromptNext ==
  /\ Next
  /\ now' # now => /\ Busy = {}
                   /\ \A r \in Ids : status[r] \notin {"pending", "confirmed"}
PromptSpec == Init /\ [][PromptNext]_vars

\* Handlers do not overlap: one of them starts only when the others are done.
SerialNext ==
  /\ Next
  /\ \A p, q \in Busy' : p = q
  /\ (\E r \in Ids : HistoryExpire(r)) => Busy = {}
SerialSpec == Init /\ [][SerialNext]_vars
=============================================================================
