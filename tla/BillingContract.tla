--------------------------- MODULE BillingContract ---------------------------
(***************************************************************************)
(* What the services promise about the billing of a parking session: it    *)
(* begins with the check-out, the gateway bills once, and the check-out    *)
(* owes one more invoice to its event, which is made, or lost by a fault,  *)
(* or owed again by a fault.  Sessions whose check-outs overlap are exempt *)
(* from the counting, and those whose keys served for something else too   *)
(* from that of the gateway's invoices.                                    *)
(***************************************************************************)
EXTENDS Naturals

CONSTANTS Reservations, Keys

VARIABLES
  left,        \* the reservations that are checked out
  bills,       \* the invoices of the gateway, each with the key it was made for
  eventBills,  \* how many invoices were made for events of each reservation
  owed,        \* how many more its events are to make
  exempt,      \* the reservations whose check-outs overlapped
  shared,      \* the reservations whose keys served for something else too
  faults       \* how many faults have occurred

vars == <<left, bills, eventBills, owed, exempt, shared, faults>>

Init ==
  /\ left = {}
  /\ bills = {}
  /\ eventBills = [r \in Reservations |-> 0]
  /\ owed = [r \in Reservations |-> 0]
  /\ exempt = {}
  /\ shared = {}
  /\ faults = 0

\* A key is sent for something else, or two requests overlap, or both.
Use ==
  /\ shared \subseteq shared' /\ shared' \subseteq Reservations
  /\ exempt' = exempt \/ \E r \in Reservations \ left : exempt' = exempt \cup {r}
  /\ UNCHANGED <<left, bills, eventBills, owed, faults>>

Leave(r) ==
  /\ r \notin left
  /\ left' = left \cup {r}
  /\ owed' = IF r \in exempt THEN owed ELSE [owed EXCEPT ![r] = 1]
  /\ UNCHANGED <<bills, eventBills, exempt, shared, faults>>

Charge(r) ==
  /\ r \in left
  /\ r \in exempt \cup shared \/ \A k \in Keys : <<r, k>> \notin bills
  /\ \E k \in Keys : bills' = bills \cup {<<r, k>>}
  /\ UNCHANGED <<left, eventBills, owed, exempt, shared, faults>>

ChargeForEvent(r) ==
  /\ r \in left
  /\ \/ r \in exempt /\ UNCHANGED owed
     \/ owed[r] > 0 /\ owed' = [owed EXCEPT ![r] = @ - 1]
  /\ eventBills' = [eventBills EXCEPT ![r] = @ + 1]
  /\ UNCHANGED <<left, bills, exempt, shared, faults>>

\* An event is lost, or comes again; or nothing is seen of the fault here.
Loses(r)   == owed[r] > 0 /\ owed' = [owed EXCEPT ![r] = @ - 1]
Repeats(r) == r \in left /\ owed' = [owed EXCEPT ![r] = @ + 1]

Fault ==
  /\ faults' = faults + 1
  /\ UNCHANGED owed \/ \E r \in Reservations : Loses(r) \/ Repeats(r)
  /\ UNCHANGED <<left, bills, eventBills, exempt, shared>>

Next ==
  \/ \E r \in Reservations : Leave(r) \/ Charge(r) \/ ChargeForEvent(r)
  \/ Use
  \/ Fault

Spec == Init /\ [][Next]_vars
=============================================================================
