--------------------------- MODULE PaymentContract ---------------------------
(***************************************************************************)
(* What the payment service promises about its table: the row of an order  *)
(* tells the order's course at the provider, one entry after the other,    *)
(* and no invoice is paid before some money is known to have come in.      *)
(* Nothing is promised of the row of an order that has been irregular.     *)
(***************************************************************************)
EXTENDS Naturals, Sequences

CONSTANTS Orders, Invoices

VARIABLES
  course,   \* what has happened to each order at the provider, in order
  row,      \* what the service tells of it, "any" when there is no promise
  regular,  \* the orders the promise is about
  paid      \* the invoices that are paid

vars == <<course, row, regular, paid>>

\* What may follow in the course of an order, and what each part of it means.  A
\* partial refund means that the service no longer knows: it takes the transaction
\* to be pending again.
After   == [pending |-> {"settlement", "deny", "expire"},
            settlement |-> {"refund", "partial_refund"}, partial_refund |-> {"refund"},
            deny |-> {}, expire |-> {}, refund |-> {}]
Meaning == [pending |-> "pending", settlement |-> "settled", deny |-> "failed",
            expire |-> "expired", refund |-> "refunded", partial_refund |-> "pending"]

Init ==
  /\ course = [o \in Orders |-> <<>>]
  /\ row = [o \in Orders |-> "none"]
  /\ regular = Orders
  /\ paid = {}

Place(o) ==
  /\ course[o] = <<>>
  /\ course' = [course EXCEPT ![o] = <<"pending">>]
  /\ UNCHANGED <<row, regular, paid>>

Happen(o) ==
  /\ course[o] # <<>>
  /\ \E r \in After[course[o][Len(course[o])]] : course' = [course EXCEPT ![o] = Append(@, r)]
  /\ UNCHANGED <<row, regular, paid>>

\* The next entry of the course, and no other, is told.
Tell(o) ==
  /\ o \in regular
  /\ \E i \in 1..Len(course[o]) :
       /\ row[o] = IF i = 1 THEN "none" ELSE Meaning[course[o][i - 1]]
       /\ row' = [row EXCEPT ![o] = Meaning[course[o][i]]]
  /\ UNCHANGED <<course, regular, paid>>

Doubt(o) ==
  /\ regular' = regular \ {o}
  /\ row' = [row EXCEPT ![o] = "any"]
  /\ UNCHANGED <<course, paid>>

Money(o) == o \notin regular \/ \E i \in 1..Len(course[o]) : course[o][i] = "settlement"

Pay(i) ==
  /\ \E o \in Orders : Money(o)
  /\ paid' = paid \cup {i}
  /\ UNCHANGED <<course, row, regular>>

Next ==
  \/ \E o \in Orders : Place(o) \/ Happen(o) \/ Tell(o) \/ Doubt(o)
  \/ \E i \in Invoices : Pay(i)

Spec == Init /\ [][Next]_vars
=============================================================================
