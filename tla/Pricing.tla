------------------------------- MODULE Pricing -------------------------------
(***************************************************************************)
(* What a parking session costs (pkg/pricing), and for which times it is   *)
(* billed: the gateway bills from the confirmation of the reservation to   *)
(* the check-out, the billing service's subscriber the hour before the     *)
(* event of the check-out was published.  Times are seconds since a        *)
(* midnight UTC.  CheckIn reads the clock twice, to test it and to keep    *)
(* it; here the two readings are one.                                      *)
(***************************************************************************)
EXTENDS Integers

Minute == 60
Hour   == 60 * Minute
Day    == 24 * Hour

CONSTANTS
  Confirmations, \* when the reservation may be confirmed
  Waits,         \* how long the driver may take to come
  Stays,         \* how long the car may stay
  Delays         \* how long after the check-out its event may be published

ASSUME TimesAssumption ==
  /\ Confirmations \subseteq Nat /\ \A t \in Confirmations : t >= Hour
  /\ Waits \subseteq Nat /\ Stays \subseteq Nat /\ Delays \subseteq Nat

VARIABLES
  status,       \* "confirmed", "active" or "completed"
  confirmedAt, checkInAt, checkOutAt,
  publishedAt,  \* the timestamp of the event
  invoices      \* those generated so far, with the times that were billed

vars == <<status, confirmedAt, checkInAt, checkOutAt, publishedAt, invoices>>

BookingFee   == 5000
HourlyRate   == 5000
OvernightFee == 20000

\* int64(d.Minutes()) of a duration that is not negative.
Minutes(from, to) == (to - from) \div Minute

\* Faulty variant: a full hour starts the next one.
BilledHoursEager(from, to) ==
  LET mins  == Minutes(from, to)
      hours == (mins + 60) \div 60
  IN  IF mins <= 0 THEN 0 ELSE IF hours > 720 THEN 720 ELSE hours

BilledHours(from, to) ==
  LET mins  == Minutes(from, to)
      hours == (mins + 59) \div 60
  IN  IF mins <= 0 THEN 0 ELSE IF hours > 720 THEN 720 ELSE hours

\* Faulty variant: the calendar day in UTC.
DateUTC(t) == t \div Day

\* The calendar day in WIB, which is UTC+7.
Date(t) == (t + 7 * Hour) \div Day

IsOvernight(from, to) == Date(to) > Date(from)

Calculate(from, to) ==
  LET parking   == BilledHours(from, to) * HourlyRate
      overnight == IF IsOvernight(from, to) THEN OvernightFee ELSE 0
  IN  [BookingFee |-> BookingFee, ParkingFee |-> parking, OvernightFee |-> overnight,
       TotalAmount |-> parking + overnight]

\* What GenerateInvoice makes of the times it is given.
Invoice(path, from, to) ==
  [path |-> path, from |-> from, to |-> to, amounts |-> Calculate(from, to)]

Init ==
  /\ status = "confirmed"
  /\ confirmedAt \in Confirmations
  /\ checkInAt = confirmedAt /\ checkOutAt = confirmedAt /\ publishedAt = confirmedAt
  /\ invoices = {}

\* Refused once the hour that the confirmation grants is over.
CheckIn(wait) ==
  /\ status = "confirmed" /\ wait <= Hour
  /\ status' = "active"
  /\ checkInAt' = confirmedAt + wait
  /\ UNCHANGED <<confirmedAt, checkOutAt, publishedAt, invoices>>

CheckOut(stay, delay) ==
  /\ status = "active"
  /\ status' = "completed"
  /\ checkOutAt' = checkInAt + stay
  /\ publishedAt' = checkOutAt' + delay
  /\ UNCHANGED <<confirmedAt, checkInAt, invoices>>

\* Faulty variant: a fixed hour, as the subscriber has it.
GatewayBillsOneHour ==
  /\ status = "completed"
  /\ invoices' = invoices \cup {Invoice("gateway", checkOutAt - Hour, checkOutAt)}
  /\ UNCHANGED <<status, confirmedAt, checkInAt, checkOutAt, publishedAt>>

\* The gateway fetches the reservation "to get check_in_at", and takes ConfirmedAt.
GatewayBills ==
  /\ status = "completed"
  /\ invoices' = invoices \cup {Invoice("gateway", confirmedAt, checkOutAt)}
  /\ UNCHANGED <<status, confirmedAt, checkInAt, checkOutAt, publishedAt>>

SubscriberBills ==
  /\ status = "completed"
  /\ invoices' = invoices \cup {Invoice("event", publishedAt - Hour, publishedAt)}
  /\ UNCHANGED <<status, confirmedAt, checkInAt, checkOutAt, publishedAt>>

Next ==
  \/ \E wait \in Waits : CheckIn(wait)
  \/ \E stay \in Stays, delay \in Delays : CheckOut(stay, delay)
  \/ GatewayBills
  \/ SubscriberBills

Spec == Init /\ [][Next]_vars

-----------------------------------------------------------------------------

Fees == [BookingFee : {BookingFee}, ParkingFee : Nat, OvernightFee : {0, OvernightFee},
         TotalAmount : Nat]

TypeOK ==
  /\ status \in {"confirmed", "active", "completed"}
  /\ confirmedAt \in Confirmations
  /\ checkInAt \in Nat /\ checkOutAt \in Nat /\ publishedAt \in Nat
  /\ invoices \subseteq
       [path : {"gateway", "event"}, from : Nat, to : Nat, amounts : Fees]

\* s seconds are billed as the hours started in them, but for two kinds of hours that
\* README.md:300-302 has billed and the code does not: a last hour that is not a
\* minute old (pricing.go:69 cuts the seconds off before hours are rounded up), and
\* hours beyond the 720th (pricing.go:74).
HoursDue(s) ==
  LET full    == s \div Hour
      started == IF s - full * Hour > 0 THEN full + 1 ELSE full
      due     == IF 0 < s - full * Hour /\ s - full * Hour < Minute
                   THEN started - 1 ELSE started
  IN  IF due > 720 THEN 720 ELSE due

\* On either path the parking fee is that of the hours due for the time billed.
HoursBilled ==
  \A i \in invoices : i.amounts.ParkingFee = HoursDue(i.to - i.from) * HourlyRate

\* A midnight in WIB is 17:00 UTC.
MidnightPassed(from, to) ==
  \E n \in 0..(to \div Day) : from < n * Day + 17 * Hour /\ n * Day + 17 * Hour <= to

\* On either path the overnight fee is due exactly when the time billed has seen a
\* midnight in WIB, and once only however many nights it lasts (README.md:301).
NightBilledOnce ==
  \A i \in invoices :
    i.amounts.OvernightFee = IF MidnightPassed(i.from, i.to) THEN OvernightFee ELSE 0

\* The gateway bills from the confirmation on, and not from the check-in: that is
\* never less than the price of the time parked, and never more than one hour and
\* one night above it, as the check-in is at most an hour after the confirmation.
ParkedTimeBilled ==
  LET parked == Calculate(checkInAt, checkOutAt).TotalAmount
  IN  \A i \in invoices : i.path = "gateway" =>
        /\ i.amounts.TotalAmount >= parked
        /\ i.amounts.TotalAmount <= parked + HourlyRate + OvernightFee
=============================================================================
