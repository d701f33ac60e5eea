---------------------------- MODULE PricingProofs ----------------------------
(***************************************************************************)
(* The bounds on what is billed hold for sessions that start at any time   *)
(* and last for any time, not only those of the run.                       *)
(***************************************************************************)
EXTENDS Pricing, TLAPS

USE TimesAssumption DEF Minute, Hour, Day

\* The two divisions, in a form that linear arithmetic can use.
LEMMA WholeMinutes ==
  ASSUME NEW a \in Nat
  PROVE  a \div 60 \in Nat /\ 60 * (a \div 60) <= a /\ a < 60 * (a \div 60) + 60
  OBVIOUS

LEMMA WholeDays ==
  ASSUME NEW a \in Nat
  PROVE  /\ a \div 86400 \in Nat
         /\ 86400 * (a \div 86400) <= a /\ a < 86400 * (a \div 86400) + 86400
  OBVIOUS

\* h are the started hours among m minutes, up to the cap.
Started(h, m) ==
  /\ m \in Nat /\ h \in 0..720
  /\ h * 60 >= m \/ h = 720
  /\ h > 0 => (h - 1) * 60 < m

LEMMA HoursOf ==
  ASSUME NEW from \in Nat, NEW to \in Nat, from <= to
  PROVE  Started(BilledHours(from, to), Minutes(from, to))
<1> DEFINE m == Minutes(from, to)  q == (m + 59) \div 60
<1>1. m \in Nat
  BY WholeMinutes DEF Minutes
<1>2. q \in Nat /\ 60 * q <= m + 59 /\ m + 59 < 60 * q + 60
  BY <1>1, WholeMinutes
<1>3. BilledHours(from, to) = IF m <= 0 THEN 0 ELSE IF q > 720 THEN 720 ELSE q
  BY DEF BilledHours
<1> HIDE DEF m, q
<1>4. Started(BilledHours(from, to), m)
  BY <1>1, <1>2, <1>3 DEF Started
<1> QED
  BY <1>4, Zenon DEF m

LEMMA HoursType ==
  ASSUME NEW from \in Nat, NEW to \in Nat, from <= to
  PROVE  BilledHours(from, to) \in Nat
<1> DEFINE h == BilledHours(from, to)
<1>1. Started(h, Minutes(from, to))
  BY HoursOf, Zenon
<1> HIDE DEF h
<1>2. h \in Nat
  BY <1>1 DEF Started
<1> QED
  BY <1>2, Zenon DEF h

\* Who is billed from an earlier time, of at most an hour before, is billed the same
\* hours or one more.
LEMMA HoursOfEarlier ==
  ASSUME NEW t1 \in Nat, NEW t2 \in Nat, NEW to \in Nat,
         t1 <= t2, t2 <= to, t2 <= t1 + Hour
  PROVE  /\ BilledHours(t2, to) <= BilledHours(t1, to)
         /\ BilledHours(t1, to) <= BilledHours(t2, to) + 1
<1>1. Minutes(t2, to) <= Minutes(t1, to) /\ Minutes(t1, to) <= Minutes(t2, to) + 60
  <2>1. to - t1 \in Nat /\ to - t2 \in Nat /\ to - t2 <= to - t1 /\ to - t1 <= to - t2 + 3600
    OBVIOUS
  <2> QED
    BY <2>1, WholeMinutes DEF Minutes
<1> DEFINE h1 == BilledHours(t1, to)  h2 == BilledHours(t2, to)
           m1 == Minutes(t1, to)      m2 == Minutes(t2, to)
<1>2. Started(h1, m1)
  <2>1. t1 <= to
    OBVIOUS
  <2> QED
    BY <2>1, HoursOf, Zenon
<1>3. Started(h2, m2)
  BY HoursOf, Zenon
<1>4. m2 <= m1 /\ m1 <= m2 + 60
  BY <1>1, Zenon
<1> HIDE DEF h1, h2, m1, m2
<1>5. h2 <= h1 /\ h1 <= h2 + 1
  BY <1>2, <1>3, <1>4 DEF Started
<1> QED
  BY <1>5, Zenon DEF h1, h2

LEMMA DateMonotone ==
  ASSUME NEW t1 \in Nat, NEW t2 \in Nat, t1 <= t2
  PROVE  Date(t1) \in Nat /\ Date(t2) \in Nat /\ Date(t1) <= Date(t2)
  BY WholeDays DEF Date

LEMMA TotalOfEarlier ==
  ASSUME NEW t1 \in Nat, NEW t2 \in Nat, NEW to \in Nat,
         t1 <= t2, t2 <= to, t2 <= t1 + Hour
  PROVE  /\ Calculate(t1, to).TotalAmount >= Calculate(t2, to).TotalAmount
         /\ Calculate(t1, to).TotalAmount
              <= Calculate(t2, to).TotalAmount + HourlyRate + OvernightFee
<1>1. /\ BilledHours(t2, to) <= BilledHours(t1, to)
      /\ BilledHours(t1, to) <= BilledHours(t2, to) + 1
  BY HoursOfEarlier
<1>2. BilledHours(t1, to) \in Nat /\ BilledHours(t2, to) \in Nat
  <2>1. t1 <= to
    OBVIOUS
  <2> QED
    BY <2>1, HoursType
<1>3. IsOvernight(t2, to) => IsOvernight(t1, to)
  <2>1. /\ Date(t1) \in Nat /\ Date(t2) \in Nat /\ Date(t1) <= Date(t2)
        /\ Date(to) \in Nat
    BY DateMonotone
  <2> QED
    BY <2>1 DEF IsOvernight
<1> QED
  BY <1>1, <1>2, <1>3 DEF Calculate, HourlyRate, OvernightFee

LEMMA AmountsType ==
  ASSUME NEW from \in Nat, NEW to \in Nat, from <= to
  PROVE  Calculate(from, to) \in Fees
<1>1. BilledHours(from, to) \in Nat
  BY HoursType
<1> QED
  BY <1>1 DEF Calculate, HourlyRate, OvernightFee, Fees

-----------------------------------------------------------------------------

\* The times of a session follow each other, the check-in within its hour.
Times ==
  /\ confirmedAt \in Nat /\ checkInAt \in Nat /\ checkOutAt \in Nat /\ publishedAt \in Nat
  /\ Hour <= confirmedAt
  /\ confirmedAt <= checkInAt /\ checkInAt <= confirmedAt + Hour
  /\ status = "completed" =>
       /\ checkInAt <= checkOutAt
       /\ checkOutAt <= publishedAt

\* No invoice before the check-out, and each for the times of its path.
Billed ==
  \A i \in invoices :
    /\ status = "completed"
    /\ i = Invoice("gateway", confirmedAt, checkOutAt)
         \/ i = Invoice("event", publishedAt - Hour, publishedAt)

Inv == TypeOK /\ Times /\ Billed

LEMMA InitInv == Init => Inv
  BY DEF Init, Inv, TypeOK, Times, Billed

LEMMA NextInv == Inv /\ [Next]_vars => Inv'
<1> SUFFICES ASSUME Inv, [Next]_vars PROVE Inv'
  OBVIOUS
<1> USE DEF Inv
<1>1. ASSUME NEW wait \in Waits, CheckIn(wait) PROVE Inv'
  <2>1. wait \in Nat /\ wait <= 3600 /\ invoices = {}
    BY <1>1 DEF CheckIn, Billed
  <2>2. Times'
    BY <1>1, <2>1 DEF CheckIn, Times
  <2>3. Billed' /\ TypeOK'
    BY <1>1, <2>1, <2>2 DEF CheckIn, Billed, TypeOK, Times
  <2> QED
    BY <2>2, <2>3
<1>2. ASSUME NEW stay \in Stays, NEW delay \in Delays, CheckOut(stay, delay) PROVE Inv'
  <2>1. stay \in Nat /\ delay \in Nat /\ invoices = {}
    BY <1>2 DEF CheckOut, Billed
  <2>2. Times'
    BY <1>2, <2>1 DEF CheckOut, Times
  <2>3. Billed' /\ TypeOK'
    BY <1>2, <2>1, <2>2 DEF CheckOut, Billed, TypeOK, Times
  <2> QED
    BY <2>2, <2>3
<1>3. ASSUME NEW path \in {"gateway", "event"}, NEW from \in Nat, NEW to \in Nat, from <= to,
             status = "completed", invoices' = invoices \cup {Invoice(path, from, to)},
             UNCHANGED <<status, confirmedAt, checkInAt, checkOutAt, publishedAt>>
      PROVE  TypeOK' /\ Times'
  <2>1. Calculate(from, to) \in Fees
    BY <1>3, AmountsType
  <2> HIDE DEF Inv
  <2>2. Invoice(path, from, to) \in
          [path : {"gateway", "event"}, from : Nat, to : Nat, amounts : Fees]
    BY <2>1 DEF Invoice
  <2>3. TypeOK /\ Times
    BY Inv DEF Inv
  <2> QED
    BY <1>3, <2>2, <2>3 DEF TypeOK, Times
<1>4. CASE GatewayBills
  <2>1. confirmedAt \in Nat /\ checkOutAt \in Nat /\ confirmedAt <= checkOutAt
    BY <1>4 DEF GatewayBills, Times
  <2>2. TypeOK' /\ Times'
    BY <1>3, <1>4, <2>1 DEF GatewayBills
  <2>3. Billed'
    BY <1>4 DEF GatewayBills, Billed, Invoice, Calculate, BilledHours, IsOvernight, Minutes
  <2> QED
    BY <2>2, <2>3
<1>5. CASE SubscriberBills
  <2>1. publishedAt - Hour \in Nat /\ publishedAt \in Nat /\ publishedAt - Hour <= publishedAt
    BY <1>5 DEF SubscriberBills, Times
  <2>2. TypeOK' /\ Times'
    BY <1>3, <1>5, <2>1 DEF SubscriberBills
  <2>3. Billed'
    BY <1>5 DEF SubscriberBills, Billed, Invoice, Calculate, BilledHours, IsOvernight, Minutes
  <2> QED
    BY <2>2, <2>3
<1>6. CASE UNCHANGED vars
  BY <1>6 DEF vars, TypeOK, Times, Billed
<1> QED
  BY <1>1, <1>2, <1>4, <1>5, <1>6 DEF Next

\* What an invoice tells of its times: they are in order, and its amounts are theirs.
LEMMA InvoiceOf ==
  ASSUME Inv, NEW i \in invoices
  PROVE  /\ i.from \in Nat /\ i.to \in Nat /\ i.from <= i.to
         /\ i.amounts = Calculate(i.from, i.to)
         /\ i.path = "gateway" => i.from = confirmedAt /\ i.to = checkOutAt
<1>1. CASE i = Invoice("gateway", confirmedAt, checkOutAt)
  BY <1>1 DEF Inv, Billed, Invoice, Times
<1>2. CASE i = Invoice("event", publishedAt - Hour, publishedAt)
  BY <1>2 DEF Inv, Billed, Invoice, Times
<1> QED
  BY <1>1, <1>2 DEF Inv, Billed

\* The times, the status and the invoices keep their types, the amounts included.
THEOREM TypeCorrect == Spec => []TypeOK
<1>1. Inv => TypeOK
  BY DEF Inv
<1> QED
  BY <1>1, InitInv, NextInv, PTL DEF Spec

\* Rounding whole minutes up and rounding seconds up differ by the hour that has
\* been started for less than a minute, and by nothing else.
LEMMA HoursAreDue ==
  ASSUME NEW from \in Nat, NEW to \in Nat, from <= to
  PROVE  BilledHours(from, to) = HoursDue(to - from)
<1>1. PICK s \in Nat : s = to - from
  OBVIOUS
<1>2. PICK q \in Nat : q = s \div 3600 /\ 3600 * q <= s /\ s < 3600 * q + 3600
  OBVIOUS
<1>3. PICK m \in Nat : m = s \div 60 /\ 60 * m <= s /\ s < 60 * m + 60
  BY WholeMinutes
<1>4. PICK h \in Nat : h = (m + 59) \div 60 /\ 60 * h <= m + 59 /\ m + 59 < 60 * h + 60
  BY WholeMinutes
<1>5. h = IF s - 3600 * q < 60 THEN q ELSE q + 1
  BY <1>2, <1>3, <1>4
<1>7. BilledHours(from, to) = IF m <= 0 THEN 0 ELSE IF h > 720 THEN 720 ELSE h
  BY <1>1, <1>3, <1>4 DEF BilledHours, Minutes
<1>8. m <= 0 => h = 0
  BY <1>4
<1>9. HoursDue(s) = IF h > 720 THEN 720 ELSE h
  BY <1>2, <1>5 DEF HoursDue
<1> QED
  BY <1>1, <1>7, <1>8, <1>9

\* BilledHours charges the hours that were started, but for one of less than a minute
\* and those above the cap, on both paths.
THEOREM HoursAsDue == Spec => []HoursBilled
<1>1. Inv => HoursBilled
  <2> SUFFICES ASSUME Inv, NEW i \in invoices
               PROVE  i.amounts.ParkingFee = HoursDue(i.to - i.from) * HourlyRate
    BY DEF HoursBilled
  <2>1. i.from \in Nat /\ i.to \in Nat /\ i.from <= i.to /\ i.amounts = Calculate(i.from, i.to)
    BY InvoiceOf
  <2>2. BilledHours(i.from, i.to) = HoursDue(i.to - i.from)
    BY <2>1, HoursAreDue
  <2>3. i.amounts.ParkingFee = BilledHours(i.from, i.to) * HourlyRate
    BY <2>1 DEF Calculate
  <2> QED
    BY <2>2, <2>3
<1> QED
  BY <1>1, InitInv, NextInv, PTL DEF Spec

\* Two dates differ when there is a midnight between them.
LEMMA DatesAndMidnights ==
  ASSUME NEW a \in Nat, NEW b \in Nat, a <= b
  PROVE  MidnightPassed(a, b) <=> Date(b) > Date(a)
<1>1. /\ Date(a) \in Nat /\ 86400 * Date(a) <= a + 25200 /\ a + 25200 < 86400 * Date(a) + 86400
      /\ Date(b) \in Nat /\ 86400 * Date(b) <= b + 25200 /\ b + 25200 < 86400 * Date(b) + 86400
  BY WholeDays DEF Date
<1>2. b \div 86400 \in Nat /\ b < 86400 * (b \div 86400) + 86400
  BY WholeDays
<1>3. ASSUME Date(b) > Date(a)
      PROVE  MidnightPassed(a, b)
  <2>1. Date(b) - 1 \in Nat /\ Date(b) - 1 <= b \div 86400
    BY <1>1, <1>2, <1>3
  <2>2. a < (Date(b) - 1) * 86400 + 61200 /\ (Date(b) - 1) * 86400 + 61200 <= b
    BY <1>1, <1>3
  <2> QED
    BY <2>1, <2>2, <1>2 DEF MidnightPassed
<1>4. ASSUME NEW n \in 0..(b \div 86400), a < n * 86400 + 61200, n * 86400 + 61200 <= b
      PROVE  Date(b) > Date(a)
  BY <1>1, <1>2, <1>4
<1> QED
  BY <1>3, <1>4 DEF MidnightPassed

\* IsOvernight tells whether the time billed has seen a midnight in WIB.
THEOREM OneNight == Spec => []NightBilledOnce
<1>1. Inv => NightBilledOnce
  <2> SUFFICES ASSUME Inv, NEW i \in invoices
               PROVE  i.amounts.OvernightFee =
                        IF MidnightPassed(i.from, i.to) THEN OvernightFee ELSE 0
    BY DEF NightBilledOnce
  <2>0. i.from \in Nat /\ i.to \in Nat /\ i.from <= i.to /\ i.amounts = Calculate(i.from, i.to)
    BY InvoiceOf
  <2>1. MidnightPassed(i.from, i.to) <=> Date(i.to) > Date(i.from)
    BY <2>0, DatesAndMidnights
  <2>2. i.amounts.OvernightFee = IF Date(i.to) > Date(i.from) THEN OvernightFee ELSE 0
    BY <2>0 DEF Calculate, IsOvernight
  <2> QED
    BY <2>1, <2>2
<1> QED
  BY <1>1, InitInv, NextInv, PTL DEF Spec

\* The gateway's invoice covers the time parked, and exceeds its price by an hour and
\* a night at most, though it is counted from the confirmation.
THEOREM TimeParkedCovered == Spec => []ParkedTimeBilled
<1>1. Inv => ParkedTimeBilled
  <2> SUFFICES ASSUME Inv, NEW i \in invoices, i.path = "gateway"
               PROVE  LET parked == Calculate(checkInAt, checkOutAt).TotalAmount
                      IN  /\ i.amounts.TotalAmount >= parked
                          /\ i.amounts.TotalAmount <= parked + HourlyRate + OvernightFee
    BY DEF ParkedTimeBilled
  <2>1. i.amounts = Calculate(confirmedAt, checkOutAt)
    BY InvoiceOf
  <2>2. /\ confirmedAt \in Nat /\ checkInAt \in Nat /\ checkOutAt \in Nat
        /\ confirmedAt <= checkInAt /\ checkInAt <= confirmedAt + Hour /\ checkInAt <= checkOutAt
    BY DEF Inv, Times, Billed
  <2> QED
    BY <2>1, <2>2, TotalOfEarlier
<1> QED
  BY <1>1, InitInv, NextInv, PTL DEF Spec
=============================================================================
