-------------------------- MODULE RateLimiterProofs --------------------------
(***************************************************************************)
(* The limiter keeps its promises for any number of keys, any limit and    *)
(* any window.                                                             *)
(***************************************************************************)
EXTENDS RateLimiter, FiniteSetTheorems, TLAPS

\* What the list of a key tells about its history.
Faithful(c) ==
  /\ IsFiniteSet(admitted[c])
  /\ \A e \in admitted[c] : e.no \in 1..Cardinality(admitted[c])
  /\ requests[c] \subseteq admitted[c]
  /\ After(admitted[c]) \subseteq requests[c]
  /\ Cardinality(requests[c]) <= Limit

Inv == TypeOK /\ (\A c \in Keys : Faithful(c)) /\ WithinLimit

USE LimiterAssumption DEF Entries

\* The window that ends now is what the code calls valid.
LEMMA RecentIsValid ==
  ASSUME TypeOK, NEW c \in Keys, Faithful(c)
  PROVE  /\ Passed(c, now) = After(requests[c])
         /\ IsFiniteSet(After(requests[c]))
         /\ Cardinality(After(requests[c])) \in Nat
         /\ Cardinality(After(requests[c])) <= Limit
<1>1. Passed(c, now) = After(requests[c])
  BY DEF TypeOK, Faithful, Passed, After
<1>2. IsFiniteSet(requests[c]) /\ Cardinality(requests[c]) \in Nat
  BY FS_Subset, FS_CardinalityType DEF Faithful
<1>3. After(requests[c]) \in SUBSET requests[c]
  BY DEF After
<1>4. /\ IsFiniteSet(After(requests[c])) /\ Cardinality(After(requests[c])) \in Nat
      /\ Cardinality(After(requests[c])) <= Cardinality(requests[c])
  BY <1>2, <1>3, FS_Subset, FS_CardinalityType
<1> QED
  BY <1>1, <1>2, <1>4 DEF Faithful

LEMMA InitInv == Init => Inv
<1> SUFFICES ASSUME Init PROVE Inv
  OBVIOUS
<1>1. TypeOK
  BY DEF Init, TypeOK
<1>2. \A c \in Keys : Faithful(c)
  BY FS_EmptySet DEF Init, Faithful, After
<1>3. WithinLimit
  <2>1. \A c \in Keys, t \in 0..now : Passed(c, t) = {}
    BY DEF Init, Passed
  <2> QED
    BY <2>1, FS_EmptySet DEF WithinLimit
<1> QED
  BY <1>1, <1>2, <1>3 DEF Inv

\* The entry of an admitted request is not in the history yet.
LEMMA AdmitInv ==
  ASSUME Inv, NEW c \in Keys, Admit(c)
  PROVE  Inv'
<1> DEFINE e == NewEntry(c)
<1>1. /\ ~Full(c) /\ now' = now
      /\ requests' = [requests EXCEPT ![c] = After(requests[c]) \cup {e}]
      /\ admitted' = [admitted EXCEPT ![c] = admitted[c] \cup {e}]
  BY DEF Admit, Inv, TypeOK
<1>2. /\ TypeOK /\ Faithful(c) /\ now \in Nat
      /\ requests \in [Keys -> SUBSET Entries] /\ admitted \in [Keys -> SUBSET Entries]
  BY DEF Inv, TypeOK
<1>3. /\ Cardinality(admitted[c]) \in Nat /\ IsFiniteSet(admitted[c])
      /\ e \in Entries /\ e.at = now /\ e.no = Cardinality(admitted[c]) + 1
      /\ e \notin admitted[c]
  <2>1. Cardinality(admitted[c]) \in Nat /\ IsFiniteSet(admitted[c])
    BY <1>2, FS_CardinalityType DEF Faithful
  <2> QED
    BY <1>2, <2>1 DEF NewEntry, Faithful
<1>4. /\ IsFiniteSet(admitted[c] \cup {e})
      /\ Cardinality(admitted[c] \cup {e}) = Cardinality(admitted[c]) + 1
  BY <1>3, FS_AddElement
<1>5. /\ Cardinality(After(requests[c]) \cup {e}) <= Limit
      /\ Cardinality(After(requests[c]) \cup {e}) \in Nat
  <2>1. After(requests[c]) \subseteq admitted[c]
    BY <1>2 DEF Faithful, After
  <2>2. /\ IsFiniteSet(After(requests[c]))
        /\ Cardinality(After(requests[c]) \cup {e}) = Cardinality(After(requests[c])) + 1
    BY <1>2, <1>3, <2>1, RecentIsValid, FS_AddElement
  <2>3. Cardinality(After(requests[c])) < Limit
    BY <1>1, <1>2, RecentIsValid DEF Full
  <2> QED
    BY <1>2, <2>2, <2>3, RecentIsValid
<1>6. TypeOK'
  BY <1>1, <1>2, <1>3 DEF TypeOK, After
<1>7. \A d \in Keys \ {c} : requests'[d] = requests[d] /\ admitted'[d] = admitted[d]
  BY <1>1, <1>2
<1>8. requests'[c] = After(requests[c]) \cup {e} /\ admitted'[c] = admitted[c] \cup {e}
  BY <1>1, <1>2
<1>9. Faithful(c)'
  <2>1. \A x \in admitted'[c] : x.no \in 1..Cardinality(admitted'[c])
    BY <1>2, <1>3, <1>4, <1>8 DEF Faithful
  <2>2. requests'[c] \subseteq admitted'[c]
    BY <1>2, <1>8 DEF Faithful, After
  <2>3. After(admitted[c])' \subseteq requests'[c]
    BY <1>1, <1>2, <1>8 DEF Faithful, After
  <2> QED
    BY <1>4, <1>5, <1>8, <2>1, <2>2, <2>3 DEF Faithful
<1>10. \A d \in Keys \ {c} : Faithful(d)'
  BY <1>1, <1>7 DEF Inv, Faithful, After
<1>11. WithinLimit'
  <2> SUFFICES ASSUME NEW d \in Keys, NEW t \in 0..now'
               PROVE  Cardinality(Passed(d, t)') <= Limit
    BY DEF WithinLimit
  <2>1. CASE d # c
    BY <1>1, <1>7, <2>1 DEF Inv, WithinLimit, Passed
  <2>2. CASE d = c /\ t < now
    <3>1. Passed(d, t)' = Passed(d, t)
      BY <1>2, <1>3, <1>8, <2>2 DEF Passed
    <3> QED
      BY <1>1, <3>1 DEF Inv, WithinLimit
  <2>3. CASE d = c /\ t = now
    <3>1. Passed(d, t)' \in SUBSET (After(requests[c]) \cup {e})
      BY <1>2, <1>8, <2>3, RecentIsValid DEF Passed
    <3>2. IsFiniteSet(After(requests[c]) \cup {e})
      BY <1>2, RecentIsValid, FS_AddElement
    <3> QED
      BY <1>5, <3>1, <3>2, FS_Subset, FS_CardinalityType
  <2> QED
    BY <1>1, <1>2, <2>1, <2>2, <2>3
<1> QED
  BY <1>6, <1>9, <1>10, <1>11 DEF Inv

\* Nothing recent is lost when stale entries are dropped, from any lists.
LEMMA DropInv ==
  ASSUME Inv, UNCHANGED <<now, admitted>>,
         requests' \in [Keys -> SUBSET Entries],
         \A c \in Keys : requests'[c] \in {requests[c], After(requests[c])}
  PROVE  Inv'
<1>1. TypeOK'
  BY DEF Inv, TypeOK
<1>2. ASSUME NEW c \in Keys PROVE Faithful(c)'
  <2>1. /\ requests'[c] \in SUBSET requests[c] /\ After(admitted[c]) \subseteq requests'[c]
    BY DEF Inv, Faithful, After
  <2>2. IsFiniteSet(requests[c]) /\ Cardinality(requests[c]) \in Nat
    BY FS_Subset, FS_CardinalityType DEF Inv, Faithful
  <2>3. Cardinality(requests'[c]) \in Nat /\ Cardinality(requests'[c]) <= Cardinality(requests[c])
    BY <2>1, <2>2, FS_Subset, FS_CardinalityType
  <2> QED
    BY <2>1, <2>2, <2>3 DEF Inv, Faithful, After
<1>3. WithinLimit'
  BY DEF Inv, WithinLimit, Passed
<1> QED
  BY <1>1, <1>2, <1>3 DEF Inv

\* The window that ends a moment later holds nothing new.
LEMMA TickInv ==
  ASSUME Inv, Tick
  PROVE  Inv'
<1>1. UNCHANGED <<requests, admitted>> /\ now' = now + 1 /\ now \in Nat
  BY DEF Tick, Inv, TypeOK
<1>2. TypeOK'
  <2>1. \A c \in Keys : \A e \in requests[c] \cup admitted[c] : e \in [no : Nat, at : 0..now + 1]
    BY <1>1 DEF Inv, TypeOK
  <2> QED
    BY <1>1, <2>1 DEF Inv, TypeOK, Tick
<1>3. \A c \in Keys : Faithful(c)'
  BY <1>1 DEF Inv, TypeOK, Faithful, After
<1>4. ASSUME NEW c \in Keys, NEW t \in 0..now'
      PROVE  Cardinality(Passed(c, t)') <= Limit
  <2>1. Passed(c, t)' = Passed(c, t)
    BY <1>1 DEF Passed
  <2>2. CASE t \in 0..now
    BY <2>1, <2>2 DEF Inv, WithinLimit
  <2>3. CASE t = now + 1
    <3>1. Passed(c, t) \in SUBSET After(requests[c])
      BY <1>1, <2>3, RecentIsValid DEF Inv, TypeOK, Passed
    <3> QED
      BY <2>1, <3>1, RecentIsValid, FS_Subset, FS_CardinalityType DEF Inv
  <2> QED
    BY <1>1, <2>2, <2>3
<1> QED
  BY <1>2, <1>3, <1>4 DEF Inv, WithinLimit

LEMMA NextInv == Inv /\ [Next]_vars => Inv'
<1> SUFFICES ASSUME Inv, [Next]_vars PROVE Inv'
  OBVIOUS
<1>1. ASSUME NEW c \in Keys, Refuse(c) PROVE Inv'
  <2>1. requests' = [requests EXCEPT ![c] = After(requests[c])] /\ UNCHANGED <<now, admitted>>
    BY <1>1 DEF Refuse, Inv, TypeOK
  <2>2. /\ requests' \in [Keys -> SUBSET Entries]
        /\ \A d \in Keys : requests'[d] \in {requests[d], After(requests[d])}
    BY <2>1 DEF Inv, TypeOK, After
  <2> QED
    BY <2>1, <2>2, DropInv
<1>2. CASE Cleanup
  BY <1>2, DropInv DEF Cleanup, Inv, TypeOK, After
<1>3. CASE UNCHANGED vars
  BY <1>3 DEF vars, Inv, TypeOK, Faithful, After, WithinLimit, Passed
<1> QED
  BY <1>1, <1>2, <1>3, AdmitInv, TickInv DEF Next

\* The clock, the map and the history keep their types: no entry is from the future.
THEOREM TypeCorrect == Spec => []TypeOK
<1>1. Inv => TypeOK
  BY DEF Inv
<1> QED
  BY <1>1, InitInv, NextInv, PTL DEF Spec

\* Allow never lets more than Limit requests through under one key in a window.
THEOREM LimitHolds == Spec => []WithinLimit
<1>1. Inv => WithinLimit
  BY DEF Inv
<1> QED
  BY <1>1, InitInv, NextInv, PTL DEF Spec

\* Allow never answers false while fewer than Limit requests count.
THEOREM RefusalsJustified == Spec => []RefusedOnlyAtLimit
<1>1. Inv => RefusedOnlyAtLimit
  BY RecentIsValid DEF Inv, RefusedOnlyAtLimit, Full
<1> QED
  BY <1>1, InitInv, NextInv, PTL DEF Spec
=============================================================================
