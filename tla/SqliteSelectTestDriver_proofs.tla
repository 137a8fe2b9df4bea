---------------------- MODULE SqliteSelectTestDriver_proofs --------------------
(***************************************************************************)
(* No handle is ever leaked, and a family made in the right order shares   *)
(* one, for any number of drivers and of handles.                          *)
(***************************************************************************)
EXTENDS SqliteSelectTestDriver, FiniteSetTheorems, TLAPS

\* A driver has a handle that was opened, and only drivers that exist have one.
HandleInv ==
  /\ made \subseteq Drivers
  /\ opened \in Nat
  /\ connection \in [Drivers -> (1..opened) \cup {NoHandle}]
  /\ closed \subseteq 1..opened
  /\ \A d \in Drivers \ made : connection[d] = NoHandle

LEMMA HandleStep == HandleInv /\ [Next]_vars => HandleInv'
<1> SUFFICES ASSUME HandleInv, [Next]_vars PROVE HandleInv'
  OBVIOUS
<1> USE ConstantsAssumption DEF HandleInv, Attach
<1>1. ASSUME NEW d \in Drivers, QueryOpens(d) PROVE HandleInv'
  <2>1. opened' \in Nat /\ 1..opened \subseteq 1..opened' /\ opened' \in 1..opened'
    BY <1>1 DEF QueryOpens
  <2>2. opened' = opened + 1 /\ connection' = [connection EXCEPT ![d] = opened']
    BY <1>1 DEF QueryOpens
  <2>3. connection' \in [Drivers -> (1..opened') \cup {NoHandle}]
    BY <2>1, <2>2
  <2> QED BY <1>1, <2>1, <2>2, <2>3 DEF QueryOpens
<1>2. ASSUME NEW d \in Drivers, NEW e \in Drivers, withFixtures(d, e) PROVE HandleInv'
  BY <1>2 DEF withFixtures
<1>3. ASSUME NEW d \in Drivers, close(d) PROVE HandleInv'
  BY <1>3 DEF close
<1>4. CASE UNCHANGED vars
  BY <1>4 DEF vars
<1> QED
  BY <1>1, <1>2, <1>3, <1>4 DEF Next, Query, QueryThrows, closeThrows

\* The books of the drivers, for every number of them and of handles.
THEOREM HandlesCorrect == Spec => []HandleInv
<1>1. Init => HandleInv
  BY ConstantsAssumption DEF Init, HandleInv
<1> QED
  BY <1>1, HandleStep, PTL DEF Spec

\* Every open handle is the connection of some driver: query keeps the handle it
\* opens, withFixtures replaces none, and close forgets the one it has closed.
THEOREM NoHandleIsLeaked == Spec => []EveryHandleIsHeld
<1>1. Init => EveryHandleIsHeld
  BY DEF Init, EveryHandleIsHeld, Open
<1>2. HandleInv /\ EveryHandleIsHeld /\ [Next]_vars => EveryHandleIsHeld'
  <2> SUFFICES ASSUME HandleInv, EveryHandleIsHeld, [Next]_vars PROVE EveryHandleIsHeld'
    OBVIOUS
  <2> USE ConstantsAssumption DEF HandleInv, EveryHandleIsHeld, Open, Attach
  <2>1. ASSUME NEW d \in Drivers, QueryOpens(d) PROVE EveryHandleIsHeld'
    <3> SUFFICES ASSUME NEW h \in Open' PROVE \E e \in made' : connection'[e] = h
      OBVIOUS
    <3>1. CASE h = opened + 1
      BY <2>1, <3>1 DEF QueryOpens
    <3>2. CASE h # opened + 1
      <4>1. h \in Open
        BY <2>1, <3>2 DEF QueryOpens
      <4>2. PICK e \in made : connection[e] = h
        BY <4>1
      <4>3. e # d
        BY <2>1, <4>1, <4>2 DEF QueryOpens
      <4> QED BY <2>1, <4>2, <4>3 DEF QueryOpens
    <3> QED BY <3>1, <3>2
  <2>2. ASSUME NEW d \in Drivers, NEW e \in Drivers, withFixtures(d, e) PROVE EveryHandleIsHeld'
    BY <2>2 DEF withFixtures
  <2>3. ASSUME NEW d \in Drivers, close(d) PROVE EveryHandleIsHeld'
    <3> SUFFICES ASSUME NEW h \in Open' PROVE \E e \in made' : connection'[e] = h
      OBVIOUS
    <3>1. h \in Open /\ h # connection[d]
      BY <2>3 DEF close
    <3>2. PICK e \in made : connection[e] = h
      BY <3>1
    <3> QED BY <2>3, <3>1, <3>2 DEF close
  <2>4. CASE UNCHANGED vars
    BY <2>4 DEF vars
  <2> QED
    BY <2>1, <2>2, <2>3, <2>4 DEF Next, Query, QueryThrows, closeThrows
<1> QED
  BY <1>1, <1>2, HandlesCorrect, PTL DEF Spec

--------------------------------------------------------------------------------
(* One handle for a family                                                 *)

\* Before any close, a family derived after the first query is either still the
\* driver it began with, without a handle, or every driver of it has one.
FamilyInv ==
  ~derivedEarly =>
    /\ ~queriedLate => opened <= 1
    /\ closed = {} => \/ opened = 0 /\ made = {Root}
                      \/ \A d \in made : connection[d] # NoHandle

LEMMA FamilyStep == HandleInv /\ FamilyInv /\ [Next]_vars => FamilyInv'
<1> SUFFICES ASSUME HandleInv, FamilyInv, [Next]_vars PROVE FamilyInv'
  OBVIOUS
<1> USE ConstantsAssumption DEF HandleInv, FamilyInv, Attach
<1>1. ASSUME NEW d \in Drivers, QueryOpens(d) PROVE FamilyInv'
  <2> SUFFICES ASSUME ~derivedEarly, closed = {} PROVE FamilyInv'
    BY <1>1 DEF QueryOpens
  <2>1. opened = 0 /\ made = {d} /\ opened' = 1
    BY <1>1 DEF QueryOpens
  <2>2. connection'[d] = 1
    BY <1>1, <2>1 DEF QueryOpens
  <2> QED BY <1>1, <2>1, <2>2 DEF QueryOpens
<1>2. ASSUME NEW d \in Drivers, NEW e \in Drivers, withFixtures(d, e) PROVE FamilyInv'
  BY <1>2 DEF withFixtures
<1>3. ASSUME NEW d \in Drivers, close(d) PROVE FamilyInv'
  BY <1>3 DEF close
<1>4. CASE UNCHANGED vars
  BY <1>4 DEF vars
<1> QED
  BY <1>1, <1>2, <1>3, <1>4 DEF Next, Query, QueryThrows, closeThrows

\* A family derived after the first query, with no new handle after a close,
\* has one open handle at most.
THEOREM FamilyHasOneHandle == Spec => []ScopedDriversReuseTheHandle
<1>1. Init => FamilyInv
  BY ConstantsAssumption DEF Init, FamilyInv
<1>2. HandleInv /\ FamilyInv => ScopedDriversReuseTheHandle
  <2> SUFFICES ASSUME HandleInv, FamilyInv, ~derivedEarly, ~queriedLate
               PROVE  Cardinality(Open) <= 1
    BY DEF ScopedDriversReuseTheHandle
  <2>1. opened \in Nat /\ opened <= 1
    BY DEF HandleInv, FamilyInv
  <2>2. Open \subseteq {1}
    BY <2>1 DEF Open
  <2>3. IsFiniteSet({1}) /\ Cardinality({1}) = 1
    BY FS_Singleton
  <2> QED BY <2>2, <2>3, FS_Subset
<1> QED
  BY <1>1, <1>2, FamilyStep, HandlesCorrect, PTL DEF Spec

================================================================================
