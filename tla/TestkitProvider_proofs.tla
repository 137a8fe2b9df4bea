------------------------ MODULE TestkitProvider_proofs -------------------------
(* Proofs about TestkitProvider, for every set of calls and closers, every
   nesting of callbacks, every reset option and every set of failing hooks.   *)
EXTENDS TestkitProvider, FiniteSetTheorems, WellFoundedInduction, TLAPS

USE ConstantsAssumption

--------------------------------------------------------------------------------
(* The values of the variables *)

PcNames == {"idle", "queued", "disposing", "draining", "awaiting", "settled"} \cup Scenario
PcValues == [Procs -> PcNames]
Outcomes == {"none", "resolved", "rejected"}
ResultValues == [Procs -> Outcomes]
LinkValues == [Calls -> {"none", "connecting", "open", "failed", "disposed"}]

\* A hook resolves or rejects.
LEMMA AnswerType == \A hook : Answers(hook) \subseteq {"resolved", "rejected"}
  BY DEF Answers

\* An outcome that a cleanup hook may worsen stays an outcome.
LEMMA WorseType ==
  ASSUME NEW r \in Outcomes, NEW a \in {"resolved", "rejected"} PROVE Worse(r, a) \in Outcomes
  BY DEF Worse, Outcomes

\* Moving one call keeps pc in its set.
LEMMA GotoType ==
  ASSUME pc \in PcValues, NEW p \in Procs, NEW to \in PcNames, Goto(p, to)
  PROVE  pc' \in PcValues
  BY DEF PcValues, Goto

\* Settling one call keeps pc and result in their sets.
LEMMA SettleType ==
  ASSUME pc \in PcValues, result \in ResultValues, NEW p \in Procs, NEW r \in Outcomes,
         Settle(p, r)
  PROVE  pc' \in PcValues /\ result' \in ResultValues
<1>1. "settled" \in PcNames
  BY DEF PcNames
<1> QED BY <1>1 DEF PcValues, ResultValues, Settle

\* TypeOK by its parts, with the sets named.
LEMMA TypeParts ==
  TypeOK <=>
    /\ closed \in BOOLEAN /\ promise \in Shared \cup {NoCall} /\ tail \in Shared \cup {NoCall}
    /\ awaits \in [Procs -> Shared \cup {NoCall}] /\ order \in Seq(Shared)
    /\ pc \in PcValues /\ result \in ResultValues
    /\ conn \in [Calls -> Calls \cup {NoCall}] /\ link \in LinkValues
    /\ disposals \in [Calls -> Nat]
    /\ inTx \in [Calls -> BOOLEAN] /\ dirt \in [Calls -> SUBSET Calls]
    /\ unreset \subseteq Calls
  BY Zenon DEF TypeOK, PcValues, PcNames, ResultValues, Outcomes, LinkValues

\* A step that moves calls and gives them outcomes, and may say of some that they
\* did not clean up.
LEMMA CleanupType ==
  ASSUME TypeOK, pc' \in PcValues, result' \in ResultValues, unreset' \subseteq Calls,
         UNCHANGED <<closed, promise, conn, inTx, dirt, queueVars, linkVars>>
  PROVE  TypeOK'
<1>1. UNCHANGED <<closed, promise, conn, tail, awaits, order, link, disposals, inTx, dirt>>
  BY DEF queueVars, linkVars
<1> QED BY <1>1 DEF TypeOK, PcValues, PcNames, ResultValues, Outcomes

\* A step that does only that.
LEMMA MoveType ==
  ASSUME TypeOK, pc' \in PcValues, result' \in ResultValues,
         UNCHANGED <<closed, promise, conn, queueVars, linkVars, sessionVars>>
  PROVE  TypeOK'
<1>1. UNCHANGED <<inTx, dirt, unreset>> /\ unreset \subseteq Calls
  BY DEF sessionVars, TypeOK
<1> QED BY <1>1, CleanupType

\* TestkitProvider keeps every variable in its set: a settled call has an
\* outcome, and the queue and the promise only ever name shared calls.
THEOREM TypeCorrect == Spec => []TypeOK
<1>1. Init => TypeOK
  <2> SUFFICES ASSUME Init PROVE TypeOK
    OBVIOUS
  <2>1. order \in Seq(Shared)
    BY DEF Init
  <2>2. /\ closed \in BOOLEAN
        /\ promise \in Shared \cup {NoCall}
        /\ tail \in Shared \cup {NoCall}
    BY DEF Init
  <2>3. /\ awaits \in [Procs -> Shared \cup {NoCall}]
        /\ result \in ResultValues
        /\ conn \in [Calls -> Calls \cup {NoCall}]
        /\ link \in LinkValues
    BY DEF Init, ResultValues, Outcomes, LinkValues
  <2>4. /\ disposals \in [Calls -> Nat]
        /\ inTx \in [Calls -> BOOLEAN]
        /\ dirt \in [Calls -> SUBSET Calls]
        /\ unreset \subseteq Calls
    BY DEF Init
  <2>5. pc \in PcValues
    BY DEF Init, PcValues, PcNames
  <2> QED BY <2>1, <2>2, <2>3, <2>4, <2>5, TypeParts
<1>2. TypeOK /\ [Next]_vars => TypeOK'
  <2> SUFFICES ASSUME TypeOK, [Next]_vars PROVE TypeOK'
    OBVIOUS
  <2>t. pc \in PcValues /\ result \in ResultValues /\ link \in LinkValues
    BY TypeParts
  <2>c. Calls \subseteq Procs /\ Closers \subseteq Procs /\ Shared \subseteq Calls
    BY DEF Procs, Shared
  <2>n. /\ {"acquiring", "queued", "beginning", "making", "running", "releasing",
            "resetting", "disposing", "draining", "awaiting", "settled"} \subseteq PcNames
        /\ {"none", "resolved", "rejected"} \subseteq Outcomes
    BY DEF PcNames, Scenario, Outcomes
  <2>o. \A p \in Procs : result[p] \in Outcomes
    BY <2>t DEF ResultValues
  <2>1. ASSUME NEW c \in Calls, Refuse(c) PROVE TypeOK'
    <3>1. pc' \in PcValues /\ result' \in ResultValues
      BY <2>1, <2>t, <2>c, <2>n, SettleType DEF Refuse
    <3> QED BY <2>1, <3>1, MoveType DEF Refuse
  <2>2. ASSUME NEW c \in Calls, CallPerTest(c) PROVE TypeOK'
    <3>1. pc' \in PcValues
      BY <2>2, <2>t, <2>c, <2>n, GotoType DEF CallPerTest
    <3>2. link' \in LinkValues
      BY <2>2, <2>t DEF CallPerTest, LinkValues
    <3>3. UNCHANGED <<closed, promise, result, conn, disposals, queueVars, sessionVars>>
      BY <2>2 DEF CallPerTest
    <3> QED BY <3>1, <3>2, <3>3, TypeParts DEF queueVars, sessionVars, TypeOK, PcValues, PcNames, LinkValues
  <2>3. ASSUME NEW c \in Calls, CallShared(c) PROVE TypeOK'
    <3>1. pc' \in PcValues
      BY <2>3, <2>t, <2>c, <2>n, GotoType DEF CallShared
    <3>2. /\ tail' \in Shared \cup {NoCall}
          /\ awaits' \in [Procs -> Shared \cup {NoCall}]
          /\ order' \in Seq(Shared)
      <4>1. /\ c \in Shared /\ tail' = c
            /\ awaits' = [awaits EXCEPT ![c] = tail]
            /\ order' = Append(order, c)
        BY <2>3 DEF CallShared
      <4>2. /\ tail \in Shared \cup {NoCall} /\ order \in Seq(Shared)
            /\ awaits \in [Procs -> Shared \cup {NoCall}]
        BY DEF TypeOK
      <4>3. order' \in Seq(Shared)
        BY <4>1, <4>2
      <4> QED BY <4>1, <4>2, <4>3
    <3>3. UNCHANGED <<closed, promise, result, conn, linkVars, sessionVars>>
      BY <2>3 DEF CallShared
    <3> QED BY <3>1, <3>2, <3>3 DEF linkVars, sessionVars, TypeOK, PcValues, PcNames
  <2>4. ASSUME NEW c \in Calls, StartScenario(c) PROVE TypeOK'
    <3>1. pc' \in PcValues
      BY <2>4, <2>t, <2>c, <2>n, GotoType DEF StartScenario
    <3>2. promise' \in Shared \cup {NoCall} /\ link' \in LinkValues
      BY <2>4, <2>t DEF StartScenario, LinkValues, TypeOK
    <3>3. UNCHANGED <<closed, result, conn, disposals, queueVars, sessionVars>>
      BY <2>4 DEF StartScenario
    <3> QED BY <3>1, <3>2, <3>3 DEF queueVars, sessionVars, TypeOK, PcValues, PcNames, LinkValues
  <2>5. ASSUME NEW c \in Calls, ConnectionAnswers(c) PROVE TypeOK'
    <3>1. link' \in LinkValues
      BY <2>5, <2>t, AnswerType DEF ConnectionAnswers, LinkValues
    <3>2. UNCHANGED <<closed, promise, pc, result, conn, disposals, queueVars, sessionVars>>
      BY <2>5 DEF ConnectionAnswers
    <3> QED BY <3>1, <3>2 DEF queueVars, sessionVars, TypeOK, LinkValues
  <2>6. ASSUME NEW c \in Calls, Acquire(c) PROVE TypeOK'
    <3>0. UNCHANGED <<closed, promise, queueVars, linkVars, sessionVars>>
      BY <2>6 DEF Acquire
    <3>1. CASE Settle(c, "rejected") /\ UNCHANGED conn
      <4>1. pc' \in PcValues /\ result' \in ResultValues
        BY <3>1, <2>t, <2>c, <2>n, SettleType
      <4> QED BY <3>0, <3>1, <4>1, MoveType
    <3>2. ASSUME link[Target(c)] \in {"open", "disposed"},
                 conn' = [conn EXCEPT ![c] = Target(c)], UNCHANGED result,
                 NEW to \in {"beginning", "making"}, Goto(c, to)
          PROVE  TypeOK'
      <4>1. pc' \in PcValues
        BY <3>2, <2>t, <2>c, <2>n, GotoType
      <4>2. conn' \in [Calls -> Calls \cup {NoCall}]
        <5>1. Target(c) \in Calls \cup {NoCall}
          BY <2>c DEF Target, TypeOK
        <5> QED BY <5>1, <3>2 DEF TypeOK
      <4> QED BY <3>0, <3>2, <4>1, <4>2
              DEF queueVars, linkVars, sessionVars, TypeOK, PcValues, PcNames
    <3> QED BY <2>6, <3>1, <3>2 DEF Acquire
  <2>7. ASSUME NEW c \in Calls, Begin(c) PROVE TypeOK'
    <3>1. UNCHANGED <<closed, promise, conn, dirt, unreset, queueVars, linkVars>>
      BY <2>7 DEF Begin
    <3>2. inTx' \in [Calls -> BOOLEAN]
      BY <2>7 DEF Begin, TypeOK
    <3>3. \/ Goto(c, "making") /\ UNCHANGED result
          \/ Settle(c, "rejected")
      BY <2>7 DEF Begin
    <3>4. pc' \in PcValues /\ result' \in ResultValues
      BY <3>3, <2>t, <2>c, <2>n, GotoType, SettleType
    <3> QED BY <3>1, <3>2, <3>4
            DEF queueVars, linkVars, TypeOK, PcValues, PcNames, ResultValues, Outcomes
  <2>8. ASSUME NEW c \in Calls, MakeResource(c) PROVE TypeOK'
    <3>1. PICK a \in Answers("make") :
            /\ Goto(c, IF a = "resolved" THEN "running" ELSE AfterRelease(c))
            /\ result' = [result EXCEPT ![c] = IF a = "resolved" THEN "none" ELSE "rejected"]
      BY <2>8 DEF MakeResource
    <3>2. (IF a = "resolved" THEN "running" ELSE AfterRelease(c)) \in PcNames
      BY <2>n DEF AfterRelease
    <3>3. pc' \in PcValues
      BY <3>1, <3>2, <2>t, <2>c, GotoType
    <3>4. result' \in ResultValues
      BY <3>1, <2>t, <2>n DEF ResultValues
    <3> QED BY <2>8, <3>3, <3>4, MoveType DEF MakeResource
  <2>9. ASSUME NEW c \in Calls, Write(c) PROVE TypeOK'
    <3>1. dirt' \in [Calls -> SUBSET Calls]
      BY <2>9 DEF Write, TypeOK
    <3>2. UNCHANGED <<closed, promise, pc, result, conn, inTx, unreset, queueVars, linkVars>>
      BY <2>9 DEF Write
    <3> QED BY <3>1, <3>2 DEF queueVars, linkVars, TypeOK
  <2>10. ASSUME NEW c \in Calls, Return(c) PROVE TypeOK'
    <3>1. pc' \in PcValues
      BY <2>10, <2>t, <2>c, <2>n, GotoType DEF Return
    <3>2. \E a \in {"resolved", "rejected"} : result' = [result EXCEPT ![c] = a]
      BY <2>10, AnswerType DEF Return
    <3>3. result' \in ResultValues
      <4>1. PICK a \in {"resolved", "rejected"} : result' = [result EXCEPT ![c] = a]
        BY <3>2
      <4>2. a \in Outcomes
        BY DEF Outcomes
      <4> QED BY <4>1, <4>2, <2>t, Zenon DEF ResultValues
    <3> QED BY <2>10, <3>1, <3>3, MoveType DEF Return
  <2>11. ASSUME NEW c \in Calls, Release(c) PROVE TypeOK'
    <3>1. PICK a \in Answers("release") :
            IF a = "rejected" /\ c \in Shared
              THEN Settle(c, "rejected")
              ELSE /\ Goto(c, AfterRelease(c))
                   /\ result' = [result EXCEPT ![c] = Worse(@, a)]
      BY <2>11 DEF Release
    <3>u. unreset' \subseteq Calls
      BY <2>11 DEF Release, TypeOK
    <3>2. CASE Settle(c, "rejected")
      <4>1. pc' \in PcValues /\ result' \in ResultValues
        BY <3>2, <2>t, <2>c, <2>n, SettleType
      <4> QED BY <2>11, <3>u, <4>1, CleanupType DEF Release
    <3>3. CASE /\ Goto(c, AfterRelease(c))
               /\ result' = [result EXCEPT ![c] = Worse(@, a)]
      <4>1. AfterRelease(c) \in PcNames
        BY <2>n DEF AfterRelease
      <4>2. pc' \in PcValues
        BY <3>3, <4>1, <2>t, <2>c, GotoType
      <4>3. Worse(result[c], a) \in Outcomes
        BY <2>o, <2>c, AnswerType, WorseType
      <4>4. result' \in ResultValues
        BY <3>3, <4>3, <2>t DEF ResultValues
      <4> QED BY <2>11, <3>u, <4>2, <4>4, CleanupType DEF Release
    <3> QED BY <3>1, <3>2, <3>3
  <2>12. ASSUME NEW c \in Calls, Reset(c) PROVE TypeOK'
    <3>1. UNCHANGED <<closed, promise, conn, queueVars, linkVars>>
      BY <2>12 DEF Reset
    <3>2. /\ \/ UNCHANGED <<inTx, dirt>>
             \/ /\ dirt' = [dirt EXCEPT ![conn[c]] = {}]
                /\ inTx' = [inTx EXCEPT ![conn[c]] = FALSE]
          /\ unreset' \in {unreset, unreset \cup {c}}
      BY <2>12 DEF Reset, sessionVars
    <3>3. /\ inTx' \in [Calls -> BOOLEAN] /\ dirt' \in [Calls -> SUBSET Calls]
          /\ unreset' \subseteq Calls
      BY <3>2 DEF TypeOK
    <3>4. \/ Settle(c, result[c])
          \/ \E a \in Answers("reset") : Settle(c, Worse(result[c], a))
      BY <2>12 DEF Reset
    <3>5. pc' \in PcValues /\ result' \in ResultValues
      <4>1. CASE Settle(c, result[c])
        BY <4>1, <2>t, <2>c, <2>o, SettleType
      <4>2. ASSUME NEW a \in Answers("reset"), Settle(c, Worse(result[c], a))
            PROVE  pc' \in PcValues /\ result' \in ResultValues
        <5>1. Worse(result[c], a) \in Outcomes
          BY <2>o, <2>c, AnswerType, WorseType
        <5> QED BY <4>2, <5>1, <2>t, <2>c, SettleType
      <4> QED BY <3>4, <4>1, <4>2
    <3> QED BY <3>1, <3>3, <3>5
            DEF queueVars, linkVars, TypeOK, PcValues, PcNames, ResultValues, Outcomes
  <2>13. ASSUME NEW c \in Calls, Dispose(c) PROVE TypeOK'
    <3>1. disposals' \in [Calls -> Nat] /\ link' \in LinkValues
      <4>1. \A k \in Calls : disposals[k] + 1 \in Nat
        BY DEF TypeOK
      <4> QED BY <2>13, <2>t, <4>1 DEF Dispose, TypeOK, LinkValues
    <3>2. PICK a \in Answers("dispose") : Settle(c, Worse(result[c], a))
      BY <2>13 DEF Dispose
    <3>3. Worse(result[c], a) \in Outcomes
      BY <2>o, <2>c, AnswerType, WorseType
    <3>4. pc' \in PcValues /\ result' \in ResultValues
      BY <3>2, <3>3, <2>t, <2>c, SettleType
    <3>5. UNCHANGED <<closed, promise, conn, queueVars, sessionVars>>
      BY <2>13 DEF Dispose
    <3> QED BY <3>1, <3>4, <3>5
            DEF queueVars, sessionVars, TypeOK, PcValues, PcNames, ResultValues, Outcomes, LinkValues
  <2>14. ASSUME NEW k \in Closers, Close(k) PROVE TypeOK'
    <3>1. pc' \in PcValues
      BY <2>14, <2>t, <2>c, <2>n, GotoType DEF Close
    <3>2. awaits' \in [Procs -> Shared \cup {NoCall}] /\ closed' \in BOOLEAN
      BY <2>14 DEF Close, TypeOK
    <3>3. UNCHANGED <<promise, tail, order, result, conn, linkVars, sessionVars>>
      BY <2>14 DEF Close
    <3> QED BY <3>1, <3>2, <3>3 DEF linkVars, sessionVars, TypeOK, PcValues, PcNames
  <2>15. ASSUME NEW k \in Closers, CloseAgain(k) PROVE TypeOK'
    <3>1. pc' \in PcValues /\ result' \in ResultValues
      BY <2>15, <2>t, <2>c, <2>n, SettleType DEF CloseAgain
    <3> QED BY <2>15, <3>1, MoveType DEF CloseAgain
  <2>16. ASSUME NEW k \in Closers, Drained(k) PROVE TypeOK'
    <3>1. Settle(k, "resolved") \/ (Goto(k, "awaiting") /\ UNCHANGED result)
      BY <2>16 DEF Drained
    <3>2. pc' \in PcValues /\ result' \in ResultValues
      BY <3>1, <2>t, <2>c, <2>n, GotoType, SettleType
    <3> QED BY <2>16, <3>2, MoveType DEF Drained
  <2>17. ASSUME NEW k \in Closers, DisposeShared(k) PROVE TypeOK'
    <3>1. \E r \in {"resolved", "rejected"} : Settle(k, r)
      BY <2>17, AnswerType DEF DisposeShared
    <3>2. pc' \in PcValues /\ result' \in ResultValues
      BY <3>1, <2>t, <2>c, <2>n, SettleType
    <3>3. \/ UNCHANGED linkVars
          \/ /\ link' = [link EXCEPT ![promise] = "disposed"]
             /\ disposals' = [disposals EXCEPT ![promise] = @ + 1]
      BY <2>17 DEF DisposeShared
    <3>4. disposals' \in [Calls -> Nat] /\ link' \in LinkValues
      <4>1. CASE UNCHANGED linkVars
        BY <4>1, <2>t DEF linkVars, TypeOK
      <4>2. CASE /\ link' = [link EXCEPT ![promise] = "disposed"]
                 /\ disposals' = [disposals EXCEPT ![promise] = @ + 1]
        <5>1. disposals \in [Calls -> Nat]
          BY DEF TypeOK
        <5>2. \A c \in Calls : disposals[c] + 1 \in Nat
          BY <5>1
        <5>4. disposals' \in [Calls -> Nat]
          BY <4>2, <5>1, <5>2, Zenon
        <5>3. link' \in LinkValues
          BY <4>2, <2>t, Zenon DEF LinkValues
        <5> QED BY <5>3, <5>4
      <4> QED BY <3>3, <4>1, <4>2
    <3>5. UNCHANGED <<closed, promise, conn, queueVars, sessionVars>>
      BY <2>17 DEF DisposeShared
    <3> QED BY <3>2, <3>4, <3>5
            DEF queueVars, sessionVars, TypeOK, PcValues, PcNames, ResultValues, Outcomes, LinkValues
  <2>18. CASE UNCHANGED vars
    BY <2>18 DEF vars, TypeOK
  <2> QED
    BY <2>1, <2>2, <2>3, <2>4, <2>5, <2>6, <2>7, <2>8, <2>9, <2>10, <2>11, <2>12,
       <2>13, <2>14, <2>15, <2>16, <2>17, <2>18 DEF Next, Issue, Continue, Stopped
<1> QED
  BY <1>1, <1>2, PTL DEF Spec

--------------------------------------------------------------------------------
(* The queue *)

\* The calls in the queue, each one waiting for the call before it: nothing
\* but the last of those that have started can still be running.
QueueInv ==
  /\ tail = IF order = <<>> THEN NoCall ELSE order[Len(order)]
  /\ \A i \in 1..Len(order) : pc[order[i]] # "idle"
  /\ \A i, j \in 1..Len(order) : order[i] = order[j] => i = j
  /\ \A i \in 1..Len(order) :
       awaits[order[i]] = IF i = 1 THEN NoCall ELSE order[i - 1]
  /\ \A i, j \in 1..Len(order) :
       i < j /\ pc[order[j]] # "queued" => pc[order[i]] = "settled"
  /\ \A c \in Shared :
       pc[c] \in Scenario \cup {"queued"} => \E i \in 1..Len(order) : order[i] = c

\* A step that leaves the queue alone keeps QueueInv when it moves at most one
\* call, a call that has been accepted and has started, and not back.
LEMMA QueueFrame ==
  ASSUME TypeOK, QueueInv, UNCHANGED queueVars, NEW p \in Procs,
         \A q \in Procs : q # p => pc'[q] = pc[q],
         pc[p] \notin {"queued", "settled"}, pc'[p] \notin {"idle", "queued"},
         p \in Shared => (pc[p] \in Scenario \/ pc'[p] = "settled")
  PROVE  QueueInv'
<1>u. UNCHANGED <<tail, awaits, order>>
  BY DEF queueVars
<1>s. Shared \subseteq Procs
  BY DEF Shared, Procs
<1>1. \A i \in 1..Len(order) : order[i] \in Shared
  BY DEF TypeOK
<1>2. \A i \in 1..Len(order) : pc'[order[i]] # "idle"
  BY <1>1, <1>s DEF QueueInv
<1>3. \A i, j \in 1..Len(order) :
        i < j /\ pc'[order[j]] # "queued" => pc'[order[i]] = "settled"
  <2> SUFFICES ASSUME NEW i \in 1..Len(order), NEW j \in 1..Len(order),
                      i < j, pc'[order[j]] # "queued"
               PROVE  pc'[order[i]] = "settled"
    OBVIOUS
  <2>1. pc[order[j]] # "queued"
    BY <1>1, <1>s
  <2>2. pc[order[i]] = "settled"
    BY <2>1 DEF QueueInv
  <2> QED BY <1>1, <1>s, <2>2
<1>4. \A c \in Shared :
        pc'[c] \in Scenario \cup {"queued"} => \E i \in 1..Len(order) : order[i] = c
  <2> SUFFICES ASSUME NEW c \in Shared, pc'[c] \in Scenario \cup {"queued"}
               PROVE  \E i \in 1..Len(order) : order[i] = c
    OBVIOUS
  <2>1. pc[c] \in Scenario \cup {"queued"}
    <3>1. CASE c = p
      BY <3>1 DEF Scenario
    <3>2. CASE c # p
      BY <3>2, <1>s
    <3> QED BY <3>1, <3>2
  <2> QED BY <2>1 DEF QueueInv
<1> QED BY <1>u, <1>2, <1>3, <1>4 DEF QueueInv

\* QueueInv is inductive.
LEMMA QueueStep == TypeOK /\ QueueInv /\ [Next]_vars => QueueInv'
<1> SUFFICES ASSUME TypeOK, QueueInv, [Next]_vars PROVE QueueInv'
  OBVIOUS
<1> USE DEF Goto, Settle
<1>1. ASSUME NEW c \in Calls, Refuse(c) PROVE QueueInv'
  <2>1. /\ UNCHANGED queueVars /\ c \in Procs
        /\ \A q \in Procs : q # c => pc'[q] = pc[q]
        /\ pc[c] = "idle" /\ pc'[c] = "settled"
    BY <1>1 DEF Refuse, TypeOK, Procs
  <2> QED BY <2>1, QueueFrame
<1>2. ASSUME NEW c \in Calls, CallPerTest(c) PROVE QueueInv'
  <2>1. /\ UNCHANGED queueVars /\ c \in Procs
        /\ \A q \in Procs : q # c => pc'[q] = pc[q]
        /\ pc[c] = "idle" /\ pc'[c] = "acquiring" /\ c \notin Shared
    BY <1>2 DEF CallPerTest, TypeOK, Procs, Shared
  <2> QED BY <2>1, QueueFrame
<1>3. ASSUME NEW c \in Calls, CallShared(c) PROVE QueueInv'
  <2> USE DEF TypeOK, Procs, Shared, Scenario
  <2>1. /\ order \in Seq(Shared) /\ order' = Append(order, c) /\ c \in Shared
        /\ tail' = c /\ awaits' = [awaits EXCEPT ![c] = tail]
        /\ pc[c] = "idle" /\ pc' = [pc EXCEPT ![c] = "queued"]
    BY <1>3 DEF CallShared
  <2>2. /\ Len(order') = Len(order) + 1
        /\ \A i \in 1..Len(order) : order'[i] = order[i] /\ order[i] \in Shared
        /\ order'[Len(order) + 1] = c
    BY <2>1
  <2>3. \A i \in 1..Len(order) : order[i] # c
    BY <2>1 DEF QueueInv
  <2>4. tail' = IF order' = <<>> THEN NoCall ELSE order'[Len(order')]
    BY <2>1, <2>2
  <2>5. \A i \in 1..Len(order') : pc'[order'[i]] # "idle"
    BY <2>1, <2>2 DEF QueueInv
  <2>6. \A i, j \in 1..Len(order') : order'[i] = order'[j] => i = j
    <3> SUFFICES ASSUME NEW i \in 1..Len(order'), NEW j \in 1..Len(order'),
                        order'[i] = order'[j]
                 PROVE  i = j
      OBVIOUS
    <3>1. \A n \in 1..Len(order') : n \in 1..Len(order) \/ n = Len(order) + 1
      BY <2>1, <2>2
    <3>2. CASE i \in 1..Len(order) /\ j \in 1..Len(order)
      BY <3>2, <2>2 DEF QueueInv
    <3>3. CASE i \in 1..Len(order) /\ j = Len(order) + 1
      BY <3>3, <2>2, <2>3
    <3>4. CASE i = Len(order) + 1 /\ j \in 1..Len(order)
      BY <3>4, <2>2, <2>3
    <3> QED BY <3>1, <3>2, <3>3, <3>4
  <2>7. \A i \in 1..Len(order') :
          awaits'[order'[i]] = IF i = 1 THEN NoCall ELSE order'[i - 1]
    <3> TAKE i \in 1..Len(order')
    <3>1. CASE i = Len(order) + 1
      BY <3>1, <2>1, <2>2 DEF QueueInv
    <3>2. CASE i \in 1..Len(order)
      BY <3>2, <2>1, <2>2, <2>3 DEF QueueInv
    <3> QED BY <3>1, <3>2, <2>2
  <2>8. \A i, j \in 1..Len(order') :
          i < j /\ pc'[order'[j]] # "queued" => pc'[order'[i]] = "settled"
    <3> TAKE i, j \in 1..Len(order')
    <3>1. CASE j = Len(order) + 1
      BY <3>1, <2>1, <2>2
    <3>2. CASE j \in 1..Len(order) /\ i < j
      <4>1. i \in 1..Len(order)
        BY <3>2, <2>2
      <4>2. pc[order[j]] # "queued" => pc[order[i]] = "settled"
        BY <3>2, <4>1 DEF QueueInv
      <4>3. pc'[order'[j]] = pc[order[j]] /\ pc'[order'[i]] = pc[order[i]]
        BY <3>2, <4>1, <2>1, <2>2, <2>3
      <4> QED BY <4>2, <4>3
    <3>3. j = Len(order) + 1 \/ j \in 1..Len(order)
      BY <2>1, <2>2
    <3> QED BY <3>1, <3>2, <3>3
  <2>9. \A d \in Shared : pc'[d] \in Scenario \cup {"queued"}
                            => \E i \in 1..Len(order') : order'[i] = d
    <3> SUFFICES ASSUME NEW d \in Shared, pc'[d] \in Scenario \cup {"queued"}
                 PROVE  \E i \in 1..Len(order') : order'[i] = d
      OBVIOUS
    <3>1. CASE d = c
      <4>1. Len(order) + 1 \in 1..Len(order')
        BY <2>1, <2>2
      <4> QED BY <4>1, <3>1, <2>2
    <3>2. CASE d # c
      <4>1. PICK i \in 1..Len(order) : order[i] = d
        BY <3>2, <2>1 DEF QueueInv
      <4> QED BY <4>1, <2>2
    <3> QED BY <3>1, <3>2
  <2> QED BY <2>4, <2>5, <2>6, <2>7, <2>8, <2>9 DEF QueueInv
<1>4. ASSUME NEW c \in Calls, StartScenario(c) PROVE QueueInv'
  <2> USE DEF TypeOK, Procs, Shared, Scenario
  <2>1. /\ UNCHANGED queueVars
        /\ pc[c] = "queued" /\ Settled(awaits[c])
        /\ pc' = [pc EXCEPT ![c] = "acquiring"]
    BY <1>4 DEF StartScenario, queueVars
  <2>2. \A i \in 1..Len(order) : order[i] \in Shared
    OBVIOUS
  <2>3. ASSUME NEW i \in 1..Len(order), NEW j \in 1..Len(order),
               i < j, pc'[order[j]] # "queued"
        PROVE  pc'[order[i]] = "settled"
    <3>1. CASE order[j] # c
      BY <3>1, <2>1, <2>2, <2>3 DEF QueueInv
    <3>2. CASE order[j] = c
      <4>1. j - 1 \in 1..Len(order) /\ awaits[c] = order[j - 1] /\ pc[order[j - 1]] = "settled"
        BY <3>2, <2>1, <2>2, <2>3 DEF QueueInv, Settled
      <4>2. pc[order[i]] = "settled"
        <5>1. CASE i = j - 1
          BY <5>1, <4>1
        <5>2. CASE i < j - 1
          BY <5>2, <4>1, <2>3 DEF QueueInv
        <5> QED BY <5>1, <5>2, <2>3
      <4> QED BY <4>2, <2>1, <2>2
    <3> QED BY <3>1, <3>2
  <2>4. ASSUME NEW d \in Shared, pc'[d] \in Scenario \cup {"queued"}
        PROVE  \E i \in 1..Len(order) : order[i] = d
    BY <2>1, <2>4 DEF QueueInv
  <2> QED BY <2>1, <2>2, <2>3, <2>4 DEF QueueInv, queueVars
<1>5. ASSUME NEW c \in Calls, ConnectionAnswers(c) PROVE QueueInv'
  BY <1>5 DEF ConnectionAnswers, QueueInv, queueVars
<1>6. ASSUME NEW c \in Calls, Acquire(c) PROVE QueueInv'
  <2>1. /\ UNCHANGED queueVars /\ c \in Procs
        /\ \A q \in Procs : q # c => pc'[q] = pc[q]
        /\ pc[c] = "acquiring" /\ pc'[c] \in {"settled", "beginning", "making"}
    BY <1>6 DEF Acquire, TypeOK, Procs
  <2> QED BY <2>1, QueueFrame DEF Scenario
<1>7. ASSUME NEW c \in Calls, Begin(c) PROVE QueueInv'
  <2>1. /\ UNCHANGED queueVars /\ c \in Procs
        /\ \A q \in Procs : q # c => pc'[q] = pc[q]
        /\ pc[c] = "beginning" /\ pc'[c] \in {"settled", "making"}
    BY <1>7 DEF Begin, TypeOK, Procs
  <2> QED BY <2>1, QueueFrame DEF Scenario
<1>8. ASSUME NEW c \in Calls, MakeResource(c) PROVE QueueInv'
  <2>1. /\ UNCHANGED queueVars /\ c \in Procs
        /\ \A q \in Procs : q # c => pc'[q] = pc[q]
        /\ pc[c] = "making" /\ pc'[c] \in {"running", "disposing", "resetting"}
    BY <1>8 DEF MakeResource, AfterRelease, TypeOK, Procs
  <2> QED BY <2>1, QueueFrame DEF Scenario
<1>9. ASSUME NEW c \in Calls, Write(c) PROVE QueueInv'
  BY <1>9 DEF Write, QueueInv, queueVars
<1>10. ASSUME NEW c \in Calls, Return(c) PROVE QueueInv'
  <2>1. /\ UNCHANGED queueVars /\ c \in Procs
        /\ \A q \in Procs : q # c => pc'[q] = pc[q]
        /\ pc[c] = "running" /\ pc'[c] = "releasing"
    BY <1>10 DEF Return, TypeOK, Procs
  <2> QED BY <2>1, QueueFrame DEF Scenario
<1>11. ASSUME NEW c \in Calls, Release(c) PROVE QueueInv'
  <2>1. /\ UNCHANGED queueVars /\ c \in Procs
        /\ \A q \in Procs : q # c => pc'[q] = pc[q]
        /\ pc[c] = "releasing" /\ pc'[c] \in {"settled", "disposing", "resetting"}
    BY <1>11 DEF Release, AfterRelease, TypeOK, Procs
  <2> QED BY <2>1, QueueFrame DEF Scenario
<1>12. ASSUME NEW c \in Calls, Reset(c) PROVE QueueInv'
  <2>1. /\ UNCHANGED queueVars /\ c \in Procs
        /\ \A q \in Procs : q # c => pc'[q] = pc[q]
        /\ pc[c] = "resetting" /\ pc'[c] = "settled"
    BY <1>12 DEF Reset, TypeOK, Procs
  <2> QED BY <2>1, QueueFrame DEF Scenario
<1>13. ASSUME NEW c \in Calls, Dispose(c) PROVE QueueInv'
  <2>1. /\ UNCHANGED queueVars /\ c \in Procs
        /\ \A q \in Procs : q # c => pc'[q] = pc[q]
        /\ pc[c] = "disposing" /\ pc'[c] = "settled"
    BY <1>13 DEF Dispose, TypeOK, Procs
  <2> QED BY <2>1, QueueFrame
<1>14. ASSUME NEW k \in Closers, Close(k) PROVE QueueInv'
  <2> USE DEF TypeOK, Procs, Shared
  <2>1. /\ UNCHANGED <<tail, order>> /\ awaits' = [awaits EXCEPT ![k] = tail]
        /\ pc' = [pc EXCEPT ![k] = "draining"]
    BY <1>14 DEF Close
  <2>2. \A c \in Shared : pc'[c] = pc[c] /\ awaits'[c] = awaits[c]
    BY <2>1
  <2>3. \A i \in 1..Len(order) : order[i] \in Shared
    OBVIOUS
  <2> QED BY <2>1, <2>2, <2>3 DEF QueueInv
<1>15. ASSUME NEW k \in Closers, CloseAgain(k) PROVE QueueInv'
  <2>1. /\ UNCHANGED queueVars /\ k \in Procs
        /\ \A q \in Procs : q # k => pc'[q] = pc[q]
        /\ pc[k] = "idle" /\ pc'[k] = "settled"
    BY <1>15 DEF CloseAgain, TypeOK, Procs
  <2> QED BY <2>1, QueueFrame
<1>16. ASSUME NEW k \in Closers, Drained(k) PROVE QueueInv'
  <2>1. /\ UNCHANGED queueVars /\ k \in Procs /\ k \notin Shared
        /\ \A q \in Procs : q # k => pc'[q] = pc[q]
        /\ pc[k] = "draining" /\ pc'[k] \in {"settled", "awaiting"}
    BY <1>16 DEF Drained, TypeOK, Procs, Shared
  <2> QED BY <2>1, QueueFrame
<1>17. ASSUME NEW k \in Closers, DisposeShared(k) PROVE QueueInv'
  <2>1. /\ UNCHANGED queueVars /\ k \in Procs
        /\ \A q \in Procs : q # k => pc'[q] = pc[q]
        /\ pc[k] = "awaiting" /\ pc'[k] = "settled"
    BY <1>17 DEF DisposeShared, TypeOK, Procs
  <2> QED BY <2>1, QueueFrame
<1>18. CASE UNCHANGED vars
  BY <1>18 DEF vars, QueueInv
<1> QED
  BY <1>1, <1>2, <1>3, <1>4, <1>5, <1>6, <1>7, <1>8, <1>9, <1>10, <1>11, <1>12,
     <1>13, <1>14, <1>15, <1>16, <1>17, <1>18 DEF Next, Issue, Continue, Stopped

\* The queue keeps its order and its chain of waits in every reachable state.
THEOREM QueueCorrect == Spec => []QueueInv
<1>1. Init => QueueInv
  BY DEF Init, QueueInv, Procs, Shared, Scenario
<1> QED
  BY <1>1, QueueStep, TypeCorrect, PTL DEF Spec

\* Scenarios never overlap on the shared connection, whatever fails and however
\* callbacks nest: of two that have started, the earlier one has settled.
THEOREM MutualExclusion == Spec => []SharedScenariosNeverOverlap
<1>1. TypeOK /\ QueueInv => SharedScenariosNeverOverlap
  <2> SUFFICES ASSUME TypeOK, QueueInv, NEW c \in Shared, NEW d \in Shared,
                      pc[c] \in Scenario, pc[d] \in Scenario
               PROVE  c = d
    BY DEF SharedScenariosNeverOverlap
  <2>1. PICK i \in 1..Len(order) : order[i] = c
    BY DEF QueueInv
  <2>2. PICK j \in 1..Len(order) : order[j] = d
    BY DEF QueueInv
  <2>3. i \in Nat /\ j \in Nat
    BY DEF TypeOK
  <2>4. ~(i < j) /\ ~(j < i)
    BY <2>1, <2>2 DEF QueueInv, Scenario
  <2> QED BY <2>1, <2>2, <2>3, <2>4
<1> QED
  BY <1>1, QueueCorrect, TypeCorrect, PTL

--------------------------------------------------------------------------------
(* Sessions *)

\* The calls whose callback has started and whose cleanup has not ended.
Touching == {"running", "releasing", "resetting"}

\* A shared scenario has a connection promise, and is never disposed of.
PromiseInv ==
  \A c \in Shared : /\ pc[c] \in Scenario => promise # NoCall
                    /\ pc[c] \notin {"disposing", "draining", "awaiting"}

\* A call uses the connection it was given: its own one or the shared one.
ConnInv ==
  /\ \A c \in PerTest : conn[c] \in {NoCall, c}
  /\ \A c \in Shared : conn[c] \in Shared \cup {NoCall}
  /\ \A c \in Calls : pc[c] \in Using => conn[c] = Target(c)

\* Where a call may stand while a connection still shows its writes: a shared
\* call is cleaning up after itself, or has settled and could not do so.
MayShow(d) ==
  /\ d \in PerTest => pc[d] \in {"running", "releasing", "disposing", "settled"}
  /\ d \in Shared =>
       \/ pc[d] \in Touching
       \/ /\ pc[d] = "settled"
          /\ ResetOption # "none" => result[d] = "rejected" /\ d \in unreset

DirtInv ==
  \A k, d \in Calls : d \in dirt[k] => conn[d] = k /\ MayShow(d)

SessionInv == PromiseInv /\ ConnInv /\ DirtInv

\* A shared call that uses a connection is inside its scenario.
LEMMA SharedUse ==
  ASSUME PromiseInv, NEW c \in Shared, pc[c] \in Using
  PROVE  pc[c] \in Scenario /\ promise # NoCall
<1>1. pc[c] # "disposing"
  BY DEF PromiseInv
<1>2. pc[c] \in Scenario
  BY <1>1 DEF Using, Scenario
<1> QED BY <1>2 DEF PromiseInv

\* A step that leaves the sessions, the promise and the connections in use alone
\* keeps SessionInv when it moves one call that is not cleaning up a shared session.
LEMMA SessionFrame ==
  ASSUME TypeOK, SessionInv, UNCHANGED <<promise, conn, dirt, unreset>>, NEW p \in Procs,
         \A q \in Procs : q # p => pc'[q] = pc[q] /\ result'[q] = result[q],
         p \in Shared /\ pc'[p] \in Scenario => pc[p] \in Scenario,
         p \in Shared => pc'[p] \notin {"disposing", "draining", "awaiting"},
         p \in Calls /\ pc'[p] \in Using => pc[p] \in Using,
         p \in Shared /\ pc[p] \in Touching => pc'[p] \in Touching,
         p \in Shared => pc[p] # "settled",
         p \in PerTest /\ pc[p] \in {"running", "releasing", "disposing", "settled"}
           => pc'[p] \in {"running", "releasing", "disposing", "settled"}
  PROVE  SessionInv'
<1> USE DEF TypeOK, Procs, Shared
<1>1. PromiseInv'
  BY DEF SessionInv, PromiseInv
<1>2. ConnInv'
  BY DEF SessionInv, ConnInv, Target
<1>3. ASSUME NEW k \in Calls, NEW d \in Calls, d \in dirt'[k]
      PROVE  conn'[d] = k /\ MayShow(d)'
  <2>1. conn[d] = k /\ MayShow(d)
    BY <1>3 DEF SessionInv, DirtInv
  <2>2. MayShow(d)'
    BY <2>1 DEF MayShow
  <2> QED BY <2>1, <2>2
<1> QED BY <1>1, <1>2, <1>3 DEF SessionInv, DirtInv

\* SessionInv is inductive.
LEMMA SessionStep == TypeOK /\ SessionInv /\ [Next]_vars => SessionInv'
<1> SUFFICES ASSUME TypeOK, SessionInv, [Next]_vars PROVE SessionInv'
  OBVIOUS
<1> USE DEF Goto, Settle, sessionVars, Scenario, Using, Touching
<1>1. ASSUME NEW c \in Calls, Refuse(c) PROVE SessionInv'
  <2>1. /\ UNCHANGED <<promise, conn, dirt, unreset>> /\ c \in Procs
        /\ \A q \in Procs : q # c => pc'[q] = pc[q] /\ result'[q] = result[q]
        /\ pc[c] = "idle" /\ pc'[c] = "settled"
    BY <1>1 DEF Refuse, TypeOK, Procs
  <2> QED BY <2>1, SessionFrame
<1>2. ASSUME NEW c \in Calls, CallPerTest(c) PROVE SessionInv'
  <2>1. /\ UNCHANGED <<promise, conn, dirt, unreset>> /\ c \in Procs /\ c \notin Shared
        /\ \A q \in Procs : q # c => pc'[q] = pc[q] /\ result'[q] = result[q]
        /\ pc[c] = "idle" /\ pc'[c] = "acquiring"
    BY <1>2 DEF CallPerTest, TypeOK, Procs, Shared
  <2> QED BY <2>1, SessionFrame
<1>3. ASSUME NEW c \in Calls, CallShared(c) PROVE SessionInv'
  <2>1. /\ UNCHANGED <<promise, conn, dirt, unreset>> /\ c \in Procs
        /\ \A q \in Procs : q # c => pc'[q] = pc[q] /\ result'[q] = result[q]
        /\ pc[c] = "idle" /\ pc'[c] = "queued" /\ c \notin PerTest
    BY <1>3 DEF CallShared, TypeOK, Procs, Shared
  <2> QED BY <2>1, SessionFrame
<1>4. ASSUME NEW c \in Calls, StartScenario(c) PROVE SessionInv'
  <2> USE DEF TypeOK, Procs, Shared
  <2>1. /\ UNCHANGED <<conn, dirt, unreset, result>> /\ c \in Shared
        /\ pc[c] = "queued" /\ pc' = [pc EXCEPT ![c] = "acquiring"]
        /\ promise' = IF promise = NoCall THEN c ELSE promise
    BY <1>4 DEF StartScenario
  <2>2. PromiseInv'
    BY <2>1 DEF SessionInv, PromiseInv
  <2>3. ConnInv'
    <3>1. ASSUME NEW d \in Calls, pc'[d] \in Using PROVE conn'[d] = Target(d)'
      <4>1. pc[d] \in Using /\ conn[d] = Target(d)
        BY <2>1, <3>1 DEF SessionInv, ConnInv
      <4>2. d \in Shared => promise # NoCall
        BY <4>1, SharedUse DEF SessionInv
      <4> QED BY <2>1, <4>1, <4>2 DEF Target
    <3> QED BY <2>1, <3>1 DEF SessionInv, ConnInv
  <2>4. ASSUME NEW k \in Calls, NEW d \in Calls, d \in dirt'[k]
        PROVE  conn'[d] = k /\ MayShow(d)'
    <3>1. conn[d] = k /\ MayShow(d)
      BY <2>1, <2>4 DEF SessionInv, DirtInv
    <3>2. d # c
      BY <2>1, <3>1 DEF MayShow
    <3> QED BY <2>1, <3>1, <3>2 DEF MayShow
  <2> QED BY <2>2, <2>3, <2>4 DEF SessionInv, DirtInv
<1>5. ASSUME NEW c \in Calls, ConnectionAnswers(c) PROVE SessionInv'
  BY <1>5 DEF ConnectionAnswers, SessionInv, PromiseInv, ConnInv, DirtInv, MayShow, Target
<1>6. ASSUME NEW c \in Calls, Acquire(c) PROVE SessionInv'
  <2> USE DEF TypeOK, Procs, Shared
  <2>1. /\ UNCHANGED <<promise, dirt, unreset>> /\ pc[c] = "acquiring"
        /\ \A q \in Procs : q # c => pc'[q] = pc[q] /\ result'[q] = result[q]
        /\ pc'[c] \in {"settled", "beginning", "making"}
        /\ \/ pc'[c] = "settled" /\ conn' = conn
           \/ conn' = [conn EXCEPT ![c] = Target(c)]
    BY <1>6 DEF Acquire
  <2>2. PromiseInv'
    BY <2>1 DEF SessionInv, PromiseInv
  <2>3. ConnInv'
    <3>1. CASE pc'[c] = "settled" /\ conn' = conn
      BY <2>1, <3>1 DEF SessionInv, ConnInv, Target
    <3>2. CASE conn' = [conn EXCEPT ![c] = Target(c)]
      <4>1. ASSUME NEW d \in Calls, pc'[d] \in Using PROVE conn'[d] = Target(d)
        BY <2>1, <3>2, <4>1 DEF SessionInv, ConnInv
      <4>2. Target(c) \in Calls \cup {NoCall}
        BY DEF Target
      <4> QED BY <2>1, <3>2, <4>1, <4>2 DEF SessionInv, ConnInv, Target
    <3> QED BY <2>1, <3>1, <3>2
  <2>4. ASSUME NEW k \in Calls, NEW d \in Calls, d \in dirt'[k]
        PROVE  conn'[d] = k /\ MayShow(d)'
    <3>1. conn[d] = k /\ MayShow(d)
      BY <2>1, <2>4 DEF SessionInv, DirtInv
    <3>2. d # c
      BY <2>1, <3>1 DEF MayShow
    <3> QED BY <2>1, <3>1, <3>2 DEF MayShow
  <2> QED BY <2>2, <2>3, <2>4 DEF SessionInv, DirtInv
<1>7. ASSUME NEW c \in Calls, Begin(c) PROVE SessionInv'
  <2>1. /\ UNCHANGED <<promise, conn, dirt, unreset>> /\ c \in Procs
        /\ \A q \in Procs : q # c => pc'[q] = pc[q] /\ result'[q] = result[q]
        /\ pc[c] = "beginning" /\ pc'[c] \in {"settled", "making"}
    BY <1>7 DEF Begin, TypeOK, Procs
  <2> QED BY <2>1, SessionFrame
<1>8. ASSUME NEW c \in Calls, MakeResource(c) PROVE SessionInv'
  <2>1. /\ UNCHANGED <<promise, conn, dirt, unreset>> /\ c \in Procs
        /\ \A q \in Procs : q # c => pc'[q] = pc[q] /\ result'[q] = result[q]
        /\ pc[c] = "making" /\ pc'[c] \in {"running", "disposing", "resetting"}
        /\ c \in Shared => pc'[c] # "disposing"
    BY <1>8 DEF MakeResource, AfterRelease, TypeOK, Procs, Shared
  <2> QED BY <2>1, SessionFrame
<1>9. ASSUME NEW c \in Calls, Write(c) PROVE SessionInv'
  <2> USE DEF TypeOK, Procs, Shared
  <2>1. /\ UNCHANGED <<promise, conn, pc, result, unreset>> /\ pc[c] = "running"
        /\ dirt' = [dirt EXCEPT ![conn[c]] = @ \cup {c}]
    BY <1>9 DEF Write
  <2>2. PromiseInv' /\ ConnInv'
    BY <2>1 DEF SessionInv, PromiseInv, ConnInv, Target
  <2>3. ASSUME NEW k \in Calls, NEW d \in Calls, d \in dirt'[k]
        PROVE  conn'[d] = k /\ MayShow(d)'
    <3>1. CASE d = c /\ k = conn[c]
      BY <2>1, <3>1 DEF MayShow
    <3>2. CASE d \in dirt[k]
      BY <2>1, <3>2 DEF SessionInv, DirtInv, MayShow
    <3> QED BY <2>1, <2>3, <3>1, <3>2
  <2> QED BY <2>2, <2>3 DEF SessionInv, DirtInv
<1>10. ASSUME NEW c \in Calls, Return(c) PROVE SessionInv'
  <2>1. /\ UNCHANGED <<promise, conn, dirt, unreset>> /\ c \in Procs
        /\ \A q \in Procs : q # c => pc'[q] = pc[q] /\ result'[q] = result[q]
        /\ pc[c] = "running" /\ pc'[c] = "releasing"
    BY <1>10 DEF Return, TypeOK, Procs
  <2> QED BY <2>1, SessionFrame
<1>11. ASSUME NEW c \in Calls, Release(c) PROVE SessionInv'
  <2> USE DEF TypeOK, Procs, Shared
  <2>1. /\ UNCHANGED <<promise, conn, dirt>> /\ pc[c] = "releasing"
        /\ unreset \subseteq unreset'
        /\ \A q \in Procs : q # c => pc'[q] = pc[q] /\ result'[q] = result[q]
        /\ c \in PerTest => pc'[c] = "disposing"
        /\ c \in Shared => \/ pc'[c] = "resetting"
                           \/ /\ pc'[c] = "settled" /\ result'[c] = "rejected"
                              /\ c \in unreset'
    BY <1>11 DEF Release, AfterRelease, Answers
  <2>2. PromiseInv'
    BY <2>1 DEF SessionInv, PromiseInv
  <2>3. ConnInv'
    BY <2>1 DEF SessionInv, ConnInv, Target
  <2>4. ASSUME NEW k \in Calls, NEW d \in Calls, d \in dirt'[k]
        PROVE  conn'[d] = k /\ MayShow(d)'
    <3>1. conn[d] = k /\ MayShow(d)
      BY <2>1, <2>4 DEF SessionInv, DirtInv
    <3>2. CASE d = c
      BY <2>1, <3>1, <3>2 DEF MayShow
    <3>3. CASE d # c
      BY <2>1, <3>1, <3>3 DEF MayShow
    <3> QED BY <3>2, <3>3
  <2> QED BY <2>2, <2>3, <2>4 DEF SessionInv, DirtInv
<1>12. ASSUME NEW c \in Calls, Reset(c) PROVE SessionInv'
  <2> USE DEF TypeOK, Procs, Shared
  <2>1. /\ UNCHANGED <<promise, conn>> /\ pc[c] = "resetting"
        /\ unreset \subseteq unreset'
        /\ \A q \in Procs : q # c => pc'[q] = pc[q] /\ result'[q] = result[q]
        /\ pc'[c] = "settled"
    BY <1>12 DEF Reset
  <2>2. \/ ResetOption = "none" /\ dirt' = dirt
        \/ result'[c] = "rejected" /\ c \in unreset' /\ dirt' = dirt
        \/ dirt' = [dirt EXCEPT ![conn[c]] = {}]
    BY <1>12 DEF Reset, Answers, Worse
  <2>3. PromiseInv'
    BY <2>1 DEF SessionInv, PromiseInv
  <2>4. ConnInv'
    BY <2>1 DEF SessionInv, ConnInv, Target
  <2>5. ASSUME NEW k \in Calls, NEW d \in Calls, d \in dirt'[k]
        PROVE  conn'[d] = k /\ MayShow(d)'
    <3>1. d \in dirt[k]
      BY <2>2, <2>5
    <3>2. conn[d] = k /\ MayShow(d)
      BY <3>1 DEF SessionInv, DirtInv
    <3>3. CASE d # c
      BY <2>1, <3>2, <3>3 DEF MayShow
    <3>4. CASE d = c
      <4>1. ResetOption # "none" => result'[c] = "rejected" /\ c \in unreset'
        BY <2>2, <2>5, <3>2, <3>4
      <4>2. c \notin PerTest
        BY <2>1, <3>2, <3>4 DEF MayShow
      <4> QED BY <2>1, <3>2, <3>4, <4>1, <4>2 DEF MayShow
    <3> QED BY <3>3, <3>4
  <2> QED BY <2>3, <2>4, <2>5 DEF SessionInv, DirtInv
<1>13. ASSUME NEW c \in Calls, Dispose(c) PROVE SessionInv'
  <2>1. /\ UNCHANGED <<promise, conn, dirt, unreset>> /\ c \in Procs
        /\ \A q \in Procs : q # c => pc'[q] = pc[q] /\ result'[q] = result[q]
        /\ pc[c] = "disposing" /\ pc'[c] = "settled"
    BY <1>13 DEF Dispose, TypeOK, Procs
  <2> QED BY <2>1, SessionFrame
<1>14. ASSUME NEW k \in Closers, Close(k) PROVE SessionInv'
  <2>1. /\ UNCHANGED <<promise, conn, dirt, unreset>> /\ k \in Procs /\ k \notin Calls
        /\ \A q \in Procs : q # k => pc'[q] = pc[q] /\ result'[q] = result[q]
    BY <1>14 DEF Close, TypeOK, Procs
  <2> QED BY <2>1, SessionFrame DEF Shared
<1>15. ASSUME NEW k \in Closers, CloseAgain(k) PROVE SessionInv'
  <2>1. /\ UNCHANGED <<promise, conn, dirt, unreset>> /\ k \in Procs /\ k \notin Calls
        /\ \A q \in Procs : q # k => pc'[q] = pc[q] /\ result'[q] = result[q]
    BY <1>15 DEF CloseAgain, TypeOK, Procs
  <2> QED BY <2>1, SessionFrame DEF Shared
<1>16. ASSUME NEW k \in Closers, Drained(k) PROVE SessionInv'
  <2>1. /\ UNCHANGED <<promise, conn, dirt, unreset>> /\ k \in Procs /\ k \notin Calls
        /\ \A q \in Procs : q # k => pc'[q] = pc[q] /\ result'[q] = result[q]
    BY <1>16 DEF Drained, TypeOK, Procs
  <2> QED BY <2>1, SessionFrame DEF Shared
<1>17. ASSUME NEW k \in Closers, DisposeShared(k) PROVE SessionInv'
  <2>1. /\ UNCHANGED <<promise, conn, dirt, unreset>> /\ k \in Procs /\ k \notin Calls
        /\ \A q \in Procs : q # k => pc'[q] = pc[q] /\ result'[q] = result[q]
    BY <1>17 DEF DisposeShared, TypeOK, Procs
  <2> QED BY <2>1, SessionFrame DEF Shared
<1>18. CASE UNCHANGED vars
  BY <1>18 DEF vars, SessionInv, PromiseInv, ConnInv, DirtInv, MayShow, Target
<1> QED
  BY <1>1, <1>2, <1>3, <1>4, <1>5, <1>6, <1>7, <1>8, <1>9, <1>10, <1>11, <1>12,
     <1>13, <1>14, <1>15, <1>16, <1>17, <1>18 DEF Next, Issue, Continue, Stopped

\* What SessionInv says holds of every reachable state.
THEOREM SessionCorrect == Spec => []SessionInv
<1>1. Init => SessionInv
  BY DEF Init, SessionInv, PromiseInv, ConnInv, DirtInv, Procs, Shared, Scenario, Using
<1> QED
  BY <1>1, SessionStep, TypeCorrect, PTL DEF Spec

\* A shared scenario that resolves has left no write in any session, also when
\* the hooks of this and of other scenarios may reject.
THEOREM ResolvedLeavesNothing == Spec => []ResolvedMeansClean
<1>1. TypeOK /\ SessionInv => ResolvedMeansClean
  BY DEF TypeOK, SessionInv, DirtInv, MayShow, ResolvedMeansClean, Touching, Shared, Procs
<1> QED
  BY <1>1, SessionCorrect, TypeCorrect, PTL

\* Every callback works in a session that shows its own writes and those of
\* scenarios whose release or reset has rejected, and no other, whatever fails.
THEOREM Isolation == Spec => []ScenarioSeesOnlyItsOwnWrites
<1>1. ASSUME TypeOK, QueueInv, SessionInv, SharedScenariosNeverOverlap
      PROVE  ScenarioSeesOnlyItsOwnWrites
  <2> USE <1>1
  <2> SUFFICES ASSUME ResetOption # "none",
                      NEW c \in Calls, pc[c] = "running", NEW d \in dirt[conn[c]]
               PROVE  d = c \/ d \in unreset
    BY DEF ScenarioSeesOnlyItsOwnWrites
  <2> USE DEF TypeOK, Procs, Shared
  <2>1. conn[c] = Target(c) /\ conn[c] \in Calls
    <3>1. c \in Shared => promise # NoCall
      BY DEF SessionInv, PromiseInv, Scenario
    <3> QED BY <3>1 DEF SessionInv, ConnInv, Using, Target
  <2>2. d \in Calls /\ conn[d] = conn[c] /\ MayShow(d)
    BY <2>1 DEF SessionInv, DirtInv
  <2>3. c \in Shared <=> d \in Shared
    BY <2>1, <2>2 DEF SessionInv, ConnInv, Target
  <2>4. CASE c \in Shared /\ d \in Shared
    BY <2>2, <2>4 DEF MayShow, SharedScenariosNeverOverlap, Touching, Scenario
  <2>5. CASE c \in PerTest /\ d \in PerTest
    BY <2>1, <2>2, <2>5 DEF SessionInv, ConnInv
  <2> QED BY <2>2, <2>3, <2>4, <2>5
<1> QED
  BY <1>1, QueueCorrect, SessionCorrect, TypeCorrect, MutualExclusion, PTL

--------------------------------------------------------------------------------
(* close *)

\* A close that is under way waits for the last call there will ever be.
CloseInv ==
  /\ \A k \in Closers : pc[k] = "draining" => closed /\ awaits[k] = tail
  /\ \A k \in Closers : pc[k] = "awaiting" => closed /\ Settled(tail)
  /\ closed => Settled(tail) \/ \E k \in Closers : pc[k] = "draining"

\* The connection of a call that uses one is open; only a close that has seen
\* the queue drained disposes the shared one.
LinkInv ==
  /\ \A c \in PerTest : /\ pc[c] = "acquiring" => link[c] # "disposed"
                        /\ pc[c] \in Using => link[c] = "open"
  /\ \A c \in Shared : pc[c] \in Using => link[promise] \in {"open", "disposed"}
  /\ \A c \in Shared : link[c] = "disposed" => closed /\ Settled(tail)

\* A step that moves one call that has not settled, and neither opens nor closes
\* anything, keeps both.
LEMMA CloseFrame ==
  ASSUME TypeOK, CloseInv, LinkInv, UNCHANGED <<closed, tail, awaits, promise, link>>,
         NEW p \in Procs,
         \A q \in Procs : q # p => pc'[q] = pc[q],
         pc[p] # "settled", p \in Closers => pc[p] = "idle" /\ pc'[p] = "settled",
         pc'[p] # "acquiring",
         p \in Calls /\ pc'[p] \in Using =>
           \/ pc[p] \in Using
           \/ p \in PerTest /\ link[p] = "open"
           \/ p \in Shared /\ link[promise] \in {"open", "disposed"}
  PROVE  CloseInv' /\ LinkInv'
<1> USE DEF TypeOK, Procs, Shared
<1>1. Settled(tail) => Settled(tail)'
  BY DEF Settled
<1>2. CloseInv'
  BY <1>1 DEF CloseInv
<1>3. LinkInv'
  BY <1>1 DEF LinkInv
<1> QED BY <1>2, <1>3

\* CloseInv and LinkInv are inductive, given what the sessions do.
LEMMA CloseStep ==
  TypeOK /\ SessionInv /\ CloseInv /\ LinkInv /\ [Next]_vars => CloseInv' /\ LinkInv'
<1> SUFFICES ASSUME TypeOK, SessionInv, CloseInv, LinkInv, [Next]_vars
             PROVE  CloseInv' /\ LinkInv'
  OBVIOUS
<1> DEFINE Keeps(p) == /\ UNCHANGED <<closed, tail, awaits, promise, link>>
                       /\ \A q \in Procs : q # p => pc'[q] = pc[q]
<1> USE DEF Goto, Settle, queueVars, linkVars
<1>1. ASSUME NEW c \in Calls, Refuse(c) PROVE CloseInv' /\ LinkInv'
  <2>1. Keeps(c) /\ c \in Procs /\ c \notin Closers /\ pc[c] = "idle" /\ pc'[c] = "settled"
    BY <1>1 DEF Refuse, TypeOK, Procs
  <2> QED BY <2>1, CloseFrame DEF Using
<1>2. ASSUME NEW c \in Calls, CallPerTest(c) PROVE CloseInv' /\ LinkInv'
  <2> USE DEF TypeOK, Procs, Shared
  <2>1. /\ UNCHANGED <<closed, tail, awaits, promise>> /\ c \in PerTest
        /\ pc[c] = "idle" /\ pc' = [pc EXCEPT ![c] = "acquiring"]
        /\ link' = [link EXCEPT ![c] = "connecting"]
    BY <1>2 DEF CallPerTest
  <2>2. Settled(tail) => Settled(tail)'
    BY <2>1 DEF Settled
  <2>3. CloseInv'
    BY <2>1, <2>2 DEF CloseInv
  <2>4. \A d \in Shared : pc'[d] \in Using => link'[promise'] \in {"open", "disposed"}
    <3>1. \A d \in Shared : pc'[d] \in Using => pc[d] \in Using /\ promise # NoCall
      BY <2>1, SharedUse DEF SessionInv, Using
    <3> QED BY <2>1, <3>1 DEF LinkInv
  <2>5. \A d \in PerTest : /\ pc'[d] = "acquiring" => link'[d] # "disposed"
                           /\ pc'[d] \in Using => link'[d] = "open"
    BY <2>1 DEF LinkInv, Using
  <2>6. \A d \in Shared : link'[d] = "disposed" => closed' /\ Settled(tail)'
    BY <2>1, <2>2 DEF LinkInv
  <2> QED BY <2>3, <2>4, <2>5, <2>6 DEF LinkInv
<1>3. ASSUME NEW c \in Calls, CallShared(c) PROVE CloseInv' /\ LinkInv'
  <2> USE DEF TypeOK, Procs, Shared
  <2>1. /\ UNCHANGED <<closed, promise, link>> /\ c \in Shared /\ ~closed
        /\ pc[c] = "idle" /\ pc' = [pc EXCEPT ![c] = "queued"]
    BY <1>3 DEF CallShared
  <2>2. CloseInv'
    BY <2>1 DEF CloseInv
  <2>3. LinkInv'
    BY <2>1 DEF LinkInv, Using
  <2> QED BY <2>2, <2>3
<1>4. ASSUME NEW c \in Calls, StartScenario(c) PROVE CloseInv' /\ LinkInv'
  <2> USE DEF TypeOK, Procs, Shared
  <2>1. /\ UNCHANGED <<closed, tail, awaits>> /\ c \in Shared
        /\ pc[c] = "queued" /\ pc' = [pc EXCEPT ![c] = "acquiring"]
        /\ \/ promise = NoCall /\ promise' = c /\ link' = [link EXCEPT ![c] = "connecting"]
           \/ UNCHANGED <<promise, link>>
    BY <1>4 DEF StartScenario
  <2>2. Settled(tail) => Settled(tail)'
    BY <2>1 DEF Settled
  <2>3. CloseInv'
    BY <2>1, <2>2 DEF CloseInv
  <2>4. \A d \in Shared : pc'[d] \in Using => pc[d] \in Using /\ promise # NoCall
    BY <2>1, SharedUse DEF SessionInv, Using
  <2>5. \A d \in Shared : pc'[d] \in Using => link'[promise'] \in {"open", "disposed"}
    BY <2>1, <2>4 DEF LinkInv
  <2>6. \A d \in PerTest : /\ pc'[d] = "acquiring" => link'[d] # "disposed"
                           /\ pc'[d] \in Using => link'[d] = "open"
    BY <2>1 DEF LinkInv
  <2>7. \A d \in Shared : link'[d] = "disposed" => closed' /\ Settled(tail)'
    BY <2>1, <2>2 DEF LinkInv
  <2> QED BY <2>3, <2>5, <2>6, <2>7 DEF LinkInv
<1>5. ASSUME NEW c \in Calls, ConnectionAnswers(c) PROVE CloseInv' /\ LinkInv'
  <2> USE DEF TypeOK, Procs, Shared
  <2>1. /\ UNCHANGED <<closed, tail, awaits, promise, pc>> /\ link[c] = "connecting"
        /\ \E l \in {"open", "failed"} : link' = [link EXCEPT ![c] = l]
    BY <1>5 DEF ConnectionAnswers
  <2>2. CloseInv'
    BY <2>1 DEF CloseInv, Settled
  <2>3. \A d \in Shared : pc'[d] \in Using => link'[promise'] \in {"open", "disposed"}
    BY <2>1 DEF LinkInv
  <2>4. \A d \in PerTest : /\ pc'[d] = "acquiring" => link'[d] # "disposed"
                           /\ pc'[d] \in Using => link'[d] = "open"
    BY <2>1 DEF LinkInv
  <2>5. \A d \in Shared : link'[d] = "disposed" => closed' /\ Settled(tail)'
    BY <2>1 DEF LinkInv, Settled
  <2> QED BY <2>2, <2>3, <2>4, <2>5 DEF LinkInv
<1>6. ASSUME NEW c \in Calls, Acquire(c) PROVE CloseInv' /\ LinkInv'
  <2>1. Keeps(c) /\ c \in Procs /\ c \notin Closers /\ pc[c] = "acquiring"
        /\ \/ pc'[c] = "settled"
           \/ pc'[c] \in {"beginning", "making"} /\ link[Target(c)] \in {"open", "disposed"}
    BY <1>6 DEF Acquire, TypeOK, Procs
  <2>2. c \in PerTest => link[c] # "disposed"
    BY <2>1 DEF LinkInv
  <2> QED BY <2>1, <2>2, CloseFrame DEF Using, Target, Shared
<1>7. ASSUME NEW c \in Calls, Begin(c) PROVE CloseInv' /\ LinkInv'
  <2>1. Keeps(c) /\ c \in Procs /\ c \notin Closers /\ pc[c] = "beginning"
        /\ pc'[c] \in {"settled", "making"}
    BY <1>7 DEF Begin, TypeOK, Procs
  <2> QED BY <2>1, CloseFrame DEF Using
<1>8. ASSUME NEW c \in Calls, MakeResource(c) PROVE CloseInv' /\ LinkInv'
  <2>1. Keeps(c) /\ c \in Procs /\ c \notin Closers /\ pc[c] = "making"
        /\ pc'[c] \in {"running", "disposing", "resetting"}
    BY <1>8 DEF MakeResource, AfterRelease, TypeOK, Procs
  <2> QED BY <2>1, CloseFrame DEF Using
<1>9. ASSUME NEW c \in Calls, Write(c) PROVE CloseInv' /\ LinkInv'
  BY <1>9 DEF Write, CloseInv, LinkInv, Settled
<1>10. ASSUME NEW c \in Calls, Return(c) PROVE CloseInv' /\ LinkInv'
  <2>1. Keeps(c) /\ c \in Procs /\ c \notin Closers /\ pc[c] = "running" /\ pc'[c] = "releasing"
    BY <1>10 DEF Return, TypeOK, Procs
  <2> QED BY <2>1, CloseFrame DEF Using
<1>11. ASSUME NEW c \in Calls, Release(c) PROVE CloseInv' /\ LinkInv'
  <2>1. Keeps(c) /\ c \in Procs /\ c \notin Closers /\ pc[c] = "releasing"
        /\ pc'[c] \in {"settled", "disposing", "resetting"}
    BY <1>11 DEF Release, AfterRelease, TypeOK, Procs
  <2> QED BY <2>1, CloseFrame DEF Using
<1>12. ASSUME NEW c \in Calls, Reset(c) PROVE CloseInv' /\ LinkInv'
  <2>1. Keeps(c) /\ c \in Procs /\ c \notin Closers /\ pc[c] = "resetting" /\ pc'[c] = "settled"
    BY <1>12 DEF Reset, TypeOK, Procs
  <2> QED BY <2>1, CloseFrame DEF Using
<1>13. ASSUME NEW c \in Calls, Dispose(c) PROVE CloseInv' /\ LinkInv'
  <2> USE DEF TypeOK, Procs, Shared
  <2>1. /\ UNCHANGED <<closed, tail, awaits, promise>> /\ pc[c] = "disposing"
        /\ pc' = [pc EXCEPT ![c] = "settled"]
        /\ link' = [link EXCEPT ![conn[c]] = "disposed"]
    BY <1>13 DEF Dispose
  <2>2. c \in PerTest /\ conn[c] = c
    <3>1. c \notin Shared
      BY <2>1 DEF SessionInv, PromiseInv
    <3>2. pc[c] \in Using
      BY <2>1 DEF Using
    <3> QED BY <3>1, <3>2 DEF SessionInv, ConnInv, Target
  <2>3. Settled(tail) => Settled(tail)'
    BY <2>1 DEF Settled
  <2>4. CloseInv'
    BY <2>1, <2>3 DEF CloseInv
  <2>5. \A d \in Shared : pc'[d] \in Using => pc[d] \in Using /\ promise # NoCall
    BY <2>1, <2>2, SharedUse DEF SessionInv, Using
  <2>6. \A d \in Shared : pc'[d] \in Using => link'[promise'] \in {"open", "disposed"}
    BY <2>1, <2>2, <2>5 DEF LinkInv
  <2>7. \A d \in PerTest : /\ pc'[d] = "acquiring" => link'[d] # "disposed"
                           /\ pc'[d] \in Using => link'[d] = "open"
    BY <2>1, <2>2 DEF LinkInv, Using
  <2>8. \A d \in Shared : link'[d] = "disposed" => closed' /\ Settled(tail)'
    BY <2>1, <2>2, <2>3 DEF LinkInv
  <2> QED BY <2>4, <2>6, <2>7, <2>8 DEF LinkInv
<1>14. ASSUME NEW k \in Closers, Close(k) PROVE CloseInv' /\ LinkInv'
  <2> USE DEF TypeOK, Procs, Shared
  <2>1. /\ UNCHANGED <<tail, promise, link>> /\ ~closed /\ closed'
        /\ awaits' = [awaits EXCEPT ![k] = tail]
        /\ pc[k] = "idle" /\ pc' = [pc EXCEPT ![k] = "draining"]
    BY <1>14 DEF Close
  <2>2. CloseInv'
    BY <2>1 DEF CloseInv
  <2>3. LinkInv'
    BY <2>1 DEF LinkInv
  <2> QED BY <2>2, <2>3
<1>15. ASSUME NEW k \in Closers, CloseAgain(k) PROVE CloseInv' /\ LinkInv'
  <2>1. Keeps(k) /\ k \in Procs /\ k \notin Calls /\ pc[k] = "idle" /\ pc'[k] = "settled"
    BY <1>15 DEF CloseAgain, TypeOK, Procs
  <2> QED BY <2>1, CloseFrame
<1>16. ASSUME NEW k \in Closers, Drained(k) PROVE CloseInv' /\ LinkInv'
  <2> USE DEF TypeOK, Procs, Shared
  <2>1. /\ UNCHANGED <<closed, tail, awaits, promise, link>> /\ pc[k] = "draining"
        /\ Settled(awaits[k])
        /\ \E r \in {"settled", "awaiting"} : pc' = [pc EXCEPT ![k] = r]
    BY <1>16 DEF Drained
  <2>2. closed /\ Settled(tail) /\ Settled(tail)'
    BY <2>1 DEF CloseInv, Settled
  <2>3. CloseInv'
    BY <2>1, <2>2 DEF CloseInv
  <2>4. LinkInv'
    BY <2>1, <2>2 DEF LinkInv
  <2> QED BY <2>3, <2>4
<1>17. ASSUME NEW k \in Closers, DisposeShared(k) PROVE CloseInv' /\ LinkInv'
  <2> USE DEF TypeOK, Procs, Shared
  <2>1. /\ UNCHANGED <<closed, tail, awaits, promise>> /\ pc[k] = "awaiting"
        /\ pc' = [pc EXCEPT ![k] = "settled"]
        /\ link' = link \/ link' = [link EXCEPT ![promise] = "disposed"]
    BY <1>17 DEF DisposeShared
  <2>2. closed /\ Settled(tail) /\ Settled(tail)'
    BY <2>1 DEF CloseInv, Settled
  <2>3. CloseInv'
    BY <2>1, <2>2 DEF CloseInv
  <2>4. \A d \in Shared : pc'[d] \in Using => pc[d] \in Using /\ promise # NoCall
    BY <2>1, SharedUse DEF SessionInv, Using
  <2>5. \A d \in Shared : pc'[d] \in Using => link'[promise'] \in {"open", "disposed"}
    BY <2>1, <2>4 DEF LinkInv
  <2>6. \A d \in PerTest : /\ pc'[d] = "acquiring" => link'[d] # "disposed"
                           /\ pc'[d] \in Using => link'[d] = "open"
    BY <2>1 DEF LinkInv
  <2> QED BY <2>1, <2>2, <2>3, <2>5, <2>6 DEF LinkInv
<1>18. CASE UNCHANGED vars
  BY <1>18 DEF vars, CloseInv, LinkInv, Settled
<1> QED
  BY <1>1, <1>2, <1>3, <1>4, <1>5, <1>6, <1>7, <1>8, <1>9, <1>10, <1>11, <1>12,
     <1>13, <1>14, <1>15, <1>16, <1>17, <1>18 DEF Next, Issue, Continue, Stopped

\* CloseInv and LinkInv hold in every reachable state.
THEOREM CloseCorrect == Spec => [](CloseInv /\ LinkInv)
<1>1. Init => CloseInv /\ LinkInv
  BY DEF Init, CloseInv, LinkInv, Procs, Shared, Using, Settled
<1> QED
  BY <1>1, CloseStep, SessionCorrect, TypeCorrect, PTL DEF Spec

\* Once the last call has settled, so has every call before it.
LEMMA TailSettlesLast ==
  ASSUME TypeOK, QueueInv, Settled(tail), NEW c \in Shared
  PROVE  pc[c] \notin Scenario \cup {"queued"}
<1> SUFFICES ASSUME pc[c] \in Scenario \cup {"queued"} PROVE FALSE
  OBVIOUS
<1> USE DEF TypeOK
<1>1. PICK i \in 1..Len(order) : order[i] = c
  BY DEF QueueInv
<1>2. Len(order) \in 1..Len(order) /\ tail = order[Len(order)] /\ tail \in Shared
  BY <1>1 DEF QueueInv
<1>3. pc[order[Len(order)]] = "settled"
  BY <1>2 DEF Settled, Shared, Procs
<1>4. pc[c] = "settled"
  <2>1. CASE i = Len(order)
    BY <2>1, <1>1, <1>3
  <2>2. CASE i < Len(order)
    BY <2>2, <1>1, <1>2, <1>3 DEF QueueInv
  <2> QED BY <2>1, <2>2, <1>1
<1> QED BY <1>4 DEF Scenario

\* No call uses a connection that has been disposed: close waits for the whole
\* queue, and a perTest call disposes nothing but its own connection.
THEOREM NoUseAfterDisposal == Spec => []NoUseAfterDispose
<1>1. ASSUME TypeOK, QueueInv, SessionInv, LinkInv PROVE NoUseAfterDispose
  <2> SUFFICES ASSUME NEW c \in Calls, pc[c] \in Using PROVE link[conn[c]] = "open"
    BY DEF NoUseAfterDispose
  <2>1. conn[c] = Target(c)
    BY <1>1 DEF SessionInv, ConnInv
  <2>2. CASE c \in PerTest
    BY <1>1, <2>1, <2>2 DEF LinkInv, Target
  <2>3. CASE c \in Shared
    <3>1. pc[c] \in Scenario
      BY <1>1, <2>3, SharedUse DEF SessionInv
    <3>2. promise \in Shared /\ link[promise] \in {"open", "disposed"}
      BY <1>1, <2>3, <3>1 DEF SessionInv, PromiseInv, LinkInv, TypeOK
    <3>3. link[promise] # "disposed"
      BY <1>1, <2>3, <3>1, <3>2, TailSettlesLast DEF LinkInv
    <3> QED BY <2>1, <2>3, <3>2, <3>3 DEF Target, Shared
  <2> QED BY <2>2, <2>3 DEF Shared
<1> QED
  BY <1>1, QueueCorrect, SessionCorrect, CloseCorrect, TypeCorrect, PTL

\* When close() has finished, the shared queue is empty for good.
THEOREM CloseLeavesNothingQueued == Spec => []CloseDrainsTheQueue
<1>1. ASSUME TypeOK, QueueInv, SessionInv, CloseInv PROVE CloseDrainsTheQueue
  <2> SUFFICES ASSUME CloseFinished, NEW c \in Shared PROVE pc[c] \in {"idle", "settled"}
    BY DEF CloseDrainsTheQueue
  <2>1. Settled(tail)
    BY <1>1 DEF CloseFinished, CloseInv
  <2>2. pc[c] \notin Scenario \cup {"queued", "disposing", "draining", "awaiting"}
    <3>1. pc[c] \notin Scenario \cup {"queued"}
      BY <1>1, <2>1, TailSettlesLast
    <3>2. pc[c] \notin {"disposing", "draining", "awaiting"}
      BY <1>1 DEF SessionInv, PromiseInv
    <3> QED BY <3>1, <3>2
  <2> QED BY <1>1, <2>2 DEF TypeOK, Shared, Procs
<1> QED
  BY <1>1, QueueCorrect, SessionCorrect, CloseCorrect, TypeCorrect, PTL

--------------------------------------------------------------------------------
(* The connections *)

\* A perTest call under way, where it may stand and what it has done so far.
PerTestInv ==
  \A c \in PerTest :
    /\ pc[c] \notin {"queued", "beginning", "resetting", "draining", "awaiting"}
    /\ pc[c] = "idle" => link[c] = "none"
    /\ pc[c] = "settled" => link[c] \in {"none", "failed", "disposed"}
    /\ disposals[c] = 0 \/ (disposals[c] = 1 /\ pc[c] = "settled")

Closing == {k \in Closers : pc[k] \in {"draining", "awaiting"}}

\* The shared path makes the connection of the promise and no other; one close
\* disposes it, once.
SharedLinkInv ==
  /\ \A c \in Shared : link[c] # "none" => c = promise
  /\ \A c \in Shared : disposals[c] = 0 \/ (disposals[c] = 1 /\ closed /\ Closing = {})
  /\ \A j, k \in Closing : j = k
  /\ \A k \in Closers : pc[k] = "awaiting" => promise # NoCall
  /\ closed /\ Closing = {} => \A c \in Shared : link[c] \notin {"connecting", "open"}

\* A step that moves one call and leaves all connections alone keeps both.
LEMMA AccountFrame ==
  ASSUME TypeOK, PerTestInv, SharedLinkInv, UNCHANGED <<closed, promise, link, disposals>>,
         NEW p \in Procs,
         \A q \in Procs : q # p => pc'[q] = pc[q],
         p \in Closers => pc[p] = "idle" /\ pc'[p] = "settled",
         p \in PerTest =>
           /\ pc[p] # "settled"
           /\ pc'[p] \notin {"idle", "queued", "beginning", "resetting", "draining", "awaiting"}
           /\ pc'[p] = "settled" => link[p] \in {"none", "failed", "disposed"}
  PROVE  PerTestInv' /\ SharedLinkInv'
<1> USE DEF TypeOK, Procs, Shared
<1>1. PerTestInv'
  BY DEF PerTestInv
<1>2. Closing' = Closing
  BY DEF Closing
<1>3. \A k \in Closers : pc'[k] = "awaiting" => pc[k] = "awaiting"
  OBVIOUS
<1>4. SharedLinkInv'
  <2>1. /\ \A c \in Shared : link'[c] # "none" => c = promise'
        /\ \A c \in Shared : disposals'[c] = 0 \/ (disposals'[c] = 1 /\ closed' /\ Closing' = {})
    BY <1>2, Zenon DEF SharedLinkInv
  <2>2. /\ \A j, k \in Closing' : j = k
        /\ \A k \in Closers : pc'[k] = "awaiting" => promise' # NoCall
    BY <1>2, <1>3, Zenon DEF SharedLinkInv
  <2>3. closed' /\ Closing' = {} => \A c \in Shared : link'[c] \notin {"connecting", "open"}
    BY <1>2, Zenon DEF SharedLinkInv
  <2> QED BY <2>1, <2>2, <2>3, Zenon DEF SharedLinkInv
<1> QED BY <1>1, <1>4

\* Both are inductive, given the queue, the sessions and the closes.
LEMMA AccountStep ==
  /\ TypeOK /\ QueueInv /\ SessionInv /\ CloseInv /\ PerTestInv /\ SharedLinkInv
  /\ [Next]_vars
  => PerTestInv' /\ SharedLinkInv'
<1> SUFFICES ASSUME TypeOK, QueueInv, SessionInv, CloseInv, PerTestInv, SharedLinkInv,
                    [Next]_vars
             PROVE  PerTestInv' /\ SharedLinkInv'
  OBVIOUS
<1> DEFINE Keeps(p) == /\ UNCHANGED <<closed, promise, link, disposals>>
                       /\ \A q \in Procs : q # p => pc'[q] = pc[q]
<1> USE DEF Goto, Settle, queueVars, linkVars
<1>1. ASSUME NEW c \in Calls, Refuse(c) PROVE PerTestInv' /\ SharedLinkInv'
  <2>1. Keeps(c) /\ c \in Procs /\ c \notin Closers /\ pc[c] = "idle" /\ pc'[c] = "settled"
    BY <1>1 DEF Refuse, TypeOK, Procs
  <2>2. c \in PerTest => link[c] = "none"
    BY <2>1 DEF PerTestInv
  <2> QED BY <2>1, <2>2, AccountFrame
<1>2. ASSUME NEW c \in Calls, CallPerTest(c) PROVE PerTestInv' /\ SharedLinkInv'
  <2> USE DEF TypeOK, Procs, Shared
  <2>1. /\ UNCHANGED <<closed, promise, disposals>> /\ c \in PerTest
        /\ pc[c] = "idle" /\ pc' = [pc EXCEPT ![c] = "acquiring"]
        /\ link' = [link EXCEPT ![c] = "connecting"]
    BY <1>2 DEF CallPerTest
  <2>2. PerTestInv'
    BY <2>1 DEF PerTestInv
  <2>3. Closing' = Closing
    BY <2>1 DEF Closing
  <2>4. SharedLinkInv'
    BY <2>1, <2>3 DEF SharedLinkInv
  <2> QED BY <2>2, <2>4
<1>3. ASSUME NEW c \in Calls, CallShared(c) PROVE PerTestInv' /\ SharedLinkInv'
  <2>1. Keeps(c) /\ c \in Procs /\ c \notin Closers /\ c \notin PerTest
    BY <1>3 DEF CallShared, TypeOK, Procs, Shared
  <2> QED BY <2>1, AccountFrame
<1>4. ASSUME NEW c \in Calls, StartScenario(c) PROVE PerTestInv' /\ SharedLinkInv'
  <2> USE DEF TypeOK, Procs, Shared
  <2>1. /\ UNCHANGED <<closed, disposals>> /\ c \in Shared
        /\ pc[c] = "queued" /\ pc' = [pc EXCEPT ![c] = "acquiring"]
        /\ \/ promise = NoCall /\ promise' = c /\ link' = [link EXCEPT ![c] = "connecting"]
           \/ UNCHANGED <<promise, link>>
    BY <1>4 DEF StartScenario
  <2>2. PerTestInv'
    BY <2>1 DEF PerTestInv
  <2>3. Closing' = Closing
    BY <2>1 DEF Closing
  <2>4. ~(closed /\ Closing = {})
    <3>1. ~Settled(tail)
      BY <2>1, TailSettlesLast
    <3> QED BY <3>1 DEF CloseInv, Closing
  <2>5. SharedLinkInv'
    BY <2>1, <2>3, <2>4 DEF SharedLinkInv
  <2> QED BY <2>2, <2>5
<1>5. ASSUME NEW c \in Calls, ConnectionAnswers(c) PROVE PerTestInv' /\ SharedLinkInv'
  <2> USE DEF TypeOK, Procs, Shared
  <2>1. /\ UNCHANGED <<closed, promise, pc, disposals>> /\ link[c] = "connecting"
        /\ \E l \in {"open", "failed"} : link' = [link EXCEPT ![c] = l]
    BY <1>5 DEF ConnectionAnswers
  <2>2. PerTestInv'
    BY <2>1 DEF PerTestInv
  <2>3. Closing' = Closing
    BY <2>1 DEF Closing
  <2>4. SharedLinkInv'
    BY <2>1, <2>3 DEF SharedLinkInv
  <2> QED BY <2>2, <2>4
<1>6. ASSUME NEW c \in Calls, Acquire(c) PROVE PerTestInv' /\ SharedLinkInv'
  <2>1. Keeps(c) /\ c \in Procs /\ c \notin Closers /\ pc[c] = "acquiring"
        /\ \/ pc'[c] = "settled" /\ link[Target(c)] = "failed"
           \/ pc'[c] = "making"
           \/ pc'[c] = "beginning" /\ c \notin PerTest
    BY <1>6 DEF Acquire, TypeOK, Procs, Shared
  <2> QED BY <2>1, AccountFrame DEF Target
<1>7. ASSUME NEW c \in Calls, Begin(c) PROVE PerTestInv' /\ SharedLinkInv'
  <2>1. Keeps(c) /\ c \in Procs /\ c \notin Closers /\ pc[c] = "beginning"
    BY <1>7 DEF Begin, TypeOK, Procs
  <2>2. c \notin PerTest
    BY <2>1 DEF PerTestInv
  <2> QED BY <2>1, <2>2, AccountFrame
<1>8. ASSUME NEW c \in Calls, MakeResource(c) PROVE PerTestInv' /\ SharedLinkInv'
  <2>1. Keeps(c) /\ c \in Procs /\ c \notin Closers /\ pc[c] = "making"
        /\ (c \in PerTest => pc'[c] \in {"running", "disposing"})
    BY <1>8 DEF MakeResource, AfterRelease, TypeOK, Procs
  <2> QED BY <2>1, AccountFrame
<1>9. ASSUME NEW c \in Calls, Write(c) PROVE PerTestInv' /\ SharedLinkInv'
  BY <1>9 DEF Write, PerTestInv, SharedLinkInv, Closing
<1>10. ASSUME NEW c \in Calls, Return(c) PROVE PerTestInv' /\ SharedLinkInv'
  <2>1. Keeps(c) /\ c \in Procs /\ c \notin Closers /\ pc[c] = "running" /\ pc'[c] = "releasing"
    BY <1>10 DEF Return, TypeOK, Procs
  <2> QED BY <2>1, AccountFrame
<1>11. ASSUME NEW c \in Calls, Release(c) PROVE PerTestInv' /\ SharedLinkInv'
  <2>1. Keeps(c) /\ c \in Procs /\ c \notin Closers /\ pc[c] = "releasing"
        /\ (c \in PerTest => pc'[c] = "disposing")
    BY <1>11 DEF Release, AfterRelease, TypeOK, Procs, Shared
  <2> QED BY <2>1, AccountFrame
<1>12. ASSUME NEW c \in Calls, Reset(c) PROVE PerTestInv' /\ SharedLinkInv'
  <2>1. Keeps(c) /\ c \in Procs /\ c \notin Closers /\ pc[c] = "resetting"
    BY <1>12 DEF Reset, TypeOK, Procs
  <2>2. c \notin PerTest
    BY <2>1 DEF PerTestInv
  <2> QED BY <2>1, <2>2, AccountFrame
<1>13. ASSUME NEW c \in Calls, Dispose(c) PROVE PerTestInv' /\ SharedLinkInv'
  <2> USE DEF TypeOK, Procs, Shared
  <2>1. /\ UNCHANGED <<closed, promise>> /\ pc[c] = "disposing"
        /\ pc' = [pc EXCEPT ![c] = "settled"]
        /\ link' = [link EXCEPT ![conn[c]] = "disposed"]
        /\ disposals' = [disposals EXCEPT ![conn[c]] = @ + 1]
    BY <1>13 DEF Dispose
  <2>2. c \in PerTest /\ conn[c] = c
    <3>1. c \notin Shared
      BY <2>1 DEF SessionInv, PromiseInv
    <3>2. pc[c] \in Using
      BY <2>1 DEF Using
    <3> QED BY <3>1, <3>2 DEF SessionInv, ConnInv, Target
  <2>3. PerTestInv'
    BY <2>1, <2>2 DEF PerTestInv
  <2>4. Closing' = Closing
    BY <2>1 DEF Closing
  <2>5. SharedLinkInv'
    BY <2>1, <2>2, <2>4 DEF SharedLinkInv
  <2> QED BY <2>3, <2>5
<1>14. ASSUME NEW k \in Closers, Close(k) PROVE PerTestInv' /\ SharedLinkInv'
  <2> USE DEF TypeOK, Procs, Shared
  <2>1. /\ UNCHANGED <<promise, link, disposals>> /\ ~closed /\ closed'
        /\ pc[k] = "idle" /\ pc' = [pc EXCEPT ![k] = "draining"]
    BY <1>14 DEF Close
  <2>2. Closing = {} /\ Closing' = {k}
    BY <2>1 DEF Closing, CloseInv
  <2>3. PerTestInv'
    BY <2>1 DEF PerTestInv
  <2>4. SharedLinkInv'
    BY <2>1, <2>2 DEF SharedLinkInv
  <2> QED BY <2>3, <2>4
<1>15. ASSUME NEW k \in Closers, CloseAgain(k) PROVE PerTestInv' /\ SharedLinkInv'
  <2>1. Keeps(k) /\ k \in Procs /\ k \notin Calls /\ pc[k] = "idle" /\ pc'[k] = "settled"
    BY <1>15 DEF CloseAgain, TypeOK, Procs
  <2> QED BY <2>1, AccountFrame
<1>16. ASSUME NEW k \in Closers, Drained(k) PROVE PerTestInv' /\ SharedLinkInv'
  <2> USE DEF TypeOK, Procs, Shared
  <2>1. /\ UNCHANGED <<closed, promise, link, disposals>> /\ pc[k] = "draining"
        /\ \/ promise = NoCall /\ pc' = [pc EXCEPT ![k] = "settled"]
           \/ promise # NoCall /\ pc' = [pc EXCEPT ![k] = "awaiting"]
    BY <1>16 DEF Drained
  <2>2. PerTestInv'
    BY <2>1 DEF PerTestInv
  <2>3. k \in Closing /\ Closing' \subseteq Closing
    BY <2>1 DEF Closing
  <2>4. promise = NoCall => \A c \in Shared : link[c] = "none"
    BY DEF SharedLinkInv
  <2>5. promise # NoCall => k \in Closing'
    BY <2>1 DEF Closing
  <2>6. SharedLinkInv'
    BY <2>1, <2>3, <2>4, <2>5 DEF SharedLinkInv
  <2> QED BY <2>2, <2>6
<1>17. ASSUME NEW k \in Closers, DisposeShared(k) PROVE PerTestInv' /\ SharedLinkInv'
  <2> USE DEF TypeOK, Procs, Shared
  <2>1. /\ UNCHANGED <<closed, promise>> /\ pc[k] = "awaiting"
        /\ pc' = [pc EXCEPT ![k] = "settled"]
        /\ \/ link[promise] = "failed" /\ UNCHANGED <<link, disposals>>
           \/ /\ link' = [link EXCEPT ![promise] = "disposed"]
              /\ disposals' = [disposals EXCEPT ![promise] = @ + 1]
    BY <1>17 DEF DisposeShared
  <2>2. promise \in Shared /\ closed
    BY <2>1 DEF SharedLinkInv, CloseInv
  <2>3. k \in Closing /\ Closing = {k} /\ Closing' = {}
    <3>1. k \in Closing
      BY <2>1 DEF Closing
    <3>2. Closing = {k}
      BY <3>1 DEF SharedLinkInv
    <3> QED BY <2>1, <3>1, <3>2 DEF Closing
  <2>4. \A c \in Shared : disposals[c] = 0
    BY <2>3 DEF SharedLinkInv
  <2>5. PerTestInv'
    BY <2>1, <2>2 DEF PerTestInv
  <2>6. \A c \in Shared : link'[c] \notin {"connecting", "open"}
    <3>1. \A c \in Shared : c # promise => link[c] = "none" /\ link'[c] = link[c]
      BY <2>1, <2>2 DEF SharedLinkInv
    <3>2. link'[promise] \in {"failed", "disposed"}
      BY <2>1, <2>2
    <3> QED BY ONLY <3>1, <3>2
  <2>7. \A c \in Shared : disposals'[c] \in {0, 1}
    BY <2>1, <2>2, <2>4
  <2>8. \A c \in Shared : link'[c] # "none" => c = promise
    BY <2>1, <2>2 DEF SharedLinkInv
  <2>9. \A j \in Closers : pc'[j] = "awaiting" => promise' # NoCall
    BY <2>1 DEF SharedLinkInv
  <2>10. closed' /\ promise' = promise
    BY <2>1, <2>2
  <2>11. SharedLinkInv'
    BY ONLY <2>3, <2>6, <2>7, <2>8, <2>9, <2>10 DEF SharedLinkInv
  <2> QED BY <2>5, <2>11
<1>18. CASE UNCHANGED vars
  BY <1>18 DEF vars, PerTestInv, SharedLinkInv, Closing
<1> QED
  BY <1>1, <1>2, <1>3, <1>4, <1>5, <1>6, <1>7, <1>8, <1>9, <1>10, <1>11, <1>12,
     <1>13, <1>14, <1>15, <1>16, <1>17, <1>18 DEF Next, Issue, Continue, Stopped

\* PerTestInv and SharedLinkInv hold in every reachable state.
THEOREM AccountCorrect == Spec => [](PerTestInv /\ SharedLinkInv)
<1>1. Init => PerTestInv /\ SharedLinkInv
  <2> SUFFICES ASSUME Init PROVE PerTestInv /\ SharedLinkInv
    OBVIOUS
  <2>1. PerTestInv
    <3> SUFFICES ASSUME NEW c \in PerTest
                 PROVE  pc[c] = "idle" /\ link[c] = "none" /\ disposals[c] = 0
      BY DEF PerTestInv
    <3>1. c \in Calls /\ c \in Procs
      BY DEF Procs
    <3> QED BY <3>1 DEF Init
  <2>2. Closing = {}
    BY DEF Init, Closing, Procs
  <2>3. SharedLinkInv
    <3>1. \A c \in Shared : link[c] = "none" /\ disposals[c] = 0
      BY DEF Init, Shared
    <3>2. \A k \in Closers : pc[k] = "idle"
      BY DEF Init, Procs
    <3> QED BY <2>2, <3>1, <3>2 DEF SharedLinkInv
  <2> QED BY <2>1, <2>3
<1> QED
  BY <1>1, AccountStep, QueueCorrect, SessionCorrect, CloseCorrect, TypeCorrect, PTL DEF Spec

\* However many shared scenarios run, connectionFactory is called for one of them.
THEOREM SharedConnectionIsMadeOnce == Spec => []OneSharedConnection
<1>1. ASSUME SharedLinkInv PROVE OneSharedConnection
  <2> DEFINE M == {c \in Shared : link[c] # "none"}
  <2>1. M \subseteq {promise}
    BY <1>1 DEF SharedLinkInv
  <2>2. IsFiniteSet({promise}) /\ Cardinality({promise}) = 1
    BY FS_Singleton
  <2>3. Cardinality(M) <= 1
    BY <2>1, <2>2, FS_Subset
  <2> QED BY <2>3 DEF OneSharedConnection
<1> QED BY <1>1, AccountCorrect, PTL

\* Every connection is disposed at most once, a perTest one by the time its call
\* settles, the shared one by the time close() has finished.
THEOREM NothingIsLeftOpen == Spec => []ConnectionsAccountedFor
<1>1. ASSUME PerTestInv, SharedLinkInv PROVE ConnectionsAccountedFor
  <2>1. \A c \in Calls : disposals[c] <= 1
    BY <1>1 DEF PerTestInv, SharedLinkInv, Shared
  <2>2. \A c \in PerTest : pc[c] = "settled" => link[c] \notin {"connecting", "open"}
    BY <1>1 DEF PerTestInv
  <2>3. CloseFinished => \A c \in Shared : link[c] \notin {"connecting", "open"}
    BY <1>1 DEF SharedLinkInv, CloseFinished, Closing
  <2> QED BY <2>1, <2>2, <2>3 DEF ConnectionsAccountedFor
<1> QED BY <1>1, AccountCorrect, PTL

--------------------------------------------------------------------------------
(* Calls that wait for each other                                          *)

\* Every set of natural numbers but the empty one has a least element.
LEMMA LeastNat ==
  ASSUME NEW T \in SUBSET Nat, T # {}
  PROVE  \E x \in T : \A y \in T : x <= y
<1>1. PICK x \in T : \A y \in T : <<y, x>> \notin OpToRel(<, Nat)
  BY NatLessThanWellFounded, WFMin, Zenon
<1>2. ASSUME NEW y \in T, y < x PROVE FALSE
  <2>1. <<y, x>> \in {ss \in Nat \X Nat : ss[1] < ss[2]}
    BY <1>2
  <2>2. <<y, x>> \in OpToRel(<, Nat)
    BY <2>1, Zenon DEF OpToRel
  <2> QED BY <2>2, <1>1
<1> QED BY <1>2

Made == {p \in Procs : pc[p] # "idle"}

\* A call is made inside its parent's callback, so the parent was made before.
CallerInv == \A p \in Made : Parent[p] # NoCall => Parent[p] \in Made

\* Calls nest: any set of calls that were made has an innermost one.
NestingInv ==
  \A S \in SUBSET Made : S # {} => \E p \in S : \A q \in S : Parent[q] # p

\* A call that moves has been made.
LEMMA MadeGoto ==
  ASSUME TypeOK, NEW p \in Procs, NEW to, to # "idle", pc' = [pc EXCEPT ![p] = to]
  PROVE  Made' = Made \cup {p}
  BY DEF TypeOK, Made

\* A step adds at most one call to those that were made, a call whose caller runs.
LEMMA MadeStep ==
  ASSUME TypeOK, [Next]_vars
  PROVE  \/ Made' = Made
         \/ \E p \in Procs : p \notin Made /\ CallerRuns(p) /\ Made' = Made \cup {p}
<1> DEFINE Moves(p) == \E to : to # "idle" /\ pc' = [pc EXCEPT ![p] = to]
<1> USE DEF Goto, Settle
<1>1. ASSUME NEW p \in Procs, Issue(p)
      PROVE  pc[p] = "idle" /\ CallerRuns(p) /\ Moves(p)
  <2>1. CASE Refuse(p) \/ CloseAgain(p)
    BY <2>1 DEF Refuse, CloseAgain
  <2>2. CASE CallPerTest(p) \/ CallShared(p) \/ Close(p)
    BY <2>2 DEF CallPerTest, CallShared, Close
  <2> QED BY <1>1, <2>1, <2>2 DEF Issue
<1>2. ASSUME NEW p \in Procs, Continue(p) PROVE pc[p] # "idle" /\ Moves(p)
  <2>1. CASE StartScenario(p) \/ Acquire(p)
    BY <2>1 DEF StartScenario, Acquire
  <2>2. CASE Begin(p) \/ Return(p)
    BY <2>2 DEF Begin, Return
  <2>3. CASE MakeResource(p) \/ Release(p)
    <3>1. AfterRelease(p) # "idle"
      BY DEF AfterRelease
    <3> QED BY <2>3, <3>1 DEF MakeResource, Release
  <2>4. CASE Reset(p) \/ Dispose(p)
    BY <2>4 DEF Reset, Dispose
  <2>5. CASE Drained(p) \/ DisposeShared(p)
    BY <2>5 DEF Drained, DisposeShared
  <2> QED BY <1>2, <2>1, <2>2, <2>3, <2>4, <2>5 DEF Continue
<1>3. ASSUME NEW p \in Procs, Moves(p) PROVE Made' = Made \cup {p}
  BY <1>3, MadeGoto
<1>4. ASSUME UNCHANGED pc PROVE Made' = Made
  BY <1>4 DEF Made
<1>5. \/ \E p \in Procs : Issue(p) \/ Continue(p)
      \/ UNCHANGED pc
  BY DEF Next, Write, ConnectionAnswers, Stopped, vars
<1> HIDE DEF Moves
<1> QED BY <1>1, <1>2, <1>3, <1>4, <1>5 DEF Made

\* Both are inductive: a new call's caller runs, and the call has made none yet.
LEMMA NestingStep ==
  ASSUME TypeOK, CallerInv, NestingInv, [Next]_vars
  PROVE  CallerInv' /\ NestingInv'
<1>1. CASE Made' = Made
  BY <1>1 DEF CallerInv, NestingInv
<1>2. ASSUME NEW p \in Procs, p \notin Made, CallerRuns(p), Made' = Made \cup {p}
      PROVE  CallerInv' /\ NestingInv'
  <2>1. Parent[p] # NoCall => Parent[p] \in Made
    BY <1>2 DEF CallerRuns, Made, Procs
  <2>2. CallerInv'
    BY <1>2, <2>1 DEF CallerInv
  <2>3. ASSUME NEW S \in SUBSET Made', S # {}
        PROVE  \E e \in S : \A d \in S : Parent[d] # e
    <3>1. CASE p \in S
      <4>1. ASSUME NEW d \in S PROVE Parent[d] # p
        <5>1. p # NoCall
          OBVIOUS
        <5>2. CASE d = p
          BY <5>1, <5>2, <1>2, <2>1
        <5>3. CASE d \in Made
          BY <5>1, <5>3, <1>2 DEF CallerInv
        <5> QED BY <5>2, <5>3, <1>2
      <4> QED BY <3>1, <4>1
    <3>2. CASE p \notin S
      BY <1>2, <2>3, <3>2 DEF NestingInv
    <3> QED BY <3>1, <3>2
  <2> QED BY <2>2, <2>3 DEF NestingInv
<1> QED BY <1>1, <1>2, MadeStep

\* The pc values of a call of close.
CloserInv == \A k \in Closers : pc[k] \in {"idle", "draining", "awaiting", "settled"}

LEMMA CloserStep == TypeOK /\ CloserInv /\ [Next]_vars => CloserInv'
<1> SUFFICES ASSUME TypeOK, CloserInv, [Next]_vars PROVE CloserInv'
  OBVIOUS
<1> DEFINE Moves(p) == \E to : pc' = [pc EXCEPT ![p] = to]
<1>1. ASSUME NEW c \in Calls, Issue(c) \/ Continue(c) PROVE CloserInv'
  <2>1. c \notin Closers
    OBVIOUS
  <2>2. Moves(c)
    <3> USE DEF Goto, Settle
    <3>1. CASE Refuse(c) \/ CallPerTest(c) \/ CallShared(c)
      BY <3>1 DEF Refuse, CallPerTest, CallShared
    <3>2. CASE StartScenario(c) \/ Acquire(c)
      BY <3>2 DEF StartScenario, Acquire
    <3>3. CASE Begin(c) \/ Return(c)
      BY <3>3 DEF Begin, Return
    <3>4. CASE MakeResource(c) \/ Release(c)
      BY <3>4 DEF MakeResource, Release
    <3>5. CASE Reset(c) \/ Dispose(c)
      BY <3>5 DEF Reset, Dispose
    <3> QED BY <1>1, <2>1, <3>1, <3>2, <3>3, <3>4, <3>5 DEF Issue, Continue
  <2> QED BY <2>1, <2>2 DEF TypeOK, CloserInv
<1>2. ASSUME NEW k \in Closers, Issue(k) \/ Continue(k) PROVE CloserInv'
  <2>1. k \notin Calls
    OBVIOUS
  <2>2. \E to \in {"draining", "awaiting", "settled"} : pc' = [pc EXCEPT ![k] = to]
    BY <1>2, <2>1 DEF Issue, Continue, Close, CloseAgain, Drained, DisposeShared, Goto, Settle
  <2> QED BY <2>2 DEF TypeOK, CloserInv
<1>3. CASE UNCHANGED pc
  BY <1>3 DEF CloserInv
<1> QED BY <1>1, <1>2, <1>3 DEF Next, Procs, Write, ConnectionAnswers, Stopped, vars

LEMMA NestingCorrect == Spec => [](CallerInv /\ NestingInv /\ CloserInv)
<1>1. Init => CallerInv /\ NestingInv /\ CloserInv
  BY DEF Init, CallerInv, NestingInv, CloserInv, Made, Procs
<1>2. /\ TypeOK /\ CallerInv /\ NestingInv /\ CloserInv /\ [Next]_vars
      => CallerInv' /\ NestingInv' /\ CloserInv'
  BY NestingStep, CloserStep
<1> QED
  BY <1>1, <1>2, TypeCorrect, PTL DEF Spec

\* When every call waits, an innermost one of any set of them that is closed
\* under awaiting waits for the queue.
LEMMA InnermostQueues ==
  ASSUME EveryCallWaits, NestingInv, NEW S \in SUBSET Live, S # {},
         \A p \in S : LiveChildren(p) \subseteq S
  PROVE  \E q \in S : pc[q] \in {"queued", "draining"} /\ ~Settled(awaits[q])
<1>1. S \in SUBSET Made
  BY DEF Live, Made
<1>2. PICK q \in S : \A r \in S : Parent[r] # q
  BY <1>1 DEF NestingInv
<1>3. LiveChildren(q) = {}
  BY <1>2 DEF LiveChildren
<1> QED BY <1>3 DEF EveryCallWaits, Waits

\* Of the shared calls that have not settled, the first in the queue waits for
\* nobody: the call before it has settled.
LEMMA HeadOfTheQueue ==
  ASSUME TypeOK, QueueInv, NEW i \in 1..Len(order), pc[order[i]] # "settled"
  PROVE  \E c \in Shared : c \in Live /\ Settled(awaits[c])
<1> DEFINE T == {j \in 1..Len(order) : pc[order[j]] # "settled"}
<1>1. T \in SUBSET Nat /\ T # {}
  OBVIOUS
<1>2. PICK h \in T : \A j \in T : h <= j
  <2> HIDE DEF T
  <2> QED BY <1>1, LeastNat
<1>3. h \in 1..Len(order) /\ order[h] \in Shared
  BY DEF TypeOK
<1>4. order[h] \in Live
  BY <1>3 DEF QueueInv, Live, Shared, Procs
<1>5. Settled(awaits[order[h]])
  <2>1. CASE h = 1
    BY <1>3, <2>1 DEF QueueInv, Settled
  <2>2. CASE h # 1
    <3>1. h - 1 \in 1..Len(order) /\ h - 1 \notin T
      BY <1>2, <1>3, <2>2
    <3>2. awaits[order[h]] = order[h - 1]
      BY <1>3, <2>2 DEF QueueInv
    <3> QED BY <3>1, <3>2 DEF Settled
  <2> QED BY <2>1, <2>2
<1> QED BY <1>3, <1>4, <1>5

\* The provider can only stop at a running shared scenario whose callback
\* awaits, at whatever depth, a call that waits for the queue: no failing hook,
\* order of calls or close stops it, for any nesting of callbacks.
THEOREM ReentrancyIsTheOnlyDeadlock == Spec => []StuckOnlyByReentrancy
<1>1. ASSUME TypeOK, QueueInv, SessionInv, CloseInv, PerTestInv, NestingInv, CloserInv
      PROVE  StuckOnlyByReentrancy
  <2> SUFFICES ASSUME EveryCallWaits
               PROVE  \E c \in Shared, p \in Procs :
                        pc[c] = "running" /\ Awaits(c, p) /\ pc[p] \in {"queued", "draining"}
    BY DEF StuckOnlyByReentrancy
  <2>l. Live \subseteq Procs /\ \A p \in Live : LiveChildren(p) \subseteq Live
    BY DEF Live, LiveChildren
  <2>1. PICK q \in Live : pc[q] \in {"queued", "draining"} /\ ~Settled(awaits[q])
    <3>1. Live # {}
      BY DEF EveryCallWaits
    <3> QED BY <1>1, <2>l, <3>1, InnermostQueues
  <2>2. \E i \in 1..Len(order) : pc[order[i]] # "settled"
    <3>1. \E i \in 1..Len(order) : awaits[q] = order[i]
      <4>1. CASE pc[q] = "queued"
        <5>1. q \in Shared
          BY <1>1, <4>1, <2>l DEF PerTestInv, CloserInv, Procs, Shared
        <5> QED BY <1>1, <2>1, <4>1, <5>1 DEF QueueInv, Settled
      <4>2. CASE pc[q] = "draining"
        <5>1. q \in Closers
          BY <1>1, <4>2, <2>l DEF PerTestInv, SessionInv, PromiseInv, Procs, Shared
        <5>2. awaits[q] = tail /\ tail # NoCall
          BY <1>1, <2>1, <4>2, <5>1 DEF CloseInv, Settled
        <5>3. order # <<>> /\ tail = order[Len(order)]
          BY <1>1, <5>2 DEF QueueInv
        <5>4. Len(order) \in 1..Len(order)
          BY <1>1, <5>3 DEF TypeOK
        <5> QED BY <5>2, <5>3, <5>4
      <4> QED BY <2>1, <4>1, <4>2
    <3> QED BY <2>1, <3>1 DEF Settled
  <2>3. PICK c \in Shared : c \in Live /\ Settled(awaits[c])
    BY <1>1, <2>2, HeadOfTheQueue
  <2>4. pc[c] = "running"
    BY <1>1, <2>3 DEF EveryCallWaits, Waits, SessionInv, PromiseInv
  <2> DEFINE D == {p \in Procs : Awaits(c, p)}
  <2>5. D \in SUBSET Live
    <3>1. Live \in SUBSET Procs
      BY <2>l
    <3> QED BY <2>3, <2>l, <3>1 DEF Awaits
  <2>6. c \in D
    BY <2>3, <2>l DEF Awaits
  <2>7. ASSUME NEW p \in D PROVE LiveChildren(p) \subseteq D
    BY <2>7, <2>l DEF Awaits, LiveChildren
  <2>8. PICK p \in D : pc[p] \in {"queued", "draining"}
    <3> HIDE DEF D
    <3> QED BY <1>1, <2>5, <2>6, <2>7, InnermostQueues
  <2> QED BY <2>4, <2>8
<1> QED
  BY <1>1, QueueCorrect, SessionCorrect, CloseCorrect, AccountCorrect, NestingCorrect,
     TypeCorrect, PTL

--------------------------------------------------------------------------------
(* The shared path implements the serial queue *)

Running == {c \in Shared : pc[c] \in Scenario}
Ended   == {c \in Shared : pc[c] = "settled" /\ \E i \in DOMAIN order : order[i] = c}

\* A step that moves no shared call into, out of or past its scenario is a
\* stutter of the serial queue.
LEMMA SerialStutter ==
  ASSUME TypeOK, QueueInv, UNCHANGED order, NEW p \in Procs,
         \A q \in Procs : q # p => pc'[q] = pc[q],
         p \in Shared => \/ pc[p] \in Scenario /\ pc'[p] \in Scenario
                         \/ pc[p] = "idle" /\ pc'[p] = "settled"
  PROVE  UNCHANGED Serial!vars
<1> USE DEF TypeOK, Procs, Shared, Scenario
<1>1. Running' = Running
  BY DEF Running
<1>2. Ended' = Ended
  <2>1. ASSUME NEW c \in Shared, NEW i \in 1..Len(order), order[i] = c
        PROVE  pc'[c] = "settled" <=> pc[c] = "settled"
    BY <2>1 DEF QueueInv
  <2>2. DOMAIN order = 1..Len(order)
    OBVIOUS
  <2> QED BY <2>1, <2>2 DEF Ended
<1> QED BY <1>1, <1>2 DEF Serial!vars, Running, Ended

\* A scenario that settles is the one the serial queue finishes.
LEMMA SerialFinish ==
  ASSUME TypeOK, QueueInv, SharedScenariosNeverOverlap, UNCHANGED order, NEW p \in Shared,
         \A q \in Procs : q # p => pc'[q] = pc[q],
         pc[p] \in Scenario, pc'[p] = "settled"
  PROVE  Serial!Finish(p)
<1> USE DEF TypeOK, Procs, Shared
<1>1. PICK i \in 1..Len(order) : order[i] = p
  BY DEF QueueInv
<1>2. DOMAIN order = 1..Len(order)
  OBVIOUS
<1>3. Running = {p}
  BY DEF Running, SharedScenariosNeverOverlap
<1>4. Running' = {}
  <2>1. \A c \in Shared : pc'[c] \notin Scenario
    BY DEF Scenario, SharedScenariosNeverOverlap
  <2> QED BY <2>1 DEF Running
<1>5. Ended' = Ended \cup {p}
  <2>1. \E n \in DOMAIN order : order[n] = p
    BY <1>1, <1>2
  <2>2. \A c \in Shared : pc'[c] = "settled" <=> c = p \/ pc[c] = "settled"
    OBVIOUS
  <2>3. UNCHANGED order
    OBVIOUS
  <2> HIDE DEF TypeOK
  <2> QED BY <2>1, <2>2, <2>3 DEF Ended
<1> QED BY <1>3, <1>4, <1>5 DEF Serial!Finish, Running, Ended

\* Every step of the provider is a step of the serial queue or leaves it alone.
LEMMA SerialStep ==
  TypeOK /\ QueueInv /\ SharedScenariosNeverOverlap /\ SessionInv /\ [Next]_vars
    => [Serial!Next]_Serial!vars
<1> SUFFICES ASSUME TypeOK, QueueInv, SharedScenariosNeverOverlap, SessionInv, [Next]_vars
             PROVE  [Serial!Next]_Serial!vars
  OBVIOUS
<1> DEFINE Moves(p) == UNCHANGED order /\ \A q \in Procs : q # p => pc'[q] = pc[q]
<1> USE DEF Goto, Settle, queueVars
<1>1. ASSUME NEW c \in Calls, Refuse(c) PROVE UNCHANGED Serial!vars
  <2>1. Moves(c) /\ c \in Procs /\ pc[c] = "idle" /\ pc'[c] = "settled"
    BY <1>1 DEF Refuse, TypeOK, Procs
  <2> QED BY <2>1, SerialStutter
<1>2. ASSUME NEW c \in Calls, CallPerTest(c) PROVE UNCHANGED Serial!vars
  <2>1. Moves(c) /\ c \in Procs /\ c \notin Shared
    BY <1>2 DEF CallPerTest, TypeOK, Procs, Shared
  <2> QED BY <2>1, SerialStutter
<1>3. ASSUME NEW c \in Calls, CallShared(c) PROVE Serial!Arrive(c) /\ c \in Shared
  <2> USE DEF TypeOK, Procs, Shared
  <2>1. /\ c \in Shared /\ order' = Append(order, c)
        /\ pc[c] = "idle" /\ pc' = [pc EXCEPT ![c] = "queued"]
    BY <1>3 DEF CallShared
  <2>2. \A i \in 1..Len(order) : order[i] # c
    BY <2>1 DEF QueueInv
  <2>3. Running' = Running
    BY <2>1 DEF Running, Scenario
  <2>4. /\ DOMAIN order = 1..Len(order) /\ DOMAIN order' = 1..(Len(order) + 1)
        /\ \A i \in 1..Len(order) : order'[i] = order[i]
        /\ order'[Len(order) + 1] = c
    BY <2>1
  <2>5. ASSUME NEW d \in Shared, d # c
        PROVE  (\E i \in DOMAIN order' : order'[i] = d) <=> (\E i \in DOMAIN order : order[i] = d)
    <3>1. ASSUME NEW i \in DOMAIN order', order'[i] = d PROVE \E j \in DOMAIN order : order[j] = d
      <4>1. i \in 1..Len(order)
        BY <2>4, <2>5, <3>1
      <4> QED BY <2>4, <3>1, <4>1
    <3>2. ASSUME NEW i \in DOMAIN order, order[i] = d PROVE \E j \in DOMAIN order' : order'[j] = d
      <4>1. i \in DOMAIN order' /\ order'[i] = d
        BY <2>4, <3>2
      <4> QED BY <4>1
    <3> QED BY <3>1, <3>2
  <2>6. Ended' = Ended
    BY <2>1, <2>5 DEF Ended
  <2> QED BY <2>1, <2>2, <2>3, <2>6 DEF Serial!Arrive, Serial!Requested, Running, Ended
<1>4. ASSUME NEW c \in Calls, StartScenario(c)
      PROVE  \E i \in 1..Len(order) : Serial!Start(i)
  <2> USE DEF TypeOK, Procs, Shared
  <2>1. /\ UNCHANGED order /\ c \in Shared /\ Settled(awaits[c])
        /\ pc[c] = "queued" /\ pc' = [pc EXCEPT ![c] = "acquiring"]
    BY <1>4 DEF StartScenario
  <2>2. PICK i \in 1..Len(order) : order[i] = c
    BY <2>1 DEF QueueInv
  <2>3. DOMAIN order = 1..Len(order)
    OBVIOUS
  <2>4. ASSUME NEW j \in 1..(i - 1) PROVE pc[order[j]] = "settled"
    <3>1. i - 1 \in 1..Len(order) /\ awaits[c] = order[i - 1] /\ pc[order[i - 1]] = "settled"
      BY <2>1, <2>2, <2>4 DEF QueueInv, Settled
    <3>2. CASE j = i - 1
      BY <3>1, <3>2
    <3>3. CASE j < i - 1
      <4>1. j \in 1..Len(order) /\ pc[order[i - 1]] # "queued"
        BY <3>1, <2>2, <2>4
      <4> QED BY <3>1, <3>3, <4>1 DEF QueueInv
    <3> QED BY <3>2, <3>3, <2>2, <2>4
  <2>5. ASSUME NEW j \in 1..(i - 1) PROVE order[j] \in Ended
    <3>1. j \in 1..Len(order) /\ order[j] \in Shared
      BY <2>2, <2>5
    <3> QED BY <2>3, <2>4, <2>5, <3>1 DEF Ended
  <2>6. Running = {}
    <3>1. ASSUME NEW d \in Shared, pc[d] \in Scenario PROVE FALSE
      <4>1. PICK j \in 1..Len(order) : order[j] = d
        BY <3>1 DEF QueueInv
      <4>2. ~(i < j)
        BY <2>1, <2>2, <3>1, <4>1 DEF QueueInv, Scenario
      <4>3. ~(j < i)
        BY <2>2, <2>4, <3>1, <4>1 DEF Scenario
      <4>4. j = i
        BY <4>2, <4>3, <2>2, <4>1
      <4> QED BY <2>1, <2>2, <3>1, <4>1, <4>4 DEF Scenario
    <3> QED BY <3>1 DEF Running
  <2>7. Running' = {c}
    <3>1. \A d \in Shared : pc[d] \notin Scenario
      BY <2>6 DEF Running
    <3>2. \A d \in Shared : pc'[d] \in Scenario <=> d = c
      BY <2>1, <3>1 DEF Scenario
    <3> QED BY <2>1, <3>2 DEF Running
  <2>8. Ended' = Ended
    BY <2>1 DEF Ended
  <2>9. c \notin Ended
    BY <2>1 DEF Ended
  <2>10. Serial!Start(i)
    BY <2>1, <2>2, <2>5, <2>6, <2>7, <2>8, <2>9 DEF Serial!Start, Running, Ended
  <2> QED BY <2>10
<1>5. ASSUME NEW c \in Calls, ConnectionAnswers(c) PROVE UNCHANGED Serial!vars
  BY <1>5 DEF ConnectionAnswers, Serial!vars
<1>6. ASSUME NEW c \in Calls, Acquire(c) \/ Begin(c) \/ Release(c) \/ Reset(c)
      PROVE  UNCHANGED Serial!vars \/ (c \in Shared /\ Serial!Finish(c))
  <2>1. Moves(c) /\ c \in Procs /\ pc[c] \in Scenario
        /\ \/ pc'[c] \in Scenario \/ pc'[c] = "settled"
           \/ c \in PerTest /\ pc'[c] = "disposing"
    BY <1>6 DEF Acquire, Begin, Release, Reset, AfterRelease, TypeOK, Procs, Scenario
  <2>2. CASE c \in Shared /\ pc'[c] = "settled"
    BY <2>1, <2>2, SerialFinish
  <2>3. CASE ~(c \in Shared /\ pc'[c] = "settled")
    BY <2>1, <2>3, SerialStutter DEF Shared
  <2> QED BY <2>2, <2>3
<1>7. ASSUME NEW c \in Calls, MakeResource(c) \/ Return(c) PROVE UNCHANGED Serial!vars
  <2>1. Moves(c) /\ c \in Procs /\ pc[c] \in Scenario
        /\ \/ pc'[c] \in Scenario
           \/ c \in PerTest /\ pc'[c] = "disposing"
    BY <1>7 DEF MakeResource, Return, AfterRelease, Shared, TypeOK, Procs, Scenario
  <2> QED BY <2>1, SerialStutter DEF Shared
<1>8. ASSUME NEW c \in Calls, Write(c) PROVE UNCHANGED Serial!vars
  BY <1>8 DEF Write, Serial!vars
<1>9. ASSUME NEW c \in Calls, Dispose(c) PROVE UNCHANGED Serial!vars
  <2>1. Moves(c) /\ c \in Procs /\ c \notin Shared
    BY <1>9 DEF Dispose, TypeOK, Procs, SessionInv, PromiseInv
  <2> QED BY <2>1, SerialStutter
<1>10. ASSUME NEW k \in Closers, Close(k) \/ CloseAgain(k) \/ Drained(k) \/ DisposeShared(k)
       PROVE  UNCHANGED Serial!vars
  <2>1. Moves(k) /\ k \in Procs /\ k \notin Shared
    BY <1>10 DEF Close, CloseAgain, Drained, DisposeShared, TypeOK, Procs, Shared
  <2> QED BY <2>1, SerialStutter
<1>11. CASE UNCHANGED vars
  BY <1>11 DEF vars, Serial!vars
<1> QED
  BY <1>1, <1>2, <1>3, <1>4, <1>5, <1>6, <1>7, <1>8, <1>9, <1>10, <1>11
  DEF Next, Issue, Continue, Stopped, Serial!Next, Shared

\* Under the mapping of the instance, the provider implements the serial queue:
\* scenarios run in the order of their calls, one at a time, never twice.
THEOREM ImplementsSerialQueue == Spec => Serial!Spec
<1>1. Init => Serial!Init
  BY DEF Init, Serial!Init, Shared, Procs, Scenario
<1> QED
  BY <1>1, SerialStep, TypeCorrect, QueueCorrect, MutualExclusion, SessionCorrect, PTL
  DEF Spec, Serial!Spec

================================================================================
