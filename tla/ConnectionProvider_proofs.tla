----------------------- MODULE ConnectionProvider_proofs -----------------------
(* Proofs about ConnectionProvider, for every set of calls, nesting, pool and
   set of rejecting hooks.                                                   *)
EXTENDS ConnectionProvider, TLAPS

\* A call has a connection exactly from its answer to its disposal.
Holding == {"begin", "callback", "written", "commit", "rollback", "dispose"}
HoldInv == \A c \in Calls : pc[c] \in Holding <=> conn[c] \in Conns

TypeInv == TypeOK /\ HoldInv

\* The provider keeps every variable in its set, and a call has a connection
\* whenever the code uses one.
THEOREM TypeCorrect == Spec => [](TypeOK /\ HoldInv)
<1> USE ConstantsAssumption DEF TypeInv, TypeOK, HoldInv, Holding, Steps, Hooks, history
<1>1. Init => TypeInv
  <2> SUFFICES ASSUME Init PROVE TypeInv
    OBVIOUS
  <2>1. pc \in [Calls -> Steps]
    BY DEF Init
  <2>2. /\ conn \in [Calls -> Conns \cup {NoConn}]
        /\ primary \in [Calls -> Hooks \cup {"none"}]
        /\ outcome \in [Calls -> Hooks \cup {"none", "resolved"}]
    BY DEF Init
  <2>3. inTx \in [Conns -> BOOLEAN] /\ session \in [Conns -> SUBSET Calls]
    BY DEF Init
  <2> QED
    BY <2>1, <2>2, <2>3 DEF Init
<1>2. TypeInv /\ [Next]_vars => TypeInv'
  <2> SUFFICES ASSUME TypeInv, [Next]_vars PROVE TypeInv'
    OBVIOUS
  <2> USE DEF Goto, Catch, Raise
  <2>1. ASSUME NEW c \in Calls, Invoke(c) PROVE TypeInv'
    BY <2>1 DEF Invoke
  <2>2. ASSUME NEW c \in Calls, NEW k \in Conns, Connect(c, k) PROVE TypeInv'
    BY <2>2 DEF Connect
  <2>3. ASSUME NEW c \in Calls, ConnectRejects(c) PROVE TypeInv'
    BY <2>3 DEF ConnectRejects
  <2>4. ASSUME NEW c \in Calls, Begin(c) PROVE TypeInv'
    BY <2>4 DEF Begin
  <2>5. ASSUME NEW c \in Calls, BeginRejects(c) PROVE TypeInv'
    <3>1. conn[c] \in Conns
      BY <2>5 DEF BeginRejects
    <3>2. PICK open \in {inTx[conn[c]], TRUE} : inTx' = [inTx EXCEPT ![conn[c]] = open]
      BY <2>5 DEF BeginRejects
    <3>3. inTx[conn[c]] \in BOOLEAN
      BY <3>1
    <3>4. open \in BOOLEAN
      BY <3>2, <3>3
    <3> QED BY <2>5, <3>2, <3>4 DEF BeginRejects
  <2>6. ASSUME NEW c \in Calls, Write(c) PROVE TypeInv'
    BY <2>6 DEF Write
  <2>7. ASSUME NEW c \in Calls, Return(c) PROVE TypeInv'
    BY <2>7 DEF Return
  <2>8. ASSUME NEW c \in Calls, Throw(c) PROVE TypeInv'
    <3>1. PICK error \in Faults \cap {"callback", "nothing"} : Catch(c, error)
      BY <2>8, Zenon DEF Throw
    <3>2. /\ primary' \in [Calls -> Hooks \cup {"none"}] /\ first' \in [Calls -> Hooks \cup {"none"}]
          /\ pc' \in [Calls -> Steps]
      BY <3>1
    <3>3. HoldInv'
      BY <2>8, <3>1 DEF Throw, Running
    <3> QED BY <2>8, <3>2, <3>3 DEF Throw
  <2>9. ASSUME NEW c \in Calls, Commit(c) PROVE TypeInv'
    <3>1. conn[c] \in Conns /\ session[conn[c]] \subseteq Calls
      BY <2>9 DEF Commit
    <3> QED BY <2>9, <3>1 DEF Commit, CommitSession
  <2>10. ASSUME NEW c \in Calls, CommitRejects(c) PROVE TypeInv'
    <3>1. conn[c] \in Conns /\ session[conn[c]] \subseteq Calls
      BY <2>10 DEF CommitRejects
    <3>2. CASE CommitSession(conn[c])
      BY <2>10, <3>1, <3>2 DEF CommitRejects, CommitSession
    <3>3. CASE UNCHANGED <<inTx, session, durable>>
      BY <2>10, <3>3 DEF CommitRejects
    <3> QED BY <2>10, <3>2, <3>3 DEF CommitRejects
  <2>11. ASSUME NEW c \in Calls, Rollback(c) PROVE TypeInv'
    BY <2>11 DEF Rollback
  <2>12. ASSUME NEW c \in Calls, RollbackRejects(c) PROVE TypeInv'
    BY <2>12 DEF RollbackRejects
  <2>13. ASSUME NEW c \in Calls, Dispose(c) PROVE TypeInv'
    <3>1. conn[c] \in Conns
      BY <2>13 DEF Dispose
    <3>2. outcome' \in [Calls -> Hooks \cup {"none", "resolved"}]
      BY <2>13 DEF Dispose
    <3> QED BY <2>13, <3>1, <3>2 DEF Dispose
  <2>14. ASSUME NEW c \in Calls, DisposeRejects(c) PROVE TypeInv'
    <3>1. conn[c] \in Conns
      BY <2>14 DEF DisposeRejects
    <3>2. outcome' \in [Calls -> Hooks \cup {"none", "resolved"}]
      BY <2>14 DEF DisposeRejects
    <3>3. pool' \subseteq Conns
      BY <2>14, <3>1 DEF DisposeRejects
    <3> QED BY <2>14, <3>1, <3>2, <3>3 DEF DisposeRejects
  <2>15. CASE UNCHANGED vars
    BY <2>15 DEF vars
  <2> QED
    BY <2>1, <2>2, <2>3, <2>4, <2>5, <2>6, <2>7, <2>8, <2>9, <2>10, <2>11, <2>12, <2>13,
       <2>14, <2>15 DEF Next, withConnection, withTransaction, Stopped
<1>3. TypeInv <=> TypeOK /\ HoldInv
  BY DEF TypeInv
<1> QED
  BY <1>1, <1>2, <1>3, PTL DEF Spec

--------------------------------------------------------------------------------
(* Connections                                                             *)

LEMMA ConnectionStep ==
  TypeOK /\ HoldInv /\ OneCallPerConnection /\ [Next]_vars => OneCallPerConnection'
<1> SUFFICES ASSUME TypeOK, HoldInv, OneCallPerConnection, [Next]_vars
             PROVE OneCallPerConnection'
  OBVIOUS
<1> USE ConstantsAssumption DEF TypeOK, HoldInv, Holding, OneCallPerConnection
<1>1. ASSUME NEW c \in Calls, NEW k \in Conns, Connect(c, k) PROVE OneCallPerConnection'
  BY <1>1 DEF Connect
<1>2. ASSUME NEW c \in Calls, Dispose(c) PROVE OneCallPerConnection'
  BY <1>2 DEF Dispose
<1>3. ASSUME NEW c \in Calls, DisposeRejects(c) PROVE OneCallPerConnection'
  BY <1>3 DEF DisposeRejects
<1>4. CASE UNCHANGED <<conn, pool>>
  BY <1>4
<1> QED
  BY <1>1, <1>2, <1>3, <1>4
  DEF Next, withConnection, withTransaction, Stopped, vars, Invoke, ConnectRejects, Begin,
      BeginRejects, Write, Return, Throw, Commit, CommitRejects, Rollback, RollbackRejects

\* A connection serves one call at a time, is not free meanwhile and is given
\* back once, whatever rejects and however the callbacks nest.
THEOREM ExclusiveConnections == Spec => []OneCallPerConnection
<1>1. Init => OneCallPerConnection
  BY DEF Init, OneCallPerConnection
<1> QED
  BY <1>1, ConnectionStep, TypeCorrect, PTL DEF Spec

--------------------------------------------------------------------------------
(* Nested calls                                                            *)

Made == {c \in Calls : pc[c] # "idle"}

\* A call is made inside its parent's callback, so the parent was made before.
CallerInv == \A c \in Made : Parent[c] # NoCall => Parent[c] \in Made

\* Calls nest: any set of calls that were made has an innermost one.
NestingInv ==
  \A S \in SUBSET Made : S # {} => \E c \in S : \A d \in S : Parent[d] # c

\* Every step but a new call leaves the set of calls that were made as it is.
LEMMA MadeStep ==
  ASSUME TypeOK, [Next]_vars
  PROVE  Made' = Made \/ \E c \in Calls : Invoke(c)
<1> USE DEF TypeOK, Made, Goto, Catch
<1>1. ASSUME NEW c \in Calls, NEW k \in Conns, Connect(c, k) PROVE Made' = Made
  BY <1>1 DEF Connect
<1>2. ASSUME NEW c \in Calls, ConnectRejects(c) \/ Begin(c) \/ Write(c) \/ Return(c)
      PROVE  Made' = Made
  BY <1>2 DEF ConnectRejects, Begin, Write, Return
<1>3. ASSUME NEW c \in Calls, BeginRejects(c) \/ CommitRejects(c) PROVE Made' = Made
  BY <1>3 DEF BeginRejects, CommitRejects
<1>4. ASSUME NEW c \in Calls, Throw(c) PROVE Made' = Made
  BY <1>4 DEF Throw, Running
<1>5. ASSUME NEW c \in Calls, Commit(c) \/ Rollback(c) \/ RollbackRejects(c) PROVE Made' = Made
  BY <1>5 DEF Commit, Rollback, RollbackRejects
<1>6. ASSUME NEW c \in Calls, Dispose(c) \/ DisposeRejects(c) PROVE Made' = Made
  BY <1>6 DEF Dispose, DisposeRejects
<1>7. CASE UNCHANGED vars
  BY <1>7 DEF vars
<1> QED
  BY <1>1, <1>2, <1>3, <1>4, <1>5, <1>6, <1>7
  DEF Next, withConnection, withTransaction, Stopped

\* Both are inductive: a new call's parent runs, and the call has made none yet.
LEMMA NestingStep ==
  ASSUME TypeOK, CallerInv, NestingInv, [Next]_vars
  PROVE  CallerInv' /\ NestingInv'
<1>1. CASE Made' = Made
  BY <1>1 DEF CallerInv, NestingInv
<1>2. ASSUME NEW c \in Calls, Invoke(c) PROVE CallerInv' /\ NestingInv'
  <2>1. c \notin Made /\ Made' = Made \cup {c}
    BY <1>2 DEF Invoke, Goto, Made, TypeOK
  <2>2. Parent[c] # NoCall => Parent[c] \in Made
    BY <1>2 DEF Invoke, Running, Made
  <2>3. CallerInv'
    BY <2>1, <2>2 DEF CallerInv
  <2>4. ASSUME NEW S \in SUBSET Made', S # {}
        PROVE  \E e \in S : \A d \in S : Parent[d] # e
    <3>1. CASE c \in S
      <4>1. ASSUME NEW d \in S PROVE Parent[d] # c
        <5>1. CASE d = c
          BY <5>1, <2>1, <2>2, ConstantsAssumption
        <5>2. CASE d \in Made
          BY <5>2, <2>1, ConstantsAssumption DEF CallerInv
        <5> QED BY <5>1, <5>2, <2>1
      <4> QED BY <3>1, <4>1
    <3>2. CASE c \notin S
      BY <2>1, <2>4, <3>2 DEF NestingInv
    <3> QED BY <3>1, <3>2
  <2> QED BY <2>3, <2>4 DEF NestingInv
<1> QED BY <1>1, <1>2, MadeStep

\* As long as the disposer does not reject, no connection is lost.
ConservationInv == \A k \in Conns : k \in pool \/ \E c \in Calls : conn[c] = k

LEMMA ConservationStep ==
  ASSUME "dispose" \notin Faults, TypeOK, HoldInv, ConservationInv, [Next]_vars
  PROVE  ConservationInv'
<1> USE ConstantsAssumption DEF TypeOK, HoldInv, Holding, ConservationInv
<1>1. ASSUME NEW c \in Calls, NEW k \in Conns, Connect(c, k) PROVE ConservationInv'
  <2>1. conn[c] = NoConn
    BY <1>1 DEF Connect
  <2>2. /\ pool' = pool \ {k} /\ conn'[c] = k
        /\ \A d \in Calls : d # c => conn'[d] = conn[d]
    BY <1>1 DEF Connect
  <2> QED BY <2>1, <2>2
<1>2. ASSUME NEW c \in Calls, Dispose(c) PROVE ConservationInv'
  BY <1>2 DEF Dispose
<1>3. CASE UNCHANGED <<conn, pool>>
  BY <1>3
<1> QED
  BY <1>1, <1>2, <1>3
  DEF Next, withConnection, withTransaction, Stopped, vars, Invoke, ConnectRejects, Begin,
      BeginRejects, Write, Return, Throw, Commit, CommitRejects, Rollback, RollbackRejects,
      DisposeRejects

LEMMA NestingCorrect ==
  ASSUME "dispose" \notin Faults
  PROVE  Spec => [](TypeOK /\ HoldInv /\ CallerInv /\ NestingInv /\ ConservationInv)
<1>1. Init => CallerInv /\ NestingInv /\ ConservationInv
  BY DEF Init, CallerInv, NestingInv, ConservationInv, Made
<1>2. /\ TypeOK /\ HoldInv /\ CallerInv /\ NestingInv /\ ConservationInv /\ [Next]_vars
      => CallerInv' /\ NestingInv' /\ ConservationInv'
  BY NestingStep, ConservationStep
<1> QED
  BY <1>1, <1>2, TypeCorrect, PTL DEF Spec

\* When every call waits, an innermost one of any set of them that is closed
\* under awaiting waits for a connection.
LEMMA InnermostConnects ==
  ASSUME EveryCallWaits, NestingInv, NEW S \in SUBSET Live, S # {},
         \A c \in S : Children(c) \cap Live \subseteq S
  PROVE  \E d \in S : pc[d] = "connecting" /\ pool = {}
<1>1. S \in SUBSET Made
  BY DEF Live, Made
<1>2. PICK d \in S : \A e \in S : Parent[e] # d
  BY <1>1 DEF NestingInv
<1>3. Children(d) \cap Live = {}
  BY <1>2 DEF Children
<1>4. Awaited(d)
  BY <1>3 DEF Awaited, Children, Live
<1> QED BY <1>4 DEF EveryCallWaits, Waits

\* As long as the disposer does not reject, the provider can only stop when the
\* callbacks that hold the whole pool each await an inner call, at whatever
\* depth, that waits for a connection: no other nesting, fault or order stops it.
THEOREM NestingIsTheOnlyDeadlock ==
  ASSUME "dispose" \notin Faults
  PROVE  Spec => []StuckOnlyByNesting
<1>1. ASSUME TypeOK, HoldInv, NestingInv, ConservationInv PROVE StuckOnlyByNesting
  <2> SUFFICES ASSUME EveryCallWaits, NEW k \in Conns
               PROVE  \E c, d \in Calls : /\ conn[c] = k /\ pc[c] = "written"
                                          /\ Awaits(c, d) /\ pc[d] = "connecting"
    BY DEF StuckOnlyByNesting
  <2>l. Live \subseteq Calls
    BY DEF Live
  <2>1. pool = {}
    <3>1. Live # {} /\ \A c \in Live : Children(c) \cap Live \subseteq Live
      BY DEF EveryCallWaits
    <3> QED BY <1>1, <3>1, InnermostConnects
  <2>2. PICK c \in Calls : conn[c] = k
    BY <1>1, <2>1 DEF ConservationInv
  <2>3. pc[c] \in Holding
    BY <1>1, <2>2 DEF HoldInv
  <2>4. c \in Live /\ pc[c] = "written"
    <3>1. c \in Live
      BY <2>3 DEF Holding, Live
    <3> QED BY <2>3, <3>1 DEF Holding, EveryCallWaits, Waits
  <2> DEFINE D == {d \in Calls : Awaits(c, d)}
  <2>5. D \in SUBSET Live
    <3>1. c \in Live /\ \A e \in Live : Children(e) \cap Live \subseteq Live
      BY <2>4
    <3> QED BY <2>l, <3>1 DEF Awaits
  <2>6. c \in D
    BY DEF Awaits
  <2>7. ASSUME NEW d \in D PROVE Children(d) \cap Live \subseteq D
    BY <2>7, <2>l DEF Awaits
  <2>8. PICK d \in D : pc[d] = "connecting"
    <3> HIDE DEF D
    <3> QED BY <1>1, <2>5, <2>6, <2>7, InnermostConnects
  <2> QED BY <2>2, <2>4, <2>8
<1> QED
  BY <1>1, NestingCorrect, PTL

--------------------------------------------------------------------------------
(* Errors                                                                  *)

\* Where a call stands tells which error it has caught; until it settles that is
\* the first one raised, and it settles with that one.
ErrorInv ==
  \A c \in Calls :
    /\ primary[c] # "none" => pc[c] \in {"rollback", "dispose", "settled"}
    /\ primary[c] \in Faults \cup {"none"} /\ primary[c] # "dispose"
    /\ pc[c] \in {"commit", "written", "callback", "begin"} => outcome[c] = "none"
    /\ pc[c] \in {"begin", "commit", "rollback"} => c \in Transactions
    /\ pc[c] = "rollback" => primary[c] # "none"
    /\ outcome[c] # "none" => pc[c] = "settled"
    /\ pc[c] # "settled" => first[c] = primary[c]

LEMMA ErrorCorrect == Spec => [](ErrorInv /\ OriginalErrorWins)
<1>1. Init => ErrorInv /\ OriginalErrorWins
  BY DEF Init, ErrorInv, OriginalErrorWins
<1>2. TypeOK /\ ErrorInv /\ OriginalErrorWins /\ [Next]_vars => ErrorInv' /\ OriginalErrorWins'
  <2> SUFFICES ASSUME TypeOK, ErrorInv, OriginalErrorWins, [Next]_vars
               PROVE  ErrorInv' /\ OriginalErrorWins'
    OBVIOUS
  <2> USE DEF TypeOK, Steps, Hooks, ErrorInv, OriginalErrorWins, Goto, Catch, Raise, history
  <2>1. ASSUME NEW c \in Calls, Throw(c) PROVE ErrorInv' /\ OriginalErrorWins'
    BY <2>1 DEF Throw, Running
  <2>2. ASSUME NEW c \in Calls, BeginRejects(c) \/ CommitRejects(c)
        PROVE  ErrorInv' /\ OriginalErrorWins'
    BY <2>2 DEF BeginRejects, CommitRejects
  <2>3. ASSUME NEW c \in Calls, Dispose(c) PROVE ErrorInv' /\ OriginalErrorWins'
    BY <2>3 DEF Dispose
  <2>4. ASSUME NEW c \in Calls, DisposeRejects(c) PROVE ErrorInv' /\ OriginalErrorWins'
    BY <2>4 DEF DisposeRejects
  <2>5. ASSUME NEW c \in Calls, Invoke(c) \/ ConnectRejects(c) PROVE ErrorInv' /\ OriginalErrorWins'
    BY <2>5 DEF Invoke, ConnectRejects
  <2>6. ASSUME NEW c \in Calls, NEW k \in Conns, Connect(c, k) PROVE ErrorInv' /\ OriginalErrorWins'
    BY <2>6 DEF Connect
  <2>7. ASSUME NEW c \in Calls, Begin(c) \/ Write(c) \/ Return(c)
        PROVE  ErrorInv' /\ OriginalErrorWins'
    BY <2>7 DEF Begin, Write, Return
  <2>8. ASSUME NEW c \in Calls, Commit(c) \/ Rollback(c) PROVE ErrorInv' /\ OriginalErrorWins'
    BY <2>8 DEF Commit, Rollback
  <2>9. ASSUME NEW c \in Calls, RollbackRejects(c) PROVE ErrorInv' /\ OriginalErrorWins'
    BY <2>9 DEF RollbackRejects
  <2>10. CASE UNCHANGED vars
    BY <2>10 DEF vars
  <2> QED
    BY <2>1, <2>2, <2>3, <2>4, <2>5, <2>6, <2>7, <2>8, <2>9, <2>10
    DEF Next, withConnection, withTransaction, Stopped
<1> QED
  BY <1>1, <1>2, TypeCorrect, PTL DEF Spec

\* Whatever rejects in whatever combination, a call settles with the first error
\* of all that it awaited, but for a falsy one that the disposer's replaces.
THEOREM RootCause == Spec => []OriginalErrorWins
BY ErrorCorrect, PTL

--------------------------------------------------------------------------------
(* Transactions, whatever rejects                                          *)

\* A pending write belongs to the call that holds the connection, or to one whose
\* ROLLBACK was rejected; so these are all that a COMMIT can make durable.
PendingInv ==
  \A c \in Transactions :
    /\ \A k \in Conns : c \in session[k] =>
         c \in unrolled \/ (conn[c] = k /\ pc[c] \in {"written", "commit", "rollback"})
    /\ pc[c] \in {"callback", "written", "commit"} => inTx[conn[c]]
    /\ c \in unrolled => pc[c] \in {"dispose", "settled"}
    /\ c \in durable => c \in unrolled \/ pc[c] \in {"rollback", "dispose", "settled"}

RollInv == PendingInv /\ RejectedMeansRolledBack

LEMMA RollStep ==
  ASSUME TypeOK, HoldInv, OneCallPerConnection, ErrorInv, RollInv, [Next]_vars
  PROVE  RollInv'
<1> USE ConstantsAssumption DEF TypeOK, HoldInv, Holding, OneCallPerConnection, Steps, Hooks,
        RollInv, PendingInv, RejectedMeansRolledBack, Goto, Catch, Raise, history
<1>1. ASSUME NEW c \in Calls, Invoke(c) \/ ConnectRejects(c) \/ Return(c) PROVE RollInv'
  BY <1>1 DEF Invoke, ConnectRejects, Return
<1>2. ASSUME NEW c \in Calls, NEW k \in Conns, Connect(c, k) PROVE RollInv'
  BY <1>2 DEF Connect
<1>3. ASSUME NEW c \in Calls, Begin(c) PROVE RollInv'
  BY <1>3 DEF Begin
<1>4. ASSUME NEW c \in Calls, BeginRejects(c) PROVE RollInv'
  BY <1>4 DEF BeginRejects, ErrorInv
<1>5. ASSUME NEW c \in Calls, Write(c) PROVE RollInv'
  BY <1>5 DEF Write
<1>6. ASSUME NEW c \in Calls, Throw(c) PROVE RollInv'
  BY <1>6 DEF Throw, Running
<1>7. ASSUME NEW c \in Calls, Commit(c) PROVE RollInv'
  <2>1. conn[c] \in Conns /\ first[c] = "none"
    BY <1>7 DEF Commit, ErrorInv
  <2>2. \A d \in Transactions : d \in session[conn[c]] => d \in unrolled \/ d = c
    BY <1>7, <2>1 DEF Commit
  <2> QED BY <1>7, <2>1, <2>2 DEF Commit, CommitSession
<1>8. ASSUME NEW c \in Calls, CommitRejects(c) PROVE RollInv'
  <2>1. conn[c] \in Conns /\ first[c] = "none" /\ first' = [first EXCEPT ![c] = "commit"]
    BY <1>8 DEF CommitRejects, ErrorInv
  <2>2. \A d \in Transactions : d \in session[conn[c]] => d \in unrolled \/ d = c
    BY <1>8, <2>1 DEF CommitRejects
  <2>3. CASE CommitSession(conn[c])
    BY <1>8, <2>1, <2>2, <2>3 DEF CommitRejects, CommitSession, ErrorInv
  <2>4. CASE UNCHANGED <<inTx, session, durable>>
    BY <1>8, <2>1, <2>4 DEF CommitRejects, ErrorInv
  <2> QED BY <1>8, <2>3, <2>4 DEF CommitRejects
<1>9. ASSUME NEW c \in Calls, Rollback(c) PROVE RollInv'
  BY <1>9 DEF Rollback
<1>10. ASSUME NEW c \in Calls, RollbackRejects(c) PROVE RollInv'
  BY <1>10 DEF RollbackRejects
<1>11. ASSUME NEW c \in Calls, Dispose(c) PROVE RollInv'
  BY <1>11 DEF Dispose
<1>12. ASSUME NEW c \in Calls, DisposeRejects(c) PROVE RollInv'
  BY <1>12 DEF DisposeRejects
<1>13. CASE UNCHANGED vars
  BY <1>13 DEF vars
<1> QED
  BY <1>1, <1>2, <1>3, <1>4, <1>5, <1>6, <1>7, <1>8, <1>9, <1>10, <1>11, <1>12, <1>13
  DEF Next, withConnection, withTransaction, Stopped

\* A rejected transaction is durable only because the answer to its COMMIT was
\* lost, its disposer rejected after it, or its own ROLLBACK was rejected.
THEOREM RolledBack == Spec => []RejectedMeansRolledBack
<1>1. Init => RollInv
  BY ConstantsAssumption DEF Init, RollInv, PendingInv, RejectedMeansRolledBack
<1>2. TypeOK /\ HoldInv /\ OneCallPerConnection /\ ErrorInv /\ RollInv /\ [Next]_vars => RollInv'
  BY RollStep
<1>3. RollInv => RejectedMeansRolledBack
  BY DEF RollInv
<1> QED
  BY <1>1, <1>2, <1>3, TypeCorrect, ExclusiveConnections, ErrorCorrect, PTL DEF Spec

--------------------------------------------------------------------------------
(* Transactions, as long as ROLLBACK works                                 *)

\* The transactions that have a transaction open on their connection.
InTransaction(c) == c \in Transactions /\ pc[c] \in {"callback", "written", "commit", "rollback"}

\* A session has an open transaction or a pending write only for the call that
\* holds the connection, and only until COMMIT or ROLLBACK.
SessionInv ==
  \A k \in Conns :
    \/ ~inTx[k] /\ session[k] = {}
    \/ \E c \in Calls : InTransaction(c) /\ conn[c] = k /\ session[k] \subseteq {c}

\* A transaction that still runs has begun and has committed nothing.
RunningInv ==
  \A c \in Transactions :
    /\ pc[c] \in {"callback", "written", "commit"} => inTx[conn[c]]
    /\ c \in durable => pc[c] \in {"rollback", "dispose", "settled"}
    /\ c \in durable => primary[c] \in {"none", "commit"}
    /\ pc[c] \in {"callback", "begin"} => \A k \in Conns : c \notin session[k]

TxInv == SessionInv /\ RunningInv

LEMMA TxStep ==
  ASSUME "rollback" \notin Faults,
         TypeOK, HoldInv, OneCallPerConnection, ErrorInv, TxInv, [Next]_vars
  PROVE  TxInv'
<1> USE ConstantsAssumption DEF TypeOK, HoldInv, Holding, OneCallPerConnection, Steps, Hooks,
        TxInv, SessionInv, RunningInv, InTransaction, Goto, Catch
<1>1. ASSUME NEW c \in Calls, Invoke(c) PROVE TxInv'
  BY <1>1 DEF Invoke
<1>2. ASSUME NEW c \in Calls, NEW k \in Conns, Connect(c, k) PROVE TxInv'
  BY <1>2 DEF Connect
<1>3. ASSUME NEW c \in Calls, ConnectRejects(c) PROVE TxInv'
  BY <1>3 DEF ConnectRejects
<1>4. ASSUME NEW c \in Calls, Begin(c) PROVE TxInv'
  <2>1. conn[c] \in Conns /\ session[conn[c]] = {} /\ ~inTx[conn[c]]
    BY <1>4 DEF Begin
  <2>2. SessionInv'
    BY <1>4, <2>1 DEF Begin, ErrorInv
  <2>3. RunningInv'
    BY <1>4, <2>1 DEF Begin
  <2> QED BY <2>2, <2>3
<1>5. ASSUME NEW c \in Calls, BeginRejects(c) PROVE TxInv'
  <2>1. conn[c] \in Conns /\ session[conn[c]] = {} /\ ~inTx[conn[c]]
    BY <1>5 DEF BeginRejects, ErrorInv
  <2>2. PICK open \in {inTx[conn[c]], TRUE} : inTx' = [inTx EXCEPT ![conn[c]] = open]
    BY <1>5 DEF BeginRejects
  <2>a. inTx[conn[c]] \in BOOLEAN
    BY <2>1
  <2> open \in BOOLEAN
    BY <2>2, <2>a
  <2>3. SessionInv'
    BY <1>5, <2>1, <2>2 DEF BeginRejects, ErrorInv
  <2>4. RunningInv'
    BY <1>5, <2>1, <2>2 DEF BeginRejects, ErrorInv
  <2> QED BY <2>3, <2>4
<1>6. ASSUME NEW c \in Calls, Write(c) PROVE TxInv'
  BY <1>6 DEF Write
<1>7. ASSUME NEW c \in Calls, Return(c) PROVE TxInv'
  BY <1>7 DEF Return
<1>8. ASSUME NEW c \in Calls, Throw(c) PROVE TxInv'
  BY <1>8 DEF Throw, Running
<1>9. ASSUME NEW c \in Calls, Commit(c) PROVE TxInv'
  <2>1. conn[c] \in Conns /\ session[conn[c]] \subseteq {c} /\ primary[c] = "none"
    BY <1>9 DEF Commit, ErrorInv
  <2>2. SessionInv'
    BY <1>9, <2>1 DEF Commit, CommitSession
  <2>3. RunningInv'
    BY <1>9, <2>1 DEF Commit, CommitSession
  <2> QED BY <2>2, <2>3
<1>10. ASSUME NEW c \in Calls, CommitRejects(c) PROVE TxInv'
  BY <1>10 DEF CommitRejects, CommitSession
<1>11. ASSUME NEW c \in Calls, Rollback(c) PROVE TxInv'
  BY <1>11 DEF Rollback
<1>12. ASSUME NEW c \in Calls, Dispose(c) PROVE TxInv'
  BY <1>12 DEF Dispose
<1>13. ASSUME NEW c \in Calls, DisposeRejects(c) PROVE TxInv'
  BY <1>13 DEF DisposeRejects
<1>14. CASE UNCHANGED vars
  BY <1>14 DEF vars
<1> QED
  BY <1>1, <1>2, <1>3, <1>4, <1>5, <1>6, <1>7, <1>8, <1>9, <1>10, <1>11, <1>12, <1>13, <1>14
  DEF Next, withConnection, withTransaction, Stopped, RollbackRejects

\* The invariants of this module together, for a pool whose ROLLBACK works.
LEMMA TxCorrect ==
  ASSUME "rollback" \notin Faults
  PROVE  Spec => [](TypeOK /\ HoldInv /\ OneCallPerConnection /\ ErrorInv /\ TxInv)
<1>1. Init => TxInv
  BY ConstantsAssumption DEF Init, TxInv, SessionInv, RunningInv, InTransaction
<1>2. TypeOK /\ HoldInv /\ OneCallPerConnection /\ ErrorInv /\ TxInv /\ [Next]_vars => TxInv'
  BY TxStep
<1> QED
  BY <1>1, <1>2, TypeCorrect, ExclusiveConnections, ErrorCorrect, PTL DEF Spec

\* As long as ROLLBACK works, a connection goes back to the pool with no open
\* transaction and no pending write, whatever else rejects.
THEOREM CleanPool ==
  ASSUME "rollback" \notin Faults
  PROVE  Spec => []FreeConnectionsAreClean
<1>1. TypeOK /\ OneCallPerConnection /\ TxInv => FreeConnectionsAreClean
  BY ConstantsAssumption DEF TypeOK, OneCallPerConnection, TxInv, SessionInv, InTransaction,
     FreeConnectionsAreClean
<1> QED
  BY <1>1, TxCorrect, PTL

--------------------------------------------------------------------------------
(* Refinement                                                              *)

\* A callback that has returned has its write in the transaction, and a call
\* that is about to resolve has committed.
OutcomeInv ==
  \A c \in Transactions :
    /\ pc[c] \in {"written", "commit"} => c \in session[conn[c]]
    /\ pc[c] = "dispose" /\ primary[c] = "none" => c \in durable

LEMMA OutcomeStep ==
  ASSUME TypeOK, HoldInv, OneCallPerConnection, ErrorInv, TxInv, OutcomeInv, [Next]_vars
  PROVE  OutcomeInv'
<1> USE ConstantsAssumption DEF TypeOK, HoldInv, Holding, OneCallPerConnection, Steps, Hooks,
        OutcomeInv, Goto, Catch
<1>1. ASSUME NEW c \in Calls, Write(c) PROVE OutcomeInv'
  BY <1>1 DEF Write, TxInv, RunningInv
<1>2. ASSUME NEW c \in Calls, Return(c) \/ Throw(c) PROVE OutcomeInv'
  BY <1>2 DEF Return, Throw, Running
<1>3. ASSUME NEW c \in Calls, Commit(c) PROVE OutcomeInv'
  BY <1>3 DEF Commit, CommitSession
<1>4. ASSUME NEW c \in Calls, CommitRejects(c) PROVE OutcomeInv'
  BY <1>4 DEF CommitRejects, CommitSession
<1>5. ASSUME NEW c \in Calls, Rollback(c) \/ RollbackRejects(c) PROVE OutcomeInv'
  BY <1>5 DEF Rollback, RollbackRejects, ErrorInv
<1>6. ASSUME NEW c \in Calls, Dispose(c) \/ DisposeRejects(c) PROVE OutcomeInv'
  BY <1>6 DEF Dispose, DisposeRejects
<1>7. ASSUME NEW c \in Calls,
             \/ Invoke(c) \/ ConnectRejects(c) \/ Begin(c) \/ BeginRejects(c)
             \/ \E k \in Conns : Connect(c, k)
      PROVE OutcomeInv'
  BY <1>7 DEF Invoke, Connect, ConnectRejects, Begin, BeginRejects
<1>8. CASE UNCHANGED vars
  BY <1>8 DEF vars
<1> QED
  BY <1>1, <1>2, <1>3, <1>4, <1>5, <1>6, <1>7, <1>8
  DEF Next, withConnection, withTransaction, Stopped

\* Every step of the provider decides, answers, or is none of the abstract
\* specification's business.
LEMMA AtomicStep ==
  ASSUME "rollback" \notin Faults,
         TypeOK, HoldInv, OneCallPerConnection, ErrorInv, TxInv, OutcomeInv, [Next]_vars
  PROVE  [Atomic!Next]_(Atomic!vars)
<1> USE ConstantsAssumption
    DEF TypeOK, HoldInv, Holding, Steps, Hooks, Goto, Catch, Status, Reply
<1>1. ASSUME NEW c \in Calls,
             \/ Invoke(c) \/ (\E k \in Conns : Connect(c, k))
             \/ Begin(c) \/ BeginRejects(c) \/ Return(c) \/ Throw(c)
      PROVE  UNCHANGED <<Status, Reply>>
  BY <1>1 DEF Invoke, Connect, Begin, BeginRejects, Return, Throw, Running
<1>2. ASSUME NEW c \in Calls, Write(c) PROVE UNCHANGED <<Status, Reply>>
  BY <1>2 DEF Write, TxInv, RunningInv
<1>3. ASSUME NEW c \in Calls, c \notin Transactions, Dispose(c) \/ DisposeRejects(c) \/ ConnectRejects(c)
      PROVE  UNCHANGED <<Status, Reply>>
  BY <1>3 DEF Dispose, DisposeRejects, ConnectRejects
<1>4. ASSUME NEW c \in Transactions, ConnectRejects(c) PROVE Atomic!Reject(c)
  <2>1. c \in Calls /\ c \notin durable /\ Status[c] = "pending" /\ Reply[c] = "none"
    BY <1>4 DEF ConnectRejects, ErrorInv, TxInv, RunningInv
  <2>2. Status' = [Status EXCEPT ![c] = "aborted"]
    BY <1>4, <2>1 DEF ConnectRejects
  <2>3. Reply' = [Reply EXCEPT ![c] = "rejected"]
    BY <1>4, <2>1 DEF ConnectRejects
  <2>4. Status \in [Transactions -> {"pending", "committed", "aborted"}]
    BY DEF Status
  <2> QED BY <2>1, <2>2, <2>3, <2>4 DEF Atomic!Reject
<1>5. ASSUME NEW c \in Transactions, Dispose(c) PROVE Atomic!Resolve(c) \/ Atomic!Reject(c)
  <2>1. /\ c \in Calls /\ Reply[c] = "none"
        /\ Status[c] = IF c \in durable THEN "committed" ELSE "aborted"
    BY <1>5 DEF Dispose, ErrorInv
  <2>2. Status' = Status
    BY <1>5 DEF Dispose
  <2>3. CASE primary[c] = "none"
    <3>1. Reply' = [Reply EXCEPT ![c] = "resolved"]
      BY <1>5, <2>3 DEF Dispose
    <3>2. Status[c] = "committed"
      BY <1>5, <2>1, <2>3 DEF Dispose, OutcomeInv
    <3> QED BY <2>1, <2>2, <3>1, <3>2 DEF Atomic!Resolve
  <2>4. CASE primary[c] # "none"
    <3>1. Reply' = [Reply EXCEPT ![c] = "rejected"]
      BY <1>5, <2>4 DEF Dispose, ErrorInv
    <3>2. Status' = [Status EXCEPT ![c] = IF @ = "pending" THEN "aborted" ELSE @]
      BY <2>1, <2>2
    <3> QED BY <2>1, <3>1, <3>2 DEF Atomic!Reject
  <2> QED BY <2>3, <2>4
<1>6. ASSUME NEW c \in Transactions, DisposeRejects(c) PROVE Atomic!Reject(c)
  <2>1. /\ c \in Calls /\ Reply[c] = "none"
        /\ Status[c] = IF c \in durable THEN "committed" ELSE "aborted"
    BY <1>6 DEF DisposeRejects, ErrorInv
  <2>2. Status' = Status
    BY <1>6 DEF DisposeRejects
  <2>3. Reply' = [Reply EXCEPT ![c] = "rejected"]
    BY <1>6 DEF DisposeRejects, ErrorInv
  <2>4. Status' = [Status EXCEPT ![c] = IF @ = "pending" THEN "aborted" ELSE @]
    BY <2>1, <2>2
  <2> QED BY <2>1, <2>3, <2>4 DEF Atomic!Reject
<1>7. ASSUME NEW c \in Calls, Commit(c) PROVE Atomic!Decide(c, "committed")
  BY <1>7 DEF Commit, CommitSession, Atomic!Decide, ErrorInv, TxInv, SessionInv, RunningInv, OutcomeInv
<1>8. ASSUME NEW c \in Calls, CommitRejects(c)
      PROVE  Atomic!Decide(c, "committed") \/ UNCHANGED <<Status, Reply>>
  BY <1>8 DEF CommitRejects, CommitSession, Atomic!Decide, ErrorInv, TxInv, SessionInv, RunningInv, OutcomeInv
<1>9. ASSUME NEW c \in Calls, Rollback(c)
      PROVE  Atomic!Decide(c, "aborted") \/ UNCHANGED <<Status, Reply>>
  BY <1>9 DEF Rollback, Atomic!Decide, ErrorInv
<1>10. CASE UNCHANGED vars
  BY <1>10 DEF vars, Atomic!vars
<1> QED
  BY <1>1, <1>2, <1>3, <1>4, <1>5, <1>6, <1>7, <1>8, <1>9, <1>10
  DEF Next, withConnection, withTransaction, Stopped, RollbackRejects, Commit, CommitRejects,
      Rollback, ErrorInv, Atomic!Next, Atomic!vars

\* withTransaction implements AtomicTransactions: a transaction is decided once
\* and before its call is answered, and a call that resolves has committed.
THEOREM ImplementsTransactions ==
  ASSUME "rollback" \notin Faults
  PROVE  Spec => ImplementsAtomic
<1>1. Init => Atomic!Init /\ OutcomeInv
  BY ConstantsAssumption DEF Init, Atomic!Init, Status, Reply, OutcomeInv
<1>2. TypeOK /\ HoldInv /\ OneCallPerConnection /\ ErrorInv /\ TxInv /\ OutcomeInv /\ [Next]_vars
        => OutcomeInv' /\ [Atomic!Next]_(Atomic!vars)
  BY OutcomeStep, AtomicStep
<1> QED
  BY <1>1, <1>2, TxCorrect, PTL DEF Spec, ImplementsAtomic, Atomic!Spec

================================================================================
