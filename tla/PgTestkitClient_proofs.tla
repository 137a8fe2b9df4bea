------------------------ MODULE PgTestkitClient_proofs -------------------------
(* Proofs about PgTestkitClient, for every number of queries and closes, every
   way the factory may fail and every order of the calls.                    *)
EXTENDS PgTestkitClient, TLAPS

\* PgTestkitClient keeps every variable in its set.
THEOREM TypeCorrect == Spec => []TypeOK
<1> USE ConstantsAssumption DEF TypeOK
<1>1. Init => TypeOK
  <2> SUFFICES ASSUME Init PROVE TypeOK
    OBVIOUS
  <2>1. pc \in [Queries \cup Closers -> {"idle", "waiting", "executing", "settled"}]
    BY DEF Init
  <2>2. link \in [Queries -> {"none", "opening", "open", "failed", "threw"}]
    BY DEF Init
  <2>3. releases \in [Queries -> Nat] /\ target \in [Queries -> Queries \cup {NoConn}]
    BY DEF Init
  <2> QED
    BY <2>1, <2>2, <2>3 DEF Init
<1>2. TypeOK /\ [Next]_vars => TypeOK'
  <2> SUFFICES ASSUME TypeOK, [Next]_vars PROVE TypeOK'
    OBVIOUS
  <2> USE DEF Goto, Await, Issue, Settles, fields, Untidy
  <2>1. ASSUME NEW q \in Queries, QueryShared(q) PROVE TypeOK'
    BY <2>1 DEF QueryShared
  <2>2. ASSUME NEW q \in Queries, QueryOpens(q) PROVE TypeOK'
    BY <2>2 DEF QueryOpens
  <2>3. ASSUME NEW q \in Queries, QueryOpensThrowing(q) PROVE TypeOK'
    BY <2>3 DEF QueryOpensThrowing
  <2>4. ASSUME NEW q \in Queries, Opened(q) PROVE TypeOK'
    BY <2>4 DEF Opened
  <2>5. ASSUME NEW q \in Queries, OpenRejected(q) PROVE TypeOK'
    BY <2>5 DEF OpenRejected
  <2>6. ASSUME NEW q \in Queries, Execute(q) PROVE TypeOK'
    BY <2>6 DEF Execute
  <2>7. ASSUME NEW q \in Queries, Settle(q) PROVE TypeOK'
    BY <2>7 DEF Settle
  <2>8. ASSUME NEW k \in Closers, CloseAgain(k) PROVE TypeOK'
    BY <2>8 DEF CloseAgain
  <2>9. ASSUME NEW k \in Closers, CloseUnconnected(k) PROVE TypeOK'
    BY <2>9 DEF CloseUnconnected
  <2>10. ASSUME NEW k \in Closers, CloseReleases(k) PROVE TypeOK'
    <3>1. releases[connection] + 1 \in Nat
      BY <2>10 DEF CloseReleases
    <3> QED BY <2>10, <3>1 DEF CloseReleases
  <2>11. CASE UNCHANGED vars
    BY <2>11 DEF vars
  <2> QED
    BY <2>1, <2>2, <2>3, <2>4, <2>5, <2>6, <2>7, <2>8, <2>9, <2>10, <2>11
    DEF Next, Query, Close, Terminated
<1> QED
  BY <1>1, <1>2, PTL DEF Spec

--------------------------------------------------------------------------------
(* The connection a client holds                                           *)

\* A query that has not been made has made no connection.
UnusedInv == \A q \in Queries : pc[q] = "idle" => link[q] = "none"

\* The client's fields say what it holds: promise the connection being opened,
\* connection the one that is open and not yet released.
HeldInv ==
  /\ connection # NoConn => promise = NoConn
  /\ \A k \in Queries : link[k] = "opening" => promise = k
  /\ \A k \in Queries : connection = k <=> (link[k] = "open" /\ releases[k] = 0)
  /\ \A k \in Queries : releases[k] = 0 \/ (link[k] = "open" /\ releases[k] = 1)

LEMMA HeldStep ==
  TypeOK /\ UnusedInv /\ HeldInv /\ [Next]_vars => UnusedInv' /\ HeldInv'
<1> SUFFICES ASSUME TypeOK, UnusedInv, HeldInv, [Next]_vars PROVE UnusedInv' /\ HeldInv'
  OBVIOUS
<1> USE ConstantsAssumption DEF TypeOK, UnusedInv, HeldInv, Goto, Await, Issue, Settles, fields
<1>1. ASSUME NEW q \in Queries, QueryShared(q) PROVE UnusedInv' /\ HeldInv'
  BY <1>1 DEF QueryShared
<1>2. ASSUME NEW q \in Queries, QueryOpens(q) PROVE UnusedInv' /\ HeldInv'
  BY <1>2 DEF QueryOpens
<1>3. ASSUME NEW q \in Queries, QueryOpensThrowing(q) PROVE UnusedInv' /\ HeldInv'
  BY <1>3 DEF QueryOpensThrowing
<1>4. ASSUME NEW q \in Queries, Opened(q) PROVE UnusedInv' /\ HeldInv'
  BY <1>4 DEF Opened
<1>5. ASSUME NEW q \in Queries, OpenRejected(q) PROVE UnusedInv' /\ HeldInv'
  BY <1>5 DEF OpenRejected
<1>6. ASSUME NEW q \in Queries, Execute(q) PROVE UnusedInv' /\ HeldInv'
  BY <1>6 DEF Execute
<1>7. ASSUME NEW q \in Queries, Settle(q) PROVE UnusedInv' /\ HeldInv'
  BY <1>7 DEF Settle
<1>8. ASSUME NEW k \in Closers, CloseAgain(k) PROVE UnusedInv' /\ HeldInv'
  BY <1>8 DEF CloseAgain
<1>9. ASSUME NEW k \in Closers, CloseUnconnected(k) PROVE UnusedInv' /\ HeldInv'
  BY <1>9 DEF CloseUnconnected
<1>10. ASSUME NEW k \in Closers, CloseReleases(k) PROVE UnusedInv' /\ HeldInv'
  BY <1>10 DEF CloseReleases
<1>11. CASE UNCHANGED vars
  BY <1>11 DEF vars
<1> QED
  BY <1>1, <1>2, <1>3, <1>4, <1>5, <1>6, <1>7, <1>8, <1>9, <1>10, <1>11
  DEF Next, Query, Close, Terminated

\* The client's fields describe the connection it holds in every reachable state.
THEOREM HeldCorrect == Spec => [](UnusedInv /\ HeldInv)
<1>1. Init => UnusedInv /\ HeldInv
  BY ConstantsAssumption DEF Init, UnusedInv, HeldInv
<1> QED
  BY <1>1, HeldStep, TypeCorrect, PTL DEF Spec

\* A family of clients never holds two connections: concurrent queries share the
\* one that is being opened, and a new one is opened only after the release.
THEOREM OneConnection == Spec => []HoldsAtMostOne
<1>1. TypeOK /\ HeldInv => HoldsAtMostOne
  BY ConstantsAssumption DEF TypeOK, HeldInv, HoldsAtMostOne, Held
<1> QED
  BY <1>1, HeldCorrect, TypeCorrect, PTL

\* A connection is released at most once, whichever clients are closed.
THEOREM ReleasedOnce == Spec => []ReleasedAtMostOnce
<1>1. TypeOK /\ HeldInv => ReleasedAtMostOnce
  BY DEF TypeOK, HeldInv, ReleasedAtMostOnce
<1> QED
  BY <1>1, HeldCorrect, TypeCorrect, PTL

--------------------------------------------------------------------------------
(* What the queries in flight wait for or run on                           *)

\* The shared promise is pending or one the factory threw for; a query waits for
\* the connection it opens; and unless a client is closed with queries in flight,
\* what a query waits for or runs on has not been released.
FlightInv ==
  /\ FailureIsForgotten
  /\ \A q \in Queries : link[q] = "opening" => pc[q] = "waiting" /\ target[q] = q
  /\ released => connection = NoConn
  /\ "closedInFlight" \notin untidy =>
       \A q \in InFlight : target[q] \in Queries /\ releases[target[q]] = 0
  /\ closed /\ untidy = {} => connection = NoConn /\ InFlight = {}

LEMMA FlightStep ==
  TypeOK /\ UnusedInv /\ HeldInv /\ FlightInv /\ [Next]_vars => FlightInv'
<1> SUFFICES ASSUME TypeOK, UnusedInv, HeldInv, FlightInv, [Next]_vars PROVE FlightInv'
  OBVIOUS
<1> USE ConstantsAssumption DEF TypeOK, UnusedInv, HeldInv, FlightInv, FailureIsForgotten, InFlight,
                                Goto, Await, Issue, Settles, fields
<1>1. ASSUME NEW q \in Queries, QueryShared(q) PROVE FlightInv'
  BY <1>1 DEF QueryShared
<1>2. ASSUME NEW q \in Queries, QueryOpens(q) PROVE FlightInv'
  BY <1>2 DEF QueryOpens
<1>3. ASSUME NEW q \in Queries, QueryOpensThrowing(q) PROVE FlightInv'
  BY <1>3 DEF QueryOpensThrowing
<1>4. ASSUME NEW q \in Queries, Opened(q) PROVE FlightInv'
  BY <1>4 DEF Opened
<1>5. ASSUME NEW q \in Queries, OpenRejected(q) PROVE FlightInv'
  BY <1>5 DEF OpenRejected
<1>6. ASSUME NEW q \in Queries, Execute(q) PROVE FlightInv'
  BY <1>6 DEF Execute
<1>7. ASSUME NEW q \in Queries, Settle(q) PROVE FlightInv'
  BY <1>7 DEF Settle
<1>8. ASSUME NEW k \in Closers, CloseAgain(k) PROVE FlightInv'
  BY <1>8 DEF CloseAgain
<1>9. ASSUME NEW k \in Closers, CloseUnconnected(k) PROVE FlightInv'
  BY <1>9 DEF CloseUnconnected
<1>10. ASSUME NEW k \in Closers, CloseReleases(k) PROVE FlightInv'
  BY <1>10 DEF CloseReleases
<1>11. CASE UNCHANGED vars
  BY <1>11 DEF vars
<1> QED
  BY <1>1, <1>2, <1>3, <1>4, <1>5, <1>6, <1>7, <1>8, <1>9, <1>10, <1>11
  DEF Next, Query, Close, Terminated

LEMMA FlightCorrect == Spec => []FlightInv
<1>1. Init => FlightInv
  BY ConstantsAssumption DEF Init, FlightInv, FailureIsForgotten, InFlight
<1> QED
  BY <1>1, FlightStep, HeldCorrect, TypeCorrect, PTL DEF Spec

\* A rejected connectionFactory leaves no promise behind for later queries.
THEOREM Forgotten == Spec => []FailureIsForgotten
<1>1. FlightInv => FailureIsForgotten
  BY DEF FlightInv
<1> QED
  BY <1>1, FlightCorrect, PTL

\* As long as no client is closed with queries in flight, no query runs on a
\* connection that has been released.
THEOREM LiveConnections == Spec => []QueriesUseLiveConnection
<1>1. FlightInv => QueriesUseLiveConnection
  BY DEF FlightInv, QueriesUseLiveConnection, InFlight
<1> QED
  BY <1>1, FlightCorrect, PTL

\* A caller who closes last, and nothing in flight, leaves no connection open.
THEOREM NothingLeftOpen == Spec => []CloseLeavesNothingOpen
<1>1. TypeOK /\ HeldInv /\ FlightInv => CloseLeavesNothingOpen
  BY ConstantsAssumption DEF TypeOK, HeldInv, FlightInv, CloseLeavesNothingOpen
<1> QED
  BY <1>1, FlightCorrect, HeldCorrect, TypeCorrect, PTL

================================================================================
