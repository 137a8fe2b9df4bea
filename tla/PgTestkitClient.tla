---------------------------- MODULE PgTestkitClient ----------------------------
(***************************************************************************)
(* PgTestkitClient (packages/adapters/adapter-node-pg) over                *)
(* PostgresTestkitClient (packages/testkit-postgres): a client opens its   *)
(* connection on the first query, shares it among concurrent queries and   *)
(* releases it on close().  Clients derived with withFixtures share one    *)
(* ExecutionContext, whose executor and disposer belong to the client they *)
(* were derived from: a whole family has one connection, one closed flag,  *)
(* and is modelled as one state machine.                                   *)
(*                                                                         *)
(* One process per query and per close, whichever client of the family it  *)
(* is called on.  A connection is named by the query whose call of         *)
(* connectionFactory() makes it.                                           *)
(***************************************************************************)
EXTENDS Naturals, FiniteSets

CONSTANTS
  Queries,      \* calls of query
  Closers,      \* calls of close
  NoConn,       \* no connection
  Faults        \* how connectionFactory() may fail: "rejects", "throws"

ASSUME ConstantsAssumption ==
  /\ Queries \cap Closers = {}
  /\ NoConn \notin Queries
  /\ Faults \subseteq {"rejects", "throws"}

VARIABLES
  closed,      \* context.closed
  released,    \* this.released
  connection,  \* this.connection
  promise,     \* this.connectionPromise: the query whose factory call it is
  link,        \* link[q]: the connection made by q's factory call
  releases,    \* releases[q]: how often that connection was released or ended
  pc,          \* where each call stands
  target,      \* target[q]: the connection, or its promise, that query q awaits
  untidy       \* history: the untidy things the caller has done, see Untidy

fields == <<closed, released, connection, promise>>
vars == <<fields, link, releases, pc, target, untidy>>

\* A close with a query in flight, and a query after a close.
Untidy == {"closedInFlight", "queriedAfterClose"}

TypeOK ==
  /\ closed \in BOOLEAN
  /\ released \in BOOLEAN
  /\ connection \in Queries \cup {NoConn}
  /\ promise \in Queries \cup {NoConn}
  /\ link \in [Queries -> {"none", "opening", "open", "failed", "threw"}]
  /\ releases \in [Queries -> Nat]
  /\ pc \in [Queries \cup Closers -> {"idle", "waiting", "executing", "settled"}]
  /\ target \in [Queries -> Queries \cup {NoConn}]
  /\ untidy \subseteq Untidy

Init ==
  /\ closed = FALSE
  /\ released = FALSE
  /\ connection = NoConn
  /\ promise = NoConn
  /\ link = [q \in Queries |-> "none"]
  /\ releases = [q \in Queries |-> 0]
  /\ pc = [p \in Queries \cup Closers |-> "idle"]
  /\ target = [q \in Queries |-> NoConn]
  /\ untidy = {}

Goto(p, to) == pc' = [pc EXCEPT ![p] = to]
Await(q, k) == target' = [target EXCEPT ![q] = k]

InFlight == {q \in Queries : pc[q] \in {"waiting", "executing"}}

--------------------------------------------------------------------------------
(* query: the SQL is rewritten, then getConnection() picks what to await.  *)

Issue(q) ==
  /\ pc[q] = "idle"
  /\ Goto(q, "waiting")
  /\ untidy' = IF closed THEN untidy \cup {"queriedAfterClose"} ELSE untidy

\* The connection is there, or is being opened for an earlier query.
QueryShared(q) ==
  /\ Issue(q)
  /\ connection # NoConn \/ promise # NoConn
  /\ Await(q, IF connection # NoConn THEN connection ELSE promise)
  /\ UNCHANGED <<closed, released, connection, promise, link, releases>>

\* Mutant: the promise is not shared with later queries.
QueryOpensAlone(q) ==
  /\ Issue(q)
  /\ connection = NoConn /\ promise = NoConn
  /\ link' = [link EXCEPT ![q] = "opening"]
  /\ Await(q, q)
  /\ UNCHANGED <<closed, released, connection, promise, releases>>

QueryOpens(q) ==
  /\ Issue(q)
  /\ connection = NoConn /\ promise = NoConn
  /\ link' = [link EXCEPT ![q] = "opening"]
  /\ promise' = q
  /\ Await(q, q)
  /\ UNCHANGED <<closed, released, connection, releases>>

\* connectionFactory() throws before it returns a promise: the finally block
\* clears connectionPromise first and the assignment of the rejected promise
\* comes after it.
QueryOpensThrowing(q) ==
  /\ Issue(q)
  /\ "throws" \in Faults
  /\ connection = NoConn /\ promise = NoConn
  /\ link' = [link EXCEPT ![q] = "threw"]
  /\ promise' = q
  /\ Await(q, q)
  /\ UNCHANGED <<closed, released, connection, releases>>

\* The factory's promise fulfils: the client has a connection to release again.
Opened(k) ==
  /\ link[k] = "opening"
  /\ link' = [link EXCEPT ![k] = "open"]
  /\ connection' = k
  /\ released' = FALSE
  /\ promise' = NoConn
  /\ UNCHANGED <<closed, releases, pc, target, untidy>>

OpenRejected(k) ==
  /\ "rejects" \in Faults
  /\ link[k] = "opening"
  /\ link' = [link EXCEPT ![k] = "failed"]
  /\ promise' = NoConn
  /\ UNCHANGED <<closed, released, connection, releases, pc, target, untidy>>

\* executeQuery goes on with the connection it awaited.
Execute(q) ==
  /\ pc[q] = "waiting"
  /\ link[target[q]] = "open"
  /\ Goto(q, "executing")
  /\ UNCHANGED <<fields, link, releases, target, untidy>>

\* Mutant: the rejection of the factory does not reach the query.
SettleAnswered(q) ==
  /\ pc[q] = "executing"
  /\ Goto(q, "settled")
  /\ UNCHANGED <<fields, link, releases, target, untidy>>

\* The query settles: the database has answered, or there is no connection.
Settle(q) ==
  /\ \/ pc[q] = "executing"
     \/ pc[q] = "waiting" /\ link[target[q]] \in {"failed", "threw"}
  /\ Goto(q, "settled")
  /\ UNCHANGED <<fields, link, releases, target, untidy>>

--------------------------------------------------------------------------------
(* close: disposes the executor unless some client of the family did.      *)

Settles(k) ==
  /\ pc[k] = "idle"
  /\ Goto(k, "settled")
  /\ untidy' = IF InFlight = {} THEN untidy ELSE untidy \cup {"closedInFlight"}

CloseAgain(k) ==
  /\ Settles(k)
  /\ closed
  /\ UNCHANGED <<fields, link, releases, target>>

\* releaseConnection() without a connection, also while one is being opened.
CloseUnconnected(k) ==
  /\ Settles(k)
  /\ ~closed
  /\ released \/ connection = NoConn
  /\ closed' = TRUE
  /\ released' = TRUE
  /\ UNCHANGED <<connection, promise, link, releases, target>>

\* Mutant: the released connection is kept.
CloseKeeps(k) ==
  /\ Settles(k)
  /\ ~closed
  /\ ~released /\ connection # NoConn
  /\ closed' = TRUE
  /\ released' = TRUE
  /\ releases' = [releases EXCEPT ![connection] = @ + 1]
  /\ UNCHANGED <<connection, promise, link, target>>

CloseReleases(k) ==
  /\ Settles(k)
  /\ ~closed
  /\ ~released /\ connection # NoConn
  /\ closed' = TRUE
  /\ released' = TRUE
  /\ releases' = [releases EXCEPT ![connection] = @ + 1]
  /\ connection' = NoConn
  /\ UNCHANGED <<promise, link, target>>

--------------------------------------------------------------------------------

Query(q) == QueryShared(q) \/ QueryOpens(q) \/ QueryOpensThrowing(q)
Close(k) == CloseAgain(k) \/ CloseUnconnected(k) \/ CloseReleases(k)

Terminated ==
  /\ \A p \in Queries \cup Closers : pc[p] \in {"idle", "settled"}
  /\ UNCHANGED vars

Next ==
  \/ \E q \in Queries : Query(q) \/ Opened(q) \/ OpenRejected(q) \/ Execute(q) \/ Settle(q)
  \/ \E k \in Closers : Close(k)
  \/ Terminated

\* The factory answers, promises go on and the database answers.
Fairness ==
  /\ \A q \in Queries : WF_vars(Opened(q) \/ OpenRejected(q))
  /\ \A q \in Queries : WF_vars(Execute(q) \/ Settle(q))

Spec == Init /\ [][Next]_vars
FairSpec == Spec /\ Fairness

--------------------------------------------------------------------------------
(* Properties                                                              *)

\* Concurrent first queries open one connection, and while a connection is
\* open and not released no second one is opened: the client never holds two,
\* whatever fails and whenever it is closed.
Held == {k \in Queries : link[k] = "opening" \/ (link[k] = "open" /\ releases[k] = 0)}
HoldsAtMostOne == \A j, k \in Held : j = k

\* However many clients of the family are closed, and however often, a
\* connection is released at most once.
ReleasedAtMostOnce == \A k \in Queries : releases[k] <= 1

\* A query never runs on a connection that has been given back, provided that
\* no query is in flight when a client is closed: a later query opens a new one.
QueriesUseLiveConnection ==
  "closedInFlight" \notin untidy =>
    \A q \in Queries : pc[q] = "executing" => releases[target[q]] = 0

\* After close() no connection is left open, provided that the caller closes last.
CloseLeavesNothingOpen ==
  closed /\ untidy = {} => \A k \in Queries : link[k] = "open" => releases[k] = 1

\* A connection that could not be opened is not remembered: the promise that
\* queries share is one still pending, unless the factory threw.
FailureIsForgotten == promise # NoConn => link[promise] \in {"opening", "threw"}

\* Every query settles, also when its connection fails or is released.
QuerySettles == \A q \in Queries : pc[q] # "idle" ~> pc[q] = "settled"

================================================================================
