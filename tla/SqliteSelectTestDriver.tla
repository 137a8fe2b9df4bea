------------------------ MODULE SqliteSelectTestDriver -------------------------
(***************************************************************************)
(* createSqliteSelectTestDriver (packages/testkit-sqlite): a driver opens  *)
(* its handle on the first query and closes it on close(); withFixtures    *)
(* derives a driver that starts with the handle its parent has at that     *)
(* moment.  The code is synchronous: each call is one step, and the only   *)
(* order to get wrong is the caller's.                                     *)
(***************************************************************************)
EXTENDS Naturals, FiniteSets

CONSTANTS
  Drivers,     \* the driver made first and those that may be derived
  Root,        \* the one createSqliteSelectTestDriver returned
  MaxHandles,  \* bound on how often connectionFactory() is called
  NoHandle,
  Faults       \* "open": connectionFactory() may throw, "close": connection.close() may

ASSUME ConstantsAssumption ==
  /\ Root \in Drivers
  /\ MaxHandles \in Nat
  /\ NoHandle \notin Nat
  /\ Faults \subseteq {"open", "close"}

VARIABLES
  made,        \* the drivers that exist
  connection,  \* connection[d]: the handle driver d has, or NoHandle
  opened,      \* how many handles have been opened: they are 1..opened
  closed,      \* the handles that have been closed
  derivedEarly, \* history: a driver was derived from one that had no handle
  queriedLate   \* history: a driver opened a handle after some driver was closed

vars == <<made, connection, opened, closed, derivedEarly, queriedLate>>

Open == (1..opened) \ closed

Init ==
  /\ made = {Root}
  /\ connection = [d \in Drivers |-> NoHandle]
  /\ opened = 0
  /\ closed = {}
  /\ derivedEarly = FALSE
  /\ queriedLate = FALSE

Attach(d, h) == connection' = [connection EXCEPT ![d] = h]

--------------------------------------------------------------------------------

\* query on the handle the driver has, open or not: SQLite refuses a closed one.
Query(d) ==
  /\ d \in made
  /\ connection[d] # NoHandle
  /\ UNCHANGED vars

\* Mutant: the handle is used and not kept.
QueryOpensUnkept(d) ==
  /\ d \in made
  /\ connection[d] = NoHandle
  /\ opened < MaxHandles
  /\ opened' = opened + 1
  /\ queriedLate' = (queriedLate \/ closed # {})
  /\ UNCHANGED <<made, connection, closed, derivedEarly>>

\* query on a driver without a handle.
QueryOpens(d) ==
  /\ d \in made
  /\ connection[d] = NoHandle
  /\ opened < MaxHandles
  /\ opened' = opened + 1
  /\ Attach(d, opened + 1)
  /\ queriedLate' = (queriedLate \/ closed # {})
  /\ UNCHANGED <<made, closed, derivedEarly>>

\* connectionFactory() throws out of query.
QueryThrows(d) ==
  /\ "open" \in Faults
  /\ d \in made
  /\ connection[d] = NoHandle
  /\ UNCHANGED vars

\* Mutant: the derived driver always opens a handle of its own.
withFixturesUnseeded(d, e) ==
  /\ d \in made /\ e \notin made
  /\ made' = made \cup {e}
  /\ derivedEarly' = (derivedEarly \/ connection[d] = NoHandle)
  /\ UNCHANGED <<connection, opened, closed, queriedLate>>

withFixtures(d, e) ==
  /\ d \in made /\ e \notin made
  /\ made' = made \cup {e}
  /\ Attach(e, connection[d])
  /\ derivedEarly' = (derivedEarly \/ connection[d] = NoHandle)
  /\ UNCHANGED <<opened, closed, queriedLate>>

close(d) ==
  /\ d \in made
  /\ connection[d] # NoHandle
  /\ closed' = closed \cup {connection[d]}
  /\ Attach(d, NoHandle)
  /\ UNCHANGED <<made, opened, derivedEarly, queriedLate>>

\* connection.close() throws, or the handle has none: the driver keeps the handle.
closeThrows(d) ==
  /\ "close" \in Faults
  /\ d \in made
  /\ connection[d] # NoHandle
  /\ UNCHANGED vars

Next ==
  \E d \in Drivers :
    \/ Query(d) \/ QueryOpens(d) \/ QueryThrows(d)
    \/ \E e \in Drivers : withFixtures(d, e)
    \/ close(d) \/ closeThrows(d)

Spec == Init /\ [][Next]_vars

--------------------------------------------------------------------------------
(* Properties                                                              *)

\* No handle is leaked: an open handle is the connection of some driver, so
\* closing every driver closes every handle, in whatever order they are made,
\* used and closed, and whatever throws.
EveryHandleIsHeld == \A h \in Open : \E d \in made : connection[d] = h

\* Scoped drivers reuse the same handle: with a query before the first
\* withFixtures and no new handle after a close, a family has one handle.
ScopedDriversReuseTheHandle ==
  ~derivedEarly /\ ~queriedLate => Cardinality(Open) <= 1

================================================================================
