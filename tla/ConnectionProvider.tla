--------------------------- MODULE ConnectionProvider --------------------------
(***************************************************************************)
(* createConnectionProvider (packages/executor): withConnection and        *)
(* withTransaction acquire a connection, run the callback, and dispose of  *)
(* the connection whatever fails in between.                               *)
(*                                                                         *)
(* One process per call.  connectionFactory and disposeConnection are a    *)
(* pool of a fixed set of connections, as in the README's examples.  A     *)
(* connection keeps its database session: the writes not yet committed     *)
(* stay with it until a COMMIT or a ROLLBACK, also when it changes hands.  *)
(* Every callback writes once; it may call the provider again and then     *)
(* awaits the inner call.                                                  *)
(***************************************************************************)
EXTENDS Naturals, FiniteSets

CONSTANTS
  Calls,          \* calls of withConnection and withTransaction
  Transactions,   \* those of withTransaction
  Parent,         \* Parent[c]: the call whose callback makes call c, or NoCall
  NoCall,
  Conns,          \* the connections of the pool
  NoConn,
  Faults          \* what may reject; "nothing" is a callback that rejects with undefined

Hooks == {"connect", "begin", "callback", "nothing", "commit", "rollback", "dispose"}

ASSUME ConstantsAssumption ==
  /\ Transactions \subseteq Calls
  /\ NoCall \notin Calls
  /\ Parent \in [Calls -> Calls \cup {NoCall}]
  /\ NoConn \notin Conns
  /\ Faults \subseteq Hooks

VARIABLES
  pc,          \* where each call stands
  conn,        \* conn[c]: const connection of call c
  primary,     \* primary[c]: primaryError, "none" while undefined
  outcome,     \* outcome[c]: how the promise of c settled
  pool,        \* the connections that are free
  inTx,        \* inTx[k]: the session of k has an open transaction
  session,     \* session[k]: the calls whose writes k has not yet committed
  durable,     \* the calls whose writes are committed
  first,       \* history: the first error that anything call c awaited raised
  unrolled     \* history: the calls whose ROLLBACK was rejected

history == <<first, unrolled>>
vars == <<pc, conn, primary, outcome, pool, inTx, session, durable, history>>

Steps == {"idle", "connecting", "begin", "callback", "written", "commit",
          "rollback", "dispose", "settled"}

TypeOK ==
  /\ pc \in [Calls -> Steps]
  /\ conn \in [Calls -> Conns \cup {NoConn}]
  /\ primary \in [Calls -> Hooks \cup {"none"}]
  /\ outcome \in [Calls -> Hooks \cup {"none", "resolved"}]
  /\ pool \subseteq Conns
  /\ inTx \in [Conns -> BOOLEAN]
  /\ session \in [Conns -> SUBSET Calls]
  /\ durable \subseteq Calls
  /\ first \in [Calls -> Hooks \cup {"none"}]
  /\ unrolled \subseteq Calls

Init ==
  /\ pc = [c \in Calls |-> "idle"]
  /\ conn = [c \in Calls |-> NoConn]
  /\ primary = [c \in Calls |-> "none"]
  /\ outcome = [c \in Calls |-> "none"]
  /\ pool = Conns
  /\ inTx = [k \in Conns |-> FALSE]
  /\ session = [k \in Conns |-> {}]
  /\ durable = {}
  /\ first = [c \in Calls |-> "none"]
  /\ unrolled = {}

Goto(c, to) == pc' = [pc EXCEPT ![c] = to]
Running == {c \in Calls : pc[c] \in {"callback", "written"}}
Children(c) == {d \in Calls : Parent[d] = c}

\* What call c awaits rejects with this error, whatever the code makes of it.
Raise(c, error) ==
  first' = [first EXCEPT ![c] = IF @ = "none" THEN error ELSE @]

\* What a caught error does: primaryError is set and withTransaction goes on
\* to ROLLBACK, withConnection to the finally block.
Catch(c, error) ==
  /\ Raise(c, error)
  /\ primary' = [primary EXCEPT ![c] = error]
  /\ Goto(c, IF c \in Transactions THEN "rollback" ELSE "dispose")

--------------------------------------------------------------------------------

Invoke(c) ==
  /\ pc[c] = "idle"
  /\ Parent[c] # NoCall => Parent[c] \in Running
  /\ Goto(c, "connecting")
  /\ UNCHANGED <<conn, primary, outcome, pool, inTx, session, durable, history>>

\* connectionFactory() takes a free connection, or waits for one.
Connect(c, k) ==
  /\ pc[c] = "connecting"
  /\ k \in pool
  /\ pool' = pool \ {k}
  /\ conn' = [conn EXCEPT ![c] = k]
  /\ Goto(c, IF c \in Transactions THEN "begin" ELSE "callback")
  /\ UNCHANGED <<primary, outcome, inTx, session, durable, history>>

\* A rejection before the try block settles the call.
ConnectRejects(c) ==
  /\ "connect" \in Faults
  /\ pc[c] = "connecting"
  /\ outcome' = [outcome EXCEPT ![c] = "connect"]
  /\ Goto(c, "settled")
  /\ Raise(c, "connect")
  /\ UNCHANGED <<conn, primary, pool, inTx, session, durable, unrolled>>

\* Within a transaction that is still open BEGIN is only a warning.
Begin(c) ==
  /\ pc[c] = "begin"
  /\ inTx' = [inTx EXCEPT ![conn[c]] = TRUE]
  /\ Goto(c, "callback")
  /\ UNCHANGED <<conn, primary, outcome, pool, session, durable, history>>

\* The answer says nothing about whether the server has begun one.
BeginRejects(c) ==
  /\ "begin" \in Faults
  /\ pc[c] = "begin"
  /\ \E open \in {inTx[conn[c]], TRUE} : inTx' = [inTx EXCEPT ![conn[c]] = open]
  /\ Catch(c, "begin")
  /\ UNCHANGED <<conn, outcome, pool, session, durable, unrolled>>

\* The callback's statement: committed at once outside a transaction.
Write(c) ==
  /\ pc[c] = "callback"
  /\ IF inTx[conn[c]]
     THEN session' = [session EXCEPT ![conn[c]] = @ \cup {c}] /\ UNCHANGED durable
     ELSE durable' = durable \cup {c} /\ UNCHANGED session
  /\ Goto(c, "written")
  /\ UNCHANGED <<conn, primary, outcome, pool, inTx, history>>

Awaited(c) == \A d \in Children(c) : pc[d] \in {"idle", "settled"}

\* Mutant: COMMIT is not sent when the callback has returned.
ReturnUncommitted(c) ==
  /\ pc[c] = "written"
  /\ Awaited(c)
  /\ Goto(c, "dispose")
  /\ UNCHANGED <<conn, primary, outcome, pool, inTx, session, durable, history>>

\* Mutant: withConnection returns the callback's result past the finally block.
ReturnUndisposed(c) ==
  /\ pc[c] = "written"
  /\ Awaited(c)
  /\ Goto(c, IF c \in Transactions THEN "commit" ELSE "settled")
  /\ UNCHANGED <<conn, primary, outcome, pool, inTx, session, durable, history>>

Return(c) ==
  /\ pc[c] = "written"
  /\ Awaited(c)
  /\ Goto(c, IF c \in Transactions THEN "commit" ELSE "dispose")
  /\ UNCHANGED <<conn, primary, outcome, pool, inTx, session, durable, history>>

\* Mutant: an error of the callback is not rolled back.
ThrowUnrolled(c) ==
  /\ c \in Running
  /\ Awaited(c)
  /\ \E error \in Faults \cap {"callback", "nothing"} :
       Raise(c, error) /\ primary' = [primary EXCEPT ![c] = error]
  /\ Goto(c, "dispose")
  /\ UNCHANGED <<conn, outcome, pool, inTx, session, durable, unrolled>>

Throw(c) ==
  /\ c \in Running
  /\ Awaited(c)
  /\ \E error \in Faults \cap {"callback", "nothing"} : Catch(c, error)
  /\ UNCHANGED <<conn, outcome, pool, inTx, session, durable, unrolled>>

\* What COMMIT and ROLLBACK do to the session of connection k.
CommitSession(k) ==
  /\ durable' = durable \cup session[k]
  /\ session' = [session EXCEPT ![k] = {}]
  /\ inTx' = [inTx EXCEPT ![k] = FALSE]

\* Mutant: the connection is given back right after COMMIT, and again at the end.
CommitAndRelease(c) ==
  /\ pc[c] = "commit"
  /\ CommitSession(conn[c])
  /\ pool' = pool \cup {conn[c]}
  /\ Goto(c, "dispose")
  /\ UNCHANGED <<conn, primary, outcome, history>>

Commit(c) ==
  /\ pc[c] = "commit"
  /\ CommitSession(conn[c])
  /\ Goto(c, "dispose")
  /\ UNCHANGED <<conn, primary, outcome, pool, history>>

\* COMMIT rejects, and the answer says nothing about what the server has done.
CommitRejects(c) ==
  /\ "commit" \in Faults
  /\ pc[c] = "commit"
  /\ CommitSession(conn[c]) \/ UNCHANGED <<inTx, session, durable>>
  /\ Catch(c, "commit")
  /\ UNCHANGED <<conn, outcome, pool, unrolled>>

Rollback(c) ==
  /\ pc[c] = "rollback"
  /\ session' = [session EXCEPT ![conn[c]] = {}]
  /\ inTx' = [inTx EXCEPT ![conn[c]] = FALSE]
  /\ Goto(c, "dispose")
  /\ UNCHANGED <<conn, primary, outcome, pool, durable, history>>

\* Mutant: the error of a failing ROLLBACK replaces the one that led to it.
RollbackErrorThrown(c) ==
  /\ "rollback" \in Faults
  /\ pc[c] = "rollback"
  /\ Raise(c, "rollback")
  /\ unrolled' = unrolled \cup {c}
  /\ primary' = [primary EXCEPT ![c] = "rollback"]
  /\ Goto(c, "dispose")
  /\ UNCHANGED <<conn, outcome, pool, inTx, session, durable>>

\* A failing ROLLBACK is suppressed: the connection goes back as it is.
RollbackRejects(c) ==
  /\ "rollback" \in Faults
  /\ pc[c] = "rollback"
  /\ Raise(c, "rollback")
  /\ unrolled' = unrolled \cup {c}
  /\ Goto(c, "dispose")
  /\ UNCHANGED <<conn, primary, outcome, pool, inTx, session, durable>>

\* Mutant: the connection is disposed of after a success only.
DisposeAfterSuccess(c) ==
  /\ pc[c] = "dispose"
  /\ pool' = IF primary[c] = "none" THEN pool \cup {conn[c]} ELSE pool
  /\ conn' = [conn EXCEPT ![c] = NoConn]
  /\ outcome' = [outcome EXCEPT ![c] = IF primary[c] = "none" THEN "resolved" ELSE primary[c]]
  /\ Goto(c, "settled")
  /\ UNCHANGED <<primary, inTx, session, durable, history>>

\* The call settles with its result, or with the error thrown before.
Dispose(c) ==
  /\ pc[c] = "dispose"
  /\ pool' = pool \cup {conn[c]}
  /\ conn' = [conn EXCEPT ![c] = NoConn]
  /\ outcome' = [outcome EXCEPT ![c] = IF primary[c] = "none" THEN "resolved" ELSE primary[c]]
  /\ Goto(c, "settled")
  /\ UNCHANGED <<primary, inTx, session, durable, history>>

\* Mutant: the error of the disposer always wins.
DisposeRejectsAlways(c) ==
  /\ "dispose" \in Faults
  /\ pc[c] = "dispose"
  /\ pool' \in {pool, pool \cup {conn[c]}}
  /\ conn' = [conn EXCEPT ![c] = NoConn]
  /\ outcome' = [outcome EXCEPT ![c] = "dispose"]
  /\ Goto(c, "settled")
  /\ Raise(c, "dispose")
  /\ UNCHANGED <<primary, inTx, session, durable, unrolled>>

\* The disposer rejects, the connection may be back or lost.  Its error is
\* thrown unless primaryError is truthy.
DisposeRejects(c) ==
  /\ "dispose" \in Faults
  /\ pc[c] = "dispose"
  /\ pool' \in {pool, pool \cup {conn[c]}}
  /\ conn' = [conn EXCEPT ![c] = NoConn]
  /\ outcome' = [outcome EXCEPT ![c] =
                   IF primary[c] \in {"none", "nothing"} THEN "dispose" ELSE primary[c]]
  /\ Goto(c, "settled")
  /\ Raise(c, "dispose")
  /\ UNCHANGED <<primary, inTx, session, durable, unrolled>>

--------------------------------------------------------------------------------

withConnection(c) ==
  \/ Invoke(c) \/ (\E k \in Conns : Connect(c, k)) \/ ConnectRejects(c)
  \/ Write(c) \/ Return(c) \/ Throw(c)
  \/ Dispose(c) \/ DisposeRejects(c)

withTransaction(c) ==
  \/ Begin(c) \/ BeginRejects(c)
  \/ Commit(c) \/ CommitRejects(c)
  \/ Rollback(c) \/ RollbackRejects(c)

\* A callback that has made its statement awaits its inner calls; a factory
\* that does not reject waits for a connection to come back.
Live == {c \in Calls : pc[c] \notin {"idle", "settled"}}

Waits(c) ==
  \/ pc[c] = "written" /\ ~Awaited(c)
  \/ pc[c] = "connecting" /\ pool = {} /\ "connect" \notin Faults

EveryCallWaits == Live # {} /\ \A c \in Live : Waits(c)

\* Every call that was made has ended, or all those that have not wait.
Stopped ==
  /\ Live = {} \/ EveryCallWaits
  /\ UNCHANGED vars

Next ==
  \/ \E c \in Calls : withConnection(c) \/ withTransaction(c)
  \/ Stopped

\* Every hook and every callback settles, one way or the other, and a pool serves
\* its waiters in turn; that it may reject them instead is not relied on.
Fairness ==
  \A c \in Calls :
    /\ WF_vars(Begin(c) \/ BeginRejects(c) \/ Write(c) \/ Return(c) \/ Throw(c)
               \/ Commit(c) \/ CommitRejects(c) \/ Rollback(c) \/ RollbackRejects(c)
               \/ Dispose(c) \/ DisposeRejects(c))
    /\ SF_vars(\E k \in Conns : Connect(c, k))

Spec == Init /\ [][Next]_vars
FairSpec == Spec /\ Fairness

--------------------------------------------------------------------------------
(* Properties                                                              *)

\* A connection serves one call at a time and is not free meanwhile, whatever
\* fails: it is given back exactly once.
OneCallPerConnection ==
  \A c \in Calls : conn[c] # NoConn =>
    /\ conn[c] \notin pool
    /\ \A d \in Calls : conn[d] = conn[c] => d = c

\* As long as ROLLBACK works, a connection goes back to the pool with nothing
\* of the transaction it served: no open transaction and no pending write.
FreeConnectionsAreClean ==
  \A k \in pool : ~inTx[k] /\ session[k] = {}

\* A transaction that failed before COMMIT was sent is not committed, then or
\* later, unless its own ROLLBACK was rejected: then whoever has the connection
\* next may commit its writes.  A rejected call can also be durable because the
\* answer to its COMMIT was lost or its disposer rejected; in no other case.
RejectedMeansRolledBack ==
  \A c \in Transactions :
    c \in durable => first[c] \in {"none", "commit", "dispose"} \/ c \in unrolled

\* A call settles with the first error of all that it awaited, and resolves only
\* if there was none, whichever of BEGIN, the callback, COMMIT, ROLLBACK and the
\* disposer failed after it.  The exception is a callback that rejects with a
\* falsy value: then the disposer's error is thrown instead.
OriginalErrorWins ==
  \A c \in Calls : pc[c] = "settled" =>
    \/ outcome[c] = IF first[c] = "none" THEN "resolved" ELSE first[c]
    \/ first[c] = "nothing" /\ outcome[c] = "dispose"

\* A transaction is decided before its call is answered, once and for all, and
\* a call that resolves has committed.
Status == [c \in Transactions |->
             IF c \in durable THEN "committed"
             ELSE IF pc[c] \in {"dispose", "settled"} THEN "aborted" ELSE "pending"]
Reply == [c \in Transactions |->
            IF outcome[c] \in {"none", "resolved"} THEN outcome[c] ELSE "rejected"]

Atomic == INSTANCE AtomicTransactions WITH status <- Status, reply <- Reply
ImplementsAtomic == Atomic!Spec

\* The disposer has rejected so often that no connection has come back.
PoolLost == pool = {} /\ \A c \in Calls : conn[c] = NoConn

\* Every call settles, whatever rejects, when callbacks do not call the provider
\* and its disposer has not lost the whole pool.
CallSettles == \A c \in Calls : pc[c] # "idle" ~> pc[c] = "settled" \/ PoolLost

\* d is c, or an inner call that c awaits: directly, or through an inner call.
Awaits(c, d) ==
  \A S \in SUBSET Calls :
    c \in S /\ (\A e \in S : Children(e) \cap Live \subseteq S) => d \in S

\* The provider stops only when the callbacks that hold the whole pool each
\* await, at some depth, an inner call that waits for a connection.  (That it
\* stops only when every call waits is the deadlock check of the runs.)
StuckOnlyByNesting ==
  EveryCallWaits =>
    \A k \in Conns : \E c, d \in Calls :
      conn[c] = k /\ pc[c] = "written" /\ Awaits(c, d) /\ pc[d] = "connecting"

================================================================================
