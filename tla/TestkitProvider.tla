---------------------------- MODULE TestkitProvider ----------------------------
(***************************************************************************)
(* TestkitProvider (packages/testkit-core): hands test scenarios either    *)
(* the one shared connection, serialised by a chain of promises and        *)
(* cleaned by a reset after each scenario, or a connection of their own.   *)
(*                                                                         *)
(* One process per call of withRepositoryFixture (Calls) and per call of   *)
(* close (Closers).  JavaScript runs a call without interruption between   *)
(* two awaits, so one action is one such stretch of code.  The hooks the   *)
(* user supplies (factories, callback, release, reset, dispose) are        *)
(* external: a hook named in Faults may reject, any other one succeeds.    *)
(*                                                                         *)
(* A connection is named by the call whose connectionFactory() made it.    *)
(***************************************************************************)
EXTENDS Naturals, Sequences, FiniteSets

CONSTANTS
  Calls,        \* calls of withRepositoryFixture
  Closers,      \* calls of close
  PerTest,      \* the calls whose strategy is 'perTest'; the others share
  Parent,       \* Parent[p]: the call whose callback issues and awaits p
  NoCall,       \* no such call
  ResetOption,  \* "transaction", "none" or "hook"
  Faults        \* the hooks that may reject

Procs  == Calls \cup Closers
Shared == Calls \ PerTest
Hooks  == {"connect", "begin", "make", "callback", "release", "reset", "dispose"}

ASSUME ConstantsAssumption ==
  /\ Calls \cap Closers = {}
  /\ NoCall \notin Procs
  /\ PerTest \subseteq Calls
  /\ Parent \in [Procs -> Calls \cup {NoCall}]
  /\ ResetOption \in {"transaction", "none", "hook"}
  /\ Faults \subseteq Hooks

VARIABLES
  closed,     \* the closed flag
  promise,    \* sharedConnectionPromise: the call that made it, or NoCall
  tail,       \* sharedQueue: the call whose task it settles with, or NoCall
  awaits,     \* awaits[p]: the value of tail p waits for
  order,      \* history: the shared calls in the order they joined the queue
  pc,         \* where each call stands
  result,     \* how a call ended, or is going to end
  conn,       \* conn[c]: the connection call c obtained
  link,       \* link[c]: the connection made by c's connectionFactory()
  disposals,  \* disposals[c]: how often that connection was disposed
  inTx,       \* inTx[c]: that connection is inside a transaction
  dirt,       \* dirt[c]: the calls whose writes that connection still shows
  unreset     \* history: the shared calls whose releaseResource or reset rejected

vars == <<closed, promise, tail, awaits, order, pc, result, conn, link,
          disposals, inTx, dirt, unreset>>

queueVars   == <<tail, awaits, order>>
sessionVars == <<inTx, dirt, unreset>>
linkVars    == <<link, disposals>>

\* The pc values between the start of a scenario and its end.
Scenario == {"acquiring", "beginning", "making", "running", "releasing", "resetting"}
\* The pc values at which a call holds a connection it is going to use.
Using == {"beginning", "making", "running", "releasing", "resetting", "disposing"}

TypeOK ==
  /\ closed \in BOOLEAN
  /\ promise \in Shared \cup {NoCall}
  /\ tail \in Shared \cup {NoCall}
  /\ awaits \in [Procs -> Shared \cup {NoCall}]
  /\ order \in Seq(Shared)
  /\ pc \in [Procs -> {"idle", "queued", "disposing", "draining", "awaiting", "settled"}
                        \cup Scenario]
  /\ result \in [Procs -> {"none", "resolved", "rejected"}]
  /\ conn \in [Calls -> Calls \cup {NoCall}]
  /\ link \in [Calls -> {"none", "connecting", "open", "failed", "disposed"}]
  /\ disposals \in [Calls -> Nat]
  /\ inTx \in [Calls -> BOOLEAN]
  /\ dirt \in [Calls -> SUBSET Calls]
  /\ unreset \subseteq Calls

Init ==
  /\ closed = FALSE
  /\ promise = NoCall
  /\ tail = NoCall
  /\ awaits = [p \in Procs |-> NoCall]
  /\ order = <<>>
  /\ pc = [p \in Procs |-> "idle"]
  /\ result = [p \in Procs |-> "none"]
  /\ conn = [c \in Calls |-> NoCall]
  /\ link = [c \in Calls |-> "none"]
  /\ disposals = [c \in Calls |-> 0]
  /\ inTx = [c \in Calls |-> FALSE]
  /\ dirt = [c \in Calls |-> {}]
  /\ unreset = {}

--------------------------------------------------------------------------------
(* Helpers                                                                 *)

\* How a hook may answer.
Answers(hook) == {"resolved"} \cup (IF hook \in Faults THEN {"rejected"} ELSE {})

\* Mutant: the queue keeps a rejection (no catch), so nothing after it runs.
SettledWithoutCatch(p) ==
  p # NoCall => pc[p] = "settled" /\ result[p] = "resolved"

\* The promise that p awaits has settled: task.then(f, f) never rejects.
Settled(p) == p # NoCall => pc[p] = "settled"

\* A call made inside a callback is made while that callback runs.
CallerRuns(p) == Parent[p] # NoCall => pc[Parent[p]] = "running"

\* The connection c acquires: its own one, or the shared one.
Target(c) == IF c \in PerTest THEN c ELSE promise

Goto(p, to) == pc' = [pc EXCEPT ![p] = to]

Settle(p, r) ==
  /\ pc' = [pc EXCEPT ![p] = "settled"]
  /\ result' = [result EXCEPT ![p] = r]

\* Once a cleanup hook has rejected, the call rejects whatever came before.
Worse(r, a) == IF a = "rejected" THEN "rejected" ELSE r

--------------------------------------------------------------------------------
(* withRepositoryFixture                                                   *)

\* ensureNotClosed throws.
Refuse(c) ==
  /\ pc[c] = "idle" /\ CallerRuns(c)
  /\ closed
  /\ Settle(c, "rejected")
  /\ UNCHANGED <<closed, promise, conn, queueVars, linkVars, sessionVars>>

CallPerTest(c) ==
  /\ c \in PerTest
  /\ pc[c] = "idle" /\ CallerRuns(c)
  /\ ~closed
  /\ link' = [link EXCEPT ![c] = "connecting"]
  /\ Goto(c, "acquiring")
  /\ UNCHANGED <<closed, promise, result, conn, disposals, queueVars, sessionVars>>

\* Mutant: the queue is left as it was.
CallSharedUnqueued(c) ==
  /\ c \in Shared
  /\ pc[c] = "idle" /\ CallerRuns(c)
  /\ ~closed
  /\ awaits' = [awaits EXCEPT ![c] = tail]
  /\ order' = Append(order, c)
  /\ Goto(c, "queued")
  /\ UNCHANGED <<closed, promise, result, conn, tail, linkVars, sessionVars>>

\* Mutant: the shared path forgets ensureNotClosed.
CallSharedWhenClosed(c) ==
  /\ c \in Shared
  /\ pc[c] = "idle" /\ CallerRuns(c)
  /\ awaits' = [awaits EXCEPT ![c] = tail]
  /\ tail' = c
  /\ order' = Append(order, c)
  /\ Goto(c, "queued")
  /\ UNCHANGED <<closed, promise, result, conn, linkVars, sessionVars>>

\* The task is chained to the queue, and the queue becomes the task.
CallShared(c) ==
  /\ c \in Shared
  /\ pc[c] = "idle" /\ CallerRuns(c)
  /\ ~closed
  /\ awaits' = [awaits EXCEPT ![c] = tail]
  /\ tail' = c
  /\ order' = Append(order, c)
  /\ Goto(c, "queued")
  /\ UNCHANGED <<closed, promise, result, conn, linkVars, sessionVars>>

\* Mutant: a lock in place of the queue, any waiting scenario may take it.
StartScenarioUnordered(c) ==
  /\ c \in Shared
  /\ pc[c] = "queued"
  /\ \A d \in Shared : pc[d] \notin Scenario
  /\ IF promise = NoCall
       THEN /\ promise' = c
            /\ link' = [link EXCEPT ![c] = "connecting"]
       ELSE UNCHANGED <<promise, link>>
  /\ Goto(c, "acquiring")
  /\ UNCHANGED <<closed, result, conn, disposals, queueVars, sessionVars>>

\* runScenario starts: ensureSharedConnection makes the promise on first use.
StartScenario(c) ==
  /\ c \in Shared
  /\ pc[c] = "queued"
  /\ Settled(awaits[c])
  /\ IF promise = NoCall
       THEN /\ promise' = c
            /\ link' = [link EXCEPT ![c] = "connecting"]
       ELSE UNCHANGED <<promise, link>>
  /\ Goto(c, "acquiring")
  /\ UNCHANGED <<closed, result, conn, disposals, queueVars, sessionVars>>

\* connectionFactory() answers.  The shared promise keeps a failure for good.
ConnectionAnswers(k) ==
  /\ link[k] = "connecting"
  /\ \E a \in Answers("connect") :
       link' = [link EXCEPT ![k] = IF a = "resolved" THEN "open" ELSE "failed"]
  /\ UNCHANGED <<closed, promise, pc, result, conn, disposals, queueVars, sessionVars>>

\* beginTransactionIfNeeded is reached by the shared path only.
Acquire(c) ==
  /\ pc[c] = "acquiring"
  /\ \/ /\ link[Target(c)] = "failed"
        /\ Settle(c, "rejected")
        /\ UNCHANGED conn
     \/ /\ link[Target(c)] \in {"open", "disposed"}
        /\ conn' = [conn EXCEPT ![c] = Target(c)]
        /\ Goto(c, IF c \in Shared /\ ResetOption = "transaction"
                     THEN "beginning" ELSE "making")
        /\ UNCHANGED result
  /\ UNCHANGED <<closed, promise, queueVars, linkVars, sessionVars>>

\* BEGIN is sent before the try block: when it rejects nothing is reset.
Begin(c) ==
  /\ pc[c] = "beginning"
  /\ \E a \in Answers("begin") :
       IF a = "resolved"
         THEN /\ inTx' = [inTx EXCEPT ![conn[c]] = TRUE]
              /\ Goto(c, "making")
              /\ UNCHANGED result
         ELSE /\ Settle(c, "rejected")
              /\ UNCHANGED inTx
  /\ UNCHANGED <<closed, promise, conn, dirt, unreset, queueVars, linkVars>>

\* Where the finally blocks go on once the resource is gone.
AfterRelease(c) == IF c \in PerTest THEN "disposing" ELSE "resetting"

\* Mutant: resourceFactory is called outside the try block.
MakeResourceUnguarded(c) ==
  /\ pc[c] = "making"
  /\ \E a \in Answers("make") :
       IF a = "resolved"
         THEN Goto(c, "running") /\ UNCHANGED result
         ELSE Settle(c, "rejected")
  /\ UNCHANGED <<closed, promise, conn, queueVars, linkVars, sessionVars>>

\* resourceFactory(connection, fixtures); without a resource nothing is released.
MakeResource(c) ==
  /\ pc[c] = "making"
  /\ \E a \in Answers("make") :
       /\ Goto(c, IF a = "resolved" THEN "running" ELSE AfterRelease(c))
       /\ result' = [result EXCEPT ![c] = IF a = "resolved" THEN "none" ELSE "rejected"]
  /\ UNCHANGED <<closed, promise, conn, queueVars, linkVars, sessionVars>>

\* The callback changes the session or the data through its resource.
Write(c) ==
  /\ pc[c] = "running"
  /\ c \notin dirt[conn[c]]
  /\ dirt' = [dirt EXCEPT ![conn[c]] = @ \cup {c}]
  /\ UNCHANGED <<closed, promise, pc, result, conn, inTx, unreset, queueVars, linkVars>>

\* Mutant: the outcome of the callback is lost.
ReturnNothing(c) ==
  /\ pc[c] = "running"
  /\ \A p \in Procs : Parent[p] = c => pc[p] \in {"idle", "settled"}
  /\ result' = [result EXCEPT ![c] = NoCall]
  /\ Goto(c, "releasing")
  /\ UNCHANGED <<closed, promise, conn, queueVars, linkVars, sessionVars>>

\* The callback ends once every call it made and awaits has settled.
Return(c) ==
  /\ pc[c] = "running"
  /\ \A p \in Procs : Parent[p] = c => pc[p] \in {"idle", "settled"}
  /\ \E a \in Answers("callback") : result' = [result EXCEPT ![c] = a]
  /\ Goto(c, "releasing")
  /\ UNCHANGED <<closed, promise, conn, queueVars, linkVars, sessionVars>>

\* Mutant: a rejecting releaseResource is swallowed together with the reset.
ReleaseSwallowed(c) ==
  /\ pc[c] = "releasing"
  /\ \E a \in Answers("release") :
       IF a = "rejected" /\ c \in Shared
         THEN Settle(c, result[c]) /\ unreset' = unreset \cup {c}
         ELSE /\ Goto(c, AfterRelease(c))
              /\ result' = [result EXCEPT ![c] = Worse(@, a)]
              /\ UNCHANGED unreset
  /\ UNCHANGED <<closed, promise, conn, inTx, dirt, queueVars, linkVars>>

\* releaseResource.  When it rejects, the shared path leaves its finally block
\* before the reset; the perTest path disposes in an outer finally block.
Release(c) ==
  /\ pc[c] = "releasing"
  /\ \E a \in Answers("release") :
       IF a = "rejected" /\ c \in Shared
         THEN Settle(c, "rejected") /\ unreset' = unreset \cup {c}
         ELSE /\ Goto(c, AfterRelease(c))
              /\ result' = [result EXCEPT ![c] = Worse(@, a)]
              /\ UNCHANGED unreset
  /\ UNCHANGED <<closed, promise, conn, inTx, dirt, queueVars, linkVars>>

\* Mutant: the reset follows the scenario instead of standing in a finally block.
ResetAfterSuccess(c) ==
  /\ pc[c] = "resetting"
  /\ Settle(c, result[c])
  /\ IF result[c] = "resolved"
       THEN /\ dirt' = [dirt EXCEPT ![conn[c]] = {}]
            /\ inTx' = [inTx EXCEPT ![conn[c]] = FALSE]
            /\ UNCHANGED unreset
       ELSE UNCHANGED sessionVars
  /\ UNCHANGED <<closed, promise, conn, queueVars, linkVars>>

\* executeReset.  ROLLBACK undoes the transaction, a custom hook clears the
\* session it is handed, 'none' leaves everything as it is.
Reset(c) ==
  /\ pc[c] = "resetting"
  /\ \/ /\ ResetOption = "none"
        /\ Settle(c, result[c])
        /\ UNCHANGED sessionVars
     \/ /\ ResetOption # "none"
        /\ \E a \in Answers("reset") :
             /\ Settle(c, Worse(result[c], a))
             /\ IF a = "resolved"
                  THEN /\ dirt' = [dirt EXCEPT ![conn[c]] = {}]
                       /\ inTx' = [inTx EXCEPT ![conn[c]] = FALSE]
                       /\ UNCHANGED unreset
                  ELSE unreset' = unreset \cup {c} /\ UNCHANGED <<inTx, dirt>>
  /\ UNCHANGED <<closed, promise, conn, queueVars, linkVars>>

\* A perTest connection is disposed whatever happened to its scenario.
Dispose(c) ==
  /\ pc[c] = "disposing"
  /\ link' = [link EXCEPT ![conn[c]] = "disposed"]
  /\ disposals' = [disposals EXCEPT ![conn[c]] = @ + 1]
  /\ \E a \in Answers("dispose") : Settle(c, Worse(result[c], a))
  /\ UNCHANGED <<closed, promise, conn, queueVars, sessionVars>>

--------------------------------------------------------------------------------
(* close                                                                   *)

\* Mutant: close does not wait for the queue.
CloseAtOnce(k) ==
  /\ pc[k] = "idle" /\ CallerRuns(k)
  /\ ~closed
  /\ closed' = TRUE
  /\ Goto(k, "draining")
  /\ UNCHANGED <<promise, tail, order, awaits, result, conn, linkVars, sessionVars>>

Close(k) ==
  /\ pc[k] = "idle" /\ CallerRuns(k)
  /\ ~closed
  /\ closed' = TRUE
  /\ awaits' = [awaits EXCEPT ![k] = tail]
  /\ Goto(k, "draining")
  /\ UNCHANGED <<promise, tail, order, result, conn, linkVars, sessionVars>>

\* A second close returns at once, whether or not the first has done its work.
CloseAgain(k) ==
  /\ pc[k] = "idle" /\ CallerRuns(k)
  /\ closed
  /\ Settle(k, "resolved")
  /\ UNCHANGED <<closed, promise, conn, queueVars, linkVars, sessionVars>>

\* The queue has drained: without a shared connection there is nothing to do.
Drained(k) ==
  /\ pc[k] = "draining"
  /\ Settled(awaits[k])
  /\ IF promise = NoCall
       THEN Settle(k, "resolved")
       ELSE Goto(k, "awaiting") /\ UNCHANGED result
  /\ UNCHANGED <<closed, promise, conn, queueVars, linkVars, sessionVars>>

DisposeShared(k) ==
  /\ pc[k] = "awaiting"
  /\ \/ /\ link[promise] = "failed"
        /\ Settle(k, "rejected")
        /\ UNCHANGED linkVars
     \/ /\ link[promise] \in {"open", "disposed"}
        /\ link' = [link EXCEPT ![promise] = "disposed"]
        /\ disposals' = [disposals EXCEPT ![promise] = @ + 1]
        /\ \E a \in Answers("dispose") : Settle(k, a)
  /\ UNCHANGED <<closed, promise, conn, queueVars, sessionVars>>

--------------------------------------------------------------------------------

\* A new call, made by the user's code.
Issue(p) ==
  \/ p \in Calls /\ (Refuse(p) \/ CallPerTest(p) \/ CallShared(p))
  \/ p \in Closers /\ (Close(p) \/ CloseAgain(p))

\* The next stretch of a call, up to its next await.
Continue(p) ==
  \/ /\ p \in Calls
     /\ \/ StartScenario(p) \/ Acquire(p) \/ Begin(p) \/ MakeResource(p)
        \/ Return(p) \/ Release(p) \/ Reset(p) \/ Dispose(p)
  \/ p \in Closers /\ (Drained(p) \/ DisposeShared(p))

\* A call waits for the queue, or its callback for a call that it made.
Live == {p \in Procs : pc[p] \notin {"idle", "settled"}}
LiveChildren(p) == {q \in Live : Parent[q] = p}

Waits(p) ==
  \/ pc[p] \in {"queued", "draining"} /\ ~Settled(awaits[p])
  \/ pc[p] = "running" /\ LiveChildren(p) # {}

EveryCallWaits == Live # {} /\ \A p \in Live : Waits(p)

\* Every call that was made has ended, or all those that have not wait.
Stopped ==
  /\ Live = {} \/ EveryCallWaits
  /\ UNCHANGED vars

Next ==
  \/ \E p \in Procs : Issue(p) \/ Continue(p)
  \/ \E c \in Calls : Write(c) \/ ConnectionAnswers(c)
  \/ Stopped

\* A promise the user's hooks return settles, and settled promises go on.
Fairness ==
  /\ \A p \in Procs : WF_vars(Continue(p))
  /\ \A c \in Calls : WF_vars(ConnectionAnswers(c))

Spec == Init /\ [][Next]_vars
FairSpec == Spec /\ Fairness

--------------------------------------------------------------------------------
(* Properties                                                              *)

\* The shared path serialises: no two scenarios use the shared connection at
\* the same time (runWithSharedConnection, "so scenarios never run in parallel").
SharedScenariosNeverOverlap ==
  \A c, d \in Shared : pc[c] \in Scenario /\ pc[d] \in Scenario => c = d

\* While a callback runs, its connection shows no write of another scenario: the
\* finally blocks of those before have cleaned the session, whatever rejected in
\* them.  The exception are scenarios whose releaseResource, which skips the
\* reset, or whose reset has rejected.
ScenarioSeesOnlyItsOwnWrites ==
  ResetOption # "none" =>
    \A c \in Calls : pc[c] = "running" => dirt[conn[c]] \subseteq {c} \cup unreset

\* A shared scenario that reports success has left nothing behind, however the
\* hooks of the other scenarios fail: resolving means that its reset was done.
ResolvedMeansClean ==
  ResetOption # "none" =>
    \A c \in Shared :
      pc[c] = "settled" /\ result[c] = "resolved" => \A k \in Calls : c \notin dirt[k]

\* connectionFactory() is called at most once for the shared path, although
\* every scenario runs ensureSharedConnection.
OneSharedConnection == Cardinality({c \in Shared : link[c] # "none"}) <= 1

\* close() and the perTest cleanup never take a connection from a scenario
\* that is still going to use it.
NoUseAfterDispose ==
  \A c \in Calls : pc[c] \in Using => link[conn[c]] = "open"

\* Some close has run to its end: it and not merely a second one.
CloseFinished ==
  closed /\ \A k \in Closers : pc[k] \notin {"draining", "awaiting"}

\* Every connection that was opened is disposed exactly once: a perTest one when
\* its call settles, the shared one when close() has finished, also when the
\* release or dispose hooks reject.
ConnectionsAccountedFor ==
  /\ \A c \in Calls : disposals[c] <= 1
  /\ \A c \in PerTest : pc[c] = "settled" => link[c] \notin {"connecting", "open"}
  /\ CloseFinished => \A c \in Shared : link[c] \notin {"connecting", "open"}

\* After close() has finished no shared scenario runs or waits, and none starts.
CloseDrainsTheQueue ==
  CloseFinished => \A c \in Shared : pc[c] \in {"idle", "settled"}

\* q is p, or a call that p's callback awaits: one that it made, or one that
\* such a call's callback made.
Awaits(p, q) ==
  \A S \in SUBSET Procs : p \in S /\ (\A r \in S : LiveChildren(r) \subseteq S) => q \in S

\* Nothing but a callback's own calls can stop the provider: it stops only when
\* the running shared scenario awaits (directly or through a perTest scenario)
\* a call that waits for the queue, that is for that scenario.  (That it stops
\* only when every call waits is the deadlock check of the runs.)
StuckOnlyByReentrancy ==
  EveryCallWaits => \E c \in Shared, p \in Procs :
                      /\ pc[c] = "running"
                      /\ Awaits(c, p)
                      /\ pc[p] \in {"queued", "draining"}

\* Unless a callback calls the provider again, every call settles: a rejected
\* scenario or a failed connection never stops the queue, and close() returns.
InvokedCallSettles ==
  \A p \in Procs : pc[p] # "idle" ~> pc[p] = "settled"

\* The shared path implements the serial queue: scenarios start in the order
\* of their calls, one at a time, and every one of them runs.
Serial == INSTANCE SerialScenarios WITH
  Callers  <- Shared,
  arrived  <- order,
  active   <- {c \in Shared : pc[c] \in Scenario},
  finished <- {c \in Shared : pc[c] = "settled" /\ \E i \in DOMAIN order : order[i] = c}

ImplementsSerial == Serial!FairSpec

================================================================================
