----------------------------- MODULE DdlViewCatalog ----------------------------
(***************************************************************************)
(* DdlViewCatalog (packages/testkit-core): CREATE VIEW definitions become  *)
(* CTEs in front of a rewritten query, each one after the views it reads.  *)
(* The constructor runs expandReferencedViews once for every view to       *)
(* reject circular definitions; the rewriter then calls it with the tables *)
(* of the query.  One step is one call or return of the inner visit().     *)
(*                                                                         *)
(* A view's references are the views that its table names resolve to.  The *)
(* order in which a Set yields its members is left open.                   *)
(***************************************************************************)
EXTENDS Naturals, Sequences, FiniteSets

CONSTANTS
  Views,       \* the keys of the catalog
  Names,       \* CTE names
  CteName      \* CteName[v]: the unqualified name of view v

ASSUME ConstantsAssumption == CteName \in [Views -> Names]

VARIABLES
  references,  \* references[v]: the views that the body of v reads
  checked,     \* the views that assertAcyclic has expanded
  busy,        \* a call of expandReferencedViews is running
  thrown,      \* it has thrown DdlViewUnsupportedError
  targets,     \* the views that its tableNames resolve to
  todo,        \* those not yet visited by its loop
  existing,    \* existingCteNames
  path,        \* the calls of visit() on the stack
  left,        \* left[v]: the dependencies that visit(v) has still to visit
  visited,
  ordered      \* the definitions to be returned

catalog == <<references, checked>>
call == <<busy, thrown, targets, existing>>
vars == <<catalog, call, todo, path, left, visited, ordered>>

Dependencies(v) == references[v] \ {v}
Elements(s) == {s[i] : i \in 1..Len(s)}
Top == path[Len(path)]
Constructed == checked = Views

TypeOK ==
  /\ references \in [Views -> SUBSET Views]
  /\ checked \subseteq Views
  /\ busy \in BOOLEAN
  /\ thrown \in BOOLEAN
  /\ targets \subseteq Views
  /\ todo \subseteq Views
  /\ existing \subseteq Names
  /\ path \in Seq(Views)
  /\ left \in [Views -> SUBSET Views]
  /\ visited \subseteq Views
  /\ ordered \in Seq(Views)

Init ==
  /\ references \in [Views -> SUBSET Views]
  /\ checked = {}
  /\ busy = FALSE
  /\ thrown = FALSE
  /\ targets = {}
  /\ todo = {}
  /\ existing = {}
  /\ path = <<>>
  /\ left = [v \in Views |-> {}]
  /\ visited = {}
  /\ ordered = <<>>

--------------------------------------------------------------------------------

\* Mutant: the set of visited views outlives the call.
ExpandKeepsVisited(tables, names) ==
  /\ ~busy
  /\ busy' = TRUE
  /\ targets' = tables
  /\ todo' = tables
  /\ existing' = names
  /\ ordered' = <<>>
  /\ UNCHANGED <<catalog, thrown, path, left, visited>>

\* expandReferencedViews starts with sets of its own.
Expand(tables, names) ==
  /\ ~busy
  /\ busy' = TRUE
  /\ targets' = tables
  /\ todo' = tables
  /\ existing' = names
  /\ visited' = {}
  /\ ordered' = <<>>
  /\ UNCHANGED <<catalog, thrown, path, left>>

\* assertAcyclic expands each key on its own, the rewriter a query's tables.
\* Once it throws, the constructor has failed and there is no catalog.
assertAcyclic(v) == v \notin checked /\ ~thrown /\ Expand({v}, {})
expandReferencedViews(tables, names) == Constructed /\ Expand(tables, names)

\* What a call of visit(v) does before it returns or goes on to a dependency.
VisitAgain(v) == v \in visited /\ UNCHANGED <<busy, thrown, path, left>>
VisitCircular(v) ==
  /\ v \notin visited /\ v \in Elements(path)
  /\ thrown' = TRUE
  /\ busy' = FALSE
  /\ UNCHANGED path
VisitNew(v, remaining) ==
  /\ v \notin visited /\ v \notin Elements(path)
  /\ path' = Append(path, v)
  /\ left' = [remaining EXCEPT ![v] = Dependencies(v)]
  /\ UNCHANGED <<busy, thrown>>

\* The loop over tableNames.
VisitTarget(v) ==
  /\ busy
  /\ path = <<>>
  /\ v \in todo
  /\ todo' = todo \ {v}
  /\ VisitAgain(v) \/ VisitNew(v, left)
  /\ UNCHANGED <<catalog, targets, existing, visited, ordered>>

\* One of the query's names is the unqualified name of several views: the call
\* throws, and what it has found so far is lost.
RejectAmbiguous ==
  /\ Constructed
  /\ busy
  /\ path = <<>>
  /\ \E v, w \in Views : v # w /\ CteName[v] = CteName[w]
  /\ busy' = FALSE
  /\ targets' = {}
  /\ todo' = {}
  /\ visited' = {}
  /\ ordered' = <<>>
  /\ UNCHANGED <<catalog, thrown, existing, path, left>>

\* Mutant: a view that is being visited is taken for a visited one.
VisitDependencyLoosely(v) ==
  /\ busy
  /\ path # <<>>
  /\ v \in left[Top]
  /\ LET remaining == [left EXCEPT ![Top] = @ \ {v}] IN
       \/ (v \in visited \/ v \in Elements(path)) /\ left' = remaining /\ UNCHANGED <<busy, thrown, path>>
       \/ VisitNew(v, remaining)
  /\ UNCHANGED <<catalog, targets, existing, todo, visited, ordered>>

\* Mutant: a second path to a view is taken for a cycle.
VisitDependencyStrictly(v) ==
  /\ busy
  /\ path # <<>>
  /\ v \in left[Top]
  /\ LET remaining == [left EXCEPT ![Top] = @ \ {v}] IN
       \/ v \in visited /\ thrown' = TRUE /\ busy' = FALSE /\ left' = remaining /\ UNCHANGED path
       \/ VisitCircular(v) /\ left' = remaining
       \/ VisitNew(v, remaining)
  /\ UNCHANGED <<catalog, targets, existing, todo, visited, ordered>>

\* Mutant: the loop does not get past a dependency that is already visited.
VisitDependencyAgain(v) ==
  /\ busy
  /\ path # <<>>
  /\ v \in left[Top]
  /\ LET remaining == [left EXCEPT ![Top] = @ \ {v}] IN
       \/ v \in visited /\ UNCHANGED <<busy, thrown, path, left>>
       \/ VisitCircular(v) /\ left' = remaining
       \/ VisitNew(v, remaining)
  /\ UNCHANGED <<catalog, targets, existing, todo, visited, ordered>>

\* The loop over the dependencies of the view on top of the stack.
VisitDependency(v) ==
  /\ busy
  /\ path # <<>>
  /\ v \in left[Top]
  /\ LET remaining == [left EXCEPT ![Top] = @ \ {v}] IN
       \/ v \in visited /\ left' = remaining /\ UNCHANGED <<busy, thrown, path>>
       \/ VisitCircular(v) /\ left' = remaining
       \/ VisitNew(v, remaining)
  /\ UNCHANGED <<catalog, targets, existing, todo, visited, ordered>>

\* Mutant: the definition is listed before its dependencies have been visited.
LeaveEarly ==
  /\ busy
  /\ path # <<>>
  /\ left[Top] = {} \/ left[Top] = Dependencies(Top)
  /\ visited' = visited \cup {Top}
  /\ ordered' = IF CteName[Top] \in existing THEN ordered ELSE Append(ordered, Top)
  /\ path' = SubSeq(path, 1, Len(path) - 1)
  /\ UNCHANGED <<catalog, call, todo, left>>

\* visit() returns: its view is finished and goes to the end of the list.
Leave ==
  /\ busy
  /\ path # <<>>
  /\ left[Top] = {}
  /\ visited' = visited \cup {Top}
  /\ ordered' = IF CteName[Top] \in existing THEN ordered ELSE Append(ordered, Top)
  /\ path' = SubSeq(path, 1, Len(path) - 1)
  /\ UNCHANGED <<catalog, call, todo, left>>

\* expandReferencedViews returns.
Return ==
  /\ busy
  /\ path = <<>> /\ todo = {}
  /\ busy' = FALSE
  /\ checked' = IF Constructed THEN checked ELSE checked \cup targets
  /\ UNCHANGED <<references, thrown, targets, existing, todo, path, left, visited, ordered>>

Step ==
  \/ \E v \in Views : VisitTarget(v) \/ VisitDependency(v)
  \/ Leave
  \/ Return

Next ==
  \/ \E v \in Views : assertAcyclic(v)
  \/ \E tables \in SUBSET Views, names \in SUBSET Names : expandReferencedViews(tables, names)
  \/ RejectAmbiguous
  \/ Step

Spec == Init /\ [][Next]_vars
FairSpec == Spec /\ WF_vars(Step)

--------------------------------------------------------------------------------
(* Properties                                                              *)

\* A set of views in which every view depends on another one of the set: what a
\* circular definition consists of.
Circular(S) == S # {} /\ \A v \in S : Dependencies(v) \cap S # {}

Closed(S) == \A v \in S : Dependencies(v) \subseteq S

\* The views that a query on the targets needs: the smallest closed set.
Needed == {v \in Views : \A S \in SUBSET Views : targets \subseteq S /\ Closed(S) => v \in S}

Returned == ~busy /\ ~thrown /\ path = <<>>

\* Every view in the list comes after the views it reads, so that a WITH clause
\* without RECURSIVE can define it; only names the query defines are left out.
DependenciesComeFirst ==
  \A i \in 1..Len(ordered) : \A d \in Dependencies(ordered[i]) :
    CteName[d] \in existing \/ \E j \in 1..(i - 1) : ordered[j] = d

\* No view is listed twice: a WITH clause must not define a name twice.
NothingTwice ==
  \A i, j \in 1..Len(ordered) : ordered[i] = ordered[j] => i = j

\* The result is complete and minimal: the views that the query needs, directly
\* or through other views, and no others.
ExactlyTheNeededViews ==
  Returned => Elements(ordered) = {v \in Needed : CteName[v] \notin existing}

\* A catalog is rejected only if its definitions are circular.
OnlyCyclesAreRejected == thrown => \E S \in SUBSET Views : Circular(S)

\* A catalog that could be constructed is never circular, so that the rewriting
\* of a query never meets the error.
ConstructedIsAcyclic ==
  Constructed => ~thrown /\ \A S \in SUBSET Views : ~Circular(S)

\* Every call of expandReferencedViews returns or throws.
ExpansionEnds == busy ~> ~busy

================================================================================
