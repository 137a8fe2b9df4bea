------------------------- MODULE FixtureRewriting_proofs -----------------------
(* The alias map: whatever the candidates are, an alias is fresh for the query
   it goes into and belongs to one fixture only.  And what the map is for: a
   rewritten query reads what the query meant.                               *)
EXTENDS FixtureRewriting, TLAPS

USE RequestsAssumption

\* Before the query has been looked at there is nothing to forget, and a target
\* has been found by filterFixturesForQuery.
Collected ==
  /\ phase \in {"collect", "rejected"} => next = 1 /\ targets = {} /\ aliasMap = <<>>
  /\ \A i \in targets : Needed(request.fixtures[i])

IInv == TypeOK /\ Collected /\ AliasesAreFresh /\ AliasesAreDistinct

\* An identifier can be told from its unqualified name.
LEMMA BareInjective ==
  ASSUME NEW x, NEW y, Bare(x) = Bare(y)
  PROVE  x = y
<1>1. Bare(x).table = Bare(y).table  OBVIOUS
<1> QED  BY <1>1 DEF Bare

\* The views a query needs are views of the catalog.
LEMMA ViewTargetsKnown == ViewTargets \subseteq request.views
<1>1. \A n : ViewsNamed(n) \subseteq request.views  BY DEF ViewsNamed
<1> QED  BY <1>1 DEF ViewTargets

\* The list of fixtures is a sequence of table names.
LEMMA FixturesType ==
  ASSUME request \in Requests
  PROVE  /\ request.fixtures \in Seq(Names)
         /\ Len(request.fixtures) \in Nat
         /\ DOMAIN request.fixtures = 1..Len(request.fixtures)
<1>1. request.fixtures \in FixtureLists  BY DEF Requests
<1>2. request.fixtures \in Seq(Names)  BY <1>1 DEF RequestsAssumption
<1> QED  BY <1>2

\* What the definitions below are about does not change while a query is rewritten.
LEMMA RequestFixed ==
  ASSUME UNCHANGED request
  PROVE  /\ CteNames' = CteNames
         /\ ReferencedNames' = ReferencedNames
         /\ \A i : Key(i)' = Key(i)
         /\ \A f : Needed(f)' = Needed(f)
<1> QED  BY DEF CteNames, ReferencedNames, AllSources, Key, resolve, path, Needed, ViewsNamed,
               ViewTargets, InPath, buildLookupCandidates

LEMMA InitInv == Init => IInv
<1> SUFFICES ASSUME Init PROVE IInv  OBVIOUS
<1> USE DEF Init
<1>1. Len(request.fixtures) \in Nat  BY FixturesType
<1>2. DOMAIN aliasMap = {}  OBVIOUS
<1>3. TypeOK  BY <1>1, <1>2 DEF TypeOK
<1>4. Collected  BY DEF Collected
<1>5. AliasesAreFresh /\ AliasesAreDistinct  BY <1>2 DEF AliasesAreFresh, AliasesAreDistinct
<1> QED  BY <1>3, <1>4, <1>5 DEF IInv

\* The step of the loop that fixes an alias.
LEMMA AllocateKeeps ==
  ASSUME IInv, Allocate
  PROVE  IInv'
<1> DEFINE alias == Candidate(key, level)
<1>1. /\ phase = "allocate" /\ phase' = phase /\ request' = request
      /\ targets' = targets /\ viewTargets' = viewTargets
      /\ next \in targets /\ next' = next + 1 /\ level' = 1
      /\ key \notin DOMAIN aliasMap
      /\ Bare(alias) \notin Reserved
      /\ sourceNames' = sourceNames \cup {Bare(alias)}
      /\ aliasMap' = [k \in DOMAIN aliasMap \cup {key} |-> IF k = key THEN alias ELSE aliasMap[k]]
  BY DEF Allocate, Allocating
<1> HIDE DEF alias
<1>2. TypeOK /\ Collected /\ AliasesAreFresh /\ AliasesAreDistinct  BY DEF IInv
<1>3. sourceNames = ReferencedNames \cup {Bare(aliasMap[k]) : k \in DOMAIN aliasMap}
  BY <1>1, <1>2 DEF TypeOK
<1>4. /\ CteNames' = CteNames /\ ReferencedNames' = ReferencedNames
      /\ \A i : Key(i)' = Key(i)
      /\ \A f : Needed(f)' = Needed(f)
  BY <1>1, RequestFixed
<1>5. /\ DOMAIN aliasMap' = DOMAIN aliasMap \cup {key}
      /\ aliasMap'[key] = alias
      /\ \A k \in DOMAIN aliasMap : aliasMap'[k] = aliasMap[k]
  BY <1>1
<1>6. TypeOK'
  <2>1. request \in Requests  BY <1>2 DEF TypeOK
  <2>2. Len(request.fixtures) \in Nat /\ DOMAIN request.fixtures = 1..Len(request.fixtures)
    BY <2>1, FixturesType
  <2>3. next \in 1..Len(request.fixtures)  BY <1>1, <1>2, <2>2 DEF TypeOK
  <2>4. next' \in 1..(Len(request.fixtures) + 1)  BY <1>1, <2>2, <2>3
  <2>5. DOMAIN aliasMap = {Key(i) : i \in targets \cap 1..(next - 1)}  BY <1>2 DEF TypeOK
  <2>6. targets \cap 1..(next' - 1) = (targets \cap 1..(next - 1)) \cup {next}
    BY <1>1, <2>3
  <2>7. DOMAIN aliasMap' = {Key(i) : i \in targets \cap 1..(next' - 1)}
    BY <1>5, <2>5, <2>6 DEF key
  <2>8. {Key(i)' : i \in targets' \cap 1..(next' - 1)} = {Key(i) : i \in targets \cap 1..(next' - 1)}
    BY <1>1, <1>4
  <2>9. sourceNames' = ReferencedNames' \cup {Bare(aliasMap'[k]) : k \in DOMAIN aliasMap'}
    BY <1>1, <1>3, <1>4, <1>5
  <2>10. /\ request' \in Requests
         /\ targets' \in SUBSET DOMAIN request'.fixtures /\ viewTargets' \in SUBSET request'.views
         /\ level' \in Nat \ {0}
    BY <1>1, <1>2 DEF TypeOK
  <2>11. next' \in 1..(Len(request'.fixtures) + 1)  BY <1>1, <2>4
  <2>12. DOMAIN aliasMap' = {Key(i)' : i \in targets' \cap 1..(next' - 1)}  BY <2>7, <2>8
  <2> QED  BY <1>1, <2>9, <2>10, <2>11, <2>12 DEF TypeOK
<1>7. Collected'  BY <1>1, <1>2, <1>4 DEF Collected
<1>8. Bare(alias) \in ReferencedNames => Bare(alias) = key
  BY <1>1, <1>3 DEF Reserved
<1>9. alias \notin CteNames
  BY <1>1 DEF Reserved
<1>10. \A s \in request.main : s.alias # NoAlias => s.alias # alias
  BY <1>1 DEF Reserved
<1>11. AliasesAreFresh'
  <2> SUFFICES ASSUME NEW k \in DOMAIN aliasMap'
               PROVE  /\ aliasMap'[k] \notin CteNames
                      /\ \A s \in request.main : s.alias # NoAlias => s.alias # aliasMap'[k]
                      /\ Bare(aliasMap'[k]) # k => Bare(aliasMap'[k]) \notin ReferencedNames
    BY <1>1, <1>4 DEF AliasesAreFresh
  <2>1. CASE k = key  BY <1>5, <1>8, <1>9, <1>10, <2>1
  <2>2. CASE k \in DOMAIN aliasMap  BY <1>2, <1>5, <2>2 DEF AliasesAreFresh
  <2> QED  BY <1>5, <2>1, <2>2
<1>12. ASSUME NEW j \in DOMAIN aliasMap, aliasMap[j] = alias
       PROVE  OnlyViewsRead
  <2>1. Bare(alias) \in sourceNames  BY <1>3, <1>12
  <2>2. Bare(alias) = key  BY <1>1, <2>1 DEF Reserved
  <2>3. j # key  BY <1>1, <1>12
  <2>4. key \notin ReferencedNames  BY <1>2, <1>12, <2>2, <2>3 DEF AliasesAreFresh
  <2>5. IsBare(key)  BY <2>2 DEF IsBare, Bare
  <2> QED  BY <1>1, <2>4, <2>5 DEF OnlyViewsRead, key
<1>13. OnlyViewsRead' = OnlyViewsRead  BY <1>1, <1>4 DEF OnlyViewsRead
<1>14. AliasesAreDistinct'
  BY <1>2, <1>5, <1>12, <1>13 DEF AliasesAreDistinct
<1> QED  BY <1>6, <1>7, <1>11, <1>14 DEF IInv

\* The other steps leave the alias map alone.
LEMMA OthersKeep ==
  ASSUME IInv, [Next]_vars, ~Allocate
  PROVE  IInv'
<1>1. request' = request /\ aliasMap' = aliasMap
  BY DEF Next, Step, RejectAmbiguous, Collect, Skip, NextLevel, AllAllocated, RenameReferences,
         PrependCtes, Finished, vars
<1>2. TypeOK /\ Collected /\ AliasesAreFresh /\ AliasesAreDistinct  BY DEF IInv
<1>3. /\ CteNames' = CteNames /\ ReferencedNames' = ReferencedNames
      /\ \A i : Key(i)' = Key(i)
      /\ \A f : Needed(f)' = Needed(f)
  BY <1>1, RequestFixed
<1>4. AliasesAreFresh'  BY <1>1, <1>2, <1>3 DEF AliasesAreFresh
<1>5. request \in Requests  BY <1>2 DEF TypeOK
<1>6. Len(request.fixtures) \in Nat /\ DOMAIN request.fixtures = 1..Len(request.fixtures)
  BY <1>5, FixturesType
<1>7. CASE RejectAmbiguous
  <2>1. UNCHANGED <<sourceNames, targets, viewTargets, next, level>> /\ phase = "collect" /\ phase' = "rejected"
    BY <1>7 DEF RejectAmbiguous
  <2>2. TypeOK'  BY <1>1, <1>2, <1>3, <2>1 DEF TypeOK
  <2>3. Collected'  BY <1>1, <1>2, <1>3, <2>1 DEF Collected
  <2>4. AliasesAreDistinct'  BY <1>1, <1>2, <1>3, <2>1 DEF AliasesAreDistinct, OnlyViewsRead
  <2> QED  BY <1>4, <2>2, <2>3, <2>4 DEF IInv
<1>8. CASE Collect
  <2>1. /\ phase = "collect" /\ phase' = "allocate" /\ UNCHANGED <<next, level>>
        /\ sourceNames' = ReferencedNames /\ viewTargets' = ViewTargets
        /\ targets' = {i \in DOMAIN request.fixtures : Needed(request.fixtures[i])}
    BY <1>8 DEF Collect
  <2>2. DOMAIN aliasMap = {} /\ next = 1  BY <1>2, <2>1 DEF Collected
  <2>3. TypeOK'  BY <1>1, <1>2, <1>3, <1>6, <2>1, <2>2, ViewTargetsKnown DEF TypeOK
  <2>4. Collected'  BY <1>1, <1>3, <2>1 DEF Collected
  <2>5. AliasesAreDistinct'  BY <1>1, <2>2 DEF AliasesAreDistinct
  <2> QED  BY <1>4, <2>3, <2>4, <2>5 DEF IInv
<1>9. CASE Skip
  <2>1. /\ phase = "allocate" /\ UNCHANGED <<phase, sourceNames, targets, viewTargets, level>>
        /\ next \in 1..Len(request.fixtures) /\ next' = next + 1
        /\ next \in targets => key \in DOMAIN aliasMap
    BY <1>6, <1>9 DEF Skip
  <2>2. DOMAIN aliasMap = {Key(i) : i \in targets \cap 1..(next - 1)}  BY <1>2 DEF TypeOK
  <2>3. targets \cap 1..(next' - 1) = (targets \cap 1..(next - 1)) \cup (targets \cap {next})
    BY <2>1
  <2>4. DOMAIN aliasMap = {Key(i) : i \in targets \cap 1..(next' - 1)}
    BY <2>1, <2>2, <2>3 DEF key
  <2>5. {Key(i)' : i \in targets' \cap 1..(next' - 1)} = {Key(i) : i \in targets \cap 1..(next' - 1)}
    BY <1>3, <2>1
  <2>6. next' \in 1..(Len(request.fixtures) + 1)  BY <1>6, <2>1
  <2>7. TypeOK'  BY <1>1, <1>2, <1>3, <2>1, <2>4, <2>5, <2>6 DEF TypeOK
  <2>8. Collected'  BY <1>1, <1>2, <1>3, <2>1 DEF Collected
  <2>9. AliasesAreDistinct'  BY <1>1, <1>2, <1>3, <2>1 DEF AliasesAreDistinct, OnlyViewsRead
  <2> QED  BY <1>4, <2>7, <2>8, <2>9 DEF IInv
<1>10. CASE NextLevel \/ AllAllocated \/ RenameReferences \/ PrependCtes \/ UNCHANGED vars
  <2>1. /\ UNCHANGED <<sourceNames, targets, viewTargets, next>>
        /\ level' = level \/ level' = level + 1
        /\ phase' = phase \/ (phase \in {"allocate", "rename", "prepend"}
                              /\ phase' \in {"rename", "prepend", "done"})
    BY <1>10 DEF NextLevel, Allocating, AllAllocated, RenameReferences, PrependCtes, vars
  <2>2. level' \in Nat \ {0}  BY <1>2, <2>1 DEF TypeOK
  <2>3. {Key(i)' : i \in targets' \cap 1..(next' - 1)} = {Key(i) : i \in targets \cap 1..(next - 1)}
    BY <1>3, <2>1
  <2>4. TypeOK'  BY <1>1, <1>2, <1>3, <2>1, <2>2, <2>3 DEF TypeOK
  <2>5. Collected'  BY <1>1, <1>2, <1>3, <2>1 DEF Collected
  <2>6. AliasesAreDistinct'  BY <1>1, <1>2, <1>3, <2>1 DEF AliasesAreDistinct, OnlyViewsRead
  <2> QED  BY <1>4, <2>4, <2>5, <2>6 DEF IInv
<1> QED  BY <1>7, <1>8, <1>9, <1>10 DEF Next, Step, Finished

\* The invariant behind the theorems.
THEOREM Invariance == Spec => []IInv
<1>1. IInv /\ [Next]_vars => IInv'  BY AllocateKeeps, OthersKeep
<1> QED  BY InitInv, <1>1, PTL DEF Spec

\* The loops keep their books: an alias for exactly the needed fixtures seen, and
\* every alias reserved (createCollisionAwareFixtureAliasMap).
THEOREM TypeCorrect == Spec => []TypeOK
<1>1. IInv => TypeOK  BY DEF IInv
<1> QED  BY Invariance, <1>1, PTL

\* An alias captures no CTE, explicit alias or source of the query.
THEOREM Fresh == Spec => []AliasesAreFresh
<1>1. IInv => AliasesAreFresh  BY DEF IInv
<1> QED  BY Invariance, <1>1, PTL

\* Two fixtures have two aliases, for every way of building candidates.
THEOREM Distinct == Spec => []AliasesAreDistinct
<1>1. IInv => AliasesAreDistinct  BY DEF IInv
<1> QED  BY Invariance, <1>1, PTL

\* Keys are qualified under a resolver, and without views the query itself reads
\* what it needs: the exception of AliasesAreDistinct takes both away.
THEOREM ExceptionNeedsViews ==
  Spec => [](OnlyViewsRead => path = <<>> /\ request.views # {})
<1> SUFFICES ASSUME IInv, OnlyViewsRead PROVE path = <<>> /\ request.views # {}
  BY Invariance, PTL
<1>1. request \in Requests /\ targets \subseteq DOMAIN request.fixtures  BY DEF IInv, TypeOK
<1>2. PICK i \in targets : IsBare(Key(i)) /\ Key(i) \notin ReferencedNames  BY DEF OnlyViewsRead
<1> DEFINE f == request.fixtures[i]
<1>3. request.fixtures \in Seq(Names) /\ i \in DOMAIN request.fixtures  BY <1>1, <1>2, FixturesType
<1>4. f \in Names  BY <1>3
<1>5. path \in Seq(Schemas)  BY <1>1 DEF Requests, RequestsAssumption, path
<1> HIDE DEF f
<1>6. path = <<>>
  <2> SUFFICES ASSUME path # <<>> PROVE FALSE  OBVIOUS
  <2>1. path[1] \in Schemas  BY <1>5
  <2>2. In(path[1], f).schema = path[1]  BY <1>4 DEF In, Names
  <2>3. Key(i) = resolve(f)  BY DEF Key, f
  <2> QED  BY <1>2, <2>1, <2>2, <2>3 DEF resolve, IsBare, RequestsAssumption
<1>7. ASSUME request.views = {} PROVE FALSE
  <2>1. Needed(f)  BY <1>2 DEF IInv, Collected, f
  <2>2. ViewTargets = {}  BY <1>7, ViewTargetsKnown
  <2>3. PICK n \in ReferencedNames : buildLookupCandidates(n) \cap buildLookupCandidates(f) # {}
    BY <2>1, <2>2 DEF Needed
  <2>4. \A m : buildLookupCandidates(m) = {m}  BY <1>6 DEF buildLookupCandidates
  <2>5. Key(i) = f  BY <1>6 DEF Key, resolve, f
  <2> QED  BY <1>2, <2>3, <2>4, <2>5
<1> QED  BY <1>6, <1>7

--------------------------------------------------------------------------------
(* Sources keep their meaning *)

\* What each phase leaves to the next, and what two fixtures with one alias look like.
Rewritten ==
  /\ phase \notin {"collect", "rejected"} =>
       /\ viewTargets = ViewTargets
       /\ targets = {i \in DOMAIN request.fixtures : Needed(request.fixtures[i])}
  /\ phase \in {"rename", "prepend", "done"} => next > Len(request.fixtures)
  /\ phase \in {"prepend", "done"} =>
       ctes = RenamedCtes /\ main = {RenamedSource(s) : s \in request.main}
  /\ phase = "done" => injected = {FixtureCte(i) : i \in targets} \cup {ViewCte(v) : v \in viewTargets}
  /\ \A j, k \in DOMAIN aliasMap : aliasMap[j] = aliasMap[k] /\ j # k =>
       \E i \in {j, k} : i = Bare(aliasMap[i]) /\ i \notin ReferencedNames

\* What the query needs does not change while it is rewritten.
LEMMA ViewTargetsFixed ==
  ASSUME UNCHANGED request
  PROVE  ViewTargets' = ViewTargets
BY DEF ViewTargets, ViewsNamed, InPath, ReferencedNames, AllSources, CteNames, resolve, path

\* From the renaming on, nothing it depends on changes.
LEMMA RenamingFixed ==
  ASSUME UNCHANGED <<request, targets, viewTargets, aliasMap>>
  PROVE  /\ RenamedCtes' = RenamedCtes
         /\ \A s : RenamedSource(s)' = RenamedSource(s)
         /\ \A i : FixtureCte(i)' = FixtureCte(i)
         /\ \A v : ViewCte(v)' = ViewCte(v)
<1>1. \A n : resolve(n)' = resolve(n)  BY DEF resolve, path
<1>2. \A i : Key(i)' = Key(i)  BY RequestFixed
<1>3. \A n : RenamedTo(n)' = RenamedTo(n)  BY <1>1 DEF RenamedTo
<1>4. \A s : RenamedSource(s)' = RenamedSource(s)  BY <1>3 DEF RenamedSource
<1>5. RenamedCtes' = RenamedCtes  BY <1>3, <1>4 DEF RenamedCtes
<1> QED  BY <1>2, <1>4, <1>5 DEF FixtureCte, ViewCte

\* Nothing has been done to a query that has just come in.
LEMMA InitRewritten == Init => Rewritten
<1> SUFFICES ASSUME Init PROVE Rewritten  OBVIOUS
<1>1. phase = "collect" /\ DOMAIN aliasMap = {}  BY DEF Init
<1> QED  BY <1>1 DEF Rewritten

\* An alias shared with an earlier fixture was the new one's own name, which is
\* reserved against every other.
LEMMA AllocateRewrites ==
  ASSUME IInv, Rewritten, Allocate
  PROVE  Rewritten'
<1> DEFINE alias == Candidate(key, level)
<1>1. /\ phase = "allocate" /\ phase' = phase
      /\ UNCHANGED <<request, targets, viewTargets>>
      /\ key \notin DOMAIN aliasMap
      /\ Bare(alias) \notin Reserved
      /\ aliasMap' = [k \in DOMAIN aliasMap \cup {key} |-> IF k = key THEN alias ELSE aliasMap[k]]
  BY DEF Allocate, Allocating
<1> HIDE DEF alias
<1>2. TypeOK /\ AliasesAreFresh  BY DEF IInv
<1>3. /\ ReferencedNames' = ReferencedNames
      /\ \A f : Needed(f)' = Needed(f)
  BY <1>1, RequestFixed
<1>4. ViewTargets' = ViewTargets  BY <1>1, ViewTargetsFixed
<1>5. /\ DOMAIN aliasMap' = DOMAIN aliasMap \cup {key}
      /\ aliasMap'[key] = alias
      /\ \A k \in DOMAIN aliasMap : aliasMap'[k] = aliasMap[k]
  BY <1>1
<1>6. sourceNames = ReferencedNames \cup {Bare(aliasMap[k]) : k \in DOMAIN aliasMap}
  BY <1>1, <1>2 DEF TypeOK
<1>7. ASSUME NEW j \in DOMAIN aliasMap, aliasMap[j] = alias
      PROVE  key = Bare(alias) /\ key \notin ReferencedNames
  <2>1. Bare(alias) \in sourceNames  BY <1>6, <1>7
  <2>2. Bare(alias) = key  BY <1>1, <2>1 DEF Reserved
  <2>3. j # key  BY <1>1, <1>7
  <2> QED  BY <1>2, <1>7, <2>2, <2>3 DEF AliasesAreFresh
<1>8. ASSUME NEW j \in DOMAIN aliasMap', NEW k \in DOMAIN aliasMap',
             aliasMap'[j] = aliasMap'[k], j # k
      PROVE  \E i \in {j, k} : i = Bare(aliasMap'[i]) /\ i \notin ReferencedNames
  <2>1. CASE j = key  BY <1>5, <1>7, <1>8, <2>1
  <2>2. CASE k = key  BY <1>5, <1>7, <1>8, <2>2
  <2>3. CASE j \in DOMAIN aliasMap /\ k \in DOMAIN aliasMap
    <3>1. aliasMap[j] = aliasMap[k]  BY <1>5, <1>8, <2>3
    <3>2. PICK i \in {j, k} : i = Bare(aliasMap[i]) /\ i \notin ReferencedNames
      BY <1>8, <2>3, <3>1 DEF Rewritten
    <3> QED  BY <1>5, <2>3, <3>2
  <2> QED  BY <1>5, <2>1, <2>2, <2>3
<1> QED  BY <1>1, <1>3, <1>4, <1>8 DEF Rewritten

\* The other steps do to the query what the invariant says of their phase.
LEMMA OthersRewrite ==
  ASSUME IInv, Rewritten, [Next]_vars, ~Allocate
  PROVE  Rewritten'
<1>1. request' = request /\ aliasMap' = aliasMap
  BY DEF Next, Step, RejectAmbiguous, Collect, Skip, NextLevel, AllAllocated, RenameReferences,
         PrependCtes, Finished, vars
<1>2. /\ ReferencedNames' = ReferencedNames
      /\ \A f : Needed(f)' = Needed(f)
      /\ \A i : Key(i)' = Key(i)
  BY <1>1, RequestFixed
<1>3. ViewTargets' = ViewTargets  BY <1>1, ViewTargetsFixed
<1>4. \A j, k \in DOMAIN aliasMap' : aliasMap'[j] = aliasMap'[k] /\ j # k =>
        \E i \in {j, k} : i = Bare(aliasMap'[i]) /\ i \notin ReferencedNames'
  BY <1>1, <1>2 DEF Rewritten
<1>5. CASE RejectAmbiguous
  <2>1. phase' = "rejected"  BY <1>5 DEF RejectAmbiguous
  <2> QED  BY <1>4, <2>1 DEF Rewritten
<1>6. CASE Collect
  <2>1. /\ phase' = "allocate" /\ viewTargets' = ViewTargets
        /\ targets' = {i \in DOMAIN request.fixtures : Needed(request.fixtures[i])}
    BY <1>6 DEF Collect
  <2> QED  BY <1>1, <1>2, <1>3, <1>4, <2>1 DEF Rewritten
<1>7. CASE Skip \/ NextLevel
  <2>1. phase = "allocate" /\ UNCHANGED <<phase, targets, viewTargets>>
    BY <1>7 DEF Skip, NextLevel, Allocating
  <2> QED  BY <1>1, <1>2, <1>3, <1>4, <2>1 DEF Rewritten
<1>8. CASE AllAllocated
  <2>1. /\ phase = "allocate" /\ phase' = "rename" /\ UNCHANGED <<targets, viewTargets, next>>
        /\ next > Len(request.fixtures)
    BY <1>8 DEF AllAllocated
  <2> QED  BY <1>1, <1>2, <1>3, <1>4, <2>1 DEF Rewritten
<1>9. CASE RenameReferences
  <2>1. /\ phase = "rename" /\ phase' = "prepend" /\ UNCHANGED <<targets, viewTargets, next>>
        /\ ctes' = RenamedCtes /\ main' = {RenamedSource(s) : s \in request.main}
    BY <1>9 DEF RenameReferences
  <2>2. RenamedCtes' = RenamedCtes /\ \A s : RenamedSource(s)' = RenamedSource(s)
    BY <1>1, <2>1, RenamingFixed
  <2> QED  BY <1>1, <1>2, <1>3, <1>4, <2>1, <2>2 DEF Rewritten
<1>10. CASE PrependCtes
  <2>1. /\ phase = "prepend" /\ phase' = "done" /\ UNCHANGED <<targets, viewTargets, next, ctes, main>>
        /\ injected' = {FixtureCte(i) : i \in targets} \cup {ViewCte(v) : v \in viewTargets}
    BY <1>10 DEF PrependCtes
  <2>2. /\ RenamedCtes' = RenamedCtes
        /\ \A s : RenamedSource(s)' = RenamedSource(s)
        /\ \A i : FixtureCte(i)' = FixtureCte(i)
        /\ \A v : ViewCte(v)' = ViewCte(v)
    BY <1>1, <2>1, RenamingFixed
  <2> QED  BY <1>1, <1>2, <1>3, <1>4, <2>1, <2>2 DEF Rewritten
<1>11. CASE UNCHANGED vars
  <2>1. UNCHANGED <<phase, targets, viewTargets, next, ctes, main, injected>>  BY <1>11 DEF vars
  <2>2. /\ RenamedCtes' = RenamedCtes
        /\ \A s : RenamedSource(s)' = RenamedSource(s)
        /\ \A i : FixtureCte(i)' = FixtureCte(i)
        /\ \A v : ViewCte(v)' = ViewCte(v)
    BY <1>1, <2>1, RenamingFixed
  <2> QED  BY <1>1, <1>2, <1>3, <1>4, <2>1, <2>2 DEF Rewritten
<1> QED  BY <1>5, <1>6, <1>7, <1>8, <1>9, <1>10, <1>11 DEF Next, Step, Finished

\* The invariant behind KeepsMeaning (injectFixtures).
THEOREM RewritingInvariance == Spec => [](IInv /\ Rewritten)
<1>1. Init => IInv /\ Rewritten  BY InitInv, InitRewritten
<1>2. IInv /\ Rewritten /\ [Next]_vars => (IInv /\ Rewritten)'
  BY AllocateKeeps, OthersKeep, AllocateRewrites, OthersRewrite
<1> QED  BY <1>1, <1>2, PTL DEF Spec

\* A rewriting at its end that none of the exceptions applies to.
Plain ==
  /\ IInv /\ Rewritten /\ phase = "done"
  /\ ~ReadsShadowedTable /\ ~CteNamedLikeInjected /\ ~FoundInLaterSchema
  /\ ~TableTakenForView /\ ~ViewCapturesTable /\ ~ViewReadsAlias /\ ~InjectedTwice

\* The names in the table sources and view bodies the collector goes through.
LookedUp == ReferencedNames \cup UNION {v.reads : v \in viewTargets}

\* What the resolver makes of a table name.
LEMMA Resolved ==
  ASSUME request \in Requests, NEW n \in Names
  PROVE  /\ resolve(n) \in Names
         /\ resolve(n).table = n.table
         /\ resolve(resolve(n)) = resolve(n)
         /\ resolve(n) \in buildLookupCandidates(n)
         /\ ~IsBare(n) => resolve(n) = n
         /\ path # <<>> => ~IsBare(resolve(n))
         /\ path = <<>> => resolve(n) = n /\ buildLookupCandidates(n) = {n}
<1>1. path \in Seq(Schemas)  BY DEF Requests, RequestsAssumption, path
<1>2. CASE path = <<>>
  <2>1. resolve(n) = n  BY <1>2 DEF resolve
  <2>2. buildLookupCandidates(n) = {n}  BY <1>2 DEF buildLookupCandidates
  <2> QED  BY <1>2, <2>1, <2>2
<1>3. CASE path # <<>> /\ ~IsBare(n)
  <2>1. resolve(n) = n  BY <1>3 DEF resolve
  <2>2. n \in buildLookupCandidates(n)  BY DEF buildLookupCandidates
  <2> QED  BY <1>3, <2>1, <2>2
<1>4. CASE path # <<>> /\ IsBare(n)
  <2>1. 1 \in DOMAIN path /\ path[1] \in Schemas  BY <1>1, <1>4
  <2>2. resolve(n) = In(path[1], n)  BY <1>4 DEF resolve
  <2>3. /\ In(path[1], n) \in Names
        /\ In(path[1], n).table = n.table
        /\ In(path[1], n).schema = path[1]
    BY <2>1 DEF In, Names
  <2>4. ~IsBare(resolve(n))  BY <2>1, <2>2, <2>3 DEF IsBare, RequestsAssumption
  <2>5. resolve(resolve(n)) = resolve(n)  BY <2>4 DEF resolve
  <2>6. resolve(n) \in buildLookupCandidates(n)  BY <1>4, <2>1, <2>2 DEF buildLookupCandidates
  <2> QED  BY <1>4, <2>2, <2>3, <2>4, <2>5, <2>6
<1> QED  BY <1>2, <1>3, <1>4

\* The names in a request are table names.
LEMMA NamesTyped ==
  ASSUME request \in Requests
  PROVE  /\ \A s \in AllSources : s.name \in Names
         /\ \A v \in request.views :
              v.key \in Names /\ v.cteName = v.key.table /\ v.reads \subseteq Names
         /\ \A v, w \in request.views : \A n \in v.reads : n.table # w.key.table
         /\ request.ctes \in Seq(Ctes)
<1>1. request.main \in SUBSET Sources /\ request.ctes \in Seq(Ctes)
  BY DEF Requests, RequestsAssumption
<1>2. \A i \in DOMAIN request.ctes : request.ctes[i].sources \in SUBSET Sources
  <2>1. \A i \in DOMAIN request.ctes : request.ctes[i] \in Ctes  BY <1>1
  <2> QED  BY <2>1 DEF Ctes
<1>3. AllSources \subseteq Sources  BY <1>1, <1>2 DEF AllSources
<1>4. \A s \in AllSources : s.name \in Names  BY <1>3 DEF Sources
<1>5. /\ request.views \in SUBSET Views
      /\ \A v, w \in request.views : v.cteName = v.key.table /\ \A n \in v.reads : n.table # w.key.table
  BY DEF Requests, RequestsAssumption
<1>6. \A v \in request.views : v.key \in Names /\ v.reads \subseteq Names  BY <1>5 DEF Views
<1> QED  BY <1>1, <1>4, <1>5, <1>6

\* Every fixture the query needs has an alias by now, and nothing else has.
LEMMA TargetsAliased ==
  ASSUME Plain
  PROVE  /\ DOMAIN aliasMap = {Key(i) : i \in targets}
         /\ \A i \in DOMAIN request.fixtures : Needed(request.fixtures[i]) <=> i \in targets
         /\ \A i \in DOMAIN request.fixtures : request.fixtures[i] \in Names
         /\ targets \subseteq DOMAIN request.fixtures
         /\ viewTargets \subseteq request.views
<1>1. TypeOK /\ Rewritten /\ phase = "done"  BY DEF Plain, IInv
<1>2. request \in Requests /\ next \in 1..(Len(request.fixtures) + 1)  BY <1>1 DEF TypeOK
<1>3. /\ Len(request.fixtures) \in Nat /\ DOMAIN request.fixtures = 1..Len(request.fixtures)
      /\ request.fixtures \in Seq(Names)
  BY <1>2, FixturesType
<1>4. next - 1 = Len(request.fixtures)  BY <1>1, <1>2, <1>3 DEF Rewritten
<1>5. targets \subseteq DOMAIN request.fixtures /\ viewTargets \subseteq request.views
  BY <1>1 DEF TypeOK
<1>6. targets \cap 1..(next - 1) = targets  BY <1>3, <1>4, <1>5
<1>7. DOMAIN aliasMap = {Key(i) : i \in targets}  BY <1>1, <1>6 DEF TypeOK
<1> QED  BY <1>1, <1>3, <1>5, <1>7 DEF Rewritten

\* A name that is looked up, and the views found under it.
LEMMA NameFound ==
  ASSUME Plain, NEW n \in LookedUp
  PROVE  /\ n \in Names
         /\ InPath(n, Known) = resolve(n)
         /\ \A v \in ViewsNamed(n) : v \in viewTargets /\ v.cteName = n.table /\ (IsBare(n) \/ v.key = n)
         /\ ViewsNamed(n) =
              IF path # <<>> \/ \E v \in request.views : v.key = resolve(n)
              THEN {v \in request.views : v.key = resolve(n)}
              ELSE {v \in request.views : v.cteName = n.table}
         /\ ViewsNamed(n) # {} => n \in ReferencedNames
<1>1. request \in Requests /\ viewTargets = ViewTargets  BY DEF Plain, IInv, TypeOK, Rewritten
<1>2. viewTargets \subseteq request.views  BY TargetsAliased
<1>3. n \in NamesRead /\ n \in Names
  BY <1>1, <1>2, NamesTyped DEF LookedUp, ReferencedNames, NamesRead
<1>4. InPath(n, Known) = resolve(n) /\ InPath(n, {v.key : v \in request.views}) = resolve(n)
  BY <1>3 DEF Plain, FoundInLaterSchema
<1>5. path = <<>> => resolve(n) = n  BY <1>1, <1>3, Resolved
<1>6. ViewsNamed(n) =
        IF path # <<>> \/ \E v \in request.views : v.key = resolve(n)
        THEN {v \in request.views : v.key = resolve(n)}
        ELSE {v \in request.views : v.cteName = n.table}
  BY <1>4, <1>5 DEF ViewsNamed
<1>7. \A v \in ViewsNamed(n) : v \in request.views /\ v.cteName = n.table
  BY <1>1, <1>3, <1>6, NamesTyped, Resolved
<1>8. ASSUME NEW v \in ViewsNamed(n) PROVE n \in ReferencedNames
  <2>1. \A w \in request.views : n \notin w.reads  BY <1>1, <1>7, <1>8, NamesTyped
  <2> QED  BY <1>2, <2>1 DEF LookedUp
<1>9. ASSUME NEW v \in ViewsNamed(n)
      PROVE  v \in viewTargets /\ (IsBare(n) \/ v.key = n)
  <2>1. n \in ReferencedNames  BY <1>8, <1>9
  <2>2. v.cteName \notin CteNames  BY <1>7, <1>9, <2>1 DEF ReferencedNames
  <2>3. v \in viewTargets  BY <1>1, <1>9, <2>1, <2>2 DEF ViewTargets
  <2>4. IsBare(n) \/ v.key = n  BY <1>9, <2>1 DEF Plain, TableTakenForView
  <2> QED  BY <2>3, <2>4
<1> QED  BY <1>3, <1>4, <1>6, <1>7, <1>8, <1>9

\* A name that is no key of the alias map of the rewriting is left as it is.
LEMMA NotRenamed ==
  ASSUME NEW n, resolve(n) \notin RenameKeys
  PROVE  RenamedTo(n) = n
<1>1. ~\E v \in viewTargets : resolve(v.key) = resolve(n)  BY DEF RenameKeys
<1>2. resolve(n) \notin DOMAIN aliasMap  BY DEF RenameKeys
<1> QED  BY <1>1, <1>2 DEF RenamedTo

\* The query's own CTEs keep their names and places.
LEMMA OwnCtesKept ==
  ASSUME Plain
  PROVE  /\ Len(ctes) = Len(request.ctes)
         /\ Len(ctes) \in Nat
         /\ DOMAIN ctes = 1..Len(ctes)
         /\ DOMAIN request.ctes = 1..Len(ctes)
         /\ \A j \in DOMAIN ctes :
              /\ ctes[j].name = request.ctes[j].name
              /\ ctes[j].name \in CteNames
              /\ ctes[j].sources = {RenamedSource(s) : s \in request.ctes[j].sources}
<1>1. request \in Requests /\ ctes = RenamedCtes  BY DEF Plain, IInv, TypeOK, Rewritten
<1>2. request.ctes \in Seq(Ctes)  BY <1>1, NamesTyped
<1>3. DOMAIN request.ctes = 1..Len(request.ctes) /\ Len(request.ctes) \in Nat  BY <1>2
<1>4. DOMAIN ctes = DOMAIN request.ctes  BY <1>1 DEF RenamedCtes
<1>5. Len(ctes) = Len(request.ctes)
  <2> DEFINE c(i) == [name |-> RenamedTo(Bare(request.ctes[i].name)).table,
                      sources |-> {RenamedSource(s) : s \in request.ctes[i].sources}]
  <2> HIDE DEF c
  <2>1. ctes = [i \in 1..Len(request.ctes) |-> c(i)]  BY <1>1, <1>3 DEF RenamedCtes, c
  <2> QED  BY <1>3, <2>1
<1>6. ASSUME NEW j \in DOMAIN ctes
      PROVE  /\ ctes[j].name = request.ctes[j].name
             /\ ctes[j].name \in CteNames
             /\ ctes[j].sources = {RenamedSource(s) : s \in request.ctes[j].sources}
  <2> DEFINE id == request.ctes[j].name
  <2>1. id \in CteNames  BY <1>4 DEF CteNames
  <2>2. resolve(Bare(id)) \notin RenameKeys  BY <2>1 DEF Plain, CteNamedLikeInjected
  <2>3. RenamedTo(Bare(id)) = Bare(id)  BY <2>2, NotRenamed
  <2>4. Bare(id).table = id  BY DEF Bare
  <2>5. ctes[j] = [name |-> RenamedTo(Bare(id)).table,
                   sources |-> {RenamedSource(s) : s \in request.ctes[j].sources}]
    BY <1>1, <1>4 DEF RenamedCtes
  <2> QED  BY <2>1, <2>3, <2>4, <2>5
<1> QED  BY <1>3, <1>4, <1>5, <1>6

\* An injected CTE holds a fixture or a view, each under a name of its own that
\* no CTE of the query has.
LEMMA InjectedCtes ==
  ASSUME Plain
  PROVE  /\ \A k \in DOMAIN aliasMap : [name |-> aliasMap[k], is |-> <<"fixture", k>>] \in injected
         /\ \A v \in viewTargets : ViewCte(v) \in injected
         /\ \A c \in injected :
              \/ \E k \in DOMAIN aliasMap : c = [name |-> aliasMap[k], is |-> <<"fixture", k>>]
              \/ \E v \in viewTargets : c = ViewCte(v)
         /\ \A k \in DOMAIN aliasMap : aliasMap[k] \notin CteNames
         /\ \A v \in viewTargets : v.cteName \notin CteNames
         /\ \A v \in viewTargets, k \in DOMAIN aliasMap : aliasMap[k] # v.cteName
         /\ \A v, w \in viewTargets : v.cteName = w.cteName => v = w
<1>1. injected = {FixtureCte(i) : i \in targets} \cup {ViewCte(v) : v \in viewTargets}
  BY DEF Plain, Rewritten
<1>2. DOMAIN aliasMap = {Key(i) : i \in targets}  BY TargetsAliased
<1>3. \A i \in targets : FixtureCte(i) = [name |-> aliasMap[Key(i)], is |-> <<"fixture", Key(i)>>]
  BY DEF FixtureCte
<1>4. \A k \in DOMAIN aliasMap : [name |-> aliasMap[k], is |-> <<"fixture", k>>] \in injected
  BY <1>1, <1>2, <1>3
<1>5. \A c \in injected :
        \/ \E k \in DOMAIN aliasMap : c = [name |-> aliasMap[k], is |-> <<"fixture", k>>]
        \/ \E v \in viewTargets : c = ViewCte(v)
  BY <1>1, <1>2, <1>3
<1>6. \A k \in DOMAIN aliasMap : aliasMap[k] \notin CteNames  BY DEF Plain, IInv, AliasesAreFresh
<1>7. \A v \in viewTargets : v.cteName \notin CteNames  BY DEF Plain, Rewritten, ViewTargets
<1> QED  BY <1>1, <1>4, <1>5, <1>6, <1>7 DEF Plain, InjectedTwice

\* No CTE of the query is meant where its name is not one, or in front of them all.
LEMMA NoOwnCte ==
  ASSUME Plain, NEW n, NEW i \in 0..(Len(ctes) + 1), n.table \notin CteNames \/ i = 0
  PROVE  /\ {j \in 1..(i - 1) : IsBare(n) /\ ctes[j].name = n.table} = {}
         /\ {j \in 1..(i - 1) : IsBare(n) /\ request.ctes[j].name = n.table} = {}
<1>1. Len(ctes) \in Nat  BY OwnCtesKept
<1>2. \A j \in 1..(i - 1) : j \in 1..Len(ctes) /\ i # 0  BY <1>1
<1>3. \A j \in 1..(i - 1) :
        /\ i # 0
        /\ ctes[j].name = request.ctes[j].name
        /\ ctes[j].name \in CteNames
  BY <1>2, OwnCtesKept
<1> QED  BY <1>3

\* What an unqualified name reads where no CTE of the query bears it: the one
\* injected CTE of its name, if there is one.
LEMMA ReadsInjected ==
  ASSUME Plain, NEW id, NEW i \in 0..(Len(ctes) + 1), id \notin CteNames \/ i = 0,
         NEW c \in injected, c.name = id, \A d \in injected : d.name = id => d = c
  PROVE  Reads(Bare(id), i) = {c.is}
<1> DEFINE own == {j \in 1..(i - 1) : IsBare(Bare(id)) /\ ctes[j].name = Bare(id).table}
           new == {d \in injected : IsBare(Bare(id)) /\ d.name = Bare(id).table}
<1>1. IsBare(Bare(id)) /\ Bare(id).table = id  BY DEF IsBare, Bare
<1>2. new = {c}  BY <1>1
<1>3. Reads(Bare(id), i) = LET all == {<<"cte", j>> : j \in own} \cup {d.is : d \in new}
                           IN  IF all = {} THEN {<<"table", Bare(id)>>} ELSE all
  BY DEF Reads
<1>4. own = {}  BY <1>1, NoOwnCte
<1> HIDE DEF own, new
<1> QED  BY <1>2, <1>3, <1>4

\* A name reads the table where no CTE of the query, and no injected one, bears it.
LEMMA ReadsTable ==
  ASSUME Plain, NEW n, NEW i \in 0..(Len(ctes) + 1), n.table \notin CteNames \/ i = 0,
         IsBare(n) => \A d \in injected : d.name # n.table
  PROVE  Reads(n, i) = {<<"table", n>>}
<1> DEFINE own == {j \in 1..(i - 1) : IsBare(n) /\ ctes[j].name = n.table}
           new == {d \in injected : IsBare(n) /\ d.name = n.table}
<1>1. own = {}  BY NoOwnCte
<1>2. new = {}  OBVIOUS
<1>3. Reads(n, i) = LET all == {<<"cte", j>> : j \in own} \cup {d.is : d \in new}
                    IN  IF all = {} THEN {<<"table", n>>} ELSE all
  BY DEF Reads
<1> HIDE DEF own, new
<1> QED  BY <1>1, <1>2, <1>3

\* What a name meant that is looked up: the view it finds, the fixture, or the table.
LEMMA MeantByLookup ==
  ASSUME Plain, NEW n \in LookedUp, NEW i \in 0..(Len(ctes) + 1), n.table \notin CteNames \/ i = 0
  PROVE  Meant(n, i) =
           IF ViewsNamed(n) # {} THEN {<<"view", v.key>> : v \in ViewsNamed(n)}
           ELSE IF resolve(n) \in Known THEN {<<"fixture", resolve(n)>>}
           ELSE {<<"table", n>>}
<1> DEFINE own == {j \in 1..(i - 1) : IsBare(n) /\ request.ctes[j].name = n.table}
           views == {v \in ViewsNamed(n) : IsBare(n) \/ v.key = n}
<1>1. own = {}  BY NoOwnCte
<1>2. views = ViewsNamed(n)  BY NameFound
<1>3. InPath(n, Known) = resolve(n)  BY NameFound
<1>4. Meant(n, i) =
        IF own # {} THEN {<<"cte", j>> : j \in own}
        ELSE IF views # {} THEN {<<"view", v.key>> : v \in views}
        ELSE IF InPath(n, Known) \in Known THEN {<<"fixture", InPath(n, Known)>>}
        ELSE {<<"table", n>>}
  BY DEF Meant
<1> HIDE DEF own, views
<1> QED  BY <1>1, <1>2, <1>3, <1>4

\* A fixture whose resolved name the query or one of its views reads as a table is a target.
LEMMA KnownIsAliased ==
  ASSUME Plain, NEW n \in LookedUp, ViewsNamed(n) = {}
  PROVE  resolve(n) \in Known <=> resolve(n) \in DOMAIN aliasMap
<1>1. request \in Requests /\ viewTargets = ViewTargets  BY DEF Plain, IInv, TypeOK, Rewritten
<1>2. n \in Names  BY NameFound
<1>3. ASSUME NEW i \in DOMAIN request.fixtures, Key(i) = resolve(n)
      PROVE  resolve(n) \in DOMAIN aliasMap
  <2> DEFINE f == request.fixtures[i]
  <2>1. f \in Names  BY TargetsAliased
  <2>2. resolve(f) = resolve(n)  BY <1>3 DEF Key
  <2>3. resolve(n) \in buildLookupCandidates(n) \cap buildLookupCandidates(f)
    BY <1>1, <1>2, <2>1, <2>2, Resolved
  <2>4. Needed(f)  BY <1>1, <2>3 DEF Needed, LookedUp
  <2> QED  BY <1>3, <2>4, TargetsAliased
<1>4. DOMAIN aliasMap \subseteq Known  BY TargetsAliased DEF Known
<1> QED  BY <1>3, <1>4 DEF Known

\* Where no table only views read bears an alias, no two fixtures share one.
LEMMA AliasOfOne ==
  ASSUME Plain, NEW j \in DOMAIN aliasMap, NEW k \in DOMAIN aliasMap, aliasMap[j] = aliasMap[k]
  PROVE  j = k
<1> SUFFICES ASSUME j # k PROVE FALSE  OBVIOUS
<1>1. request \in Requests /\ viewTargets = ViewTargets  BY DEF Plain, IInv, TypeOK, Rewritten
<1>2. PICK m \in {j, k} : m = Bare(aliasMap[m]) /\ m \notin ReferencedNames
  BY DEF Plain, Rewritten
<1>3. PICK o \in {j, k} : o # m /\ m = Bare(aliasMap[o])  BY <1>2
<1>4. PICK t \in targets : m = Key(t)  BY <1>2, TargetsAliased
<1> DEFINE f == request.fixtures[t]
<1>5. f \in Names /\ Needed(f) /\ m = resolve(f)  BY <1>4, TargetsAliased DEF Key
<1>6. IsBare(m)  BY <1>2 DEF IsBare, Bare
<1>7. path = <<>> /\ m = f  BY <1>1, <1>5, <1>6, Resolved
<1>8. PICK n \in LookedUp : buildLookupCandidates(n) \cap buildLookupCandidates(f) # {}
  BY <1>1, <1>5 DEF Needed, LookedUp
<1>9. n = m
  <2>1. n \in Names  BY <1>8, NameFound
  <2> QED  BY <1>1, <1>5, <1>7, <1>8, <2>1, Resolved
<1>10. PICK v \in viewTargets : m \in v.reads  BY <1>2, <1>8, <1>9 DEF LookedUp
<1> QED  BY <1>3, <1>10 DEF Plain, ViewReadsAlias

\* A view is needed under the name the resolver gives it.
LEMMA ViewKeyResolved ==
  ASSUME Plain, NEW v \in viewTargets
  PROVE  /\ resolve(v.key) = v.key
         /\ v \in request.views /\ v.key \in Names /\ v.cteName = v.key.table
<1>1. request \in Requests /\ viewTargets = ViewTargets  BY DEF Plain, IInv, TypeOK, Rewritten
<1>2. v \in request.views /\ v.key \in Names /\ v.cteName = v.key.table
  BY <1>1, TargetsAliased, NamesTyped
<1>3. CASE path = <<>>  BY <1>1, <1>2, <1>3, Resolved
<1>4. CASE path # <<>>
  <2>1. PICK n \in ReferencedNames : v \in ViewsNamed(n)  BY <1>1 DEF ViewTargets
  <2>2. n \in Names /\ v.key = resolve(n)  BY <1>4, <2>1, NameFound DEF LookedUp
  <2> QED  BY <1>1, <1>2, <2>2, Resolved
<1> QED  BY <1>2, <1>3, <1>4

\* A name of a needed view is renamed to its CTE.
LEMMA KeepsView ==
  ASSUME Plain, NEW n \in LookedUp, NEW i \in 0..(Len(ctes) + 1), n.table \notin CteNames \/ i = 0,
         \E v \in viewTargets : resolve(v.key) = resolve(n)
  PROVE  Reads(RenamedTo(n), i) = Meant(n, i)
<1> DEFINE w == CHOOSE v \in viewTargets : resolve(v.key) = resolve(n)
<1>1. w \in viewTargets /\ resolve(w.key) = resolve(n)  OBVIOUS
<1>2. RenamedTo(n) = Bare(w.cteName)  BY DEF RenamedTo
<1> HIDE DEF w
<1>3. request \in Requests /\ n \in Names  BY NameFound DEF Plain, IInv, TypeOK
<1>4. w.key = resolve(n) /\ w \in request.views /\ w.cteName = w.key.table
  BY <1>1, ViewKeyResolved
<1>5. w.cteName = n.table  BY <1>3, <1>4, Resolved
<1>6. ViewsNamed(n) = {v \in request.views : v.key = resolve(n)}  BY <1>4, NameFound
<1>7. Meant(n, i) = {<<"view", resolve(n)>>}
  <2>1. w \in ViewsNamed(n)  BY <1>4, <1>6
  <2>2. Meant(n, i) = {<<"view", v.key>> : v \in ViewsNamed(n)}  BY <2>1, MeantByLookup
  <2> QED  BY <1>4, <1>6, <2>1, <2>2
<1>8. Reads(Bare(n.table), i) = {<<"view", w.key>>}
  <2> DEFINE c == ViewCte(w)
  <2>1. c \in injected /\ c.name = n.table /\ c.is = <<"view", w.key>>
    BY <1>1, <1>5, InjectedCtes DEF ViewCte
  <2>2. ASSUME NEW d \in injected, d.name = n.table PROVE d = c
    <3>1. CASE \E k \in DOMAIN aliasMap : d = [name |-> aliasMap[k], is |-> <<"fixture", k>>]
      BY <1>1, <1>5, <2>2, <3>1, InjectedCtes
    <3>2. ASSUME NEW v \in viewTargets, d = ViewCte(v) PROVE v = w
      <4>1. v.cteName = w.cteName  BY <1>5, <2>2, <3>2 DEF ViewCte
      <4> QED  BY <1>1, <4>1, InjectedCtes
    <3> QED  BY <3>1, <3>2, InjectedCtes
  <2> HIDE DEF c
  <2>3. Reads(Bare(n.table), i) = {c.is}  BY <2>1, <2>2, ReadsInjected
  <2> QED  BY <2>1, <2>3
<1> QED  BY <1>2, <1>4, <1>5, <1>7, <1>8

\* A name of a needed fixture is renamed to its alias.
LEMMA KeepsFixture ==
  ASSUME Plain, NEW n \in LookedUp, NEW i \in 0..(Len(ctes) + 1), n.table \notin CteNames \/ i = 0,
         ~\E v \in viewTargets : resolve(v.key) = resolve(n), resolve(n) \in DOMAIN aliasMap
  PROVE  Reads(RenamedTo(n), i) = Meant(n, i)
<1> DEFINE r == resolve(n)
           c == [name |-> aliasMap[r], is |-> <<"fixture", r>>]
<1>1. request \in Requests /\ viewTargets = ViewTargets /\ n \in Names
  BY NameFound DEF Plain, IInv, TypeOK, Rewritten
<1>2. RenamedTo(n) = Bare(aliasMap[r])  BY DEF RenamedTo
<1>3. ViewsNamed(n) = {}
  <2> SUFFICES ASSUME NEW v \in ViewsNamed(n) PROVE FALSE  OBVIOUS
  <2>1. v \in viewTargets /\ v.key # r  BY ViewKeyResolved, NameFound
  <2>2. path = <<>> /\ r = n  BY <1>1, <2>1, NameFound, Resolved
  <2>3. PICK t \in targets : n = Key(t)  BY <2>2, TargetsAliased
  <2> DEFINE f == request.fixtures[t]
  <2>4. f \in Names /\ Needed(f) /\ n = f
    BY <1>1, <2>2, <2>3, TargetsAliased, Resolved DEF Key
  <2>5. PICK m \in LookedUp : /\ ViewsNamed(m) = {}
                              /\ buildLookupCandidates(m) \cap buildLookupCandidates(f) # {}
    BY <1>1, <2>4 DEF Needed, LookedUp
  <2>6. m = n
    <3>1. m \in Names  BY <2>5, NameFound
    <3> QED  BY <1>1, <2>2, <2>4, <2>5, <3>1, Resolved
  <2> QED  BY <2>5, <2>6
<1>4. Meant(n, i) = {<<"fixture", r>>}
  <2>1. r \in Known  BY <1>3, KnownIsAliased
  <2> QED  BY <1>3, <2>1, MeantByLookup
<1>5. c \in injected /\ c.name = aliasMap[r] /\ c.is = <<"fixture", r>>  BY InjectedCtes
<1>6. aliasMap[r] \notin CteNames  BY InjectedCtes
<1>7. ASSUME NEW d \in injected, d.name = aliasMap[r] PROVE d = c
  <2>1. ASSUME NEW k \in DOMAIN aliasMap, d = [name |-> aliasMap[k], is |-> <<"fixture", k>>]
        PROVE  k = r
    <3>1. aliasMap[k] = aliasMap[r]  BY <1>7, <2>1
    <3> QED  BY <3>1, AliasOfOne
  <2>2. ~\E v \in viewTargets : d = ViewCte(v)  BY <1>7, InjectedCtes DEF ViewCte
  <2> QED  BY <2>1, <2>2, InjectedCtes
<1> HIDE DEF r, c
<1>8. Reads(Bare(aliasMap[r]), i) = {c.is}  BY <1>5, <1>6, <1>7, ReadsInjected
<1> QED  BY <1>2, <1>4, <1>5, <1>8

\* Any other name that is looked up is left alone: it reads the view that has its
\* last part, or the table.
LEMMA KeepsUnresolved ==
  ASSUME Plain, NEW n \in LookedUp, NEW i \in 0..(Len(ctes) + 1), n.table \notin CteNames \/ i = 0,
         ~\E v \in viewTargets : resolve(v.key) = resolve(n), resolve(n) \notin DOMAIN aliasMap
  PROVE  Reads(RenamedTo(n), i) = Meant(n, i)
<1>1. request \in Requests /\ viewTargets = ViewTargets /\ n \in Names
  BY NameFound DEF Plain, IInv, TypeOK, Rewritten
<1>2. RenamedTo(n) = n  BY DEF RenamedTo
<1>3. path = <<>> => resolve(n) = n  BY <1>1, Resolved
<1>4. ASSUME NEW v \in ViewsNamed(n)
      PROVE  Reads(n, i) = Meant(n, i)
  <2>1. v \in viewTargets /\ v.cteName = n.table /\ v.key # resolve(n)
    BY <1>4, NameFound, ViewKeyResolved
  <2>2. path = <<>>  BY <1>4, <2>1, NameFound
  <2>3. IsBare(n)  BY <1>3, <1>4, <2>1, <2>2, NameFound
  <2>4. n = Bare(n.table)  BY <1>1, <2>3 DEF Names, IsBare, Bare
  <2>5. ViewsNamed(n) = {v}
    <3>1. \A w \in ViewsNamed(n) : w \in viewTargets /\ w.cteName = v.cteName  BY <2>1, NameFound
    <3> QED  BY <1>4, <2>1, <3>1, InjectedCtes
  <2>6. Meant(n, i) = {<<"view", v.key>>}  BY <2>5, MeantByLookup
  <2> DEFINE c == ViewCte(v)
  <2>7. c \in injected /\ c.name = n.table /\ c.is = <<"view", v.key>>
    BY <2>1, InjectedCtes DEF ViewCte
  <2>8. ASSUME NEW d \in injected, d.name = n.table PROVE d = c
    <3>1. CASE \E k \in DOMAIN aliasMap : d = [name |-> aliasMap[k], is |-> <<"fixture", k>>]
      BY <2>1, <2>8, <3>1, InjectedCtes
    <3>2. ASSUME NEW w \in viewTargets, d = ViewCte(w) PROVE w = v
      <4>1. w.cteName = v.cteName  BY <2>1, <2>8, <3>2 DEF ViewCte
      <4> QED  BY <2>1, <4>1, InjectedCtes
    <3> QED  BY <3>1, <3>2, InjectedCtes
  <2> HIDE DEF c
  <2>9. Reads(Bare(n.table), i) = {c.is}  BY <2>7, <2>8, ReadsInjected
  <2> QED  BY <2>4, <2>6, <2>7, <2>9
<1>5. CASE ViewsNamed(n) = {}
  <2>1. Meant(n, i) = {<<"table", n>>}  BY <1>5, KnownIsAliased, MeantByLookup
  <2>2. ASSUME IsBare(n), NEW d \in injected PROVE d.name # n.table
    <3>1. ASSUME NEW k \in DOMAIN aliasMap PROVE aliasMap[k] # n.table
      <4> SUFFICES ASSUME aliasMap[k] = n.table PROVE FALSE  OBVIOUS
      <4>1. n = Bare(aliasMap[k])  BY <1>1, <2>2 DEF Names, IsBare, Bare
      <4>2. n # k
        <5> SUFFICES ASSUME n = k PROVE FALSE  OBVIOUS
        <5>1. PICK t \in targets : k = Key(t)  BY TargetsAliased
        <5>2. request.fixtures[t] \in Names /\ k = resolve(request.fixtures[t])
          BY <5>1, TargetsAliased DEF Key
        <5>3. resolve(n) = n  BY <1>1, <5>2, Resolved
        <5> QED  BY <5>3
      <4>3. n \notin ReferencedNames  BY <4>1, <4>2 DEF Plain, IInv, AliasesAreFresh
      <4>4. PICK v \in viewTargets : n \in v.reads  BY <4>3 DEF LookedUp
      <4> QED  BY <4>1, <4>2, <4>4 DEF Plain, ViewReadsAlias
    <3>2. ASSUME NEW v \in viewTargets PROVE v.cteName # n.table
      <4> SUFFICES ASSUME v.cteName = n.table PROVE FALSE  OBVIOUS
      <4>1. v \in request.views /\ v.key # resolve(n)  BY ViewKeyResolved
      <4>2. CASE path = <<>>
        <5>1. CASE \E w \in request.views : w.key = resolve(n)  BY <1>5, <5>1, NameFound
        <5>2. CASE ~\E w \in request.views : w.key = resolve(n)
          <6>1. v \in ViewsNamed(n)  BY <3>2, <4>1, <4>2, <5>2, NameFound
          <6> QED  BY <1>5, <6>1
        <5> QED  BY <5>1, <5>2
      <4>3. CASE path # <<>>
        <5>1. n \in NamesRead  BY DEF LookedUp, NamesRead, ReferencedNames
        <5> QED  BY <2>2, <4>1, <4>3, <5>1 DEF Plain, ViewCapturesTable
      <4> QED  BY <4>2, <4>3
    <3> QED  BY <3>1, <3>2, InjectedCtes DEF ViewCte
  <2>3. Reads(n, i) = {<<"table", n>>}  BY <2>2, ReadsTable
  <2> QED  BY <1>2, <2>1, <2>3
<1> QED  BY <1>2, <1>4, <1>5

\* A name that is looked up keeps its meaning.
LEMMA KeepsLookedUp ==
  ASSUME Plain, NEW n \in LookedUp, NEW i \in 0..(Len(ctes) + 1), n.table \notin CteNames \/ i = 0
  PROVE  Reads(RenamedTo(n), i) = Meant(n, i)
<1>1. CASE \E v \in viewTargets : resolve(v.key) = resolve(n)  BY <1>1, KeepsView
<1>2. CASE ~(\E v \in viewTargets : resolve(v.key) = resolve(n)) /\ resolve(n) \in DOMAIN aliasMap
  BY <1>2, KeepsFixture
<1>3. CASE ~(\E v \in viewTargets : resolve(v.key) = resolve(n)) /\ resolve(n) \notin DOMAIN aliasMap
  BY <1>3, KeepsUnresolved
<1> QED  BY <1>1, <1>2, <1>3

\* A name of a CTE of the query, where every CTE of that name is visible, still
\* reads it.
LEMMA KeepsOwnCte ==
  ASSUME Plain, NEW n \in Names, IsBare(n), n.table \in CteNames, NEW i \in 1..(Len(ctes) + 1),
         \A j \in DOMAIN request.ctes : request.ctes[j].name = n.table => j < i
  PROVE  Reads(RenamedTo(n), i) = Meant(n, i)
<1> DEFINE own == {j \in 1..(i - 1) : IsBare(n) /\ request.ctes[j].name = n.table}
           ren == {j \in 1..(i - 1) : IsBare(n) /\ ctes[j].name = n.table}
           new == {d \in injected : IsBare(n) /\ d.name = n.table}
<1>1. n = Bare(n.table)  BY DEF Names, IsBare, Bare
<1>2. RenamedTo(n) = n
  <2>1. resolve(n) \notin RenameKeys  BY <1>1 DEF Plain, CteNamedLikeInjected
  <2> QED  BY <2>1, NotRenamed
<1>3. ren = own
  <2>1. \A j \in 1..(i - 1) : j \in DOMAIN ctes  BY OwnCtesKept
  <2>2. \A j \in 1..(i - 1) : ctes[j].name = request.ctes[j].name  BY <2>1, OwnCtesKept
  <2> QED  BY <2>2
<1>4. own # {}
  <2>1. PICK j \in DOMAIN request.ctes : request.ctes[j].name = n.table  BY DEF CteNames
  <2>2. j \in 1..(i - 1)  BY <2>1, OwnCtesKept
  <2> QED  BY <2>1, <2>2
<1>5. new = {}  BY InjectedCtes DEF ViewCte
<1>6. Meant(n, i) = {<<"cte", j>> : j \in own}  BY <1>4 DEF Meant
<1>7. Reads(n, i) = LET all == {<<"cte", j>> : j \in ren} \cup {d.is : d \in new}
                    IN  IF all = {} THEN {<<"table", n>>} ELSE all
  BY DEF Reads
<1> HIDE DEF own, ren, new
<1> QED  BY <1>2, <1>3, <1>4, <1>5, <1>6, <1>7

\* A source of the query keeps its meaning in the body of the CTE it is in, or after all.
LEMMA KeepsSource ==
  ASSUME Plain, NEW i \in 1..(Len(ctes) + 1),
         NEW s \in IF i > Len(request.ctes) THEN request.main ELSE request.ctes[i].sources
  PROVE  Reads(RenamedTo(s.name), i) = Meant(s.name, i)
<1>1. Len(ctes) = Len(request.ctes) /\ Len(ctes) \in Nat /\ DOMAIN request.ctes = 1..Len(ctes)
  BY OwnCtesKept
<1>2. s \in AllSources
  <2>1. CASE i > Len(request.ctes)  BY <2>1 DEF AllSources
  <2>2. CASE ~(i > Len(request.ctes))
    <3>1. i \in DOMAIN request.ctes  BY <1>1, <2>2
    <3> QED  BY <2>2, <3>1 DEF AllSources
  <2> QED  BY <2>1, <2>2
<1>3. request \in Requests  BY DEF Plain, IInv, TypeOK
<1>4. s.name \in Names  BY <1>2, <1>3, NamesTyped
<1>5. \A j \in DOMAIN request.ctes :
        s.name.table = request.ctes[j].name => IsBare(s.name) /\ ~(j >= i)
  BY <1>1 DEF Plain, ReadsShadowedTable
<1>6. CASE s.name.table \in CteNames
  <2>1. IsBare(s.name)  BY <1>5, <1>6 DEF CteNames
  <2>2. \A j \in DOMAIN request.ctes : request.ctes[j].name = s.name.table => j < i
    BY <1>1, <1>5
  <2> QED  BY <1>4, <1>6, <2>1, <2>2, KeepsOwnCte
<1>7. CASE s.name.table \notin CteNames
  <2>1. s.name \in LookedUp  BY <1>2, <1>7 DEF LookedUp, ReferencedNames
  <2>2. i \in 0..(Len(ctes) + 1)  BY <1>1
  <2> QED  BY <1>7, <2>1, <2>2, KeepsLookedUp
<1> QED  BY <1>6, <1>7

\* A rewritten query reads what the query meant (injectFixtures), but for the exceptions named in
\* the property, whatever the tables, fixtures, views and search path are.
THEOREM KeepsMeaning == Spec => []SourcesKeepTheirMeaning
<1> SUFFICES ASSUME IInv, Rewritten PROVE SourcesKeepTheirMeaning
  BY RewritingInvariance, PTL
<1> SUFFICES ASSUME Plain
             PROVE  /\ \A s \in main : Reads(s.name, Len(ctes) + 1) = Meant(s.was.name, Len(ctes) + 1)
                    /\ \A i \in DOMAIN ctes : \A s \in ctes[i].sources :
                         Reads(s.name, i) = Meant(s.was.name, i)
                    /\ \A v \in viewTargets : \A n \in v.reads : Reads(RenamedTo(n), 0) = Meant(n, 0)
  BY DEF Plain, SourcesKeepTheirMeaning
<1>1. Len(ctes) = Len(request.ctes) /\ Len(ctes) \in Nat /\ DOMAIN ctes = 1..Len(ctes)
  BY OwnCtesKept
<1>2. \A s : RenamedSource(s).name = RenamedTo(s.name) /\ RenamedSource(s).was = s
  BY DEF RenamedSource
<1>3. ASSUME NEW s \in main
      PROVE  Reads(s.name, Len(ctes) + 1) = Meant(s.was.name, Len(ctes) + 1)
  <2>1. PICK t \in request.main : s = RenamedSource(t)  BY DEF Plain, Rewritten
  <2>2. Len(ctes) + 1 \in 1..(Len(ctes) + 1) /\ Len(ctes) + 1 > Len(request.ctes)  BY <1>1
  <2>3. Reads(RenamedTo(t.name), Len(ctes) + 1) = Meant(t.name, Len(ctes) + 1)
    BY <2>2, KeepsSource
  <2> QED  BY <1>2, <2>1, <2>3
<1>4. ASSUME NEW i \in DOMAIN ctes, NEW s \in ctes[i].sources
      PROVE  Reads(s.name, i) = Meant(s.was.name, i)
  <2>1. PICK t \in request.ctes[i].sources : s = RenamedSource(t)  BY OwnCtesKept
  <2>2. i \in 1..(Len(ctes) + 1) /\ ~(i > Len(request.ctes))  BY <1>1
  <2>3. Reads(RenamedTo(t.name), i) = Meant(t.name, i)  BY <2>1, <2>2, KeepsSource
  <2> QED  BY <1>2, <2>1, <2>3
<1>5. ASSUME NEW v \in viewTargets, NEW n \in v.reads
      PROVE  Reads(RenamedTo(n), 0) = Meant(n, 0)
  <2>1. n \in LookedUp  BY <1>5 DEF LookedUp
  <2>2. 0 \in 0..(Len(ctes) + 1)  BY <1>1
  <2> QED  BY <2>1, <2>2, KeepsLookedUp
<1> QED  BY <1>3, <1>4, <1>5

================================================================================
