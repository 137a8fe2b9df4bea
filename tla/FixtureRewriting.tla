---------------------------- MODULE FixtureRewriting ---------------------------
(* ResultSelectRewriter.injectFixtures: a SELECT over physical tables becomes a
   SELECT over common tables (CTEs) that hold the fixtures' rows.  The fixtures
   and views the query needs are collected, every fixture is given an alias that
   collides with nothing, every reference is renamed and the new CTEs come first.

   A table name is a schema and an identifier, unqualified under NoSchema.  A
   source of a query is the name it reads, its explicit alias or NoAlias, and
   the qualifier its columns are referred to by.  The body of a view reads
   tables, named unlike any view; views over views are DdlViewCatalog's.     *)
EXTENDS Naturals, Sequences, FiniteSets

CONSTANTS
  Identifiers,
  Schemas, NoSchema,
  NoAlias,
  Candidate(_, _),  \* buildAliasCandidate of a table name at a level
  Paths,            \* search paths of the TableNameResolver, <<>> when there is none
  FixtureLists, ViewSets,
  CteLists, Bodies  \* the WITH clauses and bodies of the queries

Names == [schema : Schemas \cup {NoSchema}, table : Identifiers]
Sources == [name : Names, alias : Identifiers \cup {NoAlias}, column : Names]
Ctes == [name : Identifiers, sources : SUBSET Sources]
Views == [key : Names, cteName : Identifiers, reads : SUBSET Names]

Requests ==
  [path : Paths, fixtures : FixtureLists, views : ViewSets, ctes : CteLists, main : Bodies]

RequestsAssumption ==
  /\ \A p \in Paths : p \in Seq(Schemas)
  /\ \A fs \in FixtureLists : fs \in Seq(Names)
  /\ \A vs \in ViewSets :
       /\ vs \in SUBSET Views
       /\ \A v, w \in vs : v.cteName = v.key.table /\ \A n \in v.reads : n.table # w.key.table
  /\ \A cs \in CteLists : cs \in Seq(Ctes)
  /\ \A body \in Bodies : body \in SUBSET Sources
  /\ NoSchema \notin Schemas
  /\ NoAlias \notin Identifiers
ASSUME RequestsAssumption

VARIABLES
  request,      \* what is being rewritten, as it came in
  phase,        \* "collect", "allocate", "rename", "prepend", "done" or "rejected"
  sourceNames,  \* names no alias may take, unless it is the key's own
  targets,      \* where the fixtures the query needs are in the list
  viewTargets,  \* the views it needs
  aliasMap,     \* key of a fixture -> its alias
  next, level,  \* the loops of the alias map and of allocateAlias
  ctes, main,   \* the rewritten query: its own CTEs and its body
  injected      \* the CTEs put before them

vars == <<request, phase, sourceNames, targets, viewTargets, aliasMap, next, level,
          ctes, main, injected>>

--------------------------------------------------------------------------------
(* TableNameResolver *)

Bare(id) == [schema |-> NoSchema, table |-> id]
IsBare(n) == n.schema = NoSchema
In(schema, n) == [n EXCEPT !.schema = schema]
path == request.path

resolve(n) == IF IsBare(n) /\ path # <<>> THEN In(path[1], n) ELSE n

buildLookupCandidates(n) ==
  IF IsBare(n) THEN {In(path[i], n) : i \in DOMAIN path} \cup {n} ELSE {n}

\* resolve with a lookup: the first schema of the path in which the name is known.
InPath(n, known) ==
  LET hits == {i \in DOMAIN path : In(path[i], n) \in known}
  IN  IF IsBare(n) /\ hits # {}
      THEN In(path[CHOOSE i \in hits : \A j \in hits : i <= j], n)
      ELSE resolve(n)

--------------------------------------------------------------------------------
(* What the query needs *)

CteNames == {request.ctes[i].name : i \in DOMAIN request.ctes}
AllSources == request.main \cup UNION {request.ctes[i].sources : i \in DOMAIN request.ctes}

\* TableSourceCollector: no table has the last part of its name in common with a
\* CTE, wherever in the query either is.
ReferencedNames == {n \in {s.name : s \in AllSources} : n.table \notin CteNames}

\* Without a resolver a view is also found by its last part, when only one has it.
ViewsNamed(n) ==
  IF path # <<>> THEN {v \in request.views : v.key = InPath(n, {w.key : w \in request.views})}
  ELSE IF \E v \in request.views : v.key = n THEN {v \in request.views : v.key = n}
  ELSE {v \in request.views : v.cteName = n.table}
Ambiguous == \E n \in ReferencedNames : Cardinality(ViewsNamed(n)) > 1

ViewTargets == {v \in UNION {ViewsNamed(n) : n \in ReferencedNames} : v.cteName \notin CteNames}

\* Mutant: what the views read is not looked up.
NeededByQueryOnly(f) ==
  \E n \in ReferencedNames :
    ViewsNamed(n) = {} /\ buildLookupCandidates(n) \cap buildLookupCandidates(f) # {}

\* filterFixturesForQuery
Needed(f) ==
  \E n \in ReferencedNames \cup UNION {v.reads : v \in ViewTargets} :
    ViewsNamed(n) = {} /\ buildLookupCandidates(n) \cap buildLookupCandidates(f) # {}

--------------------------------------------------------------------------------
(* The steps of injectFixtures *)

Init ==
  /\ request \in Requests
  /\ phase = "collect"
  /\ sourceNames = {} /\ targets = {} /\ viewTargets = {}
  /\ aliasMap = <<>> /\ next = 1 /\ level = 1
  /\ ctes = <<>> /\ main = {} /\ injected = {}

\* hasView throws on an ambiguous name.
RejectAmbiguous ==
  /\ phase = "collect"
  /\ Ambiguous
  /\ phase' = "rejected"
  /\ UNCHANGED <<request, sourceNames, targets, viewTargets, aliasMap, next, level, ctes, main, injected>>

\* A query that needs nothing skips to the end: its rewriting renames nothing.
Collect ==
  /\ phase = "collect"
  /\ ~Ambiguous
  /\ sourceNames' = ReferencedNames
  /\ targets' = {i \in DOMAIN request.fixtures : Needed(request.fixtures[i])}
  /\ viewTargets' = ViewTargets
  /\ phase' = "allocate"
  /\ UNCHANGED <<request, aliasMap, next, level, ctes, main, injected>>

Key(i) == resolve(request.fixtures[i])
key == Key(next)

\* Mutant: the CTEs of the query are not reserved.
ReservedButCtes ==
  {Bare(id) : id \in {s.alias : s \in request.main} \ {NoAlias}} \cup (sourceNames \ {key})

\* createCollisionAwareFixtureAliasMap: what the alias of key may not be.
Reserved ==
  {Bare(id) : id \in CteNames \cup ({s.alias : s \in request.main} \ {NoAlias})}
    \cup (sourceNames \ {key})

Allocating == phase = "allocate" /\ next \in targets /\ key \notin DOMAIN aliasMap

\* A fixture that is not needed, or whose key has an alias.
Skip ==
  /\ phase = "allocate"
  /\ next \in DOMAIN request.fixtures
  /\ next \in targets => key \in DOMAIN aliasMap
  /\ next' = next + 1
  /\ UNCHANGED <<request, phase, sourceNames, targets, viewTargets, aliasMap, level, ctes, main, injected>>

\* allocateAlias: the loop over the levels.
NextLevel ==
  /\ Allocating
  /\ Bare(Candidate(key, level)) \in Reserved
  /\ level' = level + 1
  /\ UNCHANGED <<request, phase, sourceNames, targets, viewTargets, aliasMap, next, ctes, main, injected>>

\* Mutant: an alias is not reserved for the fixtures that follow.
AllocateUnreserved ==
  /\ Allocating
  /\ Bare(Candidate(key, level)) \notin Reserved
  /\ aliasMap' = [k \in DOMAIN aliasMap \cup {key} |->
                    IF k = key THEN Candidate(key, level) ELSE aliasMap[k]]
  /\ next' = next + 1
  /\ level' = 1
  /\ UNCHANGED <<request, phase, sourceNames, targets, viewTargets, ctes, main, injected>>

Allocate ==
  /\ Allocating
  /\ Bare(Candidate(key, level)) \notin Reserved
  /\ aliasMap' = [k \in DOMAIN aliasMap \cup {key} |->
                    IF k = key THEN Candidate(key, level) ELSE aliasMap[k]]
  /\ sourceNames' = sourceNames \cup {Bare(Candidate(key, level))}
  /\ next' = next + 1
  /\ level' = 1
  /\ UNCHANGED <<request, phase, targets, viewTargets, ctes, main, injected>>

AllAllocated ==
  /\ phase = "allocate"
  /\ next > Len(request.fixtures)
  /\ phase' = "rename"
  /\ UNCHANGED <<request, sourceNames, targets, viewTargets, aliasMap, next, level, ctes, main, injected>>

--------------------------------------------------------------------------------
(* rewriteSelectFixtureReferences and the new WITH clause *)

\* rewriteAliasMap: the alias of a view goes before that of a fixture.  The same
\* map renames sources, the qualifiers of columns and the query's own CTEs.
RenameKeys == DOMAIN aliasMap \cup {resolve(v.key) : v \in viewTargets}
RenamedTo(n) ==
  IF \E v \in viewTargets : resolve(v.key) = resolve(n)
  THEN Bare((CHOOSE v \in viewTargets : resolve(v.key) = resolve(n)).cteName)
  ELSE IF resolve(n) \in DOMAIN aliasMap THEN Bare(aliasMap[resolve(n)]) ELSE n

RenamedSource(s) == [was |-> s, name |-> RenamedTo(s.name), column |-> RenamedTo(s.column)]

RenamedCtes ==
  [i \in DOMAIN request.ctes |->
     [name |-> RenamedTo(Bare(request.ctes[i].name)).table,
      sources |-> {RenamedSource(s) : s \in request.ctes[i].sources}]]

RenameReferences ==
  /\ phase = "rename"
  /\ ctes' = RenamedCtes
  /\ main' = {RenamedSource(s) : s \in request.main}
  /\ phase' = "prepend"
  /\ UNCHANGED <<request, sourceNames, targets, viewTargets, aliasMap, next, level, injected>>

FixtureCte(i) == [name |-> aliasMap[Key(i)], is |-> <<"fixture", Key(i)>>]
ViewCte(v) == [name |-> v.cteName, is |-> <<"view", v.key>>]

PrependCtes ==
  /\ phase = "prepend"
  /\ injected' = {FixtureCte(i) : i \in targets} \cup {ViewCte(v) : v \in viewTargets}
  /\ phase' = "done"
  /\ UNCHANGED <<request, sourceNames, targets, viewTargets, aliasMap, next, level, ctes, main>>

Finished ==
  /\ phase \in {"done", "rejected"}
  /\ UNCHANGED vars

Step ==
  \/ RejectAmbiguous \/ Collect
  \/ Skip \/ NextLevel \/ Allocate \/ AllAllocated
  \/ RenameReferences \/ PrependCtes

Next == Step \/ Finished

Spec == Init /\ [][Next]_vars

--------------------------------------------------------------------------------
(* What a name means *)

Known == {Key(i) : i \in DOMAIN request.fixtures}

\* In the query as it came in, read in the body of its CTE number i, or after all.
\* A qualified name means what has that name.
Meant(n, i) ==
  LET own == {j \in 1..(i - 1) : IsBare(n) /\ request.ctes[j].name = n.table}
      views == {v \in ViewsNamed(n) : IsBare(n) \/ v.key = n}
  IN  IF own # {} THEN {<<"cte", j>> : j \in own}
      ELSE IF views # {} THEN {<<"view", v.key>> : v \in views}
      ELSE IF InPath(n, Known) \in Known THEN {<<"fixture", InPath(n, Known)>>}
      ELSE {<<"table", n>>}

\* In the rewritten query, where the injected CTEs are visible everywhere.
Reads(n, i) ==
  LET own == {j \in 1..(i - 1) : IsBare(n) /\ ctes[j].name = n.table}
      new == {c \in injected : IsBare(n) /\ c.name = n.table}
      all == {<<"cte", j>> : j \in own} \cup {c.is : c \in new}
  IN  IF all = {} THEN {<<"table", n>>} ELSE all

--------------------------------------------------------------------------------
(* Properties *)

TypeOK ==
  /\ request \in Requests
  /\ phase \in {"collect", "allocate", "rename", "prepend", "done", "rejected"}
  /\ targets \in SUBSET DOMAIN request.fixtures
  /\ viewTargets \in SUBSET request.views
  /\ next \in 1..(Len(request.fixtures) + 1) /\ level \in Nat \ {0}
  /\ DOMAIN aliasMap = {Key(i) : i \in targets \cap 1..(next - 1)}
  /\ phase # "collect" /\ phase # "rejected" =>
       sourceNames = ReferencedNames \cup {Bare(aliasMap[k]) : k \in DOMAIN aliasMap}

\* No alias is the name of a CTE, an explicit alias or another source of the
\* query it goes into: neither captures what the query names itself.
AliasesAreFresh ==
  \A k \in DOMAIN aliasMap :
    /\ aliasMap[k] \notin CteNames
    /\ \A s \in request.main : s.alias # NoAlias => s.alias # aliasMap[k]
    /\ Bare(aliasMap[k]) # k => Bare(aliasMap[k]) \notin ReferencedNames

\* Without a resolver a fixture may have an unqualified key that only a view
\* reads; the name is then not among the sources of the query.
OnlyViewsRead ==
  \E i \in targets : IsBare(Key(i)) /\ Key(i) \notin ReferencedNames

\* Two fixtures never share an alias, even where their names join to the same
\* identifier, unless a fixture's own name is one that only views read.
AliasesAreDistinct ==
  ~OnlyViewsRead =>
    \A j, k \in DOMAIN aliasMap : aliasMap[j] = aliasMap[k] => j = k

\* What a query, its views or the fixtures must not look like to be read right.
\* The last part of a table's name is also a CTE's, which the source does not read.
ReadsShadowedTable ==
  \E i \in 1..(Len(request.ctes) + 1) :
    \E s \in (IF i > Len(request.ctes) THEN request.main ELSE request.ctes[i].sources),
       j \in DOMAIN request.ctes :
      s.name.table = request.ctes[j].name /\ (IsBare(s.name) => j >= i)

\* A CTE bears the name of a table or view that is injected, and is renamed with it.
CteNamedLikeInjected == \E id \in CteNames : resolve(Bare(id)) \in RenameKeys

\* The names the rewriting has to keep the meaning of.
NamesRead == {s.name : s \in AllSources} \cup UNION {v.reads : v \in viewTargets}

\* A table or view is not in the first schema of the search path.
FoundInLaterSchema ==
  \E n \in NamesRead, known \in {Known, {v.key : v \in request.views}} : InPath(n, known) # resolve(n)

\* Without a resolver a qualified name of a table counts as the view, in another
\* schema, that has the same last part.
TableTakenForView == \E n \in ReferencedNames : ~IsBare(n) /\ \E v \in ViewsNamed(n) : v.key # n

\* With one, the CTE of a view captures a table with the same last part.
ViewCapturesTable ==
  \E n \in NamesRead, v \in viewTargets :
    path # <<>> /\ IsBare(n) /\ n.table = v.cteName /\ v.key # resolve(n)

\* A table only a view reads bears the alias of a fixture.
ViewReadsAlias ==
  \E v \in viewTargets : \E n \in v.reads, k \in DOMAIN aliasMap : n = Bare(aliasMap[k]) /\ n # k

\* Two injected CTEs have one name: for the same table, for views with the same
\* last part, or for a view and a fixture whose alias is not kept from views.
InjectedTwice ==
  \/ \E i, j \in targets : i # j /\ Key(i) = Key(j)
  \/ \E v, w \in viewTargets : v # w /\ v.cteName = w.cteName
  \/ \E v \in viewTargets, k \in DOMAIN aliasMap : aliasMap[k] = v.cteName

\* Every source of the query and of its views reads what it meant: the query's
\* own CTE, the fixture or view the resolver finds, or else the table.
SourcesKeepTheirMeaning ==
  /\ phase = "done"
  /\ ~ReadsShadowedTable /\ ~CteNamedLikeInjected /\ ~FoundInLaterSchema
  /\ ~TableTakenForView /\ ~ViewCapturesTable /\ ~ViewReadsAlias /\ ~InjectedTwice
  => /\ \A s \in main : Reads(s.name, Len(ctes) + 1) = Meant(s.was.name, Len(ctes) + 1)
     /\ \A i \in DOMAIN ctes : \A s \in ctes[i].sources : Reads(s.name, i) = Meant(s.was.name, i)
     /\ \A v \in viewTargets : \A n \in v.reads : Reads(RenamedTo(n), 0) = Meant(n, 0)

\* A column that goes by an explicit alias of its source still does.
ExplicitAliasesArePreserved ==
  phase = "done" =>
    \A s \in main : s.was.alias # NoAlias => s.column = Bare(s.was.alias)

================================================================================
