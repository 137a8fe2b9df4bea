-------------------------- MODULE ConditionOptimization ------------------------
(* runConditionOptimization: optional branches whose parameter is known to be
   null are pruned, those left are moved to the query their column comes from
   (refresh), conditions with a parameter and then those without one are placed
   further up, and duplicates go.  One step looks at one term.

   A parameter is named after its value: "set" is 1, "null" was passed as null.
   Parameters are not named like a column.                                    *)
EXTENDS ConditionPlacement

CONSTANT Inputs

cvars == <<input, query, phase, agenda>>

\* The root is nobody's source, the fields of blocks and sources are these, and the
\* sources of a FROM have an alias each.
IsBody(q, body) ==
  /\ \A n \in DOMAIN body.parts : body.parts[n] \in (DOMAIN q.block) \ {1}
  /\ body.op # "none" => 1 \in DOMAIN body.parts

IsTree(q) ==
  /\ Len(q.block) \in Nat \ {0} /\ DOMAIN q.block = 1..Len(q.block)
  /\ \A c \in DOMAIN q.ctes : IsBody(q, q.ctes[c].body)
  /\ \A b \in DOMAIN q.block : \A i \in DOMAIN q.block[b].from : IsBody(q, q.block[b].from[i].body)

IsFrom(from) ==
  /\ IsList(from)
  /\ \A i \in DOMAIN from : DOMAIN from[i] = {"name", "alias", "body", "join", "on"} /\ IsList(from[i].on)
  /\ \A i, j \in DOMAIN from : from[i].alias = from[j].alias => i = j

IsQuery(q) ==
  /\ IsTree(q)
  /\ \A b \in DOMAIN q.block :
       /\ DOMAIN q.block[b] = {"from", "out", "where", "group", "having", "distinct", "limit", "scope"}
       /\ IsList(q.block[b].where) /\ IsFrom(q.block[b].from)

InputsAssumption == \A q \in Inputs : IsQuery(q)
ASSUME InputsAssumption
Phases == {"prune", "refresh", "parameter", "static", "dedupe", "optimized"}

ConditionInit ==
  /\ input \in Inputs /\ query = input
  /\ phase = "prune" /\ agenda = <<>>

--------------------------------------------------------------------------------
(* pruneOptionalConditionBranches *)

IsAbsent(t) == t.op = "guard" /\ t.param = "null"

Pruned(terms) ==
  IF \E t \in ToSet(terms) : IsAbsent(t)
  THEN Picked(terms, {n \in DOMAIN terms : ~IsAbsent(terms[n]) /\ terms[n].op # "true"}) ELSE terms

\* The optional branches of all blocks; an open OR is one only when it is alone.
Branches(q) ==
  FlattenSeq([b \in DOMAIN q.block |->
    LET guards == SelectSeq(q.block[b].where, LAMBDA t : t.op = "guard")
    IN  [n \in DOMAIN guards |-> [block |-> b, term |-> guards[n]]]])

\* Branches that share a parameter with another are left alone.
Unshared(branches) ==
  SelectSeq(branches, LAMBDA x :
    Cardinality({n \in DOMAIN branches : branches[n].term.param = x.term.param}) = 1)

Prune ==
  /\ phase = "prune"
  /\ query' = WithConditions(query, [b \in DOMAIN query.block |-> Pruned(query.block[b].where)])
  /\ agenda' = Unshared(Branches(query'))
  /\ phase' = "refresh" /\ UNCHANGED input

--------------------------------------------------------------------------------
(* SSSQLFilterBuilder.refresh of one branch *)

\* What SelectableColumnCollector finds in a block, under a name.
SelectableColumns(q, b, name) ==
  LET blk == q.block[b]
      outs == {o.val : o \in {o \in ToSet(blk.out) : o.name = name /\ IsColumn(o.val)}}
      terms == UNION ({ToSet(blk.where)} \cup {ToSet(s.on) : s \in ToSet(blk.from)})
      used == {ref \in ToSet(blk.group) \cup UNION {ToSet(OuterRefs(t)) : t \in terms} : ref[2] = name}
      above == {<<s.alias, name>> : s \in {s \in ToSet(blk.from) : ~IsTable(q, s) /\ MatchCount(q, s, name) > 0}}
  IN  outs \cup used \cup above

RefreshPlan(q, b, t) ==
  LET from == q.block[b].from
      ref == t.refs[1]
      sources == {i \in DOMAIN from : from[i].alias = ref[1] /\ ~NullableSide(from, i)}
      bodies == {BodyOf(q, from[i]) : i \in sources}
  IN  UNION {{At(body.parts[1], <<col>>) : col \in SelectableColumns(q, body.parts[1], ref[2])} :
             body \in {body \in bodies :
                         body.op = "simple" /\ Cardinality(SelectableColumns(q, body.parts[1], ref[2])) = 1}}

\* rebaseMovedBranch: only the alias changes, and only when the names agree.
RebaseBranch(t, col) ==
  IF t.refs[1][2] = col[2] THEN [t EXCEPT !.refs = <<col>>] ELSE t

RefreshBranch ==
  /\ phase = "refresh" /\ agenda # <<>>
  /\ LET b == Head(agenda).block
         t == Head(agenda).term
         plan == RefreshPlan(query, b, t)
         target == CHOOSE p \in plan : TRUE
     IN  query' = IF plan = {} THEN query
                  ELSE WithConditions(query, [Conditions(query) EXCEPT
                          ![b] = Picked(@, {n \in DOMAIN @ : @[n] # t}),
                          ![target.block] = Append(@, RebaseBranch(t, target.columns[1]))])
  /\ agenda' = Tail(agenda) /\ UNCHANGED <<input, phase>>

--------------------------------------------------------------------------------
(* Placement.  A work item is a block, the terms to look at and those that were
   moved, which leave the block when the item is done.                        *)

Item(b, todo) == [block |-> b, todo |-> todo, moved |-> {}]
RootItem(q) == <<Item(1, q.block[1].where)>>
item == Head(agenda)
term == Head(item.todo)

Look(moved, onward) ==
  agenda' = <<[block |-> item.block, todo |-> Tail(item.todo), moved |-> moved]>> \o Tail(agenda) \o onward

Skip == Look(item.moved, <<>>) /\ UNCHANGED query
Move(destination, onward) ==
  /\ query' = Place(query, item.block, term, destination)
  /\ Look(item.moved \cup {term}, onward)

EndRefresh ==
  /\ phase = "refresh" /\ agenda = <<>>
  /\ phase' = "parameter" /\ agenda' = RootItem(query)
  /\ UNCHANGED <<input, query>>

\* ParameterConditionPlacementOptimizer looks at the root's terms only.
PlaceCondition ==
  /\ phase = "parameter" /\ agenda # <<>> /\ item.todo # <<>>
  /\ LET found == Places(query, item.block, term, phase)
     IN  IF found = {} THEN Skip ELSE \E d \in found : Move(d, <<>>)
  /\ UNCHANGED <<input, phase>>

\* A predicate goes on from the block it was moved to, unless that block had it.
Onward(q, t, destination) ==
  IF destination.kind = "on" \/ Len(destination.targets) > 1 THEN <<>>
  ELSE LET target == destination.targets[1]
           again == Rebase(t, target.columns)
       IN  IF Contains(q.block[target.block].where, again) THEN <<>> ELSE <<Item(target.block, <<again>>)>>

\* placePredicatesInScopes; its limit of 1000 items is not reached.
PlacePredicate ==
  /\ phase = "static" /\ agenda # <<>> /\ item.todo # <<>>
  /\ LET found == Places(query, item.block, term, phase)
     IN  IF found = {} THEN Skip ELSE \E d \in found : Move(d, Onward(query, term, d))
  /\ UNCHANGED <<input, phase>>

\* Mutant: what was moved stays behind as well.
FinishItemKeeping ==
  /\ phase \in {"parameter", "static"} /\ agenda # <<>> /\ item.todo = <<>>
  /\ agenda' = Tail(agenda) /\ UNCHANGED <<input, query, phase>>

FinishItem ==
  /\ phase \in {"parameter", "static"} /\ agenda # <<>> /\ item.todo = <<>>
  /\ query' = WithConditions(query, [Conditions(query) EXCEPT
                ![item.block] = Picked(@, {n \in DOMAIN @ : @[n] \notin item.moved})])
  /\ agenda' = Tail(agenda) /\ UNCHANGED <<input, phase>>

EndPlacement ==
  /\ phase \in {"parameter", "static"} /\ agenda = <<>>
  /\ IF phase = "parameter" THEN phase' = "static" /\ agenda' = RootItem(query)
     ELSE phase' = "dedupe" /\ agenda' = <<>>
  /\ UNCHANGED <<input, query>>

\* A list with an open OR beside other terms reads as one OR, which is left alone.
IsAndList(terms) == Len(terms) = 1 \/ \A t \in ToSet(terms) : ~OpenOr(t)
ListsStayWhole(blk) == IsAndList(blk.where) /\ \A s \in ToSet(blk.from) : IsAndList(s.on)

(* ConditionDeduplicationOptimizer: every WHERE and ON of every block *)
DedupeAll ==
  /\ phase = "dedupe"
  /\ LET less(terms) == IF IsAndList(terms) THEN Dedupe(terms) ELSE terms
         wheres == Conditions(query)
         ons == JoinConditions(query)
     IN  query' = WithJoinConditions(
           WithConditions(query, [b \in DOMAIN wheres |-> less(wheres[b])]),
           [b \in DOMAIN ons |-> [i \in DOMAIN ons[b] |-> less(ons[b][i])]])
  /\ phase' = "optimized" /\ UNCHANGED <<input, agenda>>

ConditionNext ==
  \/ Prune \/ RefreshBranch \/ EndRefresh \/ PlaceCondition \/ PlacePredicate
    \/ FinishItem \/ EndPlacement \/ DedupeAll
ConditionSpec == ConditionInit /\ [][ConditionNext]_cvars

--------------------------------------------------------------------------------
(* What the code lets through, as conditions on the query it was given *)

\* A branch is refreshed into a block that could not take it, that is read by
\* others as well, or under a name that block does not have.
BranchMovesUnsafely(q) ==
  \E b \in DOMAIN q.block : \E t \in {t \in ToSet(q.block[b].where) : t.op = "guard" /\ t.param = "set"} :
    \E target \in RefreshPlan(q, b, t) :
      \/ ~Accepts(q, target.block, target.columns, "static")
      \/ target.columns[1][2] # t.refs[1][2]
      \/ \E s \in ToSet(q.block[b].from) : s.alias = t.refs[1][1] /\ Upstream(q, s) = {}

\* Below a UNION branch the search does not ask the branch itself.
BranchIsPassedBy(q) ==
  \E s \in ToSet(q.block[1].from) :
    LET body == BodyOf(q, s)
    IN  IsUnion(body) /\ \E b \in ToSet(body.parts) :
          /\ \E above \in ToSet(q.block[b].from) : ~IsTable(q, above)
          /\ \E o \in ToSet(Outputs(q, b)) : IsColumn(o.val) /\ ~Accepts(q, b, <<o.val>>, "static")

\* Unnamed outputs are not counted, so the positions of a UNION shift.
PositionsShift(q) ==
  \E s \in ToSet(q.block[1].from) :
    IsUnion(BodyOf(q, s)) /\ \E b \in ToSet(BodyOf(q, s).parts) : Len(Outputs(q, b)) < Len(q.block[b].out)

\* The read of an EXISTS is not counted as one of the CTE's, and what it reads
\* may be another relation, or its alias another source, where it is moved to.
ExistsIsMisread(q) ==
  \E t \in ToSet(q.block[1].where) :
    /\ t.op = "exists"
    /\ \/ FindCte(q, t.name) # {}
       \/ \E b \in 2..Len(q.block) : t.alias \in {s.alias : s \in ToSet(q.block[b].from)}

Trusted ==
  ~BranchMovesUnsafely(input) /\ ~BranchIsPassedBy(input) /\ ~PositionsShift(input) /\ ~ExistsIsMisread(input)

--------------------------------------------------------------------------------
(* Properties *)

(* At every point between two moves each name of the query stands for a column or
   relation that the block using it can see, and the query returns, on every
   database, the rows it returned before the optimization. *)
OptimizedMeansTheSame ==
  phase \in Phases /\ query # input /\ Trusted /\ (\A b \in DOMAIN query.block : ListsStayWhole(query.block[b]))
    => IsWellScoped(query) /\ SameMeaning(query, input)

(* A second optimization has nothing to do: no term that is left in the root has a
   place to go to. *)
NothingLeftToMove ==
  phase = "optimized" =>
    \A t \in ToSet(query.block[1].where) : \A optimizer \in {"parameter", "static"} :
      Places(query, 1, t, optimizer) = {}

(* "keeping OR predicates whole": an OR written without parentheses never ends up
   beside another term, where AND would split it. *)
OrPredicatesStayWhole == \A b \in DOMAIN query.block : ListsStayWhole(query.block[b])

================================================================================
