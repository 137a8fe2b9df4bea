---------------------------- MODULE ConditionPlacement -------------------------
(* Where the condition optimizers may put a WHERE term: the rules that
   ParameterConditionPlacementOptimizer ("parameter") and
   StaticPredicatePlacementOptimizer ("static") share, and those that differ.
   A result that may be missing is a set of at most one element.             *)
EXTENDS QueryMeaning

--------------------------------------------------------------------------------
(* The conditions of a query, and the query without them, which is all that the
   search for a place looks at.                                               *)

Conditions(q) == [b \in DOMAIN q.block |-> q.block[b].where]
JoinConditions(q) ==
  [b \in DOMAIN q.block |-> [i \in DOMAIN q.block[b].from |-> q.block[b].from[i].on]]

WithConditions(q, wheres) ==
  [ctes |-> q.ctes,
   block |-> [b \in DOMAIN q.block |-> [q.block[b] EXCEPT !.where = wheres[b]]]]

WithJoinConditions(q, ons) ==
  [ctes |-> q.ctes,
   block |-> [b \in DOMAIN q.block |->
                [q.block[b] EXCEPT !.from = [i \in DOMAIN @ |-> [@[i] EXCEPT !.on = ons[b][i]]]]]]

BareSource(s) == [name |-> s.name, alias |-> s.alias, body |-> s.body, join |-> s.join]

Bare(blk) ==
  [from |-> [i \in DOMAIN blk.from |-> BareSource(blk.from[i])],
   out |-> blk.out, group |-> blk.group, having |-> blk.having,
   distinct |-> blk.distinct, limit |-> blk.limit]

Skeleton(q) == [ctes |-> q.ctes, block |-> [b \in DOMAIN q.block |-> Bare(q.block[b])]]

--------------------------------------------------------------------------------
Outputs(q, b) == SelectSeq(q.block[b].out, LAMBDA o : o.name # "")
Hits(q, b, name) == {n \in DOMAIN Outputs(q, b) : Outputs(q, b)[n].name = name}

FindCte(q, name) ==
  LET found == {c \in DOMAIN q.ctes : q.ctes[c].name = name}
  IN  IF Cardinality(found) = 1 THEN found ELSE {}

IsTable(q, s) == s.name # "" /\ FindCte(q, s.name) = {}

BodyOf(q, s) ==
  CASE s.name = "" -> s.body
    [] s.name # "" /\ FindCte(q, s.name) # {} -> q.ctes[CHOOSE c \in FindCte(q, s.name) : TRUE].body
    [] OTHER -> NoBody

MatchCount(q, s, name) ==
  LET body == BodyOf(q, s)
  IN  IF body.op = "simple" \/ IsUnion(body) THEN Cardinality(Hits(q, body.parts[1], name)) ELSE 0

--------------------------------------------------------------------------------
(* The source of block b that a reference, or all of them, belong to *)

SourceBinding(q, b, ref) ==
  LET from == q.block[b].from
      count(i) == MatchCount(q, from[i], ref[2])
  IN  IF ref[1] # "" THEN {i \in DOMAIN from : from[i].alias = ref[1] /\ (count(i) = 1 \/ IsTable(q, from[i]))}
      ELSE IF \E i \in DOMAIN from : count(i) > 1 THEN {} ELSE {i \in DOMAIN from : count(i) = 1}

SoleSource(q, b, refs) ==
  LET found == {SourceBinding(q, b, ref) : ref \in ToSet(refs)}
  IN  IF Cardinality(found) = 1 /\ \A S \in found : Cardinality(S) = 1 THEN UNION found ELSE {}

NullableSide(from, i) ==
  \/ i > 1 /\ from[i].join \in {"left", "full"}
  \/ \E j \in (i + 1)..Len(from) : from[j].join \in {"right", "full"}

HasOuterJoin(from) == \E i \in 2..Len(from) : from[i].join # "inner"

Reachable(q, b, refs) == {i \in SoleSource(q, b, refs) : ~NullableSide(q.block[b].from, i)}

Windowed(q, b) == \E o \in ToSet(q.block[b].out) : o.val = <<"rank">>

--------------------------------------------------------------------------------
(* The block above it: a derived table, or a CTE that is read once *)

ReadCount(q, name) ==
  LET readers(b) == {i \in DOMAIN q.block[b].from : q.block[b].from[i].name = name}
  IN  Cardinality(UNION {{b} \X readers(b) : b \in DOMAIN q.block})

Upstream(q, s) ==
  IF s.name = "" THEN {s.body}
  ELSE {q.ctes[c].body : c \in {c \in FindCte(q, s.name) : ReadCount(q, s.name) = 1}}

Resolvable(q, b, ref) ==
  LET from == q.block[b].from
  IN  IF ref[1] # "" THEN \E i \in DOMAIN from : from[i].alias = ref[1] ELSE Len(from) = 1

\* The columns behind the outputs at the given positions, all of them or none.
ColumnsAt(q, b, positions) ==
  LET column(n) == Outputs(q, b)[positions[n]].val
  IN  IF \A n \in DOMAIN positions : IsColumn(column(n)) /\ Resolvable(q, b, column(n))
      THEN {[n \in DOMAIN positions |-> column(n)]} ELSE {}

Positions(q, b, refs) ==
  IF \A n \in DOMAIN refs : Cardinality(Hits(q, b, refs[n][2])) = 1
  THEN {[n \in DOMAIN refs |-> CHOOSE p \in Hits(q, b, refs[n][2]) : TRUE]} ELSE {}

TargetColumns(q, b, refs) == UNION {ColumnsAt(q, b, at) : at \in Positions(q, b, refs)}

\* A group key names the column, or the column of the same source.
IsGroupKey(q, b, ref) ==
  LET from == q.block[b].from
      alias(r) == IF r[1] # "" THEN {r[1]} ELSE IF Len(from) = 1 THEN {from[1].alias} ELSE {}
  IN  \E key \in ToSet(q.block[b].group) :
        key = ref \/ (key[2] = ref[2] /\ alias(key) = alias(ref) /\ alias(key) # {})

\* No join of b may null one of the columns (static), or b has no outer join at all.
PreservesColumns(q, b, columns) ==
  \A ref \in ToSet(columns) :
    LET found == SourceBinding(q, b, ref)
    IN  Cardinality(found) = 1 /\ \A i \in found : ~NullableSide(q.block[b].from, i)

\* Mutant: LIMIT and OFFSET are forgotten.
AcceptsBelowLimit(q, b, columns, optimizer) ==
  LET blk == q.block[b]
  IN  /\ blk.distinct # "on" /\ ~Windowed(q, b)
      /\ IF optimizer = "parameter" THEN ~HasOuterJoin(blk.from) ELSE PreservesColumns(q, b, columns)
      /\ IF blk.group # <<>> THEN \A ref \in ToSet(columns) : IsGroupKey(q, b, ref)
         ELSE ~blk.having

\* resolveTargetPlacement: may a condition on these columns join b's WHERE?
Accepts(q, b, columns, optimizer) ==
  LET blk == q.block[b]
  IN  /\ blk.distinct # "on" /\ ~Windowed(q, b) /\ ~blk.limit
      /\ IF optimizer = "parameter" THEN ~HasOuterJoin(blk.from) ELSE PreservesColumns(q, b, columns)
      /\ IF blk.group # <<>> THEN \A ref \in ToSet(columns) : IsGroupKey(q, b, ref)
         ELSE ~blk.having

--------------------------------------------------------------------------------
(* UNION: the outputs are matched by position, then each branch goes as deep as
   its own sources allow.                                                     *)

At(b, columns) == [block |-> b, columns |-> columns]

TargetsAbove(q, t, optimizer) ==
  UNION {UNION {{At(body.parts[1], up) :
           up \in {up \in TargetColumns(q, body.parts[1], t.columns) :
                     Accepts(q, body.parts[1], up, optimizer)}} :
         body \in {body \in Upstream(q, q.block[t.block].from[i]) : body.op = "simple"}} :
         i \in Reachable(q, t.block, t.columns)}

Deeper(q, t, optimizer) ==
  IF TargetsAbove(q, t, optimizer) = {} THEN t ELSE CHOOSE u \in TargetsAbove(q, t, optimizer) : TRUE

\* No block is above itself: there are no more steps than blocks.
DeepestBranchTarget(q, b, columns, optimizer) ==
  LET after[n \in 0..Len(q.block)] ==
        IF n = 0 THEN At(b, columns) ELSE Deeper(q, after[n - 1], optimizer)
  IN  after[Len(q.block)]

BranchColumns(q, b, refs, positions) ==
  LET outs == Outputs(q, b)
      fits(n) ==
        /\ positions[n] \in DOMAIN outs
        /\ outs[positions[n]].name = refs[n][2] => Cardinality(Hits(q, b, refs[n][2])) = 1
  IN  IF \A n \in DOMAIN refs : fits(n) THEN ColumnsAt(q, b, positions) ELSE {}

UnionTargets(q, body, refs, optimizer) ==
  {[n \in DOMAIN body.parts |->
      DeepestBranchTarget(q, body.parts[n],
        CHOOSE cols \in BranchColumns(q, body.parts[n], refs, at) : TRUE, optimizer)] :
     at \in {at \in Positions(q, body.parts[1], refs) :
               \A n \in DOMAIN body.parts : BranchColumns(q, body.parts[n], refs, at) # {}}}

--------------------------------------------------------------------------------
(* resolveTarget: what is to be done with term t of block b *)

\* In an EXISTS, an alias of its own is not the outer query's.
OuterRefs(t) == SelectSeq(t.refs, LAMBDA ref : ~(t.op = "exists" /\ ref[1] = t.alias))

IsParameterCondition(t) ==
  t.param # "none" /\ t.op \in {"eq", "between", "or"} /\ t.refs # <<>>

IsStaticPredicate(t) == t.param = "none" /\ t.op # "function" /\ OuterRefs(t) # <<>>

IsCandidate(t, optimizer) ==
  IF optimizer = "parameter" THEN IsParameterCondition(t) ELSE IsStaticPredicate(t)

\* The first JOIN ON for the first source, its own for a joined one.
JoinOn(q, b, i) ==
  LET from == q.block[b].from
      j == IF i = 1 THEN 2 ELSE i
  IN  IF ~HasOuterJoin(from) /\ j \in DOMAIN from THEN {[kind |-> "on", targets |-> <<>>, join |-> j]} ELSE {}

Into(targets) == [kind |-> "where", targets |-> targets, join |-> 0]

Destination(q, b, t, optimizer) ==
  LET refs == OuterRefs(t)
      ok(target) == Accepts(q, target.block, target.columns, optimizer)
      into(body) ==
        CASE body.op = "simple" -> {<<At(body.parts[1], cols)>> : cols \in TargetColumns(q, body.parts[1], refs)}
          [] IsUnion(body) -> UnionTargets(q, body, refs, optimizer)
          [] OTHER -> {}
      upstream(i) ==
        IF IsTable(q, q.block[b].from[i]) THEN JoinOn(q, b, i)
        ELSE UNION {{Into(ts) : ts \in {ts \in into(body) : \A n \in DOMAIN ts : ok(ts[n])}} :
                    body \in Upstream(q, q.block[b].from[i])}
  IN  IF q.block[b].distinct = "on" \/ Windowed(q, b) THEN {}
      ELSE UNION {upstream(i) : i \in Reachable(q, b, refs)}

\* What one look at a term finds.
Places(q, b, t, optimizer) ==
  IF IsCandidate(t, optimizer) THEN Destination(Skeleton(q), b, t, optimizer) ELSE {}

\* rebasePredicate: every outer reference becomes the column it stands for.
Rebase(t, columns) == [t EXCEPT !.refs = columns]

--------------------------------------------------------------------------------
(* TopLevelAndConditionDeduper: the first of equal terms stays.  A list in which
   an open OR stands beside other terms reads as one term.                     *)
Dedupe(terms) ==
  Picked(terms, {n \in DOMAIN terms : \A m \in 1..(n - 1) : terms[m] # terms[n]})

AddToOn(q, b, join, t) ==
  WithJoinConditions(q, [JoinConditions(q) EXCEPT ![b][join] = Dedupe(Append(@, t))])

\* No two branches of a UNION lead to one block.
AddToWheres(q, targets, t) ==
  WithConditions(q, [b \in DOMAIN q.block |->
    LET here == {n \in DOMAIN targets : targets[n].block = b}
    IN  IF here = {} THEN q.block[b].where
        ELSE Dedupe(Append(q.block[b].where, Rebase(t, targets[CHOOSE n \in here : TRUE].columns)))])

Place(q, b, t, destination) ==
  IF destination.kind = "on" THEN AddToOn(q, b, destination.join, t)
  ELSE AddToWheres(q, destination.targets, t)
================================================================================
