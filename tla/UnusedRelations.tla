----------------------------- MODULE UnusedRelations ---------------------------
(* DynamicQueryBuilder's last two steps: optimizeUnusedLeftJoinsToFixedPoint and
   optimizeUnusedCtesToFixedPoint.  A step is one pass; a pass that removes
   something is followed by another.  The root is a simple query.             *)
EXTENDS QueryMeaning

CONSTANTS
  UnusedInputs,
  Schema          \* what the caller says of a table: name -> [columns, keys]

uvars == <<input, query, phase, agenda>>

IsSelectBody(body) ==
  /\ body.op \in {"simple", "union", "union all", "except"}
  /\ IsList(body.parts) /\ 1 \in DOMAIN body.parts /\ (body.op = "except" => 2 \in DOMAIN body.parts)

IsTerm(t) == IsList(t.refs) /\ (t.op # "true" => t.refs # <<>>) /\ (t.op = "same" => Len(t.refs) = 2)

BlockFields == {"from", "where", "group", "having", "out", "distinct", "limit", "scope"}

\* Every source of a block has an alias, a table without one its name.
IsBlock(q, b) ==
  LET blk == q.block[b]
  IN  /\ BlockFields \subseteq DOMAIN blk
      /\ IsList(blk.from) /\ blk.scope \subseteq DOMAIN q.ctes
      /\ \A s \in ToSet(blk.from) : IsList(s.on) /\ s.alias # ""
      /\ \A t \in TermsOf(blk) : IsTerm(t)
      /\ \A s \in DerivedTables(q, b) : IsSelectBody(s.body)

\* The queries are valid; the CTEs of the WITH, in the order they are written, each
\* have a name of their own, and none is recursive: the code leaves a WITH RECURSIVE
\* alone.
UnusedInputsAssumption ==
  \A q \in UnusedInputs :
    /\ IsList(q.ctes) /\ IsList(q.block) /\ 1 \in DOMAIN q.block
    /\ \A c, d \in DOMAIN q.ctes : q.ctes[c].name = q.ctes[d].name => c = d
    /\ \A c \in DOMAIN q.ctes : IsSelectBody(q.ctes[c].body)
    /\ \A b \in DOMAIN q.block : IsBlock(q, b)
    /\ IsFounded(q) /\ IsWellScoped(q)
ASSUME UnusedInputsAssumption

\* What the caller says of the tables is true: they have these columns, and no two
\* rows the same value in a key, NULL aside.
SchemaAssumption ==
  /\ \A name \in DOMAIN Schema :
       name # "" /\ name \in DOMAIN TableColumns /\ Schema[name].columns \subseteq ToSet(TableColumns[name])
  /\ \A db \in Databases : \A name \in DOMAIN TableColumns : IsList(db[name])
  /\ \A db \in Databases : \A name \in DOMAIN Schema : \A key \in Schema[name].keys :
       LET rows == Records([cols |-> TableColumns[name], rows |-> db[name]])
       IN  \A n, m \in DOMAIN rows : rows[n][key] = rows[m][key] /\ rows[n][key] # Null => n = m
ASSUME SchemaAssumption

UnusedInit ==
  /\ input \in UnusedInputs /\ query = input
  /\ phase = "joins" /\ agenda = <<>>

--------------------------------------------------------------------------------
(* Unused left joins *)

\* ColumnReferenceCollector does not look into BETWEEN, CAST or IN lists.
TermRefs(terms) == UNION {ToSet(t.refs) : t \in {t \in ToSet(terms) : t.op # "between"}}

\* Every reference of the query outside the ON of join i of the root.
ReferencesBeside(q, i) ==
  UNION {LET blk == q.block[b]
         IN  {o.val : o \in {o \in ToSet(blk.out) : IsColumn(o.val)}}
               \cup ToSet(blk.group) \cup TermRefs(blk.where)
               \cup UNION {TermRefs(blk.from[j].on) : j \in {j \in DOMAIN blk.from : b # 1 \/ j # i}} :
         b \in Blocks(q)}

Identifiers(s) == {s.alias, s.name}

\* The joined table's column in an ON that is one equation.
JoinColumn(s) ==
  IF Len(s.on) # 1 \/ s.on[1].op # "same" THEN {}
  ELSE LET refs == s.on[1].refs
           own == {n \in DOMAIN refs : refs[n][1] \in Identifiers(s)}
       IN  {refs[n][2] : n \in {n \in own : \A m \in own : n <= m}}

\* Mutant: the joined column need not be unique.
ShouldRemoveJoinOnAnyColumn(q, i) ==
  LET s == q.block[1].from[i]
      beside == ReferencesBeside(q, i)
      everywhere == beside \cup TermRefs(s.on)
  IN  /\ i > 1 /\ s.join = "left" /\ s.name \in DOMAIN Schema
      /\ \A ref \in beside : ref[1] \notin Identifiers(s)
      /\ \E col \in JoinColumn(s) :
           /\ <<"", col>> \notin everywhere
           /\ col \in Schema[s.name].columns

ShouldRemoveJoin(q, i) ==
  LET s == q.block[1].from[i]
      beside == ReferencesBeside(q, i)
      everywhere == beside \cup TermRefs(s.on)
  IN  /\ i > 1 /\ s.join = "left" /\ s.name \in DOMAIN Schema
      /\ \A ref \in beside : ref[1] \notin Identifiers(s)
      /\ \E col \in JoinColumn(s) :
           /\ <<"", col>> \notin everywhere
           /\ col \in Schema[s.name].columns \cap Schema[s.name].keys

RetainedSources(q) ==
  LET from == q.block[1].from
  IN  Picked(from, {i \in DOMAIN from : ~ShouldRemoveJoin(q, i)})

WithoutJoins(q) ==
  [ctes |-> q.ctes,
   block |-> [b \in DOMAIN q.block |->
                IF b = 1 THEN [q.block[b] EXCEPT !.from = RetainedSources(q)] ELSE q.block[b]]]

NothingToRemove(q) == \A i \in DOMAIN q.block[1].from : ~ShouldRemoveJoin(q, i)

RemoveUnusedJoins ==
  /\ phase = "joins"
  /\ IF NothingToRemove(query)
     THEN phase' = "ctes" /\ UNCHANGED query
     ELSE query' = WithoutJoins(query) /\ UNCHANGED phase
  /\ UNCHANGED <<input, agenda>>

--------------------------------------------------------------------------------
(* Unused CTEs *)

\* CTETableReferenceCollector: the names read in FROM or in an EXISTS.
NamesRead(q, blocks) == UNION {{s.name : s \in Sources(q.block[b])} : b \in blocks}

Reads(q, body, c) == q.ctes[c].name \in NamesRead(q, BlocksOf(q, body))

IsReferenced(q, c) ==
  Reads(q, Root, c) \/ \E d \in (DOMAIN q.ctes) \ {c} : Reads(q, q.ctes[d].body, c)

\* The CTEs that stay keep their numbers.
WithoutCtes(q, gone) ==
  [ctes |-> [c \in (DOMAIN q.ctes) \ gone |-> q.ctes[c]],
   block |-> [b \in DOMAIN q.block |-> [q.block[b] EXCEPT !.scope = @ \ gone]]]

Unreferenced(q) == {c \in DOMAIN q.ctes : ~IsReferenced(q, c)}

\* Mutant: one pass only.
RemoveUnusedCtesOnce ==
  /\ phase = "ctes"
  /\ query' = WithoutCtes(query, Unreferenced(query))
  /\ phase' = "done"
  /\ UNCHANGED <<input, agenda>>

RemoveUnusedCtes ==
  /\ phase = "ctes"
  /\ IF Unreferenced(query) # {}
     THEN query' = WithoutCtes(query, Unreferenced(query)) /\ UNCHANGED phase
     ELSE phase' = "done" /\ UNCHANGED query
  /\ UNCHANGED <<input, agenda>>

UnusedNext == RemoveUnusedJoins \/ RemoveUnusedCtes
UnusedSpec == UnusedInit /\ [][UnusedNext]_uvars

--------------------------------------------------------------------------------
(* What the code lets through: a use of the join that the collector does not see,
   one that is not qualified, an ON that does not compare with another source, the
   name of the table as another's alias, and a CTE that has the name of a table of
   the schema.                                                                 *)
MissedUse(q) ==
  LET blk == q.block[1]
      all(terms) == UNION {ToSet(t.refs) : t \in terms}
      refs == {o.val : o \in {o \in ToSet(blk.out) : IsColumn(o.val)}} \cup ToSet(blk.group) \cup all(TermsOf(blk))
  IN  \E i \in DOMAIN blk.from :
        LET s == blk.from[i]
        IN  /\ s.join = "left"
            /\ \/ \E r \in all({t \in TermsOf(blk) : t.op = "between"}) : r[1] \in Identifiers(s)
               \/ \E r \in refs : r[1] = "" /\ r[2] \in ColumnsOf(q, 1, s)
               \/ \A r \in all(ToSet(s.on)) : r[1] = s.alias
               \/ \E j \in (DOMAIN blk.from) \ {i} : blk.from[j].alias \in Identifiers(s)
               \/ VisibleCtes(q, blk.scope, s.name) # {} /\ s.name \in DOMAIN Schema

(* At every pass each name of the query still has its source, and the query
   returns the same rows without the joins and CTEs found unused. *)
RemovalMeansTheSame ==
  phase \in {"joins", "ctes", "done"} /\ query # input /\ ~MissedUse(input)
    => IsWellScoped(query) /\ SameMeaning(query, input)

\* The root reads CTE c, itself or through others: c is in every set of CTEs that
\* has those the root reads and those its own members read.
IsLive(q, c) ==
  \A live \in SUBSET DOMAIN q.ctes :
    (\A d \in DOMAIN q.ctes :
       Reads(q, Root, d) \/ (\E e \in live : Reads(q, q.ctes[e].body, d)) => d \in live)
    => c \in live

\* Some CTE reads the name of a later one, by which SQL means something else but
\* the code that CTE: two such CTEs keep each other.
ReadsLater(q) == \E c, d \in DOMAIN q.ctes : c < d /\ Reads(q, q.ctes[c].body, d)

(* At the end no join could be removed any more, but for those that a CTE removed
   after them still had a use for, and the root reads every CTE that is left, itself
   or through others. *)
FixedPointReached ==
  phase = "done" =>
    /\ DOMAIN query.ctes = DOMAIN input.ctes => NothingToRemove(query)
    /\ ~ReadsLater(query) => \A c \in DOMAIN query.ctes : IsLive(query, c)
================================================================================
