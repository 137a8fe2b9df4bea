------------------------------ MODULE QueryMeaning -----------------------------
(* What a SELECT means, so that a rewriting of it can be compared with it.

   A query is a set of SELECT blocks, numbered, of which block 1 is the root, and
   its CTEs, each with the block whose WITH defines it.  A block reads sources (a table, a CTE or a derived table), each with
   an alias and, but for the first, a join; its conditions are lists of the terms
   that AND joins.  A column reference is <<alias, name>>, "" for no alias.  The
   database engine is not part of the repository: its reading of a query is
   modelled with rows in the order of the tables, without an ORDER BY.          *)
EXTENDS Naturals, Sequences, FiniteSets, SequencesExt, TLC

CONSTANTS
  Null,
  TableColumns,   \* the base tables: name -> sequence of column names
  Databases       \* contents of the base tables

VARIABLES
  input, query,   \* the query as it came in, and as it is now
  phase,          \* what is being done to it
  agenda          \* what that phase still has to look at

IsList(terms) == terms \in Seq(ToSet(terms))

NoBody == [op |-> "none", parts |-> <<>>]
IsUnion(body) == body.op \in {"union", "union all"}
IsColumn(val) == Len(val) = 2

\* The terms of a list at the given positions.
Picked(terms, positions) ==
  LET first[n \in 0..Len(terms)] ==
        IF n = 0 THEN <<>>
        ELSE IF n \in positions THEN Append(first[n - 1], terms[n]) ELSE first[n - 1]
  IN  first[Len(terms)]

\* A term that is an OR without parentheses of its own.
OpenOr(t) == t.op \in {"or", "guard"} /\ ~t.paren

--------------------------------------------------------------------------------
(* Terms: c = 1, c = :p (:p is 1), c BETWEEN 1 AND 1, f(c) = 1, c IS NULL,
   c = d, c = 1 OR d = 1, :p IS NULL OR c = :p, EXISTS (... WHERE alias.col = c),
   TRUE.                                                                      *)

\* A reference stands for the column of that name of its alias, or of any source.
Value(env, ref) ==
  LET homes == {a \in DOMAIN env : ref[1] \in {"", a} /\ ref[2] \in DOMAIN env[a]}
  IN  IF homes = {} THEN Null ELSE env[CHOOSE a \in homes : TRUE][ref[2]]

Nest(env, alias, row) == [a \in DOMAIN env \cup {alias} |-> IF a = alias THEN row ELSE env[a]]

IsOne(env, ref) == Value(env, ref) = 1

Left(t, env) == IF t.op = "guard" THEN t.param = "null" ELSE IsOne(env, t.refs[1])
Right(t, env) == IsOne(env, t.refs[Len(t.refs)])

Holds(t, env, rows) ==
  CASE t.op \in {"eq", "between", "function"} -> t.param # "null" /\ IsOne(env, t.refs[1])
    [] t.op = "isnull" -> Value(env, t.refs[1]) = Null
    [] t.op = "same" -> Value(env, t.refs[1]) # Null /\ Value(env, t.refs[1]) = Value(env, t.refs[2])
    [] t.op \in {"or", "guard"} -> Left(t, env) \/ Right(t, env)
    [] t.op = "true" -> TRUE
    [] OTHER ->
         \E n \in DOMAIN rows :
           LET inner == Nest(env, t.alias, rows[n])
           IN  rows[n][t.col] # Null /\ Value(inner, t.refs[1]) = rows[n][t.col]

--------------------------------------------------------------------------------
(* Relations: [cols, rows], a row being a sequence of values *)

Record(cols, row) == [c \in ToSet(cols) |-> row[CHOOSE i \in DOMAIN cols : cols[i] = c]]
Records(rel) == [n \in DOMAIN rel.rows |-> Record(rel.cols, rel.rows[n])]
Nulls(rel) == [c \in ToSet(rel.cols) |-> Null]

\* The first of the rows that have one key.
FirstOf(rows, keys) == Picked(rows, {n \in DOMAIN rows : \A m \in 1..(n - 1) : keys[m] # keys[n]})
Distinct(rows) == FirstOf(rows, rows)

\* Of an OR without parentheses, the terms before it are ANDed with its left side.
Truth(t, env, relation) ==
  IF OpenOr(t) THEN Left(t, env)
  ELSE Holds(t, env, IF t.op = "exists" THEN Records(relation[t]) ELSE <<>>)

(* AND binds tighter: such an OR ends one list of terms and begins another, one of
   which must hold; relation gives what an EXISTS reads.                      *)
AllHold(terms, env, relation) ==
  LET opens == {n \in DOMAIN terms : OpenOr(terms[n])}
      from(p) == {n \in DOMAIN terms : n > p /\ \A o \in opens : o <= p \/ n <= o}
  IN  \E p \in {0} \cup opens :
        (p # 0 => Right(terms[p], env)) /\ \A n \in from(p) : Truth(terms[n], env, relation)

\* A block sees the CTEs of its scope; the later, which are the inner ones, win.
VisibleCtes(q, scope, name) == {c \in scope : q.ctes[c].name = name}
Last1(S) == CHOOSE m \in S : \A n \in S : n <= m

NamedBody(q, scope, name) ==
  LET visible == VisibleCtes(q, scope, name)
  IN  IF visible = {} THEN NoBody ELSE q.ctes[Last1(visible)].body

\* A block reads the sources of its FROM and, by an EXISTS in its terms, others.
TermsOf(blk) == ToSet(blk.where) \cup UNION {ToSet(s.on) : s \in ToSet(blk.from)}
Sources(blk) == ToSet(blk.from) \cup {t \in TermsOf(blk) : t.op = "exists"}

\* What source s of block b stands for; nothing in the query if it is a table.
ReadBody(q, b, s) == IF s.name = "" THEN s.body ELSE NamedBody(q, q.block[b].scope, s.name)

Combined(op, parts) ==
  LET left == Distinct(parts[1].rows)
      rows == FlattenSeq([n \in DOMAIN parts |-> parts[n].rows])
  IN  [cols |-> parts[1].cols,
       rows |-> CASE op \in {"simple", "union all"} -> rows
                  [] op = "union" -> Distinct(rows)
                  [] OTHER -> Picked(left, {n \in DOMAIN left : left[n] \notin ToSet(parts[2].rows)})]

\* rel gives the relation of every block.
SourceRelation(q, db, rel, b, s) ==
  LET body == ReadBody(q, b, s)
  IN  IF body = NoBody THEN [cols |-> TableColumns[s.name], rows |-> db[s.name]]
      ELSE Combined(body.op, [n \in DOMAIN body.parts |-> rel[body.parts[n]]])

\* Of the records of source s, those that its ON joins with an environment, aliases
\* to records; relation gives what each source stands for.
Matches(s, right, env, relation) ==
  {r \in DOMAIN right : AllHold(s.on, Nest(env, s.alias, right[r]), relation)}

Extended(s, right, env, relation) ==
  LET matches == Matches(s, right, env, relation)
  IN  IF s.join \in {"left", "full"} /\ matches = {} THEN <<Nest(env, s.alias, Nulls(relation[s]))>>
      ELSE Picked([r \in DOMAIN right |-> Nest(env, s.alias, right[r])], matches)

NullFor(before, relation) ==
  LET of(a) == {e \in before : e.alias = a}
  IN  [a \in {e.alias : e \in before} |-> Nulls(relation[CHOOSE e \in of(a) : TRUE])]

\* The records of s that match nothing, with NULL for the sources before it.
Lone(s, right, envs, before, relation) ==
  IF s.join \in {"right", "full"}
  THEN Picked([r \in DOMAIN right |-> Nest(NullFor(before, relation), s.alias, right[r])],
              {r \in DOMAIN right : \A l \in DOMAIN envs : r \notin Matches(s, right, envs[l], relation)})
  ELSE <<>>

JoinedWith(s, envs, before, relation) ==
  LET right == Records(relation[s])
  IN  FlattenSeq([l \in DOMAIN envs |-> Extended(s, right, envs[l], relation)])
        \o Lone(s, right, envs, before, relation)

\* The environments of a block before its conditions.
Joined(from, relation) ==
  LET joined[i \in 0..Len(from)] ==
        IF i = 0 THEN <<<<>>>>
        ELSE JoinedWith(from[i], joined[i - 1], {from[j] : j \in 1..(i - 1)}, relation)
  IN  joined[Len(from)]

Filtered(envs, terms, relation) ==
  Picked(envs, {n \in DOMAIN envs : AllHold(terms, envs[n], relation)})

Groups(envs, by) ==
  LET keys == [n \in DOMAIN envs |-> [m \in DOMAIN by |-> Value(envs[n], by[m])]]
      heads == FirstOf(keys, keys)
  IN  IF by = <<>> THEN [n \in DOMAIN envs |-> <<envs[n]>>]
      ELSE [h \in DOMAIN heads |-> Picked(envs, {n \in DOMAIN envs : keys[n] = heads[h]})]

Selected(blk, groups) ==
  LET val(n, o) == CASE IsColumn(o.val) -> Value(groups[n][1], o.val)
                     [] o.val = <<"count">> -> Len(groups[n])
                     [] o.val = <<"rank">> -> n
                     [] OTHER -> 1
  IN  [n \in DOMAIN groups |-> [i \in DOMAIN blk.out |-> val(n, blk.out[i])]]

HavingGroups(blk, groups) == Picked(groups, {n \in DOMAIN groups : blk.having => Len(groups[n]) > 1})

DistinctRows(blk, rows) ==
  LET keys == CASE blk.distinct = "no" -> [n \in DOMAIN rows |-> n]
                [] blk.distinct = "on" -> [n \in DOMAIN rows |-> rows[n][1]]
                [] OTHER -> rows
  IN  FirstOf(rows, keys)

LimitedRows(blk, rows) == IF blk.limit THEN Picked(rows, {1}) ELSE rows

Evaluated(blk, relation) ==
  LET groups == Groups(Filtered(Joined(blk.from, relation), blk.where, relation), blk.group)
  IN  [cols |-> [i \in DOMAIN blk.out |-> blk.out[i].name],
       rows |-> LimitedRows(blk, DistinctRows(blk, Selected(blk, HavingGroups(blk, groups))))]

\* Of its scope a block knows only what its sources stand for.
Unscoped(blk) == [blk EXCEPT !.scope = {}]

BlockRelation(q, db, rel, b) ==
  Evaluated(Unscoped(q.block[b]),
            [s \in Sources(Unscoped(q.block[b])) |-> SourceRelation(q, db, rel, b, s)])

Meaning(q, db) ==
  LET rel[b \in DOMAIN q.block] == BlockRelation(q, db, rel, b)
  IN  rel[1]

--------------------------------------------------------------------------------
(* The blocks of a query: those of the root, derived tables included, and those
   of its CTEs.                                                               *)
Root == [op |-> "simple", parts |-> <<1>>]

DerivedTables(q, b) == {s \in Sources(q.block[b]) : s.name = ""}

\* They are in every set of blocks that has those of the body and the derived tables
\* of its members.
BlocksOf(q, body) ==
  {b \in DOMAIN q.block :
     \A S \in SUBSET DOMAIN q.block :
       ToSet(body.parts) \subseteq S /\ (\A c \in S : \A s \in DerivedTables(q, c) : ToSet(s.body.parts) \subseteq S)
       => b \in S}

\* No block reads itself, through whatever other blocks.
IsFounded(q) ==
  \E rank \in [DOMAIN q.block -> DOMAIN q.block] :
    \A b \in DOMAIN q.block : \A s \in Sources(q.block[b]) :
      \A p \in ToSet(ReadBody(q, b, s).parts) : p \in DOMAIN q.block /\ rank[p] < rank[b]

Blocks(q) == BlocksOf(q, Root) \cup UNION {BlocksOf(q, q.ctes[c].body) : c \in DOMAIN q.ctes}

(* Does every name of the query stand for something? *)

ColumnsOf(q, b, s) ==
  LET names(body) == {o.name : o \in ToSet(q.block[body.parts[1]].out)}
      visible == VisibleCtes(q, q.block[b].scope, s.name)
  IN  CASE s.name = "" -> names(s.body)
        [] s.name # "" /\ visible # {} -> names(q.ctes[Last1(visible)].body)
        [] OTHER -> ToSet(TableColumns[s.name])

IsRelation(q, b, name) ==
  VisibleCtes(q, q.block[b].scope, name) # {} \/ name \in DOMAIN TableColumns

BlockIsWellScoped(q, b) ==
  LET blk == q.block[b]
      from == blk.from
      binds(ref, upto) ==
        \E i \in 1..upto : ref[1] \in {"", from[i].alias} /\ ref[2] \in ColumnsOf(q, b, from[i])
      termBinds(t, upto) ==
        /\ t.op = "exists" => IsRelation(q, b, t.name)
        /\ \A ref \in ToSet(t.refs) : (t.op = "exists" /\ ref[1] = t.alias) \/ binds(ref, upto)
  IN  /\ \A s \in ToSet(from) : s.name # "" => IsRelation(q, b, s.name)
      /\ \A o \in ToSet(blk.out) : IsColumn(o.val) => binds(o.val, Len(from))
      /\ \A ref \in ToSet(blk.group) : binds(ref, Len(from))
      /\ \A t \in ToSet(blk.where) : termBinds(t, Len(from))
      /\ \A i \in DOMAIN from : \A t \in ToSet(from[i].on) : termBinds(t, i)

IsWellScoped(q) == \A b \in Blocks(q) : BlockIsWellScoped(q, b)
SameMeaning(q, r) ==
  \A db \in Databases : Cardinality({Meaning(one, db) : one \in {q, r}}) = 1
================================================================================
