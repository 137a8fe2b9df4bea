------------------------------ MODULE MCOptimizers ------------------------------
(* A root that reads one query block, alone or joined with a table; the block
   comes in every shape the optimizers tell apart, as a derived table, a CTE, a
   CTE over another or a UNION branch.                                        *)
EXTENDS ConditionOptimization, UnusedRelations, CteTransformations

MCTableColumns == [t |-> <<"k", "v">>, s |-> <<"k", "v">>]

Db(t, s) == [t |-> t, s |-> s]
MCDatabases ==
  {Db(<<<<0, 1>>, <<1, 1>>>>, <<<<1, 1>>>>), Db(<<<<1, 0>>, <<1, 1>>>>, <<<<1, 0>>>>),
   Db(<<<<1, Null>>, <<0, 0>>>>, <<<<0, 1>>>>), Db(<<<<1, 1>>>>, <<<<0, 0>>, <<Null, 1>>>>),
   Db(<<<<0, 1>>, <<1, 0>>>>, <<>>), Db(<<<<Null, 1>>, <<1, Null>>>>, <<<<1, Null>>, <<0, 1>>>>),
   Db(<<<<0, 0>>, <<1, 1>>, <<1, 1>>>>, <<<<1, 1>>, <<0, 1>>>>)}

--------------------------------------------------------------------------------
Term(op, refs) == [op |-> op, refs |-> refs, param |-> "none", paren |-> TRUE,
                   name |-> "", alias |-> "", col |-> ""]
With(t, param) == [t EXCEPT !.param = param]
Open(t) == [t EXCEPT !.paren = FALSE]
Eq(r) == Term("eq", <<r>>)
Same(r, s) == Term("same", <<r, s>>)
Guard(r, param) == With(Term("guard", <<r>>), param)
Exists(name, alias, r) == [Term("exists", <<r>>) EXCEPT !.name = name, !.alias = alias, !.col = "k"]

Table(name, alias) == [name |-> name, alias |-> alias, body |-> NoBody, join |-> "from", on |-> <<>>]
Derived(body, alias) == [Table("", alias) EXCEPT !.body = body]
Join(s, join, on) == [s EXCEPT !.join = join, !.on = on]

Out(name, val) == [name |-> name, val |-> val]
Block(from, out) ==
  [from |-> from, out |-> out, where |-> <<>>, group |-> <<>>, having |-> FALSE,
   distinct |-> "no", limit |-> FALSE, scope |-> {}]
Simple(b) == [op |-> "simple", parts |-> <<b>>]
Body(op, b, c) == [op |-> op, parts |-> <<b, c>>]
CteOf(b, name, body) == [name |-> name, body |-> body, at |-> b]
Cte(name, body) == CteOf(1, name, body)

--------------------------------------------------------------------------------
(* The shapes of a block over t, under alias u *)
uk == <<"u", "k">>
uv == <<"u", "v">>
wv == <<"w", "v">>
OverT == <<Table("t", "u")>>
OverBoth(join) == OverT \o <<Join(Table("s", "w"), join, <<Same(uk, <<"w", "k">>)>>)>>
KV(k, v) == <<Out("k", k), Out("v", v)>>
Plain == Block(OverT, KV(uk, uv))
Grouped == [Block(OverT, KV(uk, <<"count">>)) EXCEPT !.group = <<uk>>]

Limited == [Plain EXCEPT !.limit = TRUE]
Shapes ==
  {Plain, Limited, Grouped, Block(OverT, KV(uv, uk)), Block(OverT, KV(<<"", "k">>, <<"", "v">>)),
   Block(OverT, KV(uk, <<"one">>)), Block(OverT, <<Out("", <<"one">>)>> \o KV(uk, uv)),
   Block(OverT, KV(uk, uv) \o <<Out("r", <<"rank">>)>>),
   [Grouped EXCEPT !.having = TRUE], [Plain EXCEPT !.group = <<uv, uk>>],
   [Grouped EXCEPT !.group = <<<<"", "k">>>>],
   [Plain EXCEPT !.distinct = "yes"], [Plain EXCEPT !.distinct = "on"],
   [Plain EXCEPT !.where = <<Eq(uk)>>], [Plain EXCEPT !.where = <<Open(Term("or", <<uk, uv>>))>>],
   [Plain EXCEPT !.where = <<Guard(uv, "null"), Term("true", <<>>)>>]}
    \cup {Block(OverBoth(join), KV(uk, wv)) : join \in {"inner", "left", "right", "full"}}

--------------------------------------------------------------------------------
(* The root reads it under alias d, and s under e *)
dk == <<"d", "k">>
dv == <<"d", "v">>
ek == <<"e", "k">>
ev == <<"e", "v">>

Terms ==
  {Eq(dk), Eq(dv), Eq(<<"", "k">>), Term("isnull", <<dv>>), Same(dk, dv), Term("or", <<dk, dv>>),
   Term("function", <<dk>>), Exists("s", "z", dk), Exists("s", "u", dk),
   With(Eq(dk), "set"), With(Term("between", <<dv>>), "set"), Guard(dk, "set"), Guard(dv, "set"), Guard(dk, "null")}
Wheres ==
  {<<t>> : t \in Terms}
    \cup {<<Open(Term("or", <<dk, dv>>))>>, <<Open(Guard(dk, "set"))>>, <<Eq(dk), Eq(dk)>>,
          <<Eq(dk), Term("function", <<dv>>), Eq(dv)>>, <<Guard(dk, "set"), Guard(dv, "set")>>,
          <<Guard(dv, "null"), With(Eq(dk), "set"), Term("true", <<>>)>>}
WheresOfBoth ==
  {<<Eq(dk)>>, <<Term("isnull", <<dv>>)>>, <<Eq(ev)>>, <<Same(dk, ek)>>, <<Term("or", <<dv, ev>>)>>,
   <<With(Eq(dk), "set"), Eq(ev)>>, <<Guard(dv, "set")>>, <<Guard(ev, "set"), With(Eq(ev), "set")>>,
   <<Open(Term("or", <<ek, ev>>))>>, <<Term("isnull", <<ev>>), Eq(ek)>>}

Query(ctes, blocks) == [ctes |-> ctes, block |-> blocks]
Select(from, where) == [Block(from, <<Out("x", dk), Out("y", dv)>>) EXCEPT !.where = where]
Seeing(n, b) == [b EXCEPT !.scope = 1..n]

OfDerived(b, from(_), where) == Query(<<>>, <<Select(from(Derived(Simple(2), "d")), where), b>>)
OfCte(b, from(_), where) ==
  Query(<<Cte("c", Simple(2))>>, <<Seeing(1, Select(from(Table("c", "d")), where)), b>>)
OfChain(b, where) ==
  Query(<<Cte("c", Simple(2)), Cte("e", Simple(3))>>,
        <<Seeing(2, Select(<<Table("e", "d")>>, where)), b, Seeing(1, Block(<<Table("c", "u")>>, KV(uk, uv)))>>)
OfUnion(op, a, b, where) ==
  Query(<<>>, <<Select(<<Derived(Body(op, 2, 3), "d")>>, where), a, b>>)

\* The branch reads a CTE, and may pick or group its rows.
OfUnionOver(b, where) ==
  Query(<<Cte("c", Simple(4))>>,
        <<Seeing(1, Select(<<Derived(Body("union all", 2, 3), "d")>>, where)), Plain,
          Seeing(1, [b EXCEPT !.from = <<Table("c", "u")>>]), Plain>>)

Alone(s) == <<s>>
Inputs1 ==
  UNION {{OfDerived(b, Alone, w), OfCte(b, Alone, w), OfChain(b, w)} : b \in Shapes, w \in Wheres}
Inputs2 ==
  {OfUnion(op, Plain, b, w) :
     op \in {"union", "union all", "except"},
     b \in {b \in Shapes : Len(b.out) = 2}, w \in Wheres}
    \cup {OfUnion("union all", Block(OverT, <<Out("k", uk), Out("", <<"one">>), Out("v", uv)>>),
                  Block(OverT, <<Out("k", uk), Out("m", uk), Out("v", uv)>>), w) : w \in Wheres}
    \cup {OfUnionOver(b, w) : b \in {Plain, Limited, Grouped}, w \in Wheres}
E(join, on) == Join(Table("s", "e"), join, on)
Inputs3 ==
  UNION {LET first(s) == <<s, E(join, <<Same(dk, ek)>>)>>
             second(s) == <<Table("s", "e"), Join(s, join, <<Same(dk, ek)>>)>>
         IN  {OfCte(b, first, w), OfDerived(b, second, w)} :
         join \in {"inner", "left", "right", "full"}, b \in {Plain, Grouped, Limited}, w \in WheresOfBoth}
\* The CTE read a second time: by a join, by another CTE, by an EXISTS.
Inputs4 ==
  UNION {{OfCte(Plain, LAMBDA s : <<s, Join(Table("c", "e"), "inner", <<Same(dk, ek)>>)>>, w),
          OfCte(Plain, Alone, w \o <<Exists("c", "z", dk)>>)} : w \in {<<Eq(dk)>>, <<Guard(dk, "set")>>}}

ConditionInputs == Inputs1 \cup Inputs2 \cup Inputs3 \cup Inputs4

--------------------------------------------------------------------------------
(* Left joins and CTEs that may be unused; s.k is unique. *)
MCSchema == [n \in {"s"} |-> [columns |-> {"k", "v"}, keys |-> {"k"}]]

fk == <<"f", "k">>
Ons == {<<Same(dk, ek)>>, <<Same(ek, dk)>>, <<Same(dk, ev)>>, <<Same(ek, ev)>>, <<Same(<<"", "k">>, ek)>>,
        <<Same(dk, ek), Eq(ek)>>, <<Eq(ek)>>}
Seconds == {<<>>} \cup
  {<<Join(Table(name, "f"), join, <<Same(r, fk)>>)>> : name \in {"s", "t"}, join \in {"left", "inner"}, r \in {dk, ek}}
Uses == {<<>>, <<Eq(dk)>>, <<Term("isnull", <<ev>>)>>, <<Term("between", <<ev>>)>>, <<Eq(<<"", "v">>)>>, <<Eq(fk)>>}

JoinInputs ==
  {q \in
     {Query(<<>>, <<Select(<<Table("t", "d"), Join(Table("s", "e"), join, on)>> \o second, where)>>) :
        join \in {"left", "inner"}, on \in Ons, second \in Seconds, where \in Uses} : IsWellScoped(q)}

Reading(name) == Block(<<Table(name, "u")>>, KV(uk, uv))
\* It reads one under the alias of the root's join, or one that is defined later.
ReadingAsE(name) == Block(<<Table(name, "e")>>, KV(ek, ev))
UnusedCteInputs ==
  {Query(<<Cte("a", Simple(2)), Cte("b", Simple(3)), Cte("s", Simple(4))>>,
         <<Seeing(3, Select(<<Table(main, "d")>> \o join, where)), Plain, Seeing(1, second), Seeing(2, Reading(third))>>) :
     main \in {"t", "a", "b"}, second \in {Reading("t"), Reading("a"), ReadingAsE("a"), Reading("s")},
     third \in {"t", "a", "b"},
     join \in {<<>>, <<Join(Table("s", "e"), "left", <<Same(dk, ek)>>)>>, <<Join(Table("b", "e"), "left", <<Same(dk, ek)>>)>>},
     where \in {<<>>, <<Exists("b", "z", dk)>>}}

RemovalInputs == JoinInputs \cup UnusedCteInputs

--------------------------------------------------------------------------------
(* Two CTEs under every name, one in the WITH of the other's body, of a derived
   table of the root, of the second branch of a UNION or of the body of a CTE
   that comes after it; or beside it, where the root goes by their names.     *)
NamePairs == {<<"a", "a">>, <<"a", "b">>, <<"a", "t">>, <<"t", "a">>, <<"t", "t">>}
ReadNames == {"a", "b", "t"}
In(scope, b) == [b EXCEPT !.scope = scope]
Kept(b) == [b EXCEPT !.where = <<Eq(uk)>>]
Star(from) == Block(from, <<Out("x", dk), Out("y", dv)>>)
WithE(s, name) == <<s, Join(Table(name, "e"), "inner", <<Same(dk, ek)>>)>>

InsideACte(a, b, main, outer, inner) ==
  Query(<<Cte(a, Simple(2)), CteOf(2, b, Simple(3))>>,
        <<In({1}, Star(<<Table(main, "d")>>)), In({2}, Kept(Reading(outer))), Reading(inner)>>)
InsideADerived(a, b, main, outer, inner) ==
  Query(<<Cte(a, Simple(3)), CteOf(2, b, Simple(4))>>,
        <<In({1}, Star(WithE(Derived(Simple(2), "d"), main))), In({1, 2}, Reading(b)),
          Kept(Reading(outer)), In({1}, Kept(Reading(inner)))>>)
InsideASibling(a, b, main, outer, inner) ==
  Query(<<Cte("f", Simple(2)), Cte(a, Simple(3)), CteOf(3, b, Simple(4))>>,
        <<In({1, 2}, Star(<<Table(main, "d")>>)), Kept(Plain), In({1, 3}, Reading(outer)), In({1}, Reading(inner))>>)
InsideAUnion(a, b, main, outer, inner) ==
  Query(<<CteOf(2, a, Simple(4)), CteOf(3, b, Simple(5))>>,
        <<Star(<<Derived(Body("union all", 2, 3), "d")>>), In({1}, Reading(a)), In({1, 2}, Reading(main)),
          Kept(Reading(outer)), In({1}, Kept(Reading(inner)))>>)

Own(name, col) == <<name, col>>
Named(name) == Table(name, name)
Beside(b, read, alias, where, body) ==
  Query(<<Cte("a", Simple(2)), Cte(b, body)>>,
        <<In({1, 2}, [Block(<<Named("a"), Join(Table(read, alias), "left", <<Same(Own("a", "k"), Own(alias, "k"))>>)>>,
                            <<Out("x", Own("a", "k")), Out("y", Own(alias, "v"))>>) EXCEPT !.where = where]),
          Plain,
          In({1}, Block(<<Named("a")>>, KV(Own("a", "k"), Own("a", "v")))),
          In({1}, Block(<<Derived(Simple(3), "d")>>, KV(dk, dv)))>>)

Nestings ==
  UNION {{InsideACte(p[1], p[2], main, outer, inner), InsideADerived(p[1], p[2], main, outer, inner),
          InsideAUnion(p[1], p[2], main, outer, inner), InsideASibling(p[1], p[2], main, outer, inner),
          InsideASibling(p[1], p[2], main, "f", inner)} :
         p \in NamePairs, main, outer, inner \in ReadNames}

Siblings ==
  {Beside(b, read, alias, where, body) :
     b \in {"b", "s"}, read \in {"a", "b", "s"}, alias \in {"b", "e", "s"},
     where \in {<<>>, <<Eq(Own("a", "k"))>>, <<Term("between", <<Own("a", "k")>>)>>, <<Exists("a", "z", Own("a", "k"))>>},
     body \in {Simple(3), Simple(4), Body("union all", 2, 3)}}

CteQueries == {q \in Nestings \cup Siblings : IsWellScoped(q)}

Spec ==
  (ConditionInit \/ UnusedInit \/ CteInit) /\ [][ConditionNext \/ UnusedNext \/ CteNext]_cvars
================================================================================
