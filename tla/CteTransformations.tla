--------------------------- MODULE CteTransformations --------------------------
(* CTENormalizer.normalize, which moves every CTE of a query to the WITH of its
   root, and CTERenamer.renameCTE.  toUnion, appendWith, the joins and
   toSimpleQuery normalize the query they have built; for toSimpleQuery of a
   UNION the root is the SELECT that wraps it.  No query here is recursive.     *)
EXTENDS UnusedRelations

CONSTANTS
  CteInputs,
  NewNames        \* the names a CTE may be given

CteInit ==
  /\ input \in CteInputs /\ query = input
  /\ phase = "cte" /\ agenda = <<>>

CtesAt(q, b) == SelectSeq([c \in DOMAIN q.ctes |-> c], LAMBDA c : q.ctes[c].at = b)

--------------------------------------------------------------------------------
(* CTENormalizer *)

\* Mutant: a CTE comes before those its own WITH defines.
RECURSIVE CollectedOuterFirst(_, _)
CollectedOuterFirst(q, body) ==
  LET sources(b) == FlattenSeq([i \in DOMAIN q.block[b].from |->
                      CollectedOuterFirst(q, q.block[b].from[i].body)])
      with(b) == FlattenSeq([n \in DOMAIN CtesAt(q, b) |->
                   <<CtesAt(q, b)[n]>> \o CollectedOuterFirst(q, q.ctes[CtesAt(q, b)[n]].body)])
  IN  FlattenSeq([n \in DOMAIN body.parts |-> sources(body.parts[n]) \o with(body.parts[n])])

\* CTECollector: the FROM of a block comes before its WITH, the body before the CTE.
RECURSIVE Collected(_, _)
Collected(q, body) ==
  LET sources(b) == FlattenSeq([i \in DOMAIN q.block[b].from |-> Collected(q, q.block[b].from[i].body)])
      with(b) == FlattenSeq([n \in DOMAIN CtesAt(q, b) |->
                   Collected(q, q.ctes[CtesAt(q, b)[n]].body) \o <<CtesAt(q, b)[n]>>])
  IN  FlattenSeq([n \in DOMAIN body.parts |-> sources(body.parts[n]) \o with(body.parts[n])])

\* CTEDisabler: no block has a WITH; the collected CTEs are kept beside the query.
Disabled(q) ==
  [ctes |-> [c \in DOMAIN q.ctes |-> [q.ctes[c] EXCEPT !.at = 0]],
   block |-> [b \in DOMAIN q.block |-> [q.block[b] EXCEPT !.scope = {}]]]

\* How a body is printed once its WITH clauses are gone.
RECURSIVE Text(_, _)
Text(q, body) ==
  LET text(b) == [q.block[b] EXCEPT !.scope = {},
                    !.from = [i \in DOMAIN @ |-> [@[i] EXCEPT !.body = Text(q, @)]]]
  IN  [op |-> body.op, parts |-> [n \in DOMAIN body.parts |-> text(body.parts[n])]]

HasConflict(q, list) ==
  \E c, d \in ToSet(list) :
    q.ctes[c].name = q.ctes[d].name /\ Text(q, q.ctes[c].body) # Text(q, q.ctes[d].body)

\* It reads its own name in FROM, for the code the mark of a recursive CTE.
ReadsItself(q, c) ==
  \E b \in ToSet(q.ctes[c].body.parts) : \E s \in ToSet(q.block[b].from) : s.name = q.ctes[c].name

(* The CTEs that read themselves come first.  The dependencies that the sort goes
   by are the CTEs defined inside each CTE, none of which is left by now.     *)
Built(q, list) ==
  LET one == FirstOf(list, [n \in DOMAIN list |-> q.ctes[list[n]].name])
  IN  SelectSeq(one, LAMBDA c : ReadsItself(q, c)) \o SelectSeq(one, LAMBDA c : ~ReadsItself(q, c))

\* The new WITH at the root; one that is RECURSIVE lets every CTE see all of them.
Injected(q, list) ==
  LET all == DOMAIN list
      recursive == \E c \in ToSet(list) : ReadsItself(q, c)
      home(b) == {n \in all : b \in BlocksOf(q, q.ctes[list[n]].body)}
      sees(b) == IF recursive THEN all ELSE {n \in all : \A m \in home(b) : n < m}
  IN  [ctes |-> [n \in all |-> [q.ctes[list[n]] EXCEPT !.at = 1]],
       block |-> [b \in DOMAIN q.block |-> [q.block[b] EXCEPT !.scope = sees(b)]]]

CollectAndDisable ==
  /\ phase = "cte"
  /\ agenda' = Collected(query, Root)
  /\ IF agenda' = <<>> THEN phase' = "normalized" /\ UNCHANGED query
     ELSE phase' = "disabled" /\ query' = Disabled(query)
  /\ UNCHANGED input

Inject ==
  /\ phase = "disabled" /\ ~HasConflict(query, agenda)
  /\ query' = Injected(query, Built(query, agenda))
  /\ phase' = "normalized" /\ agenda' = <<>> /\ UNCHANGED input

\* The caller is left with the query without its WITH clauses.
RejectConflict ==
  /\ phase = "disabled" /\ HasConflict(query, agenda)
  /\ phase' = "rejected" /\ agenda' = <<>> /\ UNCHANGED <<input, query>>

--------------------------------------------------------------------------------
(* CTERenamer, for a root that is one SELECT *)

\* The blocks whose FROM is looked at: the root, and a CTE of its WITH that is one SELECT.
LookedAt(q) ==
  {1} \cup {q.ctes[c].body.parts[1] : c \in {c \in ToSet(CtesAt(q, 1)) : q.ctes[c].body.op = "simple"}}

RenamedRef(ref, old, new) == IF ref[1] = old THEN <<new, ref[2]>> ELSE ref
RenamedRefs(refs, old, new) == [n \in DOMAIN refs |-> RenamedRef(refs[n], old, new)]

\* The collector of column references does not look into BETWEEN.
RenamedTerms(terms, old, new) ==
  [n \in DOMAIN terms |->
     IF terms[n].op = "between" THEN terms[n]
     ELSE [terms[n] EXCEPT !.refs = RenamedRefs(@, old, new)]]

\* A source without an alias of its own goes by its name; of those the root reads
\* under one name only the first was collected.
RenamedSources(q, b, old, new) ==
  LET from == q.block[b].from
      hit(i) == /\ b \in LookedAt(q) /\ from[i].name = old
                /\ b = 1 => \A j \in 1..(i - 1) : from[j].name # old
  IN  [i \in DOMAIN from |->
         [from[i] EXCEPT !.on = RenamedTerms(@, old, new),
                         !.name = IF hit(i) THEN new ELSE @,
                         !.alias = IF hit(i) /\ @ = old THEN new ELSE @]]

\* Mutant: only the root's sources are renamed.
RenamedInTheRoot(q, old, new) ==
  [b \in DOMAIN q.block |->
     IF b = 1 THEN [q.block[b] EXCEPT !.from = RenamedSources(q, b, old, new)] ELSE q.block[b]]

RenamedBlocks(q, old, new) ==
  [b \in DOMAIN q.block |->
     [q.block[b] EXCEPT
        !.from = RenamedSources(q, b, old, new),
        !.where = RenamedTerms(@, old, new),
        !.group = RenamedRefs(@, old, new),
        !.out = [n \in DOMAIN @ |->
                   IF IsColumn(@[n].val) THEN [@[n] EXCEPT !.val = RenamedRef(@, old, new)] ELSE @[n]]]]

\* On a UNION the collector calls itself with the SELECT that wraps it, for ever.
HasUnion(q) ==
  \/ \E c \in DOMAIN q.ctes : q.ctes[c].body.op # "simple"
  \/ \E b \in DOMAIN q.block : \E s \in ToSet(q.block[b].from) : s.body.op \notin {"none", "simple"}

RenameCte ==
  /\ phase = "cte"
  /\ \E c \in ToSet(CtesAt(query, 1)), new \in NewNames :
       LET defined == [query EXCEPT !.ctes[c].name = new]
           old == query.ctes[c].name
       IN  /\ \A d \in ToSet(CtesAt(query, 1)) : query.ctes[d].name # new
           /\ agenda' = <<[cte |-> c, old |-> old, new |-> new]>>
           /\ IF HasUnion(query) THEN phase' = "overflown" /\ query' = defined
              ELSE /\ phase' = "renamed"
                   /\ query' = [defined EXCEPT !.block = RenamedBlocks(query, old, new)]
  /\ UNCHANGED input

CteNext == CollectAndDisable \/ Inject \/ RejectConflict \/ RenameCte

--------------------------------------------------------------------------------
(* What the code lets through *)

\* A name that is read where it is no CTE's, or not yet, is that of a CTE elsewhere.
CapturedByHoisting(q) ==
  \E b \in Blocks(q) : \E name \in NamesRead(q, {b}) :
    VisibleCtes(q, q.block[b].scope, name) = {} /\ \E c \in DOMAIN q.ctes : q.ctes[c].name = name

\* The blocks of a body, those of the CTEs defined in it included.
RECURSIVE AllBlocks(_, _)
AllBlocks(q, body) ==
  LET own == BlocksOf(q, body)
  IN  own \cup UNION {AllBlocks(q, q.ctes[c].body) : c \in {c \in DOMAIN q.ctes : q.ctes[c].at \in own}}

\* In block b the name of CTE c stands for c.
Means(q, b, c) == Last1(VisibleCtes(q, q.block[b].scope, q.ctes[c].name) \cup {0}) = c

\* A derived table has a WITH, and a CTE of that reads one of the enclosing WITH.
ReadsAhead(q) ==
  \E c, d \in DOMAIN q.ctes :
    /\ q.ctes[d].at \in BlocksOf(q, [op |-> "simple", parts |-> <<q.ctes[c].at>>]) \ {q.ctes[c].at}
    /\ \E b \in AllBlocks(q, q.ctes[d].body) :
         q.ctes[c].name \in NamesRead(q, {b}) /\ Means(q, b, c)

(* The CTE is read where the renamer does not look, its name is something else
   where it looks, a column or an alias keeps or loses the name alone, or the
   new name is another's.                                                     *)
MisnamedRead(q, c, new) ==
  LET old == q.ctes[c].name
      blk(b) == q.block[b]
      inFrom(b) == old \in {s.name : s \in ToSet(blk(b).from)}
      hidden(b) == \E t \in ToSet(blk(b).where) :
                     (t.op = "exists" /\ t.name = old) \/ (t.op = "between" /\ t.refs[1][1] = old)
      otherwise(b) == \E s \in ToSet(blk(b).from) : s.alias = old /\ (s.name # old \/ b \notin LookedAt(q))
  IN  \/ HasUnion(q)
      \/ \E b \in Blocks(q) :
           \/ hidden(b) \/ otherwise(b)
           \/ inFrom(b) /\ (b \in LookedAt(q)) # Means(q, b, c)
           \/ inFrom(b) /\ \E s \in ToSet(blk(b).from) : s.alias = new
           \/ /\ c \in blk(b).scope
              /\ new \in NamesRead(q, {b}) \/ VisibleCtes(q, blk(b).scope, new) # {}
      \/ Len(SelectSeq(blk(1).from, LAMBDA s : s.name = old)) > 1

--------------------------------------------------------------------------------
(* What the code lets through aside, a query whose CTEs were moved to its root or
   of which one was renamed reads the same CTEs and returns the same rows: each
   reader still finds the CTE it read, and finds no other under its name. *)
TransformedMeansTheSame ==
  /\ phase \in {"normalized", "renamed", "overflown"}
  /\ phase = "normalized" => ~CapturedByHoisting(input) /\ ~ReadsAhead(input)
  /\ phase # "normalized" => ~MisnamedRead(input, agenda[1].cte, agenda[1].new)
  => IsWellScoped(query) /\ SameMeaning(query, input)
================================================================================
