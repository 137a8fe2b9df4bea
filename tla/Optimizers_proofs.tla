---------------------------- MODULE Optimizers_proofs --------------------------
(* What the fixed points of the optimizers leave, for every query. *)
EXTENDS ConditionOptimization, UnusedRelations, WellFoundedInduction, FiniteSetTheorems, TLAPS

\* A set of numbers has a least one: the induction that the proofs below rest on.
LEMMA LeastNat ==
  ASSUME NEW T \in SUBSET Nat, T # {}
  PROVE  \E x \in T : \A y \in T : x <= y
<1>1. PICK x \in T : \A y \in T : <<y, x>> \notin OpToRel(<, Nat)
  BY NatLessThanWellFounded, WFMin, Zenon
<1>2. ASSUME NEW y \in T, y < x PROVE FALSE
  <2>1. <<y, x>> \in {ss \in Nat \X Nat : ss[1] < ss[2]}
    BY <1>2
  <2>2. <<y, x>> \in OpToRel(<, Nat)
    BY <2>1, Zenon DEF OpToRel
  <2> QED BY <2>2, <1>1
<1> QED BY <1>2

\* The lists that Picked grows, up to place m.
Picking(first, terms, positions, m) ==
  first = [n \in 0..m |->
            IF n = 0 THEN <<>>
            ELSE IF n \in positions THEN Append(first[n - 1], terms[n]) ELSE first[n - 1]]

\* There is the function by which Picked is defined.
LEMMA PickedSteps ==
  ASSUME NEW terms, NEW N \in Nat, NEW positions
  PROVE  \E first : Picking(first, terms, positions, N)
<1> DEFINE Step(n, before) == IF n \in positions THEN Append(before, terms[n]) ELSE before
           Steps(f, m) == f = [n \in 0..m |-> IF n = 0 THEN <<>> ELSE Step(n, f[n - 1])]
           Undefined == {m \in Nat : ~\E f : Steps(f, m)}
<1>1. Undefined = {}
  <2> SUFFICES ASSUME Undefined # {} PROVE FALSE
    OBVIOUS
  <2>1. PICK m \in Undefined : \A n \in Undefined : m <= n
    <3>1. Undefined \in SUBSET Nat
      OBVIOUS
    <3> QED BY <3>1, LeastNat
  <2> HIDE DEF Step
  <2>2. m # 0
    <3>1. Steps([n \in 0..0 |-> <<>>], 0)
      OBVIOUS
    <3> QED BY <3>1
  <2>3. PICK f : Steps(f, m - 1)
    <3>1. m - 1 \in Nat /\ ~(m <= m - 1)
      BY <2>2
    <3> QED BY <2>1, <3>1
  <2> DEFINE g == [n \in 0..m |-> IF n = m THEN Step(m, f[m - 1]) ELSE f[n]]
  <2>4. Steps(g, m)
    <3>1. \A n \in 0..(m - 1) : f[n] = IF n = 0 THEN <<>> ELSE Step(n, f[n - 1])
      BY <2>3
    <3>2. ASSUME NEW n \in 0..m PROVE g[n] = IF n = 0 THEN <<>> ELSE Step(n, g[n - 1])
      <4>1. CASE n = m
        BY <2>2, <4>1
      <4>2. CASE n # m
        <5>1. n \in 0..(m - 1) /\ (n # 0 => n - 1 \in 0..m /\ n - 1 # m)
          BY <4>2
        <5> QED BY <3>1, <4>2, <5>1
      <4> QED BY <4>1, <4>2
    <3> QED BY <3>2
  <2> QED BY <2>1, <2>4
<1> QED BY <1>1 DEF Picking

\* What is picked from a list is a list of terms at those positions.
LEMMA PickedTerms ==
  ASSUME NEW terms, Len(terms) \in Nat, NEW positions
  PROVE  Picked(terms, positions) \in Seq({terms[n] : n \in (1..Len(terms)) \cap positions})
<1> DEFINE T == {terms[n] : n \in (1..Len(terms)) \cap positions}
           first == CHOOSE f : Picking(f, terms, positions, Len(terms))
           Wrong == {n \in 0..Len(terms) : first[n] \notin Seq(T)}
<1>1. Picking(first, terms, positions, Len(terms))
  BY PickedSteps
<1>2. Picked(terms, positions) = first[Len(terms)]
  BY DEF Picked, Picking
<1> HIDE DEF first
<1>3. \A n \in 0..Len(terms) :
        first[n] = IF n = 0 THEN <<>>
                   ELSE IF n \in positions THEN Append(first[n - 1], terms[n]) ELSE first[n - 1]
  BY <1>1 DEF Picking
<1>4. Wrong = {}
  <2> SUFFICES ASSUME Wrong # {} PROVE FALSE
    OBVIOUS
  <2>1. PICK m \in Wrong : \A n \in Wrong : m <= n
    <3>1. Wrong \in SUBSET Nat
      OBVIOUS
    <3> QED BY <3>1, LeastNat
  <2>2. m \in positions /\ m # 0 => terms[m] \in T
    OBVIOUS
  <2> HIDE DEF T
  <2>3. m # 0
    <3>1. first[0] = <<>> /\ <<>> \in Seq(T)
      BY <1>3
    <3> QED BY <3>1
  <2>4. first[m - 1] \in Seq(T)
    <3>1. m - 1 \in 0..Len(terms) /\ ~(m <= m - 1)
      BY <2>3
    <3> QED BY <2>1, <3>1
  <2>5. first[m] = IF m \in positions THEN Append(first[m - 1], terms[m]) ELSE first[m - 1]
    BY <1>3, <2>3
  <2>6. first[m] \in Seq(T)
    BY <2>2, <2>3, <2>4, <2>5
  <2> QED BY <2>6
<1> QED BY <1>2, <1>4

\* A list of them stays a list.
LEMMA PickedList ==
  ASSUME NEW terms, IsList(terms), NEW positions
  PROVE  /\ IsList(Picked(terms, positions))
         /\ ToSet(Picked(terms, positions)) \subseteq {terms[n] : n \in (DOMAIN terms) \cap positions}
<1> DEFINE S == {terms[n] : n \in (DOMAIN terms) \cap positions}
<1>1. Len(terms) \in Nat /\ DOMAIN terms = 1..Len(terms)
  BY DEF IsList
<1>2. Picked(terms, positions) \in Seq(S)
  BY <1>1, PickedTerms
<1> HIDE DEF S
<1>3. \A p \in Seq(S) : p \in Seq(ToSet(p)) /\ ToSet(p) \subseteq S
  BY DEF ToSet
<1>4. IsList(Picked(terms, positions)) /\ ToSet(Picked(terms, positions)) \subseteq S
  BY <1>2, <1>3 DEF IsList
<1> QED BY <1>4 DEF S

--------------------------------------------------------------------------------
(* UnusedRelations *)

UnusedInv ==
  /\ phase \in {"joins", "ctes", "done"}
  /\ input \in UnusedInputs /\ DOMAIN query.ctes \subseteq DOMAIN input.ctes
  /\ phase # "joins" /\ DOMAIN query.ctes = DOMAIN input.ctes => NothingToRemove(query)
  /\ phase = "done" => Unreferenced(query) = {}

LEMMA UnusedInvHolds == UnusedSpec => []UnusedInv
<1>1. UnusedInit => UnusedInv
  BY DEF UnusedInit, UnusedInv
<1>2. UnusedInv /\ [UnusedNext]_uvars => UnusedInv'
  <2> SUFFICES ASSUME UnusedInv, [UnusedNext]_uvars PROVE UnusedInv'
    OBVIOUS
  <2> USE DEF UnusedInv
  <2>1. CASE RemoveUnusedJoins
    <3>1. CASE NothingToRemove(query)
      BY <2>1, <3>1 DEF RemoveUnusedJoins
    <3>2. CASE ~NothingToRemove(query)
      <4>1. /\ phase = "joins" /\ phase' = "joins" /\ input' = input
            /\ query'.ctes = query.ctes
        BY <2>1, <3>2 DEF RemoveUnusedJoins, WithoutJoins
      <4> QED BY <4>1
    <3> QED BY <3>1, <3>2
  <2>2. CASE RemoveUnusedCtes
    <3>1. CASE Unreferenced(query) = {}
      BY <2>2, <3>1 DEF RemoveUnusedCtes
    <3>2. CASE Unreferenced(query) # {}
      <4>1. PICK c \in DOMAIN query.ctes : c \in Unreferenced(query)
        BY <3>2 DEF Unreferenced
      <4>2. /\ phase' = "ctes" /\ input' = input
            /\ DOMAIN query'.ctes = (DOMAIN query.ctes) \ Unreferenced(query)
        BY <2>2, <3>2 DEF RemoveUnusedCtes, WithoutCtes
      <4> QED BY <4>1, <4>2
    <3> QED BY <3>1, <3>2
  <2>3. CASE UNCHANGED uvars
    BY <2>3 DEF uvars
  <2> QED BY <2>1, <2>2, <2>3 DEF UnusedNext
<1> QED BY <1>1, <1>2, PTL DEF UnusedSpec

(* A query in which every CTE is read by the root or by another one, and none by an
   earlier one, has only live CTEs: the last that is not would have a later reader. *)
LEMMA ReadIsLive ==
  ASSUME NEW q, NEW N \in Nat, DOMAIN q.ctes \subseteq 1..N,
         Unreferenced(q) = {}, ~ReadsLater(q),
         NEW c \in DOMAIN q.ctes
  PROVE  IsLive(q, c)
<1> SUFFICES ASSUME NEW live \in SUBSET DOMAIN q.ctes,
                    \A d \in DOMAIN q.ctes :
                      Reads(q, Root, d) \/ (\E e \in live : Reads(q, q.ctes[e].body, d)) => d \in live,
                    c \notin live
             PROVE  FALSE
  BY DEF IsLive
<1> DEFINE Missed == {N - d : d \in (DOMAIN q.ctes) \ live}
<1>1. Missed \in SUBSET Nat /\ Missed # {}
  OBVIOUS
<1>2. PICK m \in Missed : \A n \in Missed : m <= n
  BY <1>1, LeastNat
<1>3. PICK d \in (DOMAIN q.ctes) \ live : m = N - d
  BY <1>2
<1>4. IsReferenced(q, d) /\ ~Reads(q, Root, d)
  BY <1>3 DEF Unreferenced
<1>5. PICK e \in (DOMAIN q.ctes) \ {d} : Reads(q, q.ctes[e].body, d)
  BY <1>4 DEF IsReferenced
<1>6. d < e
  <2>1. d \in 1..N /\ e \in 1..N /\ e # d
    BY <1>3, <1>5
  <2>2. ~(e < d)
    BY <1>3, <1>5 DEF ReadsLater
  <2> QED BY <2>1, <2>2
<1>7. e \in live
  <2>1. d \in 1..N /\ e \in 1..N
    BY <1>3, <1>5
  <2>2. SUFFICES ASSUME e \notin live PROVE FALSE
    OBVIOUS
  <2>3. N - e \in Missed
    BY <2>2
  <2>4. m <= N - e
    BY <1>2, <2>3
  <2> HIDE DEF Missed
  <2> QED BY <1>3, <1>6, <2>1, <2>4
<1> QED BY <1>3, <1>5, <1>7

(* optimizeUnusedLeftJoinsToFixedPoint and optimizeUnusedCtesToFixedPoint end only
   where no join is removable, and every CTE left is one the root reads. *)
THEOREM FixedPointIsReached == UnusedSpec => []FixedPointReached
<1>1. UnusedInv => FixedPointReached
  <2> SUFFICES ASSUME UnusedInv, phase = "done"
               PROVE  /\ DOMAIN query.ctes = DOMAIN input.ctes => NothingToRemove(query)
                      /\ ~ReadsLater(query) => \A c \in DOMAIN query.ctes : IsLive(query, c)
    BY DEF FixedPointReached
  <2>1. DOMAIN query.ctes = DOMAIN input.ctes => NothingToRemove(query)
    BY DEF UnusedInv
  <2>2. ASSUME ~ReadsLater(query), NEW c \in DOMAIN query.ctes PROVE IsLive(query, c)
    <3>1. Len(input.ctes) \in Nat /\ DOMAIN query.ctes \subseteq 1..Len(input.ctes)
      BY UnusedInputsAssumption DEF UnusedInv, UnusedInputsAssumption, IsList
    <3>2. Unreferenced(query) = {}
      BY DEF UnusedInv
    <3> QED BY <2>2, <3>1, <3>2, ReadIsLive
  <2> QED BY <2>1, <2>2
<1> QED BY <1>1, UnusedInvHolds, PTL

\* No CTE that was removed has a name that a block of the query still reads.
NoReadDangles ==
  \A c \in (DOMAIN input.ctes) \ DOMAIN query.ctes :
    \A b \in Blocks(query) : input.ctes[c].name \notin NamesRead(query, {b})

RemovalInv ==
  /\ \A c \in DOMAIN query.ctes : c \in DOMAIN input.ctes /\ query.ctes[c] = input.ctes[c]
  /\ phase = "joins" => DOMAIN query.ctes = DOMAIN input.ctes
  /\ NoReadDangles

\* The removal of CTEs changes no block but in the CTEs it sees.
LEMMA ReadsStay ==
  ASSUME NEW q, NEW gone
  PROVE  /\ DOMAIN WithoutCtes(q, gone).block = DOMAIN q.block
         /\ \A b \in DOMAIN q.block :
              /\ Unscoped(WithoutCtes(q, gone).block[b]) = Unscoped(q.block[b])
              /\ Sources(WithoutCtes(q, gone).block[b]) = Sources(q.block[b])
         /\ \A body : BlocksOf(WithoutCtes(q, gone), body) = BlocksOf(q, body)
         /\ \A b \in DOMAIN q.block : NamesRead(WithoutCtes(q, gone), {b}) = NamesRead(q, {b})
<1> DEFINE r == WithoutCtes(q, gone)
<1>1. DOMAIN r.block = DOMAIN q.block
  BY DEF WithoutCtes
<1>2. ASSUME NEW b \in DOMAIN q.block
      PROVE  r.block[b].from = q.block[b].from /\ r.block[b].where = q.block[b].where
             /\ Unscoped(r.block[b]) = Unscoped(q.block[b])
  <2>1. r.block[b] = [q.block[b] EXCEPT !.scope = q.block[b].scope \ gone]
    BY DEF WithoutCtes
  <2> HIDE DEF r
  <2>2. r.block[b].from = q.block[b].from /\ r.block[b].where = q.block[b].where
    BY <2>1
  <2>3. Unscoped(r.block[b]) = Unscoped(q.block[b])
    BY <2>1 DEF Unscoped
  <2> QED BY <2>2, <2>3
<1> HIDE DEF r
<1>3. \A b \in DOMAIN q.block : Sources(r.block[b]) = Sources(q.block[b])
  BY <1>2 DEF Sources, TermsOf
<1>4. \A b \in DOMAIN q.block : DerivedTables(r, b) = DerivedTables(q, b)
  BY <1>3 DEF DerivedTables
<1>5. \A body : BlocksOf(r, body) = BlocksOf(q, body)
  BY <1>1, <1>4 DEF BlocksOf
<1>6. \A b \in DOMAIN q.block : NamesRead(r, {b}) = NamesRead(q, {b})
  BY <1>3 DEF NamesRead
<1> QED BY <1>1, <1>2, <1>3, <1>5, <1>6 DEF r

\* What an unreferenced CTE is called is read by nothing that is left.
LEMMA UnreadWhenRemoved ==
  ASSUME NEW q, NEW c \in Unreferenced(q),
         NEW b \in Blocks(WithoutCtes(q, Unreferenced(q)))
  PROVE  b \in Blocks(q) /\ q.ctes[c].name \notin NamesRead(q, {b})
<1> DEFINE gone == Unreferenced(q)
           r == WithoutCtes(q, gone)
<1>1. c \in DOMAIN q.ctes /\ ~IsReferenced(q, c)
  BY DEF Unreferenced
<1>2. DOMAIN r.ctes = (DOMAIN q.ctes) \ gone /\ \A d \in DOMAIN r.ctes : r.ctes[d] = q.ctes[d]
  BY DEF WithoutCtes
<1> HIDE DEF r
<1>3. \A body : BlocksOf(r, body) = BlocksOf(q, body)
  BY ReadsStay DEF r
<1>4. b \in BlocksOf(q, Root) \/ \E d \in (DOMAIN q.ctes) \ gone : b \in BlocksOf(q, q.ctes[d].body)
  BY <1>2, <1>3 DEF Blocks, r
<1>5. PICK body \in {Root} \cup {q.ctes[d].body : d \in (DOMAIN q.ctes) \ gone} : b \in BlocksOf(q, body)
  BY <1>4
<1>6. ~Reads(q, body, c)
  BY <1>1, <1>5 DEF IsReferenced
<1>7. NamesRead(q, {b}) \subseteq NamesRead(q, BlocksOf(q, body))
  BY <1>5 DEF NamesRead
<1>8. b \in Blocks(q)
  BY <1>4 DEF Blocks
<1> QED BY <1>6, <1>7, <1>8 DEF Reads

(* optimizeUnusedCtesToFixedPoint removes several CTEs per pass: none of them is read
   by the root, a derived table or a CTE that stays. *)
THEOREM RemovedCtesAreUnread == UnusedSpec => []NoReadDangles
<1>1. UnusedInit => RemovalInv
  BY DEF UnusedInit, RemovalInv, NoReadDangles
<1>2. UnusedInv /\ RemovalInv /\ [UnusedNext]_uvars => RemovalInv'
  <2> SUFFICES ASSUME UnusedInv, RemovalInv, [UnusedNext]_uvars PROVE RemovalInv'
    OBVIOUS
  <2>1. CASE RemoveUnusedJoins
    <3>1. input' = input /\ query'.ctes = query.ctes /\ DOMAIN query.ctes = DOMAIN input.ctes
      BY <2>1 DEF RemoveUnusedJoins, WithoutJoins, RemovalInv
    <3>2. NoReadDangles'
      BY <3>1 DEF NoReadDangles
    <3> QED BY <3>1, <3>2 DEF RemovalInv
  <2>2. CASE RemoveUnusedCtes /\ Unreferenced(query) = {}
    <3>1. UNCHANGED <<input, query>> /\ phase' = "done"
      BY <2>2 DEF RemoveUnusedCtes
    <3> QED BY <3>1 DEF RemovalInv, NoReadDangles
  <2>3. CASE RemoveUnusedCtes /\ Unreferenced(query) # {}
    <3> DEFINE gone == Unreferenced(query)
    <3>1. input' = input /\ query' = WithoutCtes(query, gone) /\ phase' = "ctes"
      BY <2>3 DEF RemoveUnusedCtes
    <3>2. DOMAIN query'.ctes = (DOMAIN query.ctes) \ gone /\ \A d \in DOMAIN query'.ctes : query'.ctes[d] = query.ctes[d]
      BY <3>1 DEF WithoutCtes
    <3>3. DOMAIN query'.block = DOMAIN query.block
          /\ \A b \in DOMAIN query.block : NamesRead(query', {b}) = NamesRead(query, {b})
      BY <3>1, ReadsStay
    <3>4. ASSUME NEW c \in (DOMAIN input'.ctes) \ DOMAIN query'.ctes,
                 NEW b \in Blocks(query')
          PROVE  input'.ctes[c].name \notin NamesRead(query', {b})
      <4>1. b \in DOMAIN query.block /\ NamesRead(query', {b}) = NamesRead(query, {b})
        BY <3>3 DEF Blocks, BlocksOf
      <4>2. b \in Blocks(query)
        BY <3>1, <3>2, ReadsStay DEF Blocks
      <4>3. CASE c \in DOMAIN query.ctes
        <5>1. c \in gone /\ query.ctes[c] = input.ctes[c]
          BY <3>2, <4>3 DEF RemovalInv
        <5> QED BY <3>1, <4>1, <5>1, UnreadWhenRemoved
      <4>4. CASE c \notin DOMAIN query.ctes
        BY <3>1, <4>1, <4>2, <4>4 DEF RemovalInv, NoReadDangles
      <4> QED BY <4>3, <4>4
    <3> QED BY <3>1, <3>2, <3>4 DEF RemovalInv, NoReadDangles
  <2>4. CASE UNCHANGED uvars
    BY <2>4 DEF uvars, RemovalInv, NoReadDangles
  <2> QED BY <2>1, <2>2, <2>3, <2>4 DEF UnusedNext
<1>3. RemovalInv => NoReadDangles
  BY DEF RemovalInv
<1> QED BY <1>1, <1>2, <1>3, UnusedInvHolds, PTL DEF UnusedSpec

--------------------------------------------------------------------------------
(* What a query means: the rows of a block depend on the blocks it reads alone *)

Ranked(q, rank) ==
  /\ rank \in [DOMAIN q.block -> DOMAIN q.block]
  /\ \A b \in DOMAIN q.block : \A s \in Sources(q.block[b]) :
       \A p \in ToSet(ReadBody(q, b, s).parts) : p \in DOMAIN q.block /\ rank[p] < rank[b]

\* A source stands for the same rows if it reads the same blocks and these have the same.
LEMMA SameSource ==
  ASSUME NEW q, NEW r, NEW b, NEW c, NEW db, NEW f, NEW g, NEW s,
         ReadBody(q, b, s) = ReadBody(r, c, s),
         \A p \in ToSet(ReadBody(q, b, s).parts) : f[p] = g[p]
  PROVE  SourceRelation(q, db, f, b, s) = SourceRelation(r, db, g, c, s)
<1> DEFINE body == ReadBody(q, b, s)
<1>1. \A n \in DOMAIN body.parts : f[body.parts[n]] = g[body.parts[n]]
  BY DEF ToSet
<1>2. body = ReadBody(r, c, s)
  OBVIOUS
<1> HIDE DEF body
<1>3. [n \in DOMAIN body.parts |-> f[body.parts[n]]] = [n \in DOMAIN body.parts |-> g[body.parts[n]]]
  BY <1>1
<1> QED BY <1>2, <1>3 DEF SourceRelation, body

\* A block returns the same rows if the blocks it reads do.
LEMMA SameRows ==
  ASSUME NEW q, NEW r, NEW b, NEW c, NEW db, NEW f, NEW g,
         Unscoped(q.block[b]) = Unscoped(r.block[c]),
         \A s \in Sources(Unscoped(q.block[b])) :
           /\ ReadBody(q, b, s) = ReadBody(r, c, s)
           /\ \A p \in ToSet(ReadBody(q, b, s).parts) : f[p] = g[p]
  PROVE  BlockRelation(q, db, f, b) = BlockRelation(r, db, g, c)
<1> DEFINE S == Sources(Unscoped(q.block[b]))
<1>1. \A s \in S : SourceRelation(q, db, f, b, s) = SourceRelation(r, db, g, c, s)
  BY SameSource
<1> HIDE DEF S
<1>2. [s \in S |-> SourceRelation(q, db, f, b, s)] = [s \in S |-> SourceRelation(r, db, g, c, s)]
  BY <1>1
<1> QED BY <1>2 DEF BlockRelation, S

\* A scope adds no source.
LEMMA SourcesUnscoped ==
  ASSUME NEW blk
  PROVE  Sources(Unscoped(blk)) = Sources(blk)
<1>1. Unscoped(blk).from = blk.from /\ Unscoped(blk).where = blk.where
  BY DEF Unscoped
<1> QED BY <1>1 DEF Sources, TermsOf

\* There is the function by which Meaning is defined.
LEMMA RowsOfBlocks ==
  ASSUME NEW q, NEW N \in Nat, DOMAIN q.block = 1..N, NEW rank, Ranked(q, rank), NEW db
  PROVE  \E rel : rel = [b \in DOMAIN q.block |-> BlockRelation(q, db, rel, b)]
<1> DEFINE Upto(m) == {b \in DOMAIN q.block : rank[b] <= m}
           Defines(f, m) == f = [b \in Upto(m) |-> BlockRelation(q, db, f, b)]
           Undefined == {m \in Nat : ~\E f : Defines(f, m)}
<1>1. \A b \in DOMAIN q.block : rank[b] \in 1..N
  BY DEF Ranked
<1>2. ASSUME NEW m \in Nat, NEW f, \A b \in Upto(m) : \A s \in Sources(q.block[b]) :
               \A p \in ToSet(ReadBody(q, b, s).parts) : f[p] = BlockRelation(q, db, f, p)
      PROVE  \E g : Defines(g, m)
  <2> DEFINE g == [b \in Upto(m) |-> BlockRelation(q, db, f, b)]
  <2>1. ASSUME NEW b \in Upto(m) PROVE BlockRelation(q, db, f, b) = BlockRelation(q, db, g, b)
    <3>1. ASSUME NEW s \in Sources(q.block[b]), NEW p \in ToSet(ReadBody(q, b, s).parts)
          PROVE  f[p] = g[p]
      <4>1. b \in DOMAIN q.block /\ p \in DOMAIN q.block /\ rank[p] < rank[b] /\ rank[b] <= m
        BY <2>1, <3>1 DEF Ranked
      <4>2. p \in Upto(m)
        BY <1>1, <4>1
      <4>3. f[p] = BlockRelation(q, db, f, p)
        BY <1>2, <2>1, <3>1
      <4> QED BY <4>2, <4>3
    <3> HIDE DEF g
    <3> QED BY <3>1, SourcesUnscoped, SameRows
  <2>2. g = [b \in Upto(m) |-> BlockRelation(q, db, g, b)]
    BY <2>1
  <2> QED BY <2>2
<1>3. Undefined = {}
  <2> SUFFICES ASSUME Undefined # {} PROVE FALSE
    OBVIOUS
  <2>1. PICK m \in Undefined : \A n \in Undefined : m <= n
    <3>1. Undefined \in SUBSET Nat
      OBVIOUS
    <3> QED BY <3>1, LeastNat
  <2>2. CASE m = 0
    <3>1. Upto(m) = {}
      BY <1>1, <2>2
    <3>2. \E g : Defines(g, m)
      BY <1>2, <2>2, <3>1
    <3> QED BY <2>1, <3>2
  <2>3. CASE m # 0
    <3>1. m - 1 \in Nat /\ ~(m <= m - 1)
      BY <2>3
    <3>2. PICK f : Defines(f, m - 1)
      BY <2>1, <3>1
    <3>3. ASSUME NEW b \in Upto(m), NEW s \in Sources(q.block[b]), NEW p \in ToSet(ReadBody(q, b, s).parts)
          PROVE  f[p] = BlockRelation(q, db, f, p)
      <4>1. p \in DOMAIN q.block /\ rank[p] < rank[b] /\ rank[b] <= m /\ b \in DOMAIN q.block
        BY <3>3 DEF Ranked
      <4>2. p \in Upto(m - 1)
        BY <1>1, <4>1
      <4> QED BY <3>2, <4>2
    <3>4. \E g : Defines(g, m)
      BY <1>2, <3>3
    <3> QED BY <2>1, <3>4
  <2> QED BY <2>2, <2>3
<1>4. Upto(N) = DOMAIN q.block
  BY <1>1
<1>5. PICK f : Defines(f, N)
  BY <1>3
<1> QED BY <1>4, <1>5

\* What a query means is what its root returns.
LEMMA MeaningIsOfTheRoot ==
  ASSUME NEW q, NEW N \in Nat, DOMAIN q.block = 1..N, NEW rank, Ranked(q, rank), NEW db
  PROVE  \E rel : rel = [b \in DOMAIN q.block |-> BlockRelation(q, db, rel, b)] /\ Meaning(q, db) = rel[1]
<1> DEFINE Rows(rel) == rel = [b \in DOMAIN q.block |-> BlockRelation(q, db, rel, b)]
<1>1. \E rel : Rows(rel)
  BY RowsOfBlocks
<1>2. Meaning(q, db) = (CHOOSE rel : Rows(rel))[1]
  BY DEF Meaning
<1> HIDE DEF Rows
<1>3. Rows(CHOOSE rel : Rows(rel))
  BY <1>1
<1>4. \E rel : Rows(rel) /\ Meaning(q, db) = rel[1]
  BY <1>2, <1>3
<1> QED BY <1>4 DEF Rows

(* Two queries return the same rows on a database if the blocks that the root reads,
   itself or through others, are the same but for their scopes, and each of their
   sources stands for the same body. *)
LEMMA SameReadsSameMeaning ==
  ASSUME NEW q, NEW r, NEW N \in Nat, DOMAIN q.block = 1..N, DOMAIN r.block = 1..N,
         NEW rank, Ranked(q, rank), NEW other, Ranked(r, other), NEW db,
         NEW S \in SUBSET (1..N), 1 \in S,
         \A b \in S :
           /\ Unscoped(q.block[b]) = Unscoped(r.block[b])
           /\ \A s \in Sources(q.block[b]) :
                ReadBody(q, b, s) = ReadBody(r, b, s) /\ ToSet(ReadBody(q, b, s).parts) \subseteq S
  PROVE  Meaning(q, db) = Meaning(r, db)
<1>1. PICK f : f = [b \in DOMAIN q.block |-> BlockRelation(q, db, f, b)] /\ Meaning(q, db) = f[1]
  BY MeaningIsOfTheRoot
<1>2. PICK g : g = [b \in DOMAIN r.block |-> BlockRelation(r, db, g, b)] /\ Meaning(r, db) = g[1]
  BY MeaningIsOfTheRoot
<1>3. \A b \in S : f[b] = BlockRelation(q, db, f, b) /\ g[b] = BlockRelation(r, db, g, b)
  BY <1>1, <1>2
<1> DEFINE Differ == {rank[b] : b \in {b \in S : f[b] # g[b]}}
<1>4. Differ = {}
  <2> SUFFICES ASSUME Differ # {} PROVE FALSE
    OBVIOUS
  <2>1. Differ \in SUBSET Nat
    BY DEF Ranked
  <2>2. PICK m \in Differ : \A n \in Differ : m <= n
    BY <2>1, LeastNat
  <2>3. PICK b \in S : m = rank[b] /\ f[b] # g[b]
    BY <2>2
  <2>4. ASSUME NEW s \in Sources(q.block[b]), NEW p \in ToSet(ReadBody(q, b, s).parts)
        PROVE  f[p] = g[p]
    <3>1. p \in S /\ rank[p] < rank[b] /\ rank[p] \in 1..N /\ rank[b] \in 1..N
      BY <2>3, <2>4 DEF Ranked
    <3>2. ASSUME f[p] # g[p] PROVE FALSE
      <4>1. rank[p] \in Differ
        BY <3>1, <3>2
      <4>2. m <= rank[p]
        BY <2>2, <4>1
      <4> HIDE DEF Differ
      <4> QED BY <2>3, <3>1, <4>2
    <3> QED BY <3>2
  <2>5. BlockRelation(q, db, f, b) = BlockRelation(r, db, g, b)
    <3>1. Unscoped(q.block[b]) = Unscoped(r.block[b])
      OBVIOUS
    <3>2. Sources(Unscoped(q.block[b])) = Sources(q.block[b])
      BY SourcesUnscoped
    <3>3. ASSUME NEW s \in Sources(Unscoped(q.block[b]))
          PROVE  /\ ReadBody(q, b, s) = ReadBody(r, b, s)
                 /\ \A p \in ToSet(ReadBody(q, b, s).parts) : f[p] = g[p]
      BY <2>4, <3>2, <3>3
    <3> QED BY <3>1, <3>3, SameRows
  <2> QED BY <1>3, <2>3, <2>5
<1>5. ASSUME f[1] # g[1] PROVE FALSE
  <2>1. 1 \in {b \in S : f[b] # g[b]}
    BY <1>5
  <2>2. rank[1] \in Differ
    BY <2>1
  <2> HIDE DEF Differ
  <2> QED BY <1>4, <2>2
<1> HIDE DEF Differ
<1> QED BY <1>1, <1>2, <1>5

--------------------------------------------------------------------------------
(* The removal of CTEs changes no row *)

\* What every query of a removal is like, at any step of it.
IsWhole(q, N) ==
  /\ DOMAIN q.block = 1..N /\ 1 \in DOMAIN q.block
  /\ \A c, d \in DOMAIN q.ctes : q.ctes[c].name = q.ctes[d].name => c = d
  /\ \A c \in DOMAIN q.ctes : IsSelectBody(q.ctes[c].body)
  /\ \A b \in DOMAIN q.block : IsBlock(q, b)
  /\ IsFounded(q)

\* Without the CTEs a source stands for what it stood for, or for a table.
LEMMA ReadBodyAfter ==
  ASSUME NEW q, NEW N \in Nat, IsWhole(q, N), NEW gone, NEW b \in DOMAIN q.block, NEW s
  PROVE  /\ ReadBody(WithoutCtes(q, gone), b, s) \in {ReadBody(q, b, s), NoBody}
         /\ (\A c \in gone \cap DOMAIN q.ctes : q.ctes[c].name # s.name)
              => ReadBody(WithoutCtes(q, gone), b, s) = ReadBody(q, b, s)
<1> DEFINE r == WithoutCtes(q, gone)
           scope == q.block[b].scope
<1>1. r.block[b].scope = scope \ gone
  BY DEF WithoutCtes, IsWhole, IsBlock, BlockFields
<1>2. scope \subseteq DOMAIN q.ctes /\ \A c \in scope \ gone : r.ctes[c] = q.ctes[c]
  BY DEF WithoutCtes, IsWhole, IsBlock
<1> HIDE DEF r
<1>3. VisibleCtes(r, r.block[b].scope, s.name) = VisibleCtes(q, scope, s.name) \ gone
  BY <1>1, <1>2 DEF VisibleCtes
<1>4. \A c, d \in VisibleCtes(q, scope, s.name) : c = d
  BY <1>2 DEF VisibleCtes, IsWhole
<1>5. CASE VisibleCtes(q, scope, s.name) \cap gone = {}
  <2>1. VisibleCtes(r, r.block[b].scope, s.name) = VisibleCtes(q, scope, s.name)
    BY <1>3, <1>5
  <2>2. VisibleCtes(q, scope, s.name) # {} =>
          Last1(VisibleCtes(q, scope, s.name)) \in VisibleCtes(q, scope, s.name)
    <3>1. ASSUME NEW c \in VisibleCtes(q, scope, s.name) PROVE VisibleCtes(q, scope, s.name) = {c}
      BY <1>4, <3>1
    <3>2. \A c : Last1({c}) = c
      BY DEF Last1
    <3> QED BY <3>1, <3>2
  <2>3. VisibleCtes(q, scope, s.name) # {} =>
          r.ctes[Last1(VisibleCtes(q, scope, s.name))] = q.ctes[Last1(VisibleCtes(q, scope, s.name))]
    BY <1>2, <1>5, <2>2 DEF VisibleCtes
  <2> QED BY <2>1, <2>3 DEF ReadBody, NamedBody, r
<1>6. CASE VisibleCtes(q, scope, s.name) \cap gone # {}
  <2>1. PICK c \in gone : c \in VisibleCtes(q, scope, s.name)
    BY <1>6
  <2>2. VisibleCtes(r, r.block[b].scope, s.name) = {}
    BY <1>3, <1>4, <2>1
  <2>3. c \in DOMAIN q.ctes /\ q.ctes[c].name = s.name
    BY <1>2, <2>1 DEF VisibleCtes
  <2> QED BY <2>1, <2>2, <2>3 DEF ReadBody, NamedBody, r
<1> QED BY <1>5, <1>6

\* A block with fewer sources is one still.
LEMMA BlockStays ==
  ASSUME NEW q, NEW r, NEW b, IsBlock(q, b),
         BlockFields \subseteq DOMAIN r.block[b],
         IsList(r.block[b].from), ToSet(r.block[b].from) \subseteq ToSet(q.block[b].from),
         r.block[b].where = q.block[b].where, r.block[b].scope \subseteq DOMAIN r.ctes
  PROVE  /\ IsBlock(r, b)
         /\ TermsOf(r.block[b]) \subseteq TermsOf(q.block[b])
         /\ Sources(r.block[b]) \subseteq Sources(q.block[b])
<1>1. TermsOf(r.block[b]) \subseteq TermsOf(q.block[b])
  BY DEF TermsOf
<1>2. Sources(r.block[b]) \subseteq Sources(q.block[b])
  BY <1>1 DEF Sources
<1>3. DerivedTables(r, b) \subseteq DerivedTables(q, b)
  BY <1>2 DEF DerivedTables
<1>4. IsBlock(r, b)
  BY <1>1, <1>3 DEF IsBlock
<1> QED BY <1>1, <1>2, <1>4

\* Without CTEs a whole query is one still.
LEMMA WholeWithoutCtes ==
  ASSUME NEW q, NEW N \in Nat, IsWhole(q, N), NEW gone, NEW rank, Ranked(q, rank)
  PROVE  IsWhole(WithoutCtes(q, gone), N) /\ Ranked(WithoutCtes(q, gone), rank)
<1> DEFINE r == WithoutCtes(q, gone)
<1>1. DOMAIN r.block = DOMAIN q.block
      /\ \A b \in DOMAIN q.block : Sources(r.block[b]) = Sources(q.block[b])
  BY ReadsStay
<1>2. DOMAIN r.ctes = (DOMAIN q.ctes) \ gone /\ \A c \in DOMAIN r.ctes : r.ctes[c] = q.ctes[c]
  BY DEF WithoutCtes
<1>3. ASSUME NEW b \in DOMAIN q.block
      PROVE  IsBlock(r, b)
  <2>1. r.block[b] = [q.block[b] EXCEPT !.scope = q.block[b].scope \ gone]
    BY DEF WithoutCtes
  <2>2. IsBlock(q, b)
    BY DEF IsWhole
  <2>3. r.block[b].scope \subseteq DOMAIN r.ctes
    BY <2>2, <2>1, <1>2 DEF IsBlock, BlockFields
  <2> HIDE DEF r
  <2>4. /\ BlockFields \subseteq DOMAIN r.block[b]
        /\ r.block[b].from = q.block[b].from /\ r.block[b].where = q.block[b].where
    BY <2>1, <2>2 DEF IsBlock, BlockFields
  <2>5. IsList(r.block[b].from)
    BY <2>2, <2>4 DEF IsBlock
  <2> QED BY <2>2, <2>3, <2>4, <2>5, BlockStays
<1>4. \A b \in DOMAIN q.block : \A s : ReadBody(r, b, s) \in {ReadBody(q, b, s), NoBody}
  BY ReadBodyAfter
<1>5. ToSet(NoBody.parts) = {}
  BY DEF NoBody, ToSet
<1> HIDE DEF r
<1>6. Ranked(r, rank)
  BY <1>1, <1>4, <1>5 DEF Ranked
<1>7. IsFounded(r)
  BY <1>6 DEF IsFounded, Ranked
<1> QED BY <1>1, <1>2, <1>3, <1>6, <1>7 DEF IsWhole, r

\* Of the CTEs of a name a block sees one.
LEMMA VisibleOne ==
  ASSUME NEW q, NEW N \in Nat, IsWhole(q, N), NEW b \in DOMAIN q.block, NEW name,
         VisibleCtes(q, q.block[b].scope, name) # {}
  PROVE  /\ Last1(VisibleCtes(q, q.block[b].scope, name)) \in DOMAIN q.ctes
         /\ Last1(VisibleCtes(q, q.block[b].scope, name)) \in VisibleCtes(q, q.block[b].scope, name)
<1> DEFINE visible == VisibleCtes(q, q.block[b].scope, name)
<1>1. visible \subseteq DOMAIN q.ctes /\ \A c, d \in visible : c = d
  BY DEF IsWhole, IsBlock, VisibleCtes
<1>2. PICK c \in DOMAIN q.ctes : visible = {c}
  <2>1. visible # {}
    OBVIOUS
  <2> HIDE DEF visible
  <2> QED BY <1>1, <2>1
<1>3. Last1({c}) = c
  BY DEF Last1
<1> QED BY <1>2, <1>3

\* The root is one of its blocks.
LEMMA RootIsRead ==
  ASSUME NEW q, 1 \in DOMAIN q.block
  PROVE  1 \in Blocks(q) /\ Blocks(q) \subseteq DOMAIN q.block
<1>1. 1 \in BlocksOf(q, Root)
  BY DEF BlocksOf, Root, ToSet
<1> QED BY <1>1 DEF Blocks, BlocksOf

\* A block of the query reads but blocks of the query.
LEMMA BlocksClosed ==
  ASSUME NEW q, NEW N \in Nat, IsWhole(q, N), NEW b \in Blocks(q), NEW s \in Sources(q.block[b])
  PROVE  ToSet(ReadBody(q, b, s).parts) \subseteq Blocks(q)
<1> SUFFICES ASSUME NEW p \in ToSet(ReadBody(q, b, s).parts) PROVE p \in Blocks(q)
  OBVIOUS
<1>1. PICK rank : Ranked(q, rank)
  BY DEF IsWhole, IsFounded, Ranked
<1>2. b \in DOMAIN q.block
  BY RootIsRead DEF IsWhole
<1>3. p \in DOMAIN q.block
  BY <1>1, <1>2 DEF Ranked
<1>4. CASE s.name = ""
  <2>1. s \in DerivedTables(q, b) /\ p \in ToSet(s.body.parts)
    BY <1>4 DEF DerivedTables, ReadBody
  <2>2. \A body : b \in BlocksOf(q, body) => p \in BlocksOf(q, body)
    BY <1>3, <2>1 DEF BlocksOf
  <2> QED BY <2>2 DEF Blocks
<1>5. CASE s.name # ""
  <2> DEFINE visible == VisibleCtes(q, q.block[b].scope, s.name)
  <2>1. visible # {} /\ p \in ToSet(q.ctes[Last1(visible)].body.parts)
    <3>1. ToSet(NoBody.parts) = {}
      BY DEF NoBody, ToSet
    <3> QED BY <1>5, <3>1 DEF ReadBody, NamedBody
  <2>2. Last1(visible) \in DOMAIN q.ctes
    BY <1>2, <2>1, VisibleOne
  <2>3. p \in BlocksOf(q, q.ctes[Last1(visible)].body)
    BY <1>3, <2>1 DEF BlocksOf
  <2> QED BY <2>2, <2>3 DEF Blocks
<1> QED BY <1>4, <1>5

\* A pass over the CTEs changes no row.
LEMMA UnreferencedChangeNoRow ==
  ASSUME NEW q, NEW N \in Nat, IsWhole(q, N), NEW db
  PROVE  Meaning(WithoutCtes(q, Unreferenced(q)), db) = Meaning(q, db)
<1> DEFINE r == WithoutCtes(q, Unreferenced(q))
           S == Blocks(r)
<1>1. PICK rank : Ranked(q, rank)
  BY DEF IsWhole, IsFounded, Ranked
<1>2. IsWhole(r, N) /\ Ranked(r, rank)
  BY <1>1, WholeWithoutCtes
<1>3. DOMAIN q.block = 1..N /\ DOMAIN r.block = 1..N
  BY <1>2 DEF IsWhole
<1>4. \A b \in DOMAIN q.block : Unscoped(r.block[b]) = Unscoped(q.block[b])
                                /\ Sources(r.block[b]) = Sources(q.block[b])
  BY ReadsStay
<1>5. S \subseteq 1..N /\ 1 \in S
  BY <1>2, <1>3, RootIsRead DEF IsWhole
<1>6. ASSUME NEW b \in S, NEW s \in Sources(q.block[b])
      PROVE  ReadBody(q, b, s) = ReadBody(r, b, s)
  <2>1. b \in DOMAIN q.block
    BY <1>3, <1>5, <1>6
  <2>2. ASSUME NEW c \in Unreferenced(q) PROVE q.ctes[c].name # s.name
    <3>1. q.ctes[c].name \notin NamesRead(q, {b})
      BY UnreadWhenRemoved
    <3>2. s.name \in NamesRead(q, {b})
      BY <1>6 DEF NamesRead
    <3> QED BY <3>1, <3>2
  <2> QED BY <2>1, <2>2, ReadBodyAfter
<1>7. ASSUME NEW b \in S, NEW s \in Sources(r.block[b])
      PROVE  ToSet(ReadBody(r, b, s).parts) \subseteq S
  BY <1>2, BlocksClosed
<1> HIDE DEF S, r
<1>8. \A b \in S : /\ Unscoped(r.block[b]) = Unscoped(q.block[b])
                   /\ \A s \in Sources(r.block[b]) :
                        ReadBody(r, b, s) = ReadBody(q, b, s) /\ ToSet(ReadBody(r, b, s).parts) \subseteq S
  BY <1>3, <1>4, <1>5, <1>6, <1>7
<1>9. Meaning(r, db) = Meaning(q, db)
  BY <1>1, <1>2, <1>3, <1>5, <1>8, SameReadsSameMeaning
<1> QED BY <1>9 DEF r

\* Without joins the root reads no more than it read.
LEMMA WholeWithoutJoins ==
  ASSUME NEW q, NEW N \in Nat, IsWhole(q, N)
  PROVE  IsWhole(WithoutJoins(q), N)
<1> DEFINE r == WithoutJoins(q)
<1>1. DOMAIN q.block = 1..N /\ DOMAIN r.block = 1..N /\ r.ctes = q.ctes /\ 1 \in DOMAIN q.block
  BY DEF IsWhole, WithoutJoins
<1>2. /\ \A b \in (DOMAIN q.block) \ {1} : r.block[b] = q.block[b]
      /\ r.block[1] = [q.block[1] EXCEPT !.from = RetainedSources(q)]
  BY <1>1 DEF WithoutJoins
<1>3. \A b \in DOMAIN q.block :
        /\ IsBlock(q, b)
        /\ BlockFields \subseteq DOMAIN q.block[b]
        /\ IsList(q.block[b].from) /\ q.block[b].scope \subseteq DOMAIN q.ctes
  BY DEF IsWhole, IsBlock
<1>4. IsList(RetainedSources(q)) /\ ToSet(RetainedSources(q)) \subseteq ToSet(q.block[1].from)
  <2>1. IsList(q.block[1].from)
    BY <1>1, <1>3
  <2> QED <3>1. \A p : {q.block[1].from[n] : n \in (DOMAIN q.block[1].from) \cap p} \subseteq ToSet(q.block[1].from)
      BY DEF ToSet
    <3> QED BY <2>1, <3>1, PickedList DEF RetainedSources
<1> HIDE DEF r
<1>5. /\ BlockFields \subseteq DOMAIN r.block[1]
      /\ r.block[1].from = RetainedSources(q)
      /\ r.block[1].where = q.block[1].where /\ r.block[1].scope = q.block[1].scope
  BY <1>1, <1>2, <1>3
<1>6. \A b \in DOMAIN q.block : /\ IsBlock(r, b) /\ r.block[b].scope = q.block[b].scope
                                /\ Sources(r.block[b]) \subseteq Sources(q.block[b])
  <2>1. ASSUME NEW b \in DOMAIN q.block
        PROVE  /\ BlockFields \subseteq DOMAIN r.block[b]
               /\ IsList(r.block[b].from) /\ ToSet(r.block[b].from) \subseteq ToSet(q.block[b].from)
               /\ r.block[b].where = q.block[b].where /\ r.block[b].scope = q.block[b].scope
    BY <1>2, <1>3, <1>4, <1>5
  <2> QED BY <1>1, <1>3, <2>1, BlockStays
<1>7. \A b \in DOMAIN q.block : \A s : ReadBody(r, b, s) = ReadBody(q, b, s)
  BY <1>1, <1>6 DEF ReadBody, NamedBody, VisibleCtes
<1>8. PICK rank : Ranked(q, rank)
  BY DEF IsWhole, IsFounded, Ranked
<1>9. Ranked(r, rank)
  BY <1>1, <1>6, <1>7, <1>8 DEF Ranked
<1>10. IsFounded(r)
  BY <1>9 DEF IsFounded, Ranked
<1>11. IsWhole(r, N)
  BY <1>1, <1>6, <1>10 DEF IsWhole
<1> QED BY <1>11 DEF r

\* Every query of a removal is whole.
WholeInv ==
  /\ phase \in {"joins", "ctes", "done"} /\ input \in UnusedInputs
  /\ \E N \in Nat : IsWhole(query, N)

\* It is so at every step.
LEMMA WholeInvHolds == UnusedSpec => []WholeInv
<1>1. UnusedInit => WholeInv
  <2> SUFFICES ASSUME UnusedInit PROVE WholeInv
    OBVIOUS
  <2>1. input \in UnusedInputs /\ query = input /\ phase = "joins"
    BY DEF UnusedInit
  <2>2. IsWhole(query, Len(query.block)) /\ Len(query.block) \in Nat
    BY <2>1, UnusedInputsAssumption DEF UnusedInputsAssumption, IsWhole, IsList
  <2> QED BY <2>1, <2>2 DEF WholeInv
<1>2. WholeInv /\ [UnusedNext]_uvars => WholeInv'
  <2> SUFFICES ASSUME WholeInv, [UnusedNext]_uvars PROVE WholeInv'
    OBVIOUS
  <2>1. PICK N \in Nat : IsWhole(query, N)
    BY DEF WholeInv
  <2>2. ASSUME RemoveUnusedJoins PROVE IsWhole(query', N) /\ phase' \in {"joins", "ctes"} /\ input' = input
    <3>1. query' = query \/ query' = WithoutJoins(query)
      BY <2>2 DEF RemoveUnusedJoins
    <3>2. phase' \in {"joins", "ctes"} /\ input' = input
      BY <2>2 DEF RemoveUnusedJoins
    <3> QED BY <2>1, <3>1, <3>2, WholeWithoutJoins
  <2>3. ASSUME RemoveUnusedCtes PROVE IsWhole(query', N) /\ phase' \in {"ctes", "done"} /\ input' = input
    <3>1. query' = query \/ query' = WithoutCtes(query, Unreferenced(query))
      BY <2>3 DEF RemoveUnusedCtes
    <3>2. phase' \in {"ctes", "done"} /\ input' = input
      BY <2>3 DEF RemoveUnusedCtes
    <3>3. PICK rank : Ranked(query, rank)
      BY <2>1 DEF IsWhole, IsFounded, Ranked
    <3> QED BY <2>1, <3>1, <3>2, <3>3, WholeWithoutCtes
  <2>4. CASE UNCHANGED uvars
    BY <2>4 DEF uvars, WholeInv
  <2> QED BY <2>2, <2>3, <2>4 DEF UnusedNext, WholeInv
<1> QED BY <1>1, <1>2, PTL DEF UnusedSpec

(* A pass of optimizeUnusedCtesToFixedPoint: whatever the tables hold, the query
   returns the rows that it returned before the pass. *)
RemovedCtesChangeNoRow ==
  [][phase = "ctes" => \A db : Meaning(query', db) = Meaning(query, db)]_uvars

(* No pass over the CTEs changes what the query returns, for every query that
   reads no CTE through itself and every content of its tables. *)
THEOREM RemovingCtesKeepsTheMeaning == UnusedSpec => RemovedCtesChangeNoRow
<1>1. WholeInv /\ [UnusedNext]_uvars
        => [phase = "ctes" => \A db : Meaning(query', db) = Meaning(query, db)]_uvars
  <2> SUFFICES ASSUME WholeInv, UnusedNext, phase = "ctes", NEW db
               PROVE  Meaning(query', db) = Meaning(query, db)
    OBVIOUS
  <2>1. RemoveUnusedCtes
    BY DEF UnusedNext, RemoveUnusedJoins
  <2>2. query' = query \/ query' = WithoutCtes(query, Unreferenced(query))
    BY <2>1 DEF RemoveUnusedCtes
  <2> QED BY <2>2, UnreferencedChangeNoRow DEF WholeInv
<1> QED BY <1>1, WholeInvHolds, PTL DEF UnusedSpec, RemovedCtesChangeNoRow

\* Induction up to a number, for a set.
LEMMA UpTo ==
  ASSUME NEW N \in Nat, NEW T, 0 \in T, \A n \in 0..(N - 1) : n \in T => n + 1 \in T
  PROVE  \A n \in 0..N : n \in T
<1> DEFINE Missed == (0..N) \ T
<1>1. Missed = {}
  <2> SUFFICES ASSUME Missed # {} PROVE FALSE
    OBVIOUS
  <2>1. PICK m \in Missed : \A n \in Missed : m <= n
    <3>1. Missed \in SUBSET Nat
      OBVIOUS
    <3> QED BY <3>1, LeastNat
  <2>2. m # 0 /\ m - 1 \in 0..(N - 1) /\ ~(m <= m - 1) /\ (m - 1) + 1 = m
    OBVIOUS
  <2>3. m - 1 \in T
    BY <2>1, <2>2
  <2> QED BY <2>2, <2>3
<1> QED BY <1>1

\* Of a list, what is picked from each part at its front.
Fronts(first, terms, positions) ==
  /\ first[0] = <<>> /\ first[Len(terms)] = Picked(terms, positions)
  /\ \A n \in 1..Len(terms) :
       first[n] = IF n \in positions THEN Append(first[n - 1], terms[n]) ELSE first[n - 1]
  /\ \A n \in 0..Len(terms) : first[n] \in Seq(ToSet(terms))

\* Picked is the last of lists that grow place by place.
LEMMA PickedFronts ==
  ASSUME NEW terms, IsList(terms), NEW positions
  PROVE  \E first : Fronts(first, terms, positions)
<1> DEFINE N == Len(terms)
           first == CHOOSE f : Picking(f, terms, positions, N)
           V == ToSet(terms)
           Fits(n) == first[n] \in Seq(V)
           T == {n \in 0..N : Fits(n)}
<1>0. N \in Nat
  BY DEF IsList
<1>1. \A n \in 1..N : terms[n] \in V
  BY DEF IsList
<1>2. Picking(first, terms, positions, N)
  BY <1>0, PickedSteps
<1>3. Picked(terms, positions) = first[N]
  BY DEF Picked, Picking
<1> HIDE DEF first
<1>4. \A n \in 0..N : first[n] = IF n = 0 THEN <<>>
                               ELSE IF n \in positions THEN Append(first[n - 1], terms[n]) ELSE first[n - 1]
  BY <1>2 DEF Picking
<1> HIDE DEF N, V
<1>5. 0 \in T
  <2>1. first[0] = <<>> /\ <<>> \in Seq(V)
    BY <1>0, <1>4
  <2>2. Fits(0)
    BY <2>1
  <2> HIDE DEF Fits
  <2> QED BY <1>0, <2>2
<1>6. \A n \in 0..(N - 1) : n \in T => n + 1 \in T
  <2> SUFFICES ASSUME NEW n \in 0..(N - 1), n \in T PROVE n + 1 \in T
    OBVIOUS
  <2>1. n + 1 \in 1..N /\ (n + 1) - 1 = n /\ n + 1 \in 0..N
    BY <1>0
  <2>2. first[n + 1] = IF n + 1 \in positions THEN Append(first[n], terms[n + 1]) ELSE first[n]
    BY <1>4, <2>1
  <2>3. first[n] \in Seq(V) /\ terms[n + 1] \in V
    BY <1>1, <2>1
  <2>4. Fits(n + 1)
    BY <2>2, <2>3
  <2> HIDE DEF Fits
  <2> QED BY <2>1, <2>4
<1>7. \A n \in 0..N : n \in T
  <2> HIDE DEF T
  <2> QED BY <1>0, <1>5, <1>6, UpTo
<1>8. /\ first[0] = <<>>
      /\ \A n \in 1..N : first[n] = IF n \in positions THEN Append(first[n - 1], terms[n]) ELSE first[n - 1]
  BY <1>0, <1>4
<1>9. \A n \in 0..N : first[n] \in Seq(V)
  BY <1>7
<1>10. Fronts(first, terms, positions)
  BY <1>3, <1>8, <1>9 DEF Fronts, N, V
<1> QED BY <1>10

\* What is picked from the one list is, place by place, what is picked from the other.
SamePicks(p, o, terms, others, positions) ==
  /\ Len(p) = Len(o)
  /\ \A n \in 1..Len(p) : \E k \in positions \cap 1..Len(terms) : p[n] = terms[k] /\ o[n] = others[k]

\* From two lists of one length the same positions pick alike.
LEMMA PickedAlike ==
  ASSUME NEW terms, IsList(terms), NEW others, IsList(others), Len(terms) = Len(others), NEW positions
  PROVE  SamePicks(Picked(terms, positions), Picked(others, positions), terms, others, positions)
<1> DEFINE N == Len(terms)
           Paired(p, o) == /\ Len(p) = Len(o)
                           /\ \A n \in 1..Len(p) : \E k \in positions \cap 1..N : p[n] = terms[k] /\ o[n] = others[k]
<1>1. N \in Nat
  BY DEF IsList
<1>2. PICK f : Fronts(f, terms, positions)
  BY PickedFronts
<1>3. PICK g : Fronts(g, others, positions)
  BY PickedFronts
<1> DEFINE T == {n \in 0..N : Paired(f[n], g[n])}
<1>4. 0 \in T
  BY <1>1, <1>2, <1>3 DEF Fronts
<1>5. \A n \in 0..(N - 1) : n \in T => n + 1 \in T
  <2> SUFFICES ASSUME NEW n \in 0..(N - 1), n \in T PROVE n + 1 \in T
    OBVIOUS
  <2>1. n + 1 \in 1..N /\ (n + 1) - 1 = n /\ n + 1 \in 0..N /\ n \in 0..N
    BY <1>1
  <2>2. f[n + 1] = IF n + 1 \in positions THEN Append(f[n], terms[n + 1]) ELSE f[n]
    BY <1>2, <2>1 DEF Fronts
  <2>3. g[n + 1] = IF n + 1 \in positions THEN Append(g[n], others[n + 1]) ELSE g[n]
    BY <1>3, <2>1 DEF Fronts
  <2>4. f[n] \in Seq(ToSet(terms)) /\ g[n] \in Seq(ToSet(others))
    BY <1>2, <1>3, <2>1 DEF Fronts
  <2>5. terms[n + 1] \in ToSet(terms) /\ others[n + 1] \in ToSet(others)
    BY <2>1 DEF IsList
  <2>6. Paired(f[n], g[n])
    OBVIOUS
  <2>7. Paired(f[n + 1], g[n + 1])
    <3>1. CASE n + 1 \in positions
      <4> DEFINE p == f[n] o == g[n]
      <4>1. /\ Len(f[n + 1]) = Len(p) + 1 /\ Len(g[n + 1]) = Len(o) + 1 /\ Len(p) \in Nat /\ Len(p) = Len(o)
            /\ f[n + 1][Len(p) + 1] = terms[n + 1] /\ g[n + 1][Len(o) + 1] = others[n + 1]
            /\ \A i \in 1..Len(p) : f[n + 1][i] = p[i] /\ g[n + 1][i] = o[i]
        BY <2>2, <2>3, <2>4, <2>5, <2>6, <3>1
      <4> HIDE DEF p, o
      <4>2. ASSUME NEW i \in 1..Len(f[n + 1])
            PROVE  \E k \in positions \cap 1..N : f[n + 1][i] = terms[k] /\ g[n + 1][i] = others[k]
        <5>1. CASE i = Len(p) + 1
          BY <2>1, <3>1, <4>1, <5>1
        <5>2. CASE i # Len(p) + 1
          <6>1. i \in 1..Len(p)
            BY <4>1, <5>2
          <6> QED BY <2>6, <4>1, <6>1 DEF p, o
        <5> QED BY <5>1, <5>2
      <4> QED BY <4>1, <4>2
    <3>2. CASE n + 1 \notin positions
      BY <2>2, <2>3, <2>6, <3>2
    <3> QED BY <3>1, <3>2
  <2> QED BY <2>1, <2>7
<1>6. N \in T
  <2>1. \A n \in 0..N : n \in T
    <3> HIDE DEF T
    <3> QED BY <1>1, <1>4, <1>5, UpTo
  <2> HIDE DEF T
  <2> QED BY <1>1, <2>1
<1>7. f[N] = Picked(terms, positions) /\ g[N] = Picked(others, positions)
  BY <1>2, <1>3 DEF Fronts
<1>8. Paired(f[N], g[N])
  BY <1>6
<1> HIDE DEF N
<1>9. Paired(Picked(terms, positions), Picked(others, positions))
  BY <1>7, <1>8
<1> QED BY <1>9 DEF N, SamePicks


\* Of one position its term is picked.
LEMMA PickedOne ==
  ASSUME NEW terms, IsList(terms), NEW k \in 1..Len(terms), NEW positions, positions \cap 1..Len(terms) = {k}
  PROVE  Len(Picked(terms, positions)) = 1 /\ Picked(terms, positions)[1] = terms[k]
<1> DEFINE N == Len(terms)
           Fits(g, n) == g = IF n < k THEN <<>> ELSE <<terms[k]>>
<1>1. N \in Nat
  BY DEF IsList
<1>2. PICK f : Fronts(f, terms, positions)
  BY PickedFronts
<1> DEFINE T == {n \in 0..N : Fits(f[n], n)}
<1>3. 0 \in T
  BY <1>1, <1>2 DEF Fronts
<1>4. \A n \in 0..(N - 1) : n \in T => n + 1 \in T
  <2> SUFFICES ASSUME NEW n \in 0..(N - 1), n \in T PROVE n + 1 \in T
    OBVIOUS
  <2>1. n + 1 \in 1..N /\ (n + 1) - 1 = n /\ n + 1 \in 0..N /\ k \in 1..N
    BY <1>1
  <2>2. f[n + 1] = IF n + 1 \in positions THEN Append(f[n], terms[n + 1]) ELSE f[n]
    BY <1>2, <2>1 DEF Fronts
  <2>3. Fits(f[n], n)
    OBVIOUS
  <2>4. n + 1 \in positions <=> n + 1 = k
    BY <2>1
  <2>5. Fits(f[n + 1], n + 1)
    <3>1. CASE n + 1 = k
      <4>1. f[n] = <<>>
        BY <2>1, <2>3, <3>1
      <4>2. f[n + 1] = Append(f[n], terms[n + 1])
        BY <2>2, <2>4, <3>1
      <4>3. f[n + 1] = <<terms[k]>>
        BY <3>1, <4>1, <4>2
      <4> QED BY <2>1, <3>1, <4>3
    <3>2. CASE n + 1 # k
      <4>1. f[n + 1] = f[n] /\ (n + 1 < k <=> n < k)
        BY <2>1, <2>2, <2>4, <3>2
      <4> QED BY <2>3, <4>1
    <3> QED BY <3>1, <3>2
  <2> QED BY <2>1, <2>5
<1>5. N \in T
  <2>1. \A n \in 0..N : n \in T
    <3> HIDE DEF T
    <3> QED BY <1>1, <1>3, <1>4, UpTo
  <2> HIDE DEF T
  <2> QED BY <1>1, <2>1
<1>6. f[N] = <<terms[k]>>
  BY <1>1, <1>5
<1> QED BY <1>2, <1>6 DEF Fronts

\* The lists that FlattenSeq grows, up to place m.
Flattening(flat, seqs, m) ==
  flat = [n \in 1..m |-> IF n = 1 THEN seqs[n] ELSE flat[n - 1] \o seqs[n]]

\* There is the function by which FlattenSeq is defined.
LEMMA FlattenSteps ==
  ASSUME NEW seqs, NEW N \in Nat \ {0}
  PROVE  \E flat : Flattening(flat, seqs, N)
<1> DEFINE Undefined == {m \in Nat : m # 0 /\ ~\E f : Flattening(f, seqs, m)}
<1>1. Undefined = {}
  <2> SUFFICES ASSUME Undefined # {} PROVE FALSE
    OBVIOUS
  <2>1. PICK m \in Undefined : \A n \in Undefined : m <= n
    <3>1. Undefined \in SUBSET Nat
      OBVIOUS
    <3> QED BY <3>1, LeastNat
  <2>2. m # 1
    <3>1. Flattening([n \in 1..1 |-> seqs[n]], seqs, 1)
      BY DEF Flattening
    <3> QED BY <3>1
  <2>3. PICK f : Flattening(f, seqs, m - 1)
    <3>1. m - 1 \in Nat /\ m - 1 # 0 /\ ~(m <= m - 1)
      BY <2>2
    <3> QED BY <2>1, <3>1
  <2> DEFINE g == [n \in 1..m |-> IF n = m THEN f[m - 1] \o seqs[m] ELSE f[n]]
  <2>4. Flattening(g, seqs, m)
    <3>1. \A n \in 1..(m - 1) : f[n] = IF n = 1 THEN seqs[n] ELSE f[n - 1] \o seqs[n]
      BY <2>3 DEF Flattening
    <3>2. ASSUME NEW n \in 1..m PROVE g[n] = IF n = 1 THEN seqs[n] ELSE g[n - 1] \o seqs[n]
      <4>1. CASE n = m
        <5>1. n - 1 \in 1..m /\ n - 1 # m /\ n # 1
          BY <2>2, <4>1
        <5> QED BY <4>1, <5>1
      <4>2. CASE n # m
        <5>1. n \in 1..(m - 1) /\ (n # 1 => n - 1 \in 1..m /\ n - 1 # m)
          BY <4>2
        <5> QED BY <3>1, <4>2, <5>1
      <4> QED BY <4>1, <4>2
    <3> HIDE DEF g
    <3>3. g = [n \in 1..m |-> g[n]]
      BY DEF g
    <3> QED BY <3>2, <3>3 DEF Flattening
  <2> QED BY <2>1, <2>4
<1> QED BY <1>1

\* FlattenSeq is the last of lists that grow list by list.
FlatFronts(flat, seqs, V) ==
  /\ flat[0] = <<>> /\ flat[Len(seqs)] = FlattenSeq(seqs)
  /\ \A n \in 1..Len(seqs) : flat[n] = flat[n - 1] \o seqs[n]
  /\ \A n \in 0..Len(seqs) : flat[n] \in Seq(V)

LEMMA FlattenFronts ==
  ASSUME NEW V, NEW seqs \in Seq(Seq(V))
  PROVE  \E flat : FlatFronts(flat, seqs, V)
<1> DEFINE N == Len(seqs)
<1>1. N \in Nat /\ \A n \in 1..N : seqs[n] \in Seq(V)
  OBVIOUS
<1>2. CASE N = 0
  <2>1. FlattenSeq(seqs) = <<>>
    BY <1>2 DEF FlattenSeq
  <2> DEFINE flat == [n \in 0..0 |-> <<>>]
  <2>2. flat[0] = <<>> /\ <<>> \in Seq(V)
    OBVIOUS
  <2> HIDE DEF flat
  <2>3. Len(seqs) = 0
    BY <1>2
  <2>4. \A n \in 0..Len(seqs) : flat[n] \in Seq(V)
    <3>1. \A n \in 0..Len(seqs) : n = 0
      BY <2>3
    <3> QED BY <2>2, <3>1
  <2>5. \A n \in 1..Len(seqs) : FALSE
    BY <2>3
  <2>6. flat[0] = <<>> /\ flat[Len(seqs)] = FlattenSeq(seqs)
    BY <2>1, <2>2, <2>3
  <2>7. FlatFronts(flat, seqs, V)
    BY <2>4, <2>5, <2>6 DEF FlatFronts
  <2> QED BY <2>7
<1>3. CASE N # 0
  <2> DEFINE f == CHOOSE g : Flattening(g, seqs, N)
             flat == [n \in 0..N |-> IF n = 0 THEN <<>> ELSE f[n]]
  <2>1. Flattening(f, seqs, N)
    BY <1>1, <1>3, FlattenSteps
  <2>2. FlattenSeq(seqs) = f[N]
    BY <1>3 DEF FlattenSeq, Flattening
  <2> HIDE DEF f
  <2>3. \A n \in 1..N : f[n] = IF n = 1 THEN seqs[n] ELSE f[n - 1] \o seqs[n]
    BY <2>1 DEF Flattening
  <2> HIDE DEF N
  <2>4. flat[0] = <<>> /\ flat[N] = f[N]
    BY <1>1, <1>3
  <2>5. ASSUME NEW n \in 1..N PROVE flat[n] = flat[n - 1] \o seqs[n]
    <3>1. n \in 0..N /\ n - 1 \in 0..N /\ n # 0
      BY <1>1
    <3>2. CASE n = 1
      <4>1. flat[n] = seqs[n] /\ flat[n - 1] = <<>> /\ seqs[n] \in Seq(V)
        BY <1>1, <2>3, <3>1, <3>2
      <4>2. <<>> \o seqs[n] = seqs[n]
        BY <4>1
      <4> QED BY <4>1, <4>2
    <3>3. CASE n # 1
      <4>1. n - 1 # 0
        BY <3>1, <3>3
      <4> QED BY <2>3, <3>1, <3>3, <4>1
    <3> QED BY <3>2, <3>3
  <2> HIDE DEF flat
  <2> DEFINE Fits(n) == flat[n] \in Seq(V)
             T == {n \in 0..N : Fits(n)}
  <2>6. 0 \in T
    <3>1. Fits(0)
      BY <2>4
    <3> HIDE DEF Fits
    <3> QED BY <1>1, <3>1
  <2>7. \A n \in 0..(N - 1) : n \in T => n + 1 \in T
    <3> SUFFICES ASSUME NEW n \in 0..(N - 1), n \in T PROVE n + 1 \in T
      OBVIOUS
    <3>1. n + 1 \in 1..N /\ (n + 1) - 1 = n /\ n + 1 \in 0..N
      BY <1>1
    <3>2. flat[n + 1] = flat[n] \o seqs[n + 1]
      BY <2>5, <3>1
    <3>3. flat[n] \in Seq(V) /\ seqs[n + 1] \in Seq(V)
      BY <1>1, <3>1
    <3>4. Fits(n + 1)
      BY <3>2, <3>3
    <3> HIDE DEF Fits
    <3> QED BY <3>1, <3>4
  <2>8. \A n \in 0..N : n \in T
    <3> HIDE DEF T
    <3> QED BY <1>1, <2>6, <2>7, UpTo
  <2>9. FlatFronts(flat, seqs, V)
    BY <2>2, <2>4, <2>5, <2>8 DEF FlatFronts, N
  <2> QED BY <2>9
<1> QED BY <1>2, <1>3

\* Lists of the elements of V make a list of them.
LEMMA FlattenedList ==
  ASSUME NEW V, NEW seqs \in Seq(Seq(V))
  PROVE  FlattenSeq(seqs) \in Seq(V)
<1>1. PICK flat : FlatFronts(flat, seqs, V)
  BY FlattenFronts
<1>2. Len(seqs) \in 0..Len(seqs)
  OBVIOUS
<1> QED BY <1>1, <1>2 DEF FlatFronts

\* Where the elements of two lists are in the list they make.
LEMMA Concatenated ==
  ASSUME NEW V, NEW p \in Seq(V), NEW u \in Seq(V), NEW w, w = p \o u
  PROVE  /\ w \in Seq(V) /\ Len(w) = Len(p) + Len(u) /\ Len(p) \in Nat /\ Len(u) \in Nat
         /\ \A i \in 1..Len(p) : w[i] = p[i]
         /\ \A i \in 1..Len(u) : w[Len(p) + i] = u[i]
  OBVIOUS

\* An element of the one list is where an element of the other is.
SamePlaces(f, g, seqs, others) ==
  /\ Len(f) = Len(g)
  /\ \A i \in 1..Len(f) : \E n \in 1..Len(seqs) : \E j \in 1..Len(seqs[n]) :
       f[i] = seqs[n][j] /\ g[i] = others[n][j]

\* Of lists that are alike in length the same places come to the same place.
LEMMA FlattenedAlike ==
  ASSUME NEW V, NEW seqs \in Seq(Seq(V)), NEW W, NEW others \in Seq(Seq(W)), Len(seqs) = Len(others),
         \A n \in 1..Len(seqs) : Len(seqs[n]) = Len(others[n])
  PROVE  SamePlaces(FlattenSeq(seqs), FlattenSeq(others), seqs, others)
<1> DEFINE N == Len(seqs)
           AlikePlaces(p, o) == /\ Len(p) = Len(o)
                           /\ \A i \in 1..Len(p) : \E n \in 1..N : \E j \in 1..Len(seqs[n]) :
                                p[i] = seqs[n][j] /\ o[i] = others[n][j]
<1>1. N \in Nat /\ \A n \in 1..N : seqs[n] \in Seq(V) /\ others[n] \in Seq(W)
  OBVIOUS
<1>2. PICK f : FlatFronts(f, seqs, V)
  BY FlattenFronts
<1>3. PICK g : FlatFronts(g, others, W)
  BY FlattenFronts
<1> DEFINE T == {n \in 0..N : AlikePlaces(f[n], g[n])}
<1>4. 0 \in T
  <2>1. f[0] = <<>> /\ g[0] = <<>>
    BY <1>2, <1>3 DEF FlatFronts
  <2>2. AlikePlaces(<<>>, <<>>)
    OBVIOUS
  <2>3. AlikePlaces(f[0], g[0])
    BY <2>1, <2>2
  <2> HIDE DEF AlikePlaces
  <2> QED BY <1>1, <2>3
<1>5. \A n \in 0..(N - 1) : n \in T => n + 1 \in T
  <2> SUFFICES ASSUME NEW n \in 0..(N - 1), n \in T PROVE n + 1 \in T
    OBVIOUS
  <2>1. n + 1 \in 1..N /\ (n + 1) - 1 = n /\ n + 1 \in 0..N /\ n \in 0..N
    BY <1>1
  <2>2. f[n + 1] = f[n] \o seqs[n + 1] /\ g[n + 1] = g[n] \o others[n + 1]
    BY <1>2, <1>3, <2>1 DEF FlatFronts
  <2>3. f[n] \in Seq(V) /\ g[n] \in Seq(W)
    BY <1>2, <1>3, <2>1 DEF FlatFronts
  <2>4. seqs[n + 1] \in Seq(V) /\ others[n + 1] \in Seq(W) /\ Len(seqs[n + 1]) = Len(others[n + 1])
    BY <1>1, <2>1
  <2>5. AlikePlaces(f[n], g[n])
    OBVIOUS
  <2> DEFINE p == f[n] o == g[n] u == seqs[n + 1] v == others[n + 1]
  <2>6. /\ Len(p) \in Nat /\ Len(u) \in Nat /\ Len(o) = Len(p)
        /\ Len(f[n + 1]) = Len(p) + Len(u) /\ Len(g[n + 1]) = Len(p) + Len(u)
        /\ \A i \in 1..Len(p) : f[n + 1][i] = p[i] /\ g[n + 1][i] = o[i]
        /\ \A i \in 1..Len(u) : f[n + 1][Len(p) + i] = u[i] /\ g[n + 1][Len(p) + i] = v[i]
    <3>1. Len(o) = Len(p) /\ Len(v) = Len(u)
      BY <2>4, <2>5
    <3> HIDE DEF p, o, u, v
    <3>2. f[n + 1] = p \o u /\ p \in Seq(V) /\ u \in Seq(V)
      BY <2>2, <2>3, <2>4 DEF p, u
    <3>3. g[n + 1] = o \o v /\ o \in Seq(W) /\ v \in Seq(W)
      BY <2>2, <2>3, <2>4 DEF o, v
    <3>4. /\ Len(f[n + 1]) = Len(p) + Len(u) /\ Len(p) \in Nat /\ Len(u) \in Nat
          /\ \A i \in 1..Len(p) : f[n + 1][i] = p[i]
          /\ \A i \in 1..Len(u) : f[n + 1][Len(p) + i] = u[i]
      BY <3>2, Concatenated
    <3>5. /\ Len(g[n + 1]) = Len(o) + Len(v)
          /\ \A i \in 1..Len(o) : g[n + 1][i] = o[i]
          /\ \A i \in 1..Len(v) : g[n + 1][Len(o) + i] = v[i]
      BY <3>3, Concatenated
    <3> QED BY <3>1, <3>4, <3>5
  <2>7. ASSUME NEW i \in 1..Len(f[n + 1])
        PROVE  \E m \in 1..N : \E j \in 1..Len(seqs[m]) :
                 f[n + 1][i] = seqs[m][j] /\ g[n + 1][i] = others[m][j]
    <3>1. CASE i \in 1..Len(p)
      BY <2>5, <2>6, <3>1
    <3>2. CASE i \notin 1..Len(p)
      <4> HIDE DEF p, o, u, v
      <4> DEFINE k == i - Len(p)
      <4>1. k \in 1..Len(u) /\ i = Len(p) + k
        BY <2>6, <2>7, <3>2
      <4> HIDE DEF k
      <4>2. f[n + 1][i] = u[k] /\ g[n + 1][i] = v[k]
        BY <2>6, <4>1
      <4> QED BY <2>1, <4>1, <4>2 DEF u, v
    <3> QED BY <3>1, <3>2
  <2>8. AlikePlaces(f[n + 1], g[n + 1])
    BY <2>6, <2>7
  <2> HIDE DEF AlikePlaces
  <2> QED BY <2>1, <2>8
<1>6. N \in T
  <2>1. \A n \in 0..N : n \in T
    <3> HIDE DEF T
    <3> QED BY <1>1, <1>4, <1>5, UpTo
  <2> HIDE DEF T
  <2> QED BY <1>1, <2>1
<1>7. f[N] = FlattenSeq(seqs) /\ g[N] = FlattenSeq(others)
  BY <1>2, <1>3 DEF FlatFronts
<1>8. AlikePlaces(f[N], g[N])
  BY <1>6
<1> HIDE DEF N
<1>9. AlikePlaces(FlattenSeq(seqs), FlattenSeq(others))
  BY <1>7, <1>8
<1> QED BY <1>9 DEF N, SamePlaces

\* Lists of one element each become the list of these.
LEMMA FlattenedSingles ==
  ASSUME NEW V, NEW seqs \in Seq(Seq(V)), \A n \in 1..Len(seqs) : Len(seqs[n]) = 1
  PROVE  /\ Len(FlattenSeq(seqs)) = Len(seqs)
         /\ \A n \in 1..Len(seqs) : FlattenSeq(seqs)[n] = seqs[n][1]
<1> DEFINE N == Len(seqs)
           Singles(p, n) == Len(p) = n /\ \A i \in 1..n : p[i] = seqs[i][1]
<1>1. N \in Nat /\ \A n \in 1..N : seqs[n] \in Seq(V)
  OBVIOUS
<1>2. PICK f : FlatFronts(f, seqs, V)
  BY FlattenFronts
<1> DEFINE T == {n \in 0..N : Singles(f[n], n)}
<1>3. 0 \in T
  <2>1. f[0] = <<>>
    BY <1>2 DEF FlatFronts
  <2>2. Singles(<<>>, 0)
    OBVIOUS
  <2>3. Singles(f[0], 0)
    BY <2>1, <2>2
  <2> HIDE DEF Singles
  <2> QED BY <1>1, <2>3
<1>4. \A n \in 0..(N - 1) : n \in T => n + 1 \in T
  <2> SUFFICES ASSUME NEW n \in 0..(N - 1), n \in T PROVE n + 1 \in T
    OBVIOUS
  <2>1. n + 1 \in 1..N /\ (n + 1) - 1 = n /\ n + 1 \in 0..N /\ n \in 0..N
    BY <1>1
  <2>2. f[n + 1] = f[n] \o seqs[n + 1]
    BY <1>2, <2>1 DEF FlatFronts
  <2>3. f[n] \in Seq(V)
    BY <1>2, <2>1 DEF FlatFronts
  <2>4. seqs[n + 1] \in Seq(V) /\ Len(seqs[n + 1]) = 1
    BY <1>1, <2>1
  <2>5. Singles(f[n], n)
    OBVIOUS
  <2>6. Singles(f[n + 1], n + 1)
    <3> DEFINE p == f[n] u == seqs[n + 1] w == f[n + 1]
    <3>0. Len(p) = n /\ Len(u) = 1
      BY <2>4, <2>5
    <3> HIDE DEF p, u, w
    <3>8. p \in Seq(V) /\ u \in Seq(V) /\ w = p \o u
      BY <2>2, <2>3, <2>4 DEF p, u, w
    <3>9. /\ Len(w) = Len(p) + Len(u)
          /\ \A i \in 1..Len(p) : w[i] = p[i]
          /\ \A i \in 1..Len(u) : w[Len(p) + i] = u[i]
      BY <3>8, Concatenated
    <3>1. Len(f[n + 1]) = n + 1
      BY <3>0, <3>9 DEF w
    <3>2. \A i \in 1..n : f[n + 1][i] = f[n][i]
      BY <3>0, <3>9 DEF w, p
    <3>3. f[n + 1][n + 1] = seqs[n + 1][1]
      BY <3>0, <3>9 DEF w, u
    <3>4. \A i \in 1..(n + 1) : i \in 1..n \/ i = n + 1
      BY <2>1
    <3> QED BY <2>5, <3>1, <3>2, <3>3, <3>4
  <2> HIDE DEF Singles
  <2> QED BY <2>1, <2>6
<1>5. N \in T
  <2>1. \A n \in 0..N : n \in T
    <3> HIDE DEF T
    <3> QED BY <1>1, <1>3, <1>4, UpTo
  <2> HIDE DEF T
  <2> QED BY <1>1, <2>1
<1>6. f[N] = FlattenSeq(seqs)
  BY <1>2 DEF FlatFronts
<1>7. Singles(f[N], N)
  BY <1>5
<1> HIDE DEF N
<1>8. Singles(FlattenSeq(seqs), N)
  BY <1>6, <1>7
<1> QED BY <1>8 DEF N


--------------------------------------------------------------------------------
(* Environments that are alike but for the aliases of A, whose columns are among C *)

\* env and other give the same records to every alias outside A.
AlikeBut(A, C, env, other) ==
  /\ (DOMAIN env) \ A = (DOMAIN other) \ A
  /\ \A a \in (DOMAIN env) \ A : env[a] = other[a]
  /\ \A a \in A : a \in DOMAIN env => DOMAIN env[a] \subseteq C
  /\ \A a \in A : a \in DOMAIN other => DOMAIN other[a] \subseteq C

\* A reference that is none to an alias of A, whichever way it is written.
Unseen(A, C, ref) == ref[1] \notin A /\ (ref[1] = "" => ref[2] \notin C)

\* Such a reference has one value in both.
LEMMA SameValue ==
  ASSUME NEW A, NEW C, NEW env, NEW other, AlikeBut(A, C, env, other), NEW ref, Unseen(A, C, ref)
  PROVE  Value(env, ref) = Value(other, ref)
<1> DEFINE homes(e) == {a \in DOMAIN e : ref[1] \in {"", a} /\ ref[2] \in DOMAIN e[a]}
<1>1. homes(env) = homes(other) /\ \A a \in homes(env) : env[a] = other[a]
  BY DEF AlikeBut, Unseen
<1>2. homes(env) # {} => (CHOOSE a \in homes(env) : TRUE) \in homes(env)
  OBVIOUS
<1>3. Value(env, ref) = IF homes(env) = {} THEN Null ELSE env[CHOOSE a \in homes(env) : TRUE][ref[2]]
  BY DEF Value
<1>4. Value(other, ref) = IF homes(other) = {} THEN Null ELSE other[CHOOSE a \in homes(other) : TRUE][ref[2]]
  BY DEF Value
<1> HIDE DEF homes
<1> QED BY <1>1, <1>2, <1>3, <1>4

\* A record for one more alias leaves them alike.
LEMMA NestedAlike ==
  ASSUME NEW A, NEW C, NEW env, NEW other, AlikeBut(A, C, env, other), NEW alias, NEW row
  PROVE  AlikeBut(A \ {alias}, C, Nest(env, alias, row), Nest(other, alias, row))
<1>1. /\ DOMAIN Nest(env, alias, row) = DOMAIN env \cup {alias}
      /\ DOMAIN Nest(other, alias, row) = DOMAIN other \cup {alias}
  BY DEF Nest
<1>2. /\ \A a \in DOMAIN env \cup {alias} : Nest(env, alias, row)[a] = IF a = alias THEN row ELSE env[a]
      /\ \A a \in DOMAIN other \cup {alias} : Nest(other, alias, row)[a] = IF a = alias THEN row ELSE other[a]
  BY DEF Nest
<1> QED BY <1>1, <1>2 DEF AlikeBut

\* Only one of the two has the row of an alias of A.
LEMMA NestedApart ==
  ASSUME NEW A, NEW C, NEW env, NEW other, AlikeBut(A, C, env, other),
         NEW alias \in A, NEW row, DOMAIN row \subseteq C
  PROVE  AlikeBut(A, C, Nest(env, alias, row), other)
<1>1. DOMAIN Nest(env, alias, row) = DOMAIN env \cup {alias}
  BY DEF Nest
<1>2. \A a \in DOMAIN env \cup {alias} : Nest(env, alias, row)[a] = IF a = alias THEN row ELSE env[a]
  BY DEF Nest
<1> QED BY <1>1, <1>2 DEF AlikeBut

\* Such a term is true of the one where it is true of the other.
LEMMA SameTruth ==
  ASSUME NEW A, NEW C, NEW env, NEW other, AlikeBut(A, C, env, other), NEW t, IsTerm(t),
         \A ref \in ToSet(t.refs) : Unseen(A, C, ref),
         NEW relation, NEW instead, t.op = "exists" => relation[t] = instead[t]
  PROVE  /\ Truth(t, env, relation) = Truth(t, other, instead)
         /\ OpenOr(t) => Right(t, env) = Right(t, other)
<1>1. t.op # "true" =>
        t.refs[1] \in ToSet(t.refs) /\ t.refs[Len(t.refs)] \in ToSet(t.refs)
        /\ (t.op = "same" => t.refs[2] \in ToSet(t.refs))
  <2>1. t.refs \in Seq(ToSet(t.refs)) /\ (t.op = "same" => Len(t.refs) = 2)
    BY DEF IsTerm, IsList
  <2>2. t.op # "true" => t.refs # <<>>
    BY DEF IsTerm
  <2> DEFINE refs == t.refs V == ToSet(refs)
  <2>3. refs \in Seq(V)
    BY <2>1
  <2> HIDE DEF refs, V
  <2>4. refs # <<>> => refs[1] \in V /\ refs[Len(refs)] \in V
    BY <2>3
  <2>5. Len(refs) = 2 => refs[2] \in V
    BY <2>3
  <2> QED BY <2>1, <2>2, <2>4, <2>5 DEF refs, V
<1>2. \A ref \in ToSet(t.refs) : Value(env, ref) = Value(other, ref)
  BY SameValue
<1>3. t.op # "true" => Left(t, env) = Left(t, other) /\ Right(t, env) = Right(t, other)
  BY <1>1, <1>2 DEF Left, Right, IsOne
<1>4. ASSUME NEW rows
      PROVE  Holds(t, env, rows) = Holds(t, other, rows)
  <2>1. CASE t.op \in {"eq", "between", "function"}
    BY <1>1, <1>2, <2>1 DEF Holds, IsOne
  <2>2. CASE t.op = "isnull"
    BY <1>1, <1>2, <2>2 DEF Holds
  <2>3. CASE t.op = "same"
    BY <1>1, <1>2, <2>3 DEF Holds
  <2>4. CASE t.op \in {"or", "guard"}
    BY <1>3, <2>4 DEF Holds
  <2>5. CASE t.op = "true"
    BY <2>5 DEF Holds
  <2>6. CASE t.op \notin {"eq", "between", "function", "isnull", "same", "or", "guard", "true"}
    <3>1. ASSUME NEW n \in DOMAIN rows
          PROVE  Value(Nest(env, t.alias, rows[n]), t.refs[1]) = Value(Nest(other, t.alias, rows[n]), t.refs[1])
      <4>1. AlikeBut(A \ {t.alias}, C, Nest(env, t.alias, rows[n]), Nest(other, t.alias, rows[n]))
        BY NestedAlike
      <4>2. Unseen(A \ {t.alias}, C, t.refs[1])
        BY <1>1, <2>6 DEF Unseen
      <4> QED BY <4>1, <4>2, SameValue
    <3> QED BY <2>6, <3>1 DEF Holds
  <2> QED BY <2>1, <2>2, <2>3, <2>4, <2>5, <2>6
<1>5. OpenOr(t) => t.op # "true"
  BY DEF OpenOr
<1> QED BY <1>3, <1>4, <1>5 DEF Truth

\* Terms that refer to none of A, and whose EXISTS read the same.
TermsFit(A, C, terms, relation, instead) ==
  \A t \in ToSet(terms) : /\ IsTerm(t) /\ \A ref \in ToSet(t.refs) : Unseen(A, C, ref)
                          /\ t.op = "exists" => relation[t] = instead[t]

\* Terms that see none of A hold of the one environment where they hold of the other.
LEMMA SameHold ==
  ASSUME NEW A, NEW C, NEW env, NEW other, AlikeBut(A, C, env, other), NEW terms,
         NEW relation, NEW instead,
         TermsFit(A, C, terms, relation, instead)
  PROVE  AllHold(terms, env, relation) = AllHold(terms, other, instead)
<1>1. \A n \in DOMAIN terms :
        /\ Truth(terms[n], env, relation) = Truth(terms[n], other, instead)
        /\ OpenOr(terms[n]) => Right(terms[n], env) = Right(terms[n], other)
  <2> TAKE n \in DOMAIN terms
  <2>1. terms[n] \in ToSet(terms)
    BY DEF ToSet
  <2> QED BY <2>1, SameTruth DEF TermsFit
<1> DEFINE opens == {n \in DOMAIN terms : OpenOr(terms[n])}
           after(p) == {n \in DOMAIN terms : n > p /\ \A o \in opens : o <= p \/ n <= o}
           Ends(e, rel, p) == (p # 0 => Right(terms[p], e)) /\ \A n \in after(p) : Truth(terms[n], e, rel)
<1>2. \A p \in {0} \cup opens : Ends(env, relation, p) <=> Ends(other, instead, p)
  <2>1. \A p : after(p) \subseteq DOMAIN terms
    OBVIOUS
  <2> HIDE DEF after
  <2> QED BY <1>1, <2>1
<1>3. AllHold(terms, env, relation) = \E p \in {0} \cup opens : Ends(env, relation, p)
  BY DEF AllHold
<1>4. AllHold(terms, other, instead) = \E p \in {0} \cup opens : Ends(other, instead, p)
  BY DEF AllHold
<1> HIDE DEF Ends, opens
<1> QED BY <1>2, <1>3, <1>4


--------------------------------------------------------------------------------
(* Lists of environments *)

\* A function on 1..n is a list.
LEMMA ListOf ==
  ASSUME NEW N \in Nat, NEW f, f = [n \in 1..N |-> f[n]]
  PROVE  IsList(f) /\ Len(f) = N
<1> DEFINE V == ToSet(f)
<1>1. \A n \in 1..N : f[n] \in V
  BY DEF ToSet
<1> HIDE DEF V
<1>2. f \in Seq(V) /\ Len(f) = N
  BY <1>1
<1> QED BY <1>2 DEF IsList, V

\* A sequence is a list of what it has.
LEMMA SeqIsList ==
  ASSUME NEW V, NEW f \in Seq(V)
  PROVE  IsList(f) /\ Len(f) \in Nat /\ DOMAIN f = 1..Len(f)
<1>1. Len(f) \in Nat /\ f = [n \in 1..Len(f) |-> f[n]]
  OBVIOUS
<1> QED BY <1>1, ListOf

\* The places of a list are the numbers up to its length.
LEMMA ListFacts ==
  ASSUME NEW f, IsList(f)
  PROVE  Len(f) \in Nat /\ DOMAIN f = 1..Len(f) /\ f = [n \in 1..Len(f) |-> f[n]]
BY DEF IsList

\* The lists of a list are over one set.
LEMMA ListsOfLists ==
  ASSUME NEW seqs, IsList(seqs), \A n \in 1..Len(seqs) : IsList(seqs[n])
  PROVE  \E V : seqs \in Seq(Seq(V))
<1> DEFINE V == UNION {ToSet(seqs[n]) : n \in 1..Len(seqs)}
           N == Len(seqs)
<1>1. N \in Nat /\ seqs = [n \in 1..N |-> seqs[n]]
  BY ListFacts
<1>2. ASSUME NEW n \in 1..N PROVE seqs[n] \in Seq(V)
  <2> DEFINE T == ToSet(seqs[n])
  <2>1. T \subseteq V
    OBVIOUS
  <2>2. seqs[n] \in Seq(T)
    BY DEF IsList
  <2> HIDE DEF T, V
  <2> QED BY <2>1, <2>2
<1> HIDE DEF N, V
<1>3. seqs \in Seq(Seq(V))
  BY <1>1, <1>2
<1> QED BY <1>3

\* Lists of environments that are alike place by place.
AlikeLists(A, C, p, o) ==
  /\ IsList(p) /\ IsList(o) /\ Len(p) = Len(o)
  /\ \A n \in 1..Len(p) : AlikeBut(A, C, p[n], o[n])

\* They are so still if the same places are picked.
LEMMA PickedAlikeLists ==
  ASSUME NEW A, NEW C, NEW p, NEW o, AlikeLists(A, C, p, o), NEW positions
  PROVE  AlikeLists(A, C, Picked(p, positions), Picked(o, positions))
<1>1. IsList(p) /\ IsList(o) /\ Len(p) = Len(o)
  BY DEF AlikeLists
<1>2. IsList(Picked(p, positions)) /\ IsList(Picked(o, positions))
  BY <1>1, PickedList
<1>3. SamePicks(Picked(p, positions), Picked(o, positions), p, o, positions)
  BY <1>1, PickedAlike
<1> QED BY <1>2, <1>3 DEF AlikeLists, SamePicks

\* And if lists of them are put together.
LEMMA FlattenedAlikeLists ==
  ASSUME NEW A, NEW C, NEW p, NEW o, IsList(p), IsList(o), Len(p) = Len(o),
         \A n \in 1..Len(p) : AlikeLists(A, C, p[n], o[n])
  PROVE  AlikeLists(A, C, FlattenSeq(p), FlattenSeq(o))
<1>1. PICK V : p \in Seq(Seq(V))
  BY ListsOfLists DEF AlikeLists
<1>2. PICK W : o \in Seq(Seq(W))
  BY ListsOfLists DEF AlikeLists
<1>3. IsList(FlattenSeq(p)) /\ IsList(FlattenSeq(o))
  <2>1. FlattenSeq(p) \in Seq(V) /\ FlattenSeq(o) \in Seq(W)
    BY <1>1, <1>2, FlattenedList
  <2> QED BY <2>1, SeqIsList
<1>4. SamePlaces(FlattenSeq(p), FlattenSeq(o), p, o)
  <2>1. \A n \in 1..Len(p) : Len(p[n]) = Len(o[n])
    BY DEF AlikeLists
  <2>2. p \in Seq(Seq(V)) /\ o \in Seq(Seq(W)) /\ Len(p) = Len(o)
    BY <1>1, <1>2
  <2> HIDE DEF AlikeLists
  <2> QED BY <2>1, <2>2, FlattenedAlike
<1> QED BY <1>3, <1>4 DEF AlikeLists, SamePlaces

\* One list after another, under a name.
Chained(p, u) == p \o u

\* It is a list of the elements of both.
LEMMA ChainedList ==
  ASSUME NEW p, IsList(p), NEW u, IsList(u)
  PROVE  /\ IsList(Chained(p, u)) /\ Len(Chained(p, u)) = Len(p) + Len(u)
         /\ Len(p) \in Nat /\ Len(u) \in Nat
         /\ \A i \in 1..Len(p) : Chained(p, u)[i] = p[i]
         /\ \A i \in 1..Len(u) : Chained(p, u)[Len(p) + i] = u[i]
<1> DEFINE V == ToSet(p) \cup ToSet(u)
           w == Chained(p, u)
<1>0. w = p \o u
  BY DEF Chained
<1>1. p \in Seq(V) /\ u \in Seq(V)
  <2>1. ToSet(p) \subseteq V /\ ToSet(u) \subseteq V
    OBVIOUS
  <2>2. p \in Seq(ToSet(p)) /\ u \in Seq(ToSet(u))
    BY DEF IsList
  <2> HIDE DEF V
  <2> QED BY <2>1, <2>2
<1> HIDE DEF V, w
<1>2. /\ w \in Seq(V) /\ Len(w) = Len(p) + Len(u) /\ Len(p) \in Nat /\ Len(u) \in Nat
      /\ \A i \in 1..Len(p) : w[i] = p[i]
      /\ \A i \in 1..Len(u) : w[Len(p) + i] = u[i]
  BY <1>0, <1>1, Concatenated
<1>3. IsList(w)
  BY <1>2, SeqIsList
<1> QED BY <1>2, <1>3 DEF w

\* Lists that are alike stay so behind lists that are.
LEMMA ChainedAlike ==
  ASSUME NEW A, NEW C, NEW p, NEW o, AlikeLists(A, C, p, o), NEW u, NEW v, AlikeLists(A, C, u, v)
  PROVE  AlikeLists(A, C, Chained(p, u), Chained(o, v))
<1> DEFINE w == Chained(p, u) x == Chained(o, v)
<1>1. IsList(p) /\ IsList(o) /\ IsList(u) /\ IsList(v)
  BY DEF AlikeLists
<1>a. Len(p) = Len(o) /\ Len(u) = Len(v)
  BY DEF AlikeLists
<1>2. /\ IsList(w) /\ Len(w) = Len(p) + Len(u) /\ Len(p) \in Nat /\ Len(u) \in Nat
      /\ \A i \in 1..Len(p) : w[i] = p[i]
      /\ \A i \in 1..Len(u) : w[Len(p) + i] = u[i]
  BY <1>1, ChainedList
<1>b. /\ IsList(x) /\ Len(x) = Len(o) + Len(v)
      /\ \A i \in 1..Len(o) : x[i] = o[i]
      /\ \A i \in 1..Len(v) : x[Len(o) + i] = v[i]
  BY <1>1, ChainedList
<1> HIDE DEF w, x
<1>3. /\ IsList(x) /\ Len(x) = Len(p) + Len(u)
      /\ \A i \in 1..Len(p) : x[i] = o[i]
      /\ \A i \in 1..Len(u) : x[Len(p) + i] = v[i]
  BY <1>a, <1>b
<1>4. ASSUME NEW i \in 1..Len(w) PROVE AlikeBut(A, C, w[i], x[i])
  <2>1. CASE i \in 1..Len(p)
    BY <1>2, <1>3, <2>1 DEF AlikeLists
  <2>2. CASE i \notin 1..Len(p)
    <3> DEFINE k == i - Len(p)
    <3>1. k \in 1..Len(u) /\ i = Len(p) + k
      BY <1>2, <1>4, <2>2
    <3> HIDE DEF k
    <3> QED BY <1>2, <1>3, <3>1 DEF AlikeLists
  <2> QED BY <2>1, <2>2
<1>5. AlikeLists(A, C, w, x)
  BY <1>2, <1>3, <1>4 DEF AlikeLists
<1> QED BY <1>5 DEF w, x

--------------------------------------------------------------------------------
(* One source joined to lists of environments that are alike *)

\* The records of a relation have its columns.
LEMMA RecordsFacts ==
  ASSUME NEW rel, IsList(rel.rows)
  PROVE  /\ IsList(Records(rel)) /\ Len(Records(rel)) = Len(rel.rows) /\ DOMAIN Records(rel) = DOMAIN rel.rows
         /\ \A n \in DOMAIN rel.rows : DOMAIN Records(rel)[n] = ToSet(rel.cols)
<1> DEFINE f == Records(rel) N == Len(rel.rows)
<1>1. N \in Nat /\ DOMAIN rel.rows = 1..N
  BY ListFacts
<1>2. f = [n \in DOMAIN rel.rows |-> Record(rel.cols, rel.rows[n])]
  BY DEF Records
<1> HIDE DEF f, N
<1>3. f = [n \in 1..N |-> f[n]]
  BY <1>1, <1>2
<1>4. IsList(f) /\ Len(f) = N
  BY <1>1, <1>3, ListOf
<1>5. \A n \in DOMAIN rel.rows : DOMAIN f[n] = ToSet(rel.cols)
  BY <1>2 DEF Record
<1> QED BY <1>1, <1>2, <1>4, <1>5 DEF f, N

\* Lists of one.
LEMMA SingleAlike ==
  ASSUME NEW A, NEW C, NEW env, NEW other, AlikeBut(A, C, env, other)
  PROVE  AlikeLists(A, C, <<env>>, <<other>>)
<1>1. IsList(<<env>>) /\ IsList(<<other>>)
  BY DEF IsList, ToSet
<1>2. Len(<<env>>) = 1 /\ Len(<<other>>) = 1 /\ <<env>>[1] = env /\ <<other>>[1] = other
  OBVIOUS
<1>3. \A n \in 1..Len(<<env>>) : AlikeBut(A, C, <<env>>[n], <<other>>[n])
  BY <1>2
<1> QED BY <1>1, <1>2, <1>3 DEF AlikeLists

\* The same records of a source match environments that are alike.
LEMMA SameMatches ==
  ASSUME NEW A, NEW C, NEW env, NEW other, AlikeBut(A, C, env, other), NEW s, s.alias \notin A,
         NEW right, NEW relation, NEW instead, TermsFit(A, C, s.on, relation, instead)
  PROVE  Matches(s, right, env, relation) = Matches(s, right, other, instead)
<1>1. ASSUME NEW r \in DOMAIN right
      PROVE  AllHold(s.on, Nest(env, s.alias, right[r]), relation)
               = AllHold(s.on, Nest(other, s.alias, right[r]), instead)
  <2>1. A \ {s.alias} = A
    OBVIOUS
  <2>2. AlikeBut(A, C, Nest(env, s.alias, right[r]), Nest(other, s.alias, right[r]))
    BY <2>1, NestedAlike
  <2> QED BY <2>2, SameHold
<1> QED BY <1>1 DEF Matches

\* A record added to every environment.
LEMMA NestedLists ==
  ASSUME NEW A, NEW C, NEW env, NEW other, AlikeBut(A, C, env, other), NEW alias, alias \notin A,
         NEW right, IsList(right)
  PROVE  AlikeLists(A, C, [r \in DOMAIN right |-> Nest(env, alias, right[r])],
                          [r \in DOMAIN right |-> Nest(other, alias, right[r])])
<1> DEFINE f == [r \in DOMAIN right |-> Nest(env, alias, right[r])]
           g == [r \in DOMAIN right |-> Nest(other, alias, right[r])]
           N == Len(right)
<1>1. N \in Nat /\ DOMAIN right = 1..N
  BY ListFacts
<1>2. \A n \in 1..N : f[n] = Nest(env, alias, right[n]) /\ g[n] = Nest(other, alias, right[n])
  BY <1>1
<1>3. f = [n \in 1..N |-> f[n]] /\ g = [n \in 1..N |-> g[n]]
  BY <1>1
<1> HIDE DEF f, g, N
<1>4. IsList(f) /\ Len(f) = N /\ IsList(g) /\ Len(g) = N
  BY <1>1, <1>3, ListOf
<1>5. A \ {alias} = A
  OBVIOUS
<1>6. \A n \in 1..N : AlikeBut(A, C, f[n], g[n])
  BY <1>2, <1>5, NestedAlike
<1>7. AlikeLists(A, C, f, g)
  BY <1>4, <1>6 DEF AlikeLists
<1> QED BY <1>7 DEF f, g

\* What a source that stays adds to the one it adds to the other.
LEMMA ExtendedAlike ==
  ASSUME NEW A, NEW C, NEW env, NEW other, AlikeBut(A, C, env, other), NEW s, s.alias \notin A,
         NEW right, IsList(right), NEW relation, NEW instead, relation[s] = instead[s],
         TermsFit(A, C, s.on, relation, instead)
  PROVE  AlikeLists(A, C, Extended(s, right, env, relation), Extended(s, right, other, instead))
<1> DEFINE matches == Matches(s, right, env, relation)
           f == [r \in DOMAIN right |-> Nest(env, s.alias, right[r])]
           g == [r \in DOMAIN right |-> Nest(other, s.alias, right[r])]
<1>1. matches = Matches(s, right, other, instead)
  BY SameMatches
<1>2. CASE s.join \in {"left", "full"} /\ matches = {}
  <2> DEFINE x == Nest(env, s.alias, Nulls(relation[s]))
             y == Nest(other, s.alias, Nulls(relation[s]))
  <2>1. Extended(s, right, env, relation) = <<x>> /\ Extended(s, right, other, instead) = <<y>>
    BY <1>1, <1>2 DEF Extended
  <2>2. A \ {s.alias} = A
    OBVIOUS
  <2>3. AlikeBut(A, C, x, y)
    BY <2>2, NestedAlike
  <2> HIDE DEF x, y
  <2> QED BY <2>1, <2>3, SingleAlike
<1>3. CASE ~(s.join \in {"left", "full"} /\ matches = {})
  <2>1. Extended(s, right, env, relation) = Picked(f, matches)
    BY <1>3 DEF Extended
  <2>2. Extended(s, right, other, instead) = Picked(g, matches)
    BY <1>1, <1>3 DEF Extended
  <2>3. AlikeLists(A, C, f, g)
    BY NestedLists
  <2> HIDE DEF f, g, matches
  <2> QED BY <2>1, <2>2, <2>3, PickedAlikeLists
<1> QED BY <1>2, <1>3

\* The sources before one, in the query and in what is left of it.
Rest(A, C, before, left, relation, instead) ==
  /\ left \subseteq before
  /\ \A e \in left : e.alias \notin A /\ relation[e] = instead[e]
  /\ \A e \in before \ left : e.alias \in A /\ ToSet(relation[e].cols) \subseteq C

\* The NULLs for the sources before it are alike.
LEMMA NullForAlike ==
  ASSUME NEW A, NEW C, NEW before, NEW left, NEW relation, NEW instead,
         Rest(A, C, before, left, relation, instead)
  PROVE  AlikeBut(A, C, NullFor(before, relation), NullFor(left, instead))
<1> DEFINE of(S, a) == {e \in S : e.alias = a}
           one(S, a) == CHOOSE e \in of(S, a) : TRUE
           f == NullFor(before, relation) g == NullFor(left, instead)
<1>1. /\ DOMAIN f = {e.alias : e \in before} /\ DOMAIN g = {e.alias : e \in left}
      /\ \A a \in DOMAIN f : f[a] = Nulls(relation[one(before, a)])
      /\ \A a \in DOMAIN g : g[a] = Nulls(instead[one(left, a)])
  BY DEF NullFor
<1>2. \A a : a \notin A => of(before, a) = of(left, a)
  BY DEF Rest
<1>3. \A a : a \in A => of(before, a) \subseteq before \ left /\ of(left, a) = {}
  BY DEF Rest
<1>4. ASSUME NEW a \in DOMAIN f PROVE one(before, a) \in of(before, a)
  <2>1. of(before, a) # {}
    BY <1>1, <1>4
  <2> HIDE DEF of
  <2> QED BY <2>1
<1>5. ASSUME NEW a \in DOMAIN g PROVE one(left, a) \in of(left, a)
  <2>1. of(left, a) # {}
    BY <1>1, <1>5
  <2> HIDE DEF of
  <2> QED BY <2>1
<1>6. \A a : a \notin A => one(before, a) = one(left, a)
  BY <1>2
<1>7. \A e : DOMAIN Nulls(e) = ToSet(e.cols)
  BY DEF Nulls
<1>8. (DOMAIN f) \ A = (DOMAIN g) \ A
  BY <1>1 DEF Rest
<1> HIDE DEF f, g, one
<1>9. \A a \in (DOMAIN f) \ A : f[a] = g[a]
  <2> TAKE a \in (DOMAIN f) \ A
  <2>1. a \in DOMAIN g
    BY <1>8
  <2>2. one(before, a) = one(left, a) /\ one(left, a) \in left
    BY <1>5, <1>6, <2>1
  <2> QED BY <1>1, <2>1, <2>2 DEF Rest
<1>10. \A a \in A : a \in DOMAIN f => DOMAIN f[a] \subseteq C
  <2> TAKE a \in A
  <2> HAVE a \in DOMAIN f
  <2>1. one(before, a) \in before \ left
    BY <1>3, <1>4
  <2> QED BY <1>1, <1>7, <2>1 DEF Rest
<1>11. \A a \in A : a \notin DOMAIN g
  BY <1>1, <1>3 DEF Rest
<1>12. AlikeBut(A, C, f, g)
  BY <1>8, <1>9, <1>10, <1>11 DEF AlikeBut
<1> QED BY <1>12 DEF f, g

\* A source that both have is joined to lists that are alike.
LEMMA JoinedWithKept ==
  ASSUME NEW A, NEW C, NEW envs, NEW others, AlikeLists(A, C, envs, others),
         NEW s, s.alias \notin A, NEW relation, NEW instead, IsList(relation[s].rows),
         relation[s] = instead[s], TermsFit(A, C, s.on, relation, instead),
         NEW before, NEW left, Rest(A, C, before, left, relation, instead)
  PROVE  AlikeLists(A, C, JoinedWith(s, envs, before, relation), JoinedWith(s, others, left, instead))
<1> DEFINE right == Records(relation[s])
           N == Len(envs)
           p == [l \in DOMAIN envs |-> Extended(s, right, envs[l], relation)]
           o == [l \in DOMAIN others |-> Extended(s, right, others[l], instead)]
           u == Lone(s, right, envs, before, relation)
           v == Lone(s, right, others, left, instead)
<1>1. JoinedWith(s, envs, before, relation) = Chained(FlattenSeq(p), u)
  BY DEF JoinedWith, Chained
<1>2. JoinedWith(s, others, left, instead) = Chained(FlattenSeq(o), v)
  BY DEF JoinedWith, Chained
<1>3. /\ N \in Nat /\ DOMAIN envs = 1..N /\ DOMAIN others = 1..N
      /\ \A l \in 1..N : AlikeBut(A, C, envs[l], others[l])
  BY ListFacts DEF AlikeLists
<1>4. IsList(right)
  BY RecordsFacts
<1> HIDE DEF right
<1>5. \A l \in 1..N : p[l] = Extended(s, right, envs[l], relation) /\ o[l] = Extended(s, right, others[l], instead)
  BY <1>3
<1>6. p = [l \in 1..N |-> p[l]] /\ o = [l \in 1..N |-> o[l]]
  BY <1>3
<1> HIDE DEF p, o, N
<1>7. IsList(p) /\ Len(p) = N /\ IsList(o) /\ Len(o) = N
  BY <1>3, <1>6, ListOf
<1>8. \A l \in 1..N : AlikeLists(A, C, p[l], o[l])
  BY <1>3, <1>4, <1>5, ExtendedAlike
<1>9. AlikeLists(A, C, FlattenSeq(p), FlattenSeq(o))
  BY <1>7, <1>8, FlattenedAlikeLists
<1>10. AlikeLists(A, C, u, v)
  <2> DEFINE lone == {r \in DOMAIN right : \A l \in DOMAIN envs : r \notin Matches(s, right, envs[l], relation)}
             alone == {r \in DOMAIN right : \A l \in DOMAIN others : r \notin Matches(s, right, others[l], instead)}
             f == [r \in DOMAIN right |-> Nest(NullFor(before, relation), s.alias, right[r])]
             g == [r \in DOMAIN right |-> Nest(NullFor(left, instead), s.alias, right[r])]
  <2>1. \A l \in 1..N : Matches(s, right, envs[l], relation) = Matches(s, right, others[l], instead)
    BY <1>3, SameMatches
  <2>2. lone = alone
    BY <1>3, <2>1
  <2>3. AlikeLists(A, C, f, g)
    BY <1>4, NullForAlike, NestedLists
  <2>4. CASE s.join \in {"right", "full"}
    <3>1. u = Picked(f, lone) /\ v = Picked(g, alone)
      BY <2>4 DEF Lone
    <3> HIDE DEF lone, alone, f, g, u, v
    <3> QED BY <2>2, <2>3, <3>1, PickedAlikeLists
  <2>5. CASE s.join \notin {"right", "full"}
    <3>1. u = <<>> /\ v = <<>>
      BY <2>5 DEF Lone
    <3>2. AlikeLists(A, C, <<>>, <<>>)
      BY DEF AlikeLists, IsList
    <3> HIDE DEF u, v
    <3> QED BY <3>1, <3>2
  <2> QED BY <2>4, <2>5
<1> HIDE DEF u, v
<1> QED BY <1>1, <1>2, <1>9, <1>10, ChainedAlike

\* Of its records an environment never has more than one.
MatchesOne(s, relation) ==
  \A env : LET matches == Matches(s, Records(relation[s]), env, relation)
           IN  \A n, m \in matches : n = m

\* A LEFT JOIN that finds no more than one record changes nothing but the record.
LEMMA JoinedWithGone ==
  ASSUME NEW A, NEW C, NEW envs, NEW others, AlikeLists(A, C, envs, others),
         NEW s, s.alias \in A, s.join = "left", NEW relation, IsList(relation[s].rows),
         ToSet(relation[s].cols) \subseteq C, MatchesOne(s, relation), NEW before
  PROVE  AlikeLists(A, C, JoinedWith(s, envs, before, relation), others)
<1> DEFINE right == Records(relation[s])
           N == Len(envs)
           p == [l \in DOMAIN envs |-> Extended(s, right, envs[l], relation)]
<1>1. JoinedWith(s, envs, before, relation) = Chained(FlattenSeq(p), <<>>)
  BY DEF JoinedWith, Chained, Lone
<1>2. /\ N \in Nat /\ DOMAIN envs = 1..N /\ IsList(others) /\ Len(others) = N
      /\ \A l \in 1..N : AlikeBut(A, C, envs[l], others[l])
  BY ListFacts DEF AlikeLists
<1>3. IsList(right) /\ \A r \in DOMAIN right : DOMAIN right[r] \subseteq C
  BY RecordsFacts
<1> HIDE DEF right
<1>4. ASSUME NEW l \in 1..N
      PROVE  \E row : DOMAIN row \subseteq C /\ Extended(s, right, envs[l], relation) = <<Nest(envs[l], s.alias, row)>>
  <2> DEFINE matches == Matches(s, right, envs[l], relation)
  <2>1. CASE matches = {}
    <3>1. Extended(s, right, envs[l], relation) = <<Nest(envs[l], s.alias, Nulls(relation[s]))>>
      BY <2>1 DEF Extended
    <3>2. DOMAIN Nulls(relation[s]) \subseteq C
      BY DEF Nulls
    <3> QED BY <3>1, <3>2
  <2>2. CASE matches # {}
    <3> DEFINE f == [r \in DOMAIN right |-> Nest(envs[l], s.alias, right[r])]
    <3>1. PICK r \in DOMAIN right : matches = {r}
      <4>1. matches \subseteq DOMAIN right
        BY DEF Matches
      <4>2. \A n, m \in matches : n = m
        BY DEF MatchesOne, right
      <4> HIDE DEF matches
      <4> QED BY <2>2, <4>1, <4>2
    <3>2. Extended(s, right, envs[l], relation) = Picked(f, matches)
      BY <2>2 DEF Extended
    <3>3. /\ IsList(f) /\ r \in 1..Len(f) /\ f[r] = Nest(envs[l], s.alias, right[r])
      <4> DEFINE K == Len(right)
      <4>1. K \in Nat /\ DOMAIN right = 1..K
        BY <1>3, ListFacts
      <4>2. f = [n \in 1..K |-> f[n]]
        BY <4>1
      <4>3. f[r] = Nest(envs[l], s.alias, right[r])
        OBVIOUS
      <4> HIDE DEF f, K
      <4>4. IsList(f) /\ Len(f) = K
        BY <4>1, <4>2, ListOf
      <4> QED BY <4>1, <4>3, <4>4
    <3> HIDE DEF f, matches
    <3>4. matches \cap 1..Len(f) = {r}
      BY <3>1, <3>3
    <3>5. Len(Picked(f, matches)) = 1 /\ Picked(f, matches)[1] = f[r]
      BY <3>3, <3>4, PickedOne
    <3>6. IsList(Picked(f, matches))
      BY <3>3, PickedList
    <3>7. Picked(f, matches) = <<f[r]>>
      <4> DEFINE x == Picked(f, matches)
      <4>1. x = [n \in 1..Len(x) |-> x[n]] /\ Len(x) = 1 /\ x[1] = f[r]
        BY <3>5, <3>6, ListFacts
      <4> HIDE DEF x
      <4>2. x = <<f[r]>>
        BY <4>1
      <4> QED BY <4>2 DEF x
    <3> QED BY <1>3, <3>2, <3>3, <3>7
  <2> QED BY <2>1, <2>2
<1>5. \A l \in 1..N : p[l] = Extended(s, right, envs[l], relation)
  BY <1>2
<1>6. p = [l \in 1..N |-> p[l]]
  BY <1>2
<1> HIDE DEF p, N
<1>7. IsList(p) /\ Len(p) = N
  BY <1>2, <1>6, ListOf
<1>8. \A l \in 1..N : IsList(p[l]) /\ Len(p[l]) = 1 /\ AlikeBut(A, C, p[l][1], others[l])
  <2> TAKE l \in 1..N
  <2>1. PICK row : DOMAIN row \subseteq C /\ p[l] = <<Nest(envs[l], s.alias, row)>>
    BY <1>4, <1>5
  <2>2. AlikeBut(A, C, Nest(envs[l], s.alias, row), others[l])
    BY <1>2, <2>1, NestedApart
  <2>3. \A x : IsList(<<x>>) /\ Len(<<x>>) = 1 /\ <<x>>[1] = x
    BY DEF IsList, ToSet
  <2> QED BY <2>1, <2>2, <2>3
<1>9. PICK V : p \in Seq(Seq(V))
  BY <1>7, <1>8, ListsOfLists
<1>10. FlattenSeq(p) \in Seq(V)
  BY <1>9, FlattenedList
<1>11. /\ Len(FlattenSeq(p)) = Len(p)
       /\ \A n \in 1..Len(p) : FlattenSeq(p)[n] = p[n][1]
  BY <1>7, <1>8, <1>9, FlattenedSingles
<1>12. Chained(FlattenSeq(p), <<>>) = FlattenSeq(p)
  BY <1>10 DEF Chained
<1>13. IsList(FlattenSeq(p))
  BY <1>10, SeqIsList
<1>14. AlikeLists(A, C, FlattenSeq(p), others)
  BY <1>2, <1>7, <1>8, <1>11, <1>13 DEF AlikeLists
<1> QED BY <1>1, <1>12, <1>14

--------------------------------------------------------------------------------
(* What is picked up to a term is a front of what is picked *)

\* How they grow.
LEMMA FrontsStep ==
  ASSUME NEW first, NEW terms, IsList(terms), NEW positions, Fronts(first, terms, positions),
         NEW n \in 0..(Len(terms) - 1)
  PROVE  /\ n + 1 \in 1..Len(terms) /\ Len(first[n]) \in Nat
         /\ n + 1 \notin positions => first[n + 1] = first[n]
         /\ n + 1 \in positions => /\ Len(first[n + 1]) = Len(first[n]) + 1
                                   /\ first[n + 1][Len(first[n]) + 1] = terms[n + 1]
                                   /\ \A j \in 1..Len(first[n]) : first[n + 1][j] = first[n][j]
<1>1. Len(terms) \in Nat
  BY ListFacts
<1>2. n + 1 \in 1..Len(terms) /\ (n + 1) - 1 = n /\ n \in 0..Len(terms)
  BY <1>1
<1>3. first[n + 1] = IF n + 1 \in positions THEN Append(first[n], terms[n + 1]) ELSE first[n]
  BY <1>2 DEF Fronts
<1>4. first[n] \in Seq(ToSet(terms)) /\ terms[n + 1] \in ToSet(terms)
  BY <1>2 DEF Fronts, IsList
<1> DEFINE p == first[n] x == terms[n + 1] V == ToSet(terms)
<1>5. p \in Seq(V) /\ x \in V /\ first[n + 1] = IF n + 1 \in positions THEN Append(p, x) ELSE p
  BY <1>3, <1>4
<1> HIDE DEF p, x, V
<1>6. n + 1 \in positions => /\ Len(first[n + 1]) = Len(p) + 1 /\ first[n + 1][Len(p) + 1] = x
                             /\ \A j \in 1..Len(p) : first[n + 1][j] = p[j]
  BY <1>5
<1>7. Len(p) \in Nat
  BY <1>5
<1> QED BY <1>2, <1>5, <1>6, <1>7 DEF p, x

\* p is the beginning of w.
IsFront(p, w) == Len(p) <= Len(w) /\ \A j \in 1..Len(p) : w[j] = p[j]

\* Each of the lists is the beginning of what is picked in the end.
LEMMA FrontsGrow ==
  ASSUME NEW first, NEW terms, IsList(terms), NEW positions, Fronts(first, terms, positions),
         NEW n \in 0..Len(terms)
  PROVE  IsFront(first[n], Picked(terms, positions))
<1> DEFINE N == Len(terms)
           Fits(m) == \A i \in 0..m : IsFront(first[i], first[m])
           T == {m \in 0..N : Fits(m)}
<1>1. N \in Nat
  BY ListFacts
<1>a. \A m \in 0..N : Len(first[m]) \in Nat
  BY DEF Fronts
<1>2. 0 \in T
  <2>1. Fits(0)
    <3> SUFFICES ASSUME NEW i \in 0..0 PROVE IsFront(first[i], first[0])
      OBVIOUS
    <3>1. i = 0 /\ Len(first[0]) \in Nat
      BY <1>1, <1>a
    <3>2. Len(first[0]) <= Len(first[0])
      BY <3>1
    <3> QED BY <3>1, <3>2 DEF IsFront
  <2> HIDE DEF Fits
  <2> QED BY <1>1, <2>1
<1>3. \A m \in 0..(N - 1) : m \in T => m + 1 \in T
  <2> SUFFICES ASSUME NEW m \in 0..(N - 1), m \in T PROVE m + 1 \in T
    OBVIOUS
  <2>1. m + 1 \in 0..N /\ m \in 0..N /\ Len(first[m]) \in Nat /\ Len(first[m + 1]) \in Nat
    BY <1>1, <1>a
  <2>2. IsFront(first[m], first[m + 1])
    <3>1. CASE m + 1 \in positions
      <4>1. /\ Len(first[m + 1]) = Len(first[m]) + 1
            /\ \A j \in 1..Len(first[m]) : first[m + 1][j] = first[m][j]
        BY <3>1, FrontsStep
      <4> QED BY <2>1, <4>1 DEF IsFront
    <3>2. CASE m + 1 \notin positions
      <4>1. first[m + 1] = first[m]
        BY <3>2, FrontsStep
      <4>2. Len(first[m]) <= Len(first[m])
        BY <2>1
      <4> QED BY <4>1, <4>2 DEF IsFront
    <3> QED BY <3>1, <3>2
  <2>3. ASSUME NEW i \in 0..(m + 1) PROVE IsFront(first[i], first[m + 1])
    <3>1. CASE i = m + 1
      <4>1. Len(first[i]) <= Len(first[m + 1])
        BY <2>1, <3>1
      <4> QED BY <3>1, <4>1 DEF IsFront
    <3>2. CASE i # m + 1
      <4>1. i \in 0..m /\ i \in 0..N
        BY <2>1, <3>2
      <4>2. IsFront(first[i], first[m]) /\ Len(first[i]) \in Nat
        BY <1>a, <4>1
      <4> DEFINE a == first[i] b == first[m] c == first[m + 1]
      <4>3. Len(a) \in Nat /\ Len(b) \in Nat /\ Len(c) \in Nat /\ IsFront(a, b) /\ IsFront(b, c)
        BY <2>1, <2>2, <4>2
      <4> HIDE DEF a, b, c
      <4>4. Len(a) <= Len(c) /\ \A j \in 1..Len(a) : j \in 1..Len(b) /\ b[j] = a[j]
        BY <4>3 DEF IsFront
      <4>5. IsFront(a, c)
        BY <4>3, <4>4 DEF IsFront
      <4> QED BY <4>5 DEF a, c
    <3> QED BY <3>1, <3>2
  <2>4. Fits(m + 1)
    BY <2>3
  <2> HIDE DEF Fits
  <2> QED BY <2>1, <2>4
<1>4. \A m \in 0..N : m \in T
  <2> HIDE DEF T
  <2> QED BY <1>1, <1>2, <1>3, UpTo
<1>5. Fits(N) /\ first[N] = Picked(terms, positions)
  BY <1>1, <1>4 DEF Fronts
<1> QED BY <1>5

\* w has the terms at the given positions.
HasTerms(w, terms, positions) == {w[j] : j \in 1..Len(w)} = {terms[i] : i \in positions}

\* What is picked up to term n.
LEMMA FrontsTerms ==
  ASSUME NEW first, NEW terms, IsList(terms), NEW positions, Fronts(first, terms, positions),
         NEW n \in 0..Len(terms)
  PROVE  HasTerms(first[n], terms, positions \cap 1..n)
<1> DEFINE N == Len(terms)
           Fits(m) == {first[m][j] : j \in 1..Len(first[m])} = {terms[i] : i \in positions \cap 1..m}
           T == {m \in 0..N : Fits(m)}
<1>1. N \in Nat
  BY ListFacts
<1>2. 0 \in T
  <2>1. first[0] = <<>>
    BY DEF Fronts
  <2>2. Fits(0)
    BY <2>1
  <2> HIDE DEF Fits
  <2> QED BY <1>1, <2>2
<1>3. \A m \in 0..(N - 1) : m \in T => m + 1 \in T
  <2> SUFFICES ASSUME NEW m \in 0..(N - 1), m \in T PROVE m + 1 \in T
    OBVIOUS
  <2>1. m + 1 \in 0..N /\ m \in 0..N /\ 1..(m + 1) = (1..m) \cup {m + 1}
    BY <1>1
  <2>2. Fits(m)
    OBVIOUS
  <2>3. CASE m + 1 \in positions
    <3> DEFINE k == Len(first[m])
    <3>1. /\ Len(first[m + 1]) = k + 1 /\ first[m + 1][k + 1] = terms[m + 1] /\ k \in Nat
          /\ \A j \in 1..k : first[m + 1][j] = first[m][j]
      BY <2>3, FrontsStep
    <3>2. {first[m][j] : j \in 1..k} = {terms[i] : i \in positions \cap 1..m}
      BY <2>2
    <3> HIDE DEF k
    <3>3. 1..(k + 1) = (1..k) \cup {k + 1}
      BY <3>1
    <3>4. {first[m + 1][j] : j \in 1..(k + 1)} = {first[m + 1][j] : j \in 1..k} \cup {terms[m + 1]}
      BY <3>1, <3>3
    <3>5. {first[m + 1][j] : j \in 1..k} = {first[m][j] : j \in 1..k}
      BY <3>1
    <3>6. {terms[i] : i \in positions \cap 1..(m + 1)} = {terms[i] : i \in positions \cap 1..m} \cup {terms[m + 1]}
      BY <2>1, <2>3
    <3>7. Fits(m + 1)
      BY <3>1, <3>2, <3>4, <3>5, <3>6
    <3> HIDE DEF Fits
    <3> QED BY <2>1, <3>7
  <2>4. CASE m + 1 \notin positions
    <3>1. first[m + 1] = first[m]
      BY <2>4, FrontsStep
    <3>2. positions \cap 1..(m + 1) = positions \cap 1..m
      BY <2>1, <2>4
    <3>3. Fits(m + 1)
      BY <2>2, <3>1, <3>2
    <3> HIDE DEF Fits
    <3> QED BY <2>1, <3>3
  <2> QED BY <2>3, <2>4
<1>4. \A m \in 0..N : m \in T
  <2> HIDE DEF T
  <2> QED BY <1>1, <1>2, <1>3, UpTo
<1>5. Fits(n)
  BY <1>4
<1> QED BY <1>5 DEF HasTerms

--------------------------------------------------------------------------------
(* All the sources of a block joined *)

\* One step of Joined.
JoinStep(from, relation, i, envs) == JoinedWith(from[i], envs, {from[j] : j \in 1..(i - 1)}, relation)

\* The lists that Joined grows, up to source m.
Joining(joined, from, relation, m) ==
  joined = [i \in 0..m |-> IF i = 0 THEN <<<<>>>>
                           ELSE JoinedWith(from[i], joined[i - 1], {from[j] : j \in 1..(i - 1)}, relation)]

\* There is the function by which Joined is defined.
LEMMA JoiningSteps ==
  ASSUME NEW from, NEW N \in Nat, NEW relation
  PROVE  \E joined : Joining(joined, from, relation, N)
<1> DEFINE Step(n, before) == JoinStep(from, relation, n, before)
           Steps(f, m) == f = [n \in 0..m |-> IF n = 0 THEN <<<<>>>> ELSE Step(n, f[n - 1])]
           Undefined == {m \in Nat : ~\E f : Steps(f, m)}
<1>1. Undefined = {}
  <2> SUFFICES ASSUME Undefined # {} PROVE FALSE
    OBVIOUS
  <2>1. PICK m \in Undefined : \A n \in Undefined : m <= n
    <3>1. Undefined \in SUBSET Nat
      OBVIOUS
    <3> QED BY <3>1, LeastNat
  <2> HIDE DEF Step
  <2>2. m # 0
    <3>1. Steps([n \in 0..0 |-> <<<<>>>>], 0)
      OBVIOUS
    <3> QED BY <3>1
  <2>3. PICK f : Steps(f, m - 1)
    <3>1. m - 1 \in Nat /\ ~(m <= m - 1)
      BY <2>2
    <3> QED BY <2>1, <3>1
  <2> DEFINE g == [n \in 0..m |-> IF n = m THEN Step(m, f[m - 1]) ELSE f[n]]
  <2>4. Steps(g, m)
    <3>1. \A n \in 0..(m - 1) : f[n] = IF n = 0 THEN <<<<>>>> ELSE Step(n, f[n - 1])
      BY <2>3
    <3>2. ASSUME NEW n \in 0..m PROVE g[n] = IF n = 0 THEN <<<<>>>> ELSE Step(n, g[n - 1])
      <4>1. CASE n = m
        BY <2>2, <4>1
      <4>2. CASE n # m
        <5>1. n \in 0..(m - 1) /\ (n # 0 => n - 1 \in 0..m /\ n - 1 # m)
          BY <4>2
        <5> QED BY <3>1, <4>2, <5>1
      <4> QED BY <4>1, <4>2
    <3> QED BY <3>2
  <2> QED BY <2>1, <2>4
<1>2. \E f : Steps(f, N)
  BY <1>1
<1> QED BY <1>2 DEF Joining, JoinStep

\* Of a block's sources, what is joined up to each.
JoinFronts(joined, from, relation) ==
  /\ joined[0] = <<<<>>>> /\ joined[Len(from)] = Joined(from, relation)
  /\ \A i \in 1..Len(from) :
       joined[i] = JoinedWith(from[i], joined[i - 1], {from[j] : j \in 1..(i - 1)}, relation)

\* Joined is the last of lists that grow source by source.
LEMMA JoinedFronts ==
  ASSUME NEW from, Len(from) \in Nat, NEW relation
  PROVE  \E joined : JoinFronts(joined, from, relation)
<1> DEFINE N == Len(from)
           f == CHOOSE joined : Joining(joined, from, relation, N)
<1>1. Joining(f, from, relation, N)
  BY JoiningSteps
<1>2. Joined(from, relation) = f[N]
  BY DEF Joined, Joining
<1> HIDE DEF f
<1>3. \A i \in 0..N : f[i] = IF i = 0 THEN <<<<>>>>
                             ELSE JoinedWith(from[i], f[i - 1], {from[j] : j \in 1..(i - 1)}, relation)
  BY <1>1 DEF Joining
<1>4. f[0] = <<<<>>>>
  <2>1. 0 \in 0..N
    OBVIOUS
  <2> HIDE DEF N
  <2> QED BY <1>3, <2>1
<1>5. \A i \in 1..N : f[i] = JoinedWith(from[i], f[i - 1], {from[j] : j \in 1..(i - 1)}, relation)
  <2> TAKE i \in 1..N
  <2>1. i \in 0..N /\ i # 0
    OBVIOUS
  <2> QED BY <1>3, <2>1
<1>6. JoinFronts(f, from, relation)
  BY <1>2, <1>4, <1>5 DEF JoinFronts
<1> QED BY <1>6

(* What the sources of a block must be so that those outside positions can go: A has
   the aliases and C the columns of these. *)
SourcesFit(A, C, from, positions, relation, instead) ==
  \A j \in 1..Len(from) :
    LET s == from[j]
    IN  /\ IsList(relation[s].rows)
        /\ j \in positions => s.alias \notin A /\ relation[s] = instead[s]
                              /\ TermsFit(A, C, s.on, relation, instead)
        /\ j \notin positions => s.alias \in A /\ s.join = "left"
                                 /\ ToSet(relation[s].cols) \subseteq C /\ MatchesOne(s, relation)

\* The environments of a block are alike with and without these sources.
LEMMA JoinedAlike ==
  ASSUME NEW A, NEW C, NEW from, IsList(from), NEW positions, NEW relation, NEW instead,
         SourcesFit(A, C, from, positions, relation, instead)
  PROVE  AlikeLists(A, C, Joined(from, relation), Joined(Picked(from, positions), instead))
<1> DEFINE N == Len(from)
           kept == Picked(from, positions)
<1>1. N \in Nat /\ IsList(kept) /\ Len(kept) \in Nat
  BY ListFacts, PickedList
<1>2. PICK first : Fronts(first, from, positions)
  BY PickedFronts
<1>3. PICK f : JoinFronts(f, from, relation)
  BY <1>1, JoinedFronts
<1>4. PICK g : JoinFronts(g, kept, instead)
  BY <1>1, JoinedFronts
<1>5. \A n \in 0..N : IsFront(first[n], kept)
  BY <1>2, FrontsGrow
<1>6. \A n \in 0..N : HasTerms(first[n], from, positions \cap 1..n)
  BY <1>2, FrontsTerms
<1> HIDE DEF kept
<1> DEFINE Fits(n) == AlikeLists(A, C, f[n], g[Len(first[n])])
           T == {n \in 0..N : Fits(n)}
<1>7. 0 \in T
  <2>1. f[0] = <<<<>>>> /\ g[0] = <<<<>>>>
    BY <1>3, <1>4 DEF JoinFronts
  <2>2. Len(first[0]) = 0
    BY <1>2 DEF Fronts
  <2>3. AlikeBut(A, C, <<>>, <<>>)
    BY DEF AlikeBut
  <2>4. AlikeLists(A, C, <<<<>>>>, <<<<>>>>)
    BY <2>3, SingleAlike
  <2>5. Fits(0)
    BY <2>1, <2>2, <2>4
  <2> HIDE DEF Fits
  <2> QED BY <1>1, <2>5
<1>8. \A n \in 0..(N - 1) : n \in T => n + 1 \in T
  <2> SUFFICES ASSUME NEW n \in 0..(N - 1), n \in T PROVE n + 1 \in T
    OBVIOUS
  <2>1. n + 1 \in 1..N /\ n + 1 \in 0..N /\ n \in 0..N /\ (n + 1) - 1 = n
    BY <1>1
  <2> DEFINE s == from[n + 1] k == Len(first[n])
             before == {from[i] : i \in 1..n}
             left == {from[i] : i \in positions \cap 1..n}
  <2>2. f[n + 1] = JoinedWith(s, f[n], before, relation)
    BY <1>3, <2>1 DEF JoinFronts
  <2>3. AlikeLists(A, C, f[n], g[k])
    OBVIOUS
  <2>4. /\ IsList(relation[s].rows)
        /\ n + 1 \in positions => s.alias \notin A /\ relation[s] = instead[s]
                                  /\ TermsFit(A, C, s.on, relation, instead)
        /\ n + 1 \notin positions => s.alias \in A /\ s.join = "left"
                                     /\ ToSet(relation[s].cols) \subseteq C /\ MatchesOne(s, relation)
    BY <2>1 DEF SourcesFit
  <2>5. Rest(A, C, before, left, relation, instead)
    <3>1. \A i \in 1..n : i \in 1..N
      BY <1>1
    <3>2. \A i \in positions \cap 1..n : from[i].alias \notin A /\ relation[from[i]] = instead[from[i]]
      BY <3>1 DEF SourcesFit
    <3>3. \A i \in (1..n) \ positions : from[i].alias \in A /\ ToSet(relation[from[i]].cols) \subseteq C
      BY <3>1 DEF SourcesFit
    <3>4. \A e \in before \ left : \E i \in (1..n) \ positions : e = from[i]
      OBVIOUS
    <3>5. left \subseteq before
      OBVIOUS
    <3>6. \A e \in left : \E i \in positions \cap 1..n : e = from[i]
      OBVIOUS
    <3> HIDE DEF before, left
    <3> QED BY <3>2, <3>3, <3>4, <3>5, <3>6 DEF Rest
  <2>6. CASE n + 1 \in positions
    <3>1. /\ Len(first[n + 1]) = k + 1 /\ first[n + 1][k + 1] = s /\ k \in Nat
          /\ \A j \in 1..k : first[n + 1][j] = first[n][j]
      <4>1. n + 1 \in positions /\ n \in 0..(Len(from) - 1)
        BY <2>6
      <4> HIDE DEF Fits, T, N
      <4> QED BY <1>2, <4>1, FrontsStep
    <3>2. /\ k + 1 <= Len(kept) /\ kept[k + 1] = s
          /\ \A j \in 1..k : kept[j] = first[n][j]
      <4>1. IsFront(first[n + 1], kept)
        BY <1>5, <2>1
      <4> HIDE DEF k, s
      <4> QED BY <3>1, <4>1 DEF IsFront
    <3>3. {kept[j] : j \in 1..k} = left
      <4>1. {first[n][j] : j \in 1..k} = left
        BY <1>6, <2>1 DEF HasTerms
      <4>2. {kept[j] : j \in 1..k} = {first[n][j] : j \in 1..k}
        <5> HIDE DEF k
        <5> QED BY <3>2
      <4> QED BY <4>1, <4>2
    <3> HIDE DEF k, s, before, left
    <3>4. g[k + 1] = JoinedWith(s, g[k], left, instead)
      <4>1. k + 1 \in 1..Len(kept) /\ (k + 1) - 1 = k
        BY <1>1, <3>1, <3>2
      <4>2. g[k + 1] = JoinedWith(kept[k + 1], g[(k + 1) - 1], {kept[j] : j \in 1..((k + 1) - 1)}, instead)
        BY <1>4, <4>1 DEF JoinFronts
      <4> QED BY <3>2, <3>3, <4>1, <4>2
    <3>5. AlikeLists(A, C, JoinedWith(s, f[n], before, relation), JoinedWith(s, g[k], left, instead))
      BY <2>3, <2>4, <2>5, <2>6, JoinedWithKept
    <3>6. Fits(n + 1)
      BY <2>2, <3>1, <3>4, <3>5
    <3> HIDE DEF Fits
    <3> QED BY <2>1, <3>6
  <2>7. CASE n + 1 \notin positions
    <3>1. first[n + 1] = first[n]
      BY <1>2, <2>7, FrontsStep
    <3> HIDE DEF s, before, left
    <3>2. AlikeLists(A, C, JoinedWith(s, f[n], before, relation), g[k])
      BY <2>3, <2>4, <2>7, JoinedWithGone
    <3>3. Fits(n + 1)
      BY <2>2, <3>1, <3>2
    <3> HIDE DEF Fits
    <3> QED BY <2>1, <3>3
  <2> QED BY <2>6, <2>7
<1>9. \A n \in 0..N : n \in T
  <2> HIDE DEF T
  <2> QED BY <1>1, <1>7, <1>8, UpTo
<1>10. Fits(N) /\ first[N] = kept
  BY <1>1, <1>2, <1>9 DEF Fronts, kept
<1>11. f[N] = Joined(from, relation) /\ g[Len(kept)] = Joined(kept, instead)
  BY <1>3, <1>4 DEF JoinFronts
<1> QED BY <1>10, <1>11 DEF kept

--------------------------------------------------------------------------------
(* What a block makes of its environments *)

\* What is picked is there if a place is.
LEMMA PickedSome ==
  ASSUME NEW terms, IsList(terms), NEW positions, NEW k \in positions \cap 1..Len(terms)
  PROVE  1 \in 1..Len(Picked(terms, positions))
<1> DEFINE N == Len(terms)
           w == Picked(terms, positions)
<1>1. N \in Nat /\ N \in 0..N
  BY ListFacts
<1>2. PICK first : Fronts(first, terms, positions)
  BY PickedFronts
<1>3. HasTerms(first[N], terms, positions \cap 1..N) /\ first[N] = w
  BY <1>1, <1>2, FrontsTerms DEF Fronts
<1>4. Len(w) \in Nat
  BY PickedList, ListFacts
<1> HIDE DEF w
<1>5. {w[j] : j \in 1..Len(w)} # {}
  BY <1>3 DEF HasTerms
<1>6. 1..Len(w) # {}
  BY <1>5
<1>7. 1 \in 1..Len(w)
  BY <1>4, <1>6
<1> QED BY <1>7 DEF w

\* Conditions that see none of A leave alike environments alike.
LEMMA FilteredAlike ==
  ASSUME NEW A, NEW C, NEW envs, NEW others, AlikeLists(A, C, envs, others),
         NEW terms, NEW relation, NEW instead, TermsFit(A, C, terms, relation, instead)
  PROVE  AlikeLists(A, C, Filtered(envs, terms, relation), Filtered(others, terms, instead))
<1> DEFINE p == {n \in DOMAIN envs : AllHold(terms, envs[n], relation)}
           o == {n \in DOMAIN others : AllHold(terms, others[n], instead)}
<1>1. /\ DOMAIN envs = 1..Len(envs) /\ DOMAIN others = 1..Len(envs)
      /\ \A n \in 1..Len(envs) : AlikeBut(A, C, envs[n], others[n])
  BY ListFacts DEF AlikeLists
<1>2. \A n \in 1..Len(envs) : AllHold(terms, envs[n], relation) = AllHold(terms, others[n], instead)
  BY <1>1, SameHold
<1>3. p = o
  BY <1>1, <1>2
<1>4. Filtered(envs, terms, relation) = Picked(envs, p) /\ Filtered(others, terms, instead) = Picked(others, o)
  BY DEF Filtered
<1> HIDE DEF p, o
<1> QED BY <1>3, <1>4, PickedAlikeLists

\* Groups that are alike, none of them empty.
AlikeGroups(A, C, p, o) ==
  /\ IsList(p) /\ IsList(o) /\ Len(p) = Len(o)
  /\ \A n \in 1..Len(p) : AlikeLists(A, C, p[n], o[n]) /\ 1 \in 1..Len(p[n])

\* So does a GROUP BY that sees none of A.
LEMMA GroupsAlike ==
  ASSUME NEW A, NEW C, NEW envs, NEW others, AlikeLists(A, C, envs, others),
         NEW by, \A ref \in ToSet(by) : Unseen(A, C, ref)
  PROVE  AlikeGroups(A, C, Groups(envs, by), Groups(others, by))
<1> DEFINE N == Len(envs)
<1>1. /\ N \in Nat /\ DOMAIN envs = 1..N /\ DOMAIN others = 1..N
      /\ IsList(envs) /\ IsList(others) /\ Len(others) = N
      /\ \A n \in 1..N : AlikeBut(A, C, envs[n], others[n])
  BY ListFacts DEF AlikeLists
<1>2. CASE by = <<>>
  <2> DEFINE p == [n \in DOMAIN envs |-> <<envs[n]>>]
             o == [n \in DOMAIN others |-> <<others[n]>>]
  <2>1. Groups(envs, by) = p /\ Groups(others, by) = o
    BY <1>2 DEF Groups
  <2>2. \A n \in 1..N : p[n] = <<envs[n]>> /\ o[n] = <<others[n]>>
    BY <1>1
  <2>3. p = [n \in 1..N |-> p[n]] /\ o = [n \in 1..N |-> o[n]]
    BY <1>1
  <2> HIDE DEF p, o, N
  <2>4. IsList(p) /\ Len(p) = N /\ IsList(o) /\ Len(o) = N
    BY <1>1, <2>3, ListOf
  <2>5. \A x : 1 \in 1..Len(<<x>>)
    OBVIOUS
  <2>6. \A n \in 1..N : AlikeLists(A, C, p[n], o[n]) /\ 1 \in 1..Len(p[n])
    BY <1>1, <2>2, <2>5, SingleAlike
  <2>7. AlikeGroups(A, C, p, o)
    BY <2>4, <2>6 DEF AlikeGroups
  <2> QED BY <2>1, <2>7
<1>3. CASE by # <<>>
  <2> DEFINE key(e) == [m \in DOMAIN by |-> Value(e, by[m])]
             keys == [n \in DOMAIN envs |-> key(envs[n])]
             locks == [n \in DOMAIN others |-> key(others[n])]
             heads == FirstOf(keys, keys)
             with(h) == {n \in DOMAIN envs : keys[n] = heads[h]}
             p == [h \in DOMAIN heads |-> Picked(envs, with(h))]
             o == [h \in DOMAIN heads |-> Picked(others, with(h))]
             K == Len(heads)
  <2>1. \A n \in 1..N : key(envs[n]) = key(others[n])
    <3> TAKE n \in 1..N
    <3>1. \A m \in DOMAIN by : Value(envs[n], by[m]) = Value(others[n], by[m])
      <4> TAKE m \in DOMAIN by
      <4>1. by[m] \in ToSet(by)
        BY DEF ToSet
      <4> QED BY <1>1, <4>1, SameValue
    <3> QED BY <3>1
  <2>2. keys = locks
    <3> HIDE DEF key
    <3> QED BY <1>1, <2>1
  <2>3. Groups(envs, by) = p
    BY <1>3 DEF Groups
  <2>4. Groups(others, by) = [h \in DOMAIN FirstOf(locks, locks) |->
                                Picked(others, {n \in DOMAIN others : locks[n] = FirstOf(locks, locks)[h]})]
    BY <1>3 DEF Groups
  <2>5. IsList(keys) /\ Len(keys) = N /\ DOMAIN keys = 1..N
    <3>1. keys = [n \in 1..N |-> keys[n]]
      BY <1>1
    <3> HIDE DEF keys, N
    <3> QED BY <1>1, <3>1, ListOf, ListFacts
  <2> HIDE DEF keys, locks
  <2>6. Groups(others, by) = o
    <3>1. DOMAIN envs = DOMAIN others
      BY <1>1
    <3> QED BY <2>2, <2>4, <3>1
  <2>7. IsList(heads) /\ ToSet(heads) \subseteq {keys[n] : n \in DOMAIN keys}
    BY <2>5, PickedList DEF FirstOf
  <2> HIDE DEF heads
  <2>8. K \in Nat /\ DOMAIN heads = 1..K
    BY <2>7, ListFacts
  <2>9. \A h \in 1..K : \E k \in 1..N : k \in with(h)
    <3> TAKE h \in 1..K
    <3>1. heads[h] \in ToSet(heads)
      BY <2>8 DEF ToSet
    <3> QED BY <1>1, <2>5, <2>7, <3>1
  <2> HIDE DEF with
  <2>10. \A h \in 1..K : p[h] = Picked(envs, with(h)) /\ o[h] = Picked(others, with(h))
    BY <2>8
  <2>11. p = [h \in 1..K |-> p[h]] /\ o = [h \in 1..K |-> o[h]]
    BY <2>8
  <2> HIDE DEF p, o, K, N
  <2>12. IsList(p) /\ Len(p) = K /\ IsList(o) /\ Len(o) = K
    BY <2>8, <2>11, ListOf
  <2>13. \A h \in 1..K : AlikeLists(A, C, p[h], o[h])
    BY <2>10, PickedAlikeLists
  <2>14. \A h \in 1..K : 1 \in 1..Len(p[h])
    <3> TAKE h \in 1..K
    <3>1. PICK k : k \in with(h) \cap 1..Len(envs)
      BY <2>9 DEF N
    <3> QED BY <1>1, <2>10, <3>1, PickedSome
  <2>15. AlikeGroups(A, C, p, o)
    BY <2>12, <2>13, <2>14 DEF AlikeGroups
  <2> QED BY <2>3, <2>6, <2>15
<1> QED BY <1>2, <1>3

\* So does a HAVING.
LEMMA PickedAlikeGroups ==
  ASSUME NEW A, NEW C, NEW p, NEW o, AlikeGroups(A, C, p, o), NEW positions
  PROVE  AlikeGroups(A, C, Picked(p, positions), Picked(o, positions))
<1>1. IsList(p) /\ IsList(o) /\ Len(p) = Len(o)
  BY DEF AlikeGroups
<1>2. IsList(Picked(p, positions)) /\ IsList(Picked(o, positions))
  BY <1>1, PickedList
<1>3. SamePicks(Picked(p, positions), Picked(o, positions), p, o, positions)
  BY <1>1, PickedAlike
<1>4. \A k \in 1..Len(p) : AlikeLists(A, C, p[k], o[k]) /\ 1 \in 1..Len(p[k])
  BY DEF AlikeGroups
<1> DEFINE x == Picked(p, positions) y == Picked(o, positions)
<1>5. \A n \in 1..Len(x) : \E k \in 1..Len(p) : x[n] = p[k] /\ y[n] = o[k]
  BY <1>3 DEF SamePicks
<1> HIDE DEF x, y
<1>6. \A n \in 1..Len(x) : AlikeLists(A, C, x[n], y[n]) /\ 1 \in 1..Len(x[n])
  <2> TAKE n \in 1..Len(x)
  <2>1. PICK k \in 1..Len(p) : x[n] = p[k] /\ y[n] = o[k]
    BY <1>5
  <2> QED BY <1>4, <2>1
<1> QED BY <1>2, <1>3, <1>6 DEF AlikeGroups, SamePicks, x, y

\* And the rows selected from them are the same.
LEMMA SelectedAlike ==
  ASSUME NEW A, NEW C, NEW p, NEW o, AlikeGroups(A, C, p, o), NEW blk, NEW rest, rest.out = blk.out,
         \A x \in ToSet(blk.out) : IsColumn(x.val) => Unseen(A, C, x.val)
  PROVE  Selected(blk, p) = Selected(rest, o) /\ IsList(Selected(blk, p))
<1> DEFINE val(g, n, x) == CASE IsColumn(x.val) -> Value(g[n][1], x.val)
                             [] x.val = <<"count">> -> Len(g[n])
                             [] x.val = <<"rank">> -> n
                             [] OTHER -> 1
           row(g, n) == [i \in DOMAIN blk.out |-> val(g, n, blk.out[i])]
           f == Selected(blk, p) N == Len(p)
<1>1. /\ N \in Nat /\ DOMAIN p = 1..N /\ DOMAIN o = 1..N
      /\ \A n \in 1..N : AlikeLists(A, C, p[n], o[n]) /\ 1 \in 1..Len(p[n])
  BY ListFacts DEF AlikeGroups
<1>2. f = [n \in DOMAIN p |-> row(p, n)] /\ Selected(rest, o) = [n \in DOMAIN o |-> row(o, n)]
  BY DEF Selected
<1>3. ASSUME NEW n \in 1..N PROVE row(p, n) = row(o, n)
  <2>1. AlikeBut(A, C, p[n][1], o[n][1]) /\ Len(p[n]) = Len(o[n])
    BY <1>1 DEF AlikeLists
  <2>2. ASSUME NEW i \in DOMAIN blk.out PROVE val(p, n, blk.out[i]) = val(o, n, blk.out[i])
    <3> DEFINE x == blk.out[i]
    <3>1. x \in ToSet(blk.out)
      BY DEF ToSet
    <3>2. IsColumn(x.val) => Value(p[n][1], x.val) = Value(o[n][1], x.val)
      BY <2>1, <3>1, SameValue
    <3> HIDE DEF x
    <3>3. val(p, n, x) = val(o, n, x)
      BY <2>1, <3>2
    <3> QED BY <3>3 DEF x
  <2> HIDE DEF val
  <2> QED BY <2>2
<1> HIDE DEF row, f, N
<1>4. f = [n \in 1..N |-> f[n]]
  BY <1>1, <1>2
<1>5. IsList(f)
  BY <1>1, <1>4, ListOf
<1>6. f = Selected(rest, o)
  BY <1>1, <1>2, <1>3
<1> QED BY <1>5, <1>6 DEF f

(* What a block must be so that it returns the same without the sources outside
   positions. *)
BlockFits(A, C, blk, positions, relation, instead) ==
  /\ IsList(blk.from)
  /\ SourcesFit(A, C, blk.from, positions, relation, instead)
  /\ TermsFit(A, C, blk.where, relation, instead)
  /\ \A ref \in ToSet(blk.group) : Unseen(A, C, ref)
  /\ \A x \in ToSet(blk.out) : IsColumn(x.val) => Unseen(A, C, x.val)

\* But for its sources the one is as the other.
Cut(blk, rest, positions) ==
  /\ rest.from = Picked(blk.from, positions)
  /\ rest.where = blk.where /\ rest.group = blk.group /\ rest.out = blk.out
  /\ rest.having = blk.having /\ rest.distinct = blk.distinct /\ rest.limit = blk.limit

\* Such a block returns the same without these sources.
LEMMA EvaluatedAlike ==
  ASSUME NEW A, NEW C, NEW blk, NEW positions, NEW rest, Cut(blk, rest, positions),
         NEW relation, NEW instead, BlockFits(A, C, blk, positions, relation, instead)
  PROVE  Evaluated(blk, relation) = Evaluated(rest, instead) /\ IsList(Evaluated(blk, relation).rows)
<1> DEFINE p == Groups(Filtered(Joined(blk.from, relation), blk.where, relation), blk.group)
           o == Groups(Filtered(Joined(rest.from, instead), rest.where, instead), rest.group)
           P == {n \in DOMAIN p : blk.having => Len(p[n]) > 1}
           O == {n \in DOMAIN o : blk.having => Len(o[n]) > 1}
           rows == Selected(blk, Picked(p, P))
           lines == Selected(rest, Picked(o, O))
           keys(r) == CASE blk.distinct = "no" -> [n \in DOMAIN r |-> n]
                        [] blk.distinct = "on" -> [n \in DOMAIN r |-> r[n][1]]
                        [] OTHER -> r
           distinct(r) == FirstOf(r, keys(r))
           Made(r) == [cols |-> [i \in DOMAIN blk.out |-> blk.out[i].name],
                       rows |-> IF blk.limit THEN Picked(distinct(r), {1}) ELSE distinct(r)]
<1>1. AlikeLists(A, C, Joined(blk.from, relation), Joined(rest.from, instead))
  BY JoinedAlike DEF BlockFits, Cut
<1>2. AlikeLists(A, C, Filtered(Joined(blk.from, relation), blk.where, relation),
                       Filtered(Joined(rest.from, instead), rest.where, instead))
  BY <1>1, FilteredAlike DEF BlockFits, Cut
<1>3. AlikeGroups(A, C, p, o)
  BY <1>2, GroupsAlike DEF BlockFits, Cut
<1>4. Evaluated(blk, relation) = Made(rows)
  BY DEF Evaluated, HavingGroups, DistinctRows, LimitedRows
<1>5. Evaluated(rest, instead) = Made(lines)
  BY DEF Evaluated, HavingGroups, DistinctRows, LimitedRows, Cut
<1> HIDE DEF p, o
<1>6. P = O
  <2>1. /\ DOMAIN p = 1..Len(p) /\ DOMAIN o = 1..Len(p)
        /\ \A n \in 1..Len(p) : Len(p[n]) = Len(o[n])
    BY <1>3, ListFacts DEF AlikeGroups, AlikeLists
  <2> QED BY <2>1
<1> HIDE DEF P, O
<1>7. AlikeGroups(A, C, Picked(p, P), Picked(o, O))
  BY <1>3, <1>6, PickedAlikeGroups
<1>8. rows = lines /\ IsList(rows)
  BY <1>7, SelectedAlike DEF BlockFits, Cut
<1> HIDE DEF rows, lines, keys
<1>9. IsList(distinct(rows))
  BY <1>8, PickedList DEF FirstOf
<1> HIDE DEF distinct
<1>10. IsList(Picked(distinct(rows), {1}))
  BY <1>9, PickedList
<1>11. IsList(Made(rows).rows)
  BY <1>9, <1>10
<1> HIDE DEF Made
<1> QED BY <1>4, <1>5, <1>8, <1>11

--------------------------------------------------------------------------------
(* What is picked from a list, place by place *)

\* place gives where in terms each picked one was: in order, and none left out.
PickedAt(place, w, terms, positions) ==
  /\ \A k \in 1..Len(w) : place[k] \in positions \cap 1..Len(terms) /\ w[k] = terms[place[k]]
  /\ \A k, l \in 1..Len(w) : k < l => place[k] < place[l]
  /\ \A i \in positions \cap 1..Len(terms) : \E k \in 1..Len(w) : place[k] = i

\* There is such a function.
LEMMA PickedPlaces ==
  ASSUME NEW terms, IsList(terms), NEW positions
  PROVE  \E place : PickedAt(place, Picked(terms, positions), terms, positions)
<1> DEFINE N == Len(terms)
           Placed(f, w, n) ==
             /\ \A k \in 1..Len(w) : f[k] \in positions \cap 1..n /\ w[k] = terms[f[k]]
             /\ \A k, l \in 1..Len(w) : k < l => f[k] < f[l]
             /\ \A i \in positions \cap 1..n : \E k \in 1..Len(w) : f[k] = i
<1>1. N \in Nat
  BY ListFacts
<1>2. PICK first : Fronts(first, terms, positions)
  BY PickedFronts
<1> DEFINE Fits(n) == \E f : Placed(f, first[n], n)
           T == {n \in 0..N : Fits(n)}
<1>3. 0 \in T
  <2>1. Len(first[0]) = 0
    BY <1>2 DEF Fronts
  <2>2. Placed(<<>>, first[0], 0)
    BY <2>1
  <2>3. Fits(0)
    <3> HIDE DEF Placed
    <3> QED BY <2>2
  <2> HIDE DEF Fits
  <2> QED BY <1>1, <2>3
<1>4. \A n \in 0..(N - 1) : n \in T => n + 1 \in T
  <2> SUFFICES ASSUME NEW n \in 0..(N - 1), n \in T PROVE n + 1 \in T
    OBVIOUS
  <2>1. n + 1 \in 1..N /\ n + 1 \in 0..N /\ n \in Nat /\ 1..(n + 1) = (1..n) \cup {n + 1}
    BY <1>1
  <2>2. PICK f : Placed(f, first[n], n)
    <3> HIDE DEF Placed
    <3> QED OBVIOUS
  <2>3. CASE n + 1 \in positions
    <3> DEFINE K == Len(first[n])
               w == first[n] u == first[n + 1]
               g == [k \in 1..(K + 1) |-> IF k = K + 1 THEN n + 1 ELSE f[k]]
    <3>1. /\ K \in Nat /\ Len(u) = K + 1 /\ u[K + 1] = terms[n + 1]
          /\ \A j \in 1..K : u[j] = w[j]
      BY <1>2, <2>3, FrontsStep
    <3>2. /\ \A k \in 1..K : f[k] \in positions \cap 1..n /\ w[k] = terms[f[k]]
          /\ \A k, l \in 1..K : k < l => f[k] < f[l]
          /\ \A i \in positions \cap 1..n : \E k \in 1..K : f[k] = i
      BY <2>2
    <3> HIDE DEF K, w, u
    <3>3. /\ g[K + 1] = n + 1 /\ \A k \in 1..K : g[k] = f[k]
          /\ 1..(K + 1) = (1..K) \cup {K + 1}
      BY <3>1
    <3> HIDE DEF g
    <3>4. \A k \in 1..(K + 1) : g[k] \in positions \cap 1..(n + 1) /\ u[k] = terms[g[k]]
      BY <2>1, <2>3, <3>1, <3>2, <3>3
    <3>5. ASSUME NEW k \in 1..(K + 1), NEW l \in 1..(K + 1), k < l PROVE g[k] < g[l]
      <4>1. k \in 1..K
        BY <3>1, <3>5
      <4>2. CASE l = K + 1
        BY <2>1, <3>2, <3>3, <4>1, <4>2
      <4>3. CASE l # K + 1
        <5>1. l \in 1..K
          BY <3>1, <4>3
        <5> QED BY <3>2, <3>3, <3>5, <4>1, <5>1
      <4> QED BY <4>2, <4>3
    <3>6. \A i \in positions \cap 1..(n + 1) : \E k \in 1..(K + 1) : g[k] = i
      BY <2>1, <3>2, <3>3
    <3>7. Placed(g, u, n + 1)
      BY <3>1, <3>4, <3>5, <3>6
    <3>8. Fits(n + 1)
      <4> HIDE DEF Placed
      <4> QED BY <3>7 DEF u
    <3> HIDE DEF Fits
    <3> QED BY <2>1, <3>8
  <2>4. CASE n + 1 \notin positions
    <3>1. first[n + 1] = first[n]
      BY <1>2, <2>4, FrontsStep
    <3>2. positions \cap 1..(n + 1) = positions \cap 1..n
      BY <2>1, <2>4
    <3>3. Placed(f, first[n + 1], n + 1)
      BY <2>2, <3>1, <3>2
    <3>4. Fits(n + 1)
      <4> HIDE DEF Placed
      <4> QED BY <3>3
    <3> HIDE DEF Fits
    <3> QED BY <2>1, <3>4
  <2> QED BY <2>3, <2>4
<1>5. \A n \in 0..N : n \in T
  <2> HIDE DEF T
  <2> QED BY <1>1, <1>3, <1>4, UpTo
<1>6. Fits(N) /\ first[N] = Picked(terms, positions)
  <2> HIDE DEF Fits
  <2>1. Fits(N)
    BY <1>1, <1>5
  <2> QED BY <1>2, <2>1 DEF Fronts
<1>7. PICK f : Placed(f, first[N], N)
  <2> HIDE DEF Placed
  <2> QED BY <1>6
<1>8. PickedAt(f, first[N], terms, positions)
  BY <1>7 DEF PickedAt
<1> HIDE DEF Placed
<1> QED BY <1>6, <1>8

--------------------------------------------------------------------------------
(* What a source stands for *)

\* The rows of a body are a list if those of its parts are.
LEMMA CombinedList ==
  ASSUME NEW body, IsSelectBody(body), NEW f, \A p \in ToSet(body.parts) : IsList(f[p].rows)
  PROVE  IsList(Combined(body.op, [n \in DOMAIN body.parts |-> f[body.parts[n]]]).rows)
<1> DEFINE parts == [n \in DOMAIN body.parts |-> f[body.parts[n]]]
           N == Len(body.parts)
           seqs == [n \in DOMAIN parts |-> parts[n].rows]
           rows == FlattenSeq(seqs)
           left == Distinct(parts[1].rows)
<1>1. /\ N \in Nat /\ DOMAIN body.parts = 1..N /\ 1 \in 1..N
      /\ body.op \in {"simple", "union", "union all", "except"}
  BY ListFacts DEF IsSelectBody
<1>2. \A n \in 1..N : parts[n] = f[body.parts[n]] /\ IsList(parts[n].rows)
  <2> TAKE n \in 1..N
  <2>1. body.parts[n] \in ToSet(body.parts)
    BY <1>1 DEF ToSet
  <2> QED BY <1>1, <2>1
<1>3. DOMAIN parts = 1..N
  BY <1>1
<1>4. Combined(body.op, parts).rows = CASE body.op \in {"simple", "union all"} -> rows
                                        [] body.op = "union" -> Distinct(rows)
                                        [] OTHER -> Picked(left, {n \in DOMAIN left : left[n] \notin ToSet(parts[2].rows)})
  BY DEF Combined
<1> HIDE DEF parts, N
<1>5. \A n \in 1..N : seqs[n] = parts[n].rows
  BY <1>3
<1>6. seqs = [n \in 1..N |-> seqs[n]]
  BY <1>3
<1> HIDE DEF seqs
<1>7. IsList(seqs) /\ Len(seqs) = N
  BY <1>1, <1>6, ListOf
<1>8. PICK V : seqs \in Seq(Seq(V))
  BY <1>2, <1>5, <1>7, ListsOfLists
<1>9. rows \in Seq(V)
  BY <1>8, FlattenedList
<1>10. IsList(rows)
  BY <1>9, SeqIsList
<1> HIDE DEF rows
<1>11. \A x : IsList(x) => IsList(Distinct(x))
  BY PickedList DEF Distinct, FirstOf
<1>12. IsList(left)
  BY <1>1, <1>2, <1>11
<1> HIDE DEF left
<1>13. IsList(Picked(left, {n \in DOMAIN left : left[n] \notin ToSet(parts[2].rows)}))
  BY <1>12, PickedList
<1>14. IsList(Combined(body.op, parts).rows)
  BY <1>4, <1>10, <1>11, <1>13
<1> QED BY <1>14 DEF parts

\* A table that a block reads is one of the database's.
ReadsTables(q, b) ==
  \A s \in Sources(q.block[b]) : s.name # "" => IsRelation(q, b, s.name)

\* A source is a table, or its body a SELECT.
LEMMA BodyOrTable ==
  ASSUME NEW q, NEW N \in Nat, IsWhole(q, N), NEW b \in DOMAIN q.block, ReadsTables(q, b),
         NEW s \in Sources(q.block[b])
  PROVE  \/ ReadBody(q, b, s) = NoBody /\ s.name \in DOMAIN TableColumns
         \/ ReadBody(q, b, s) # NoBody /\ IsSelectBody(ReadBody(q, b, s))
<1>0. ASSUME NEW body, IsSelectBody(body) PROVE body # NoBody
  <2>1. body.op # "none" /\ NoBody.op = "none"
    BY <1>0 DEF IsSelectBody, NoBody
  <2> QED BY <2>1
<1>1. CASE s.name = ""
  <2>1. IsSelectBody(s.body)
    BY <1>1 DEF IsWhole, IsBlock, DerivedTables
  <2> QED BY <1>0, <1>1, <2>1 DEF ReadBody
<1>2. CASE s.name # "" /\ VisibleCtes(q, q.block[b].scope, s.name) = {}
  <2>1. s.name \in DOMAIN TableColumns
    BY <1>2 DEF ReadsTables, IsRelation
  <2> QED BY <1>2, <2>1 DEF ReadBody, NamedBody
<1>3. CASE s.name # "" /\ VisibleCtes(q, q.block[b].scope, s.name) # {}
  <2>1. Last1(VisibleCtes(q, q.block[b].scope, s.name)) \in DOMAIN q.ctes
    BY <1>3, VisibleOne
  <2>2. IsSelectBody(q.ctes[Last1(VisibleCtes(q, q.block[b].scope, s.name))].body)
    BY <2>1 DEF IsWhole
  <2> QED BY <1>0, <1>3, <2>2 DEF ReadBody, NamedBody
<1> QED BY <1>1, <1>2, <1>3

\* So are the rows of a source.
LEMMA SourceList ==
  ASSUME NEW q, NEW N \in Nat, IsWhole(q, N), NEW b \in DOMAIN q.block, ReadsTables(q, b),
         NEW s \in Sources(q.block[b]), NEW db \in Databases, NEW f,
         \A p \in ToSet(ReadBody(q, b, s).parts) : IsList(f[p].rows)
  PROVE  IsList(SourceRelation(q, db, f, b, s).rows)
<1> DEFINE body == ReadBody(q, b, s)
<1>1. CASE body = NoBody
  <2>1. s.name \in DOMAIN TableColumns
    BY <1>1, BodyOrTable
  <2>2. IsList(db[s.name])
    BY <2>1, SchemaAssumption DEF SchemaAssumption
  <2> QED BY <1>1, <2>2 DEF SourceRelation
<1>2. CASE body # NoBody
  <2>1. IsSelectBody(body)
    BY <1>2, BodyOrTable
  <2>2. SourceRelation(q, db, f, b, s) = Combined(body.op, [n \in DOMAIN body.parts |-> f[body.parts[n]]])
    BY <1>2 DEF SourceRelation
  <2>3. \A p \in ToSet(body.parts) : IsList(f[p].rows)
    OBVIOUS
  <2> HIDE DEF body
  <2> QED BY <2>1, <2>2, <2>3, CombinedList
<1> QED BY <1>1, <1>2

--------------------------------------------------------------------------------
(* The joins that go *)

\* The references of a block outside the ON of its source i.
KeptRefs(blk, i) ==
  {x.val : x \in {x \in ToSet(blk.out) : IsColumn(x.val)}}
    \cup ToSet(blk.group)
    \cup (UNION {ToSet(t.refs) : t \in ToSet(blk.where)})
    \cup UNION {ToSet(t.refs) : t \in UNION {ToSet(blk.from[j].on) : j \in (DOMAIN blk.from) \ {i}}}

\* What ~MissedUse says of a join that goes.
LEMMA UseIsSeen ==
  ASSUME NEW q, ~MissedUse(q), NEW i \in DOMAIN q.block[1].from, q.block[1].from[i].join = "left"
  PROVE  LET blk == q.block[1]
             s == blk.from[i]
         IN  /\ \A t \in TermsOf(blk) : t.op = "between" => \A ref \in ToSet(t.refs) : ref[1] \notin Identifiers(s)
             /\ \A x \in ToSet(blk.out) : IsColumn(x.val) /\ x.val[1] = "" => x.val[2] \notin ColumnsOf(q, 1, s)
             /\ \A ref \in ToSet(blk.group) : ref[1] = "" => ref[2] \notin ColumnsOf(q, 1, s)
             /\ \A t \in TermsOf(blk) : \A ref \in ToSet(t.refs) : ref[1] = "" => ref[2] \notin ColumnsOf(q, 1, s)
             /\ \E t \in ToSet(s.on) : \E ref \in ToSet(t.refs) : ref[1] # s.alias
             /\ \A j \in (DOMAIN blk.from) \ {i} : blk.from[j].alias \notin Identifiers(s)
             /\ s.name \in DOMAIN Schema => VisibleCtes(q, blk.scope, s.name) = {}
<1> DEFINE blk == q.block[1]
           s == blk.from[i]
           all(terms) == UNION {ToSet(t.refs) : t \in terms}
           refs == {x.val : x \in {x \in ToSet(blk.out) : IsColumn(x.val)}} \cup ToSet(blk.group) \cup all(TermsOf(blk))
<1>1. ~\/ \E r \in all({t \in TermsOf(blk) : t.op = "between"}) : r[1] \in Identifiers(s)
       \/ \E r \in refs : r[1] = "" /\ r[2] \in ColumnsOf(q, 1, s)
       \/ \A r \in all(ToSet(s.on)) : r[1] = s.alias
       \/ \E j \in (DOMAIN blk.from) \ {i} : blk.from[j].alias \in Identifiers(s)
       \/ VisibleCtes(q, blk.scope, s.name) # {} /\ s.name \in DOMAIN Schema
  BY DEF MissedUse
<1> QED BY <1>1

\* The table of a join that goes, and its references.
LEMMA GoneTable ==
  ASSUME NEW q, NEW N \in Nat, IsWhole(q, N), ~MissedUse(q),
         NEW i \in DOMAIN q.block[1].from, ShouldRemoveJoin(q, i)
  PROVE  LET blk == q.block[1]
             s == blk.from[i]
         IN  /\ s.name \in DOMAIN Schema /\ s.name # "" /\ s.name \in DOMAIN TableColumns /\ s.join = "left"
             /\ VisibleCtes(q, blk.scope, s.name) = {} /\ ReadBody(q, 1, s) = NoBody
             /\ ColumnsOf(q, 1, s) = ToSet(TableColumns[s.name])
             /\ \A j \in (DOMAIN blk.from) \ {i} : blk.from[j].alias \notin Identifiers(s)
             /\ \A ref \in KeptRefs(blk, i) :
                  ref[1] \notin Identifiers(s) /\ (ref[1] = "" => ref[2] \notin ToSet(TableColumns[s.name]))
<1> DEFINE blk == q.block[1]
           s == blk.from[i]
           beside == ReferencesBeside(q, i)
<1>1. s.join = "left" /\ s.name \in DOMAIN Schema /\ \A ref \in beside : ref[1] \notin Identifiers(s)
  BY DEF ShouldRemoveJoin
<1>2. s.name # "" /\ s.name \in DOMAIN TableColumns
  BY <1>1, SchemaAssumption DEF SchemaAssumption
<1>3. VisibleCtes(q, blk.scope, s.name) = {} /\ \A j \in (DOMAIN blk.from) \ {i} : blk.from[j].alias \notin Identifiers(s)
  BY <1>1, UseIsSeen
<1>4. ReadBody(q, 1, s) = NoBody
  BY <1>2, <1>3 DEF ReadBody, NamedBody
<1>5. ColumnsOf(q, 1, s) = ToSet(TableColumns[s.name])
  BY <1>2, <1>3 DEF ColumnsOf
<1>6. ASSUME NEW t \in TermsOf(blk), NEW ref \in ToSet(t.refs), t.op # "between" => ref \in beside
      PROVE  ref[1] \notin Identifiers(s) /\ (ref[1] = "" => ref[2] \notin ColumnsOf(q, 1, s))
  <2>1. CASE t.op = "between"
    BY <1>1, <1>6, <2>1, UseIsSeen
  <2>2. CASE t.op # "between"
    BY <1>1, <1>6, <2>2, UseIsSeen
  <2> QED BY <2>1, <2>2
<1>7. /\ {x.val : x \in {x \in ToSet(blk.out) : IsColumn(x.val)}} \subseteq beside
      /\ ToSet(blk.group) \subseteq beside /\ TermRefs(blk.where) \subseteq beside
      /\ \A j \in (DOMAIN blk.from) \ {i} : TermRefs(blk.from[j].on) \subseteq beside
  <2>1. 1 \in Blocks(q)
    BY RootIsRead DEF IsWhole
  <2> QED BY <2>1 DEF ReferencesBeside
<1> HIDE DEF beside
<1>8. ASSUME NEW ref \in KeptRefs(blk, i)
      PROVE  ref[1] \notin Identifiers(s) /\ (ref[1] = "" => ref[2] \notin ColumnsOf(q, 1, s))
  <2>1. CASE ref \in {x.val : x \in {x \in ToSet(blk.out) : IsColumn(x.val)}}
    BY <1>1, <1>7, <2>1, UseIsSeen
  <2>2. CASE ref \in ToSet(blk.group)
    BY <1>1, <1>7, <2>2, UseIsSeen
  <2>3. CASE \E t \in ToSet(blk.where) : ref \in ToSet(t.refs)
    <3>1. PICK t \in ToSet(blk.where) : ref \in ToSet(t.refs)
      BY <2>3
    <3>2. t \in TermsOf(blk) /\ (t.op # "between" => ref \in TermRefs(blk.where))
      BY <3>1 DEF TermsOf, TermRefs
    <3> QED BY <1>6, <1>7, <3>1, <3>2
  <2>4. CASE \E j \in (DOMAIN blk.from) \ {i} : \E t \in ToSet(blk.from[j].on) : ref \in ToSet(t.refs)
    <3>1. PICK j \in (DOMAIN blk.from) \ {i} : \E t \in ToSet(blk.from[j].on) : ref \in ToSet(t.refs)
      BY <2>4
    <3>2. PICK t \in ToSet(blk.from[j].on) : ref \in ToSet(t.refs)
      BY <3>1
    <3>3. t \in TermsOf(blk) /\ (t.op # "between" => ref \in TermRefs(blk.from[j].on))
      BY <3>2 DEF TermsOf, TermRefs, ToSet
    <3> QED BY <1>6, <1>7, <3>2, <3>3
  <2>5. \/ ref \in {x.val : x \in {x \in ToSet(blk.out) : IsColumn(x.val)}}
        \/ ref \in ToSet(blk.group)
        \/ \E t \in ToSet(blk.where) : ref \in ToSet(t.refs)
        \/ \E j \in (DOMAIN blk.from) \ {i} : \E t \in ToSet(blk.from[j].on) : ref \in ToSet(t.refs)
    <3> HIDE DEF blk
    <3>1. ref \in KeptRefs(blk, i)
      BY <1>8 DEF blk
    <3> QED BY <3>1, Zenon DEF KeptRefs
  <2> HIDE DEF blk, s
  <2> QED BY <2>1, <2>2, <2>3, <2>4, <2>5
<1> QED BY <1>1, <1>2, <1>3, <1>4, <1>5, <1>8

\* Its ON equates a key of it with something else.
RefersTo(ref, alias, col) == alias # "" /\ ref[1] = alias /\ ref[2] = col

\* The ON of s is one equation, of its column key with something that is not of s.
JoinsByKey(s, cols, key) ==
  /\ IsList(s.on) /\ Len(s.on) = 1 /\ s.on[1].op = "same"
  /\ \E own, other \in {1, 2} :
       /\ own # other /\ RefersTo(s.on[1].refs[own], s.alias, key)
       /\ Unseen({s.alias}, cols, s.on[1].refs[other])

LEMMA GoneKey ==
  ASSUME NEW q, NEW N \in Nat, IsWhole(q, N), ~MissedUse(q), BlockIsWellScoped(q, 1),
         NEW i \in DOMAIN q.block[1].from, ShouldRemoveJoin(q, i)
  PROVE  LET s == q.block[1].from[i]
             cols == ToSet(TableColumns[s.name])
         IN  \E key \in Schema[s.name].keys \cap cols : JoinsByKey(s, cols, key)
<1> DEFINE blk == q.block[1]
           s == blk.from[i]
           refs == s.on[1].refs
           cols == ToSet(TableColumns[s.name])
           own == {n \in DOMAIN refs : refs[n][1] \in Identifiers(s)}
<1>0. /\ s.name \in DOMAIN Schema /\ s.name # "" /\ s.join = "left"
      /\ ColumnsOf(q, 1, s) = cols
      /\ \A j \in (DOMAIN blk.from) \ {i} : blk.from[j].alias \notin Identifiers(s)
  BY GoneTable
<1>1. PICK key \in JoinColumn(s) : key \in Schema[s.name].columns \cap Schema[s.name].keys
  BY DEF ShouldRemoveJoin
<1>2. Len(s.on) = 1 /\ s.on[1].op = "same"
  BY <1>1 DEF JoinColumn
<1>3. IsBlock(q, 1) /\ s \in ToSet(blk.from) /\ DOMAIN blk.from = 1..Len(blk.from) /\ Len(blk.from) \in Nat
  BY ListFacts DEF IsWhole, IsBlock, ToSet
<1>4. s.alias # "" /\ IsList(s.on)
  BY <1>3 DEF IsBlock
<1>5. s.on[1] \in ToSet(s.on) /\ s.on[1] \in TermsOf(blk) /\ \A t \in ToSet(s.on) : t = s.on[1]
  <2>1. DOMAIN s.on = 1..1
    BY <1>2, <1>4, ListFacts
  <2>2. \A n \in DOMAIN s.on : n = 1
    BY <2>1
  <2>3. s.on[1] \in ToSet(s.on) /\ \A t \in ToSet(s.on) : t = s.on[1]
    BY <2>1, <2>2 DEF ToSet
  <2> QED BY <1>3, <2>3 DEF TermsOf
<1>6. DOMAIN refs = 1..2
  <2>1. IsTerm(s.on[1])
    BY <1>3, <1>5 DEF IsBlock
  <2> QED BY <1>2, <2>1, ListFacts DEF IsTerm
<1>7. PICK k \in own : key = refs[k][2]
  <2>1. JoinColumn(s) = {refs[n][2] : n \in {n \in own : \A m \in own : n <= m}}
    BY <1>2 DEF JoinColumn
  <2> HIDE DEF own, refs
  <2> QED BY <1>1, <2>1
<1>8. k \in {1, 2} /\ refs[k][1] \in Identifiers(s)
  <2>1. k \in DOMAIN refs /\ refs[k][1] \in Identifiers(s)
    BY <1>7
  <2>2. k \in 1..2
    BY <1>6, <2>1
  <2>3. k = 1 \/ k = 2
    BY <2>2
  <2> QED BY <2>1, <2>3, Zenon
<1>9. refs[k][1] = s.alias
  <2>1. SUFFICES ASSUME refs[k][1] = s.name, s.name # s.alias PROVE FALSE
    BY <1>8 DEF Identifiers
  <2>2. refs[k] \in ToSet(s.on[1].refs)
    BY <1>6, <1>8 DEF ToSet
  <2>3. \E j \in 1..i : refs[k][1] \in {"", blk.from[j].alias}
    BY <1>2, <1>5, <2>2 DEF BlockIsWellScoped
  <2>4. PICK j \in 1..i : blk.from[j].alias = s.name
    BY <1>0, <2>1, <2>3
  <2>5. j \in (DOMAIN blk.from) \ {i}
    BY <1>3, <2>1, <2>4
  <2> QED BY <1>0, <2>4, <2>5 DEF Identifiers
<1> DEFINE e == IF k = 1 THEN 2 ELSE 1
<1>10. e \in {1, 2} /\ e # k /\ \A n \in 1..2 : n = k \/ n = e
  BY <1>8
<1> HIDE DEF e
<1>11. refs[e] \in ToSet(s.on[1].refs)
  <2>1. e \in 1..2
    BY <1>10
  <2>2. e \in DOMAIN refs
    BY <1>6, <2>1, Zenon
  <2> QED BY <2>2 DEF ToSet
<1>12. refs[e][1] # s.alias
  <2>1. PICK t \in ToSet(s.on) : \E ref \in ToSet(t.refs) : ref[1] # s.alias
    BY <1>0, UseIsSeen
  <2>2. PICK n \in 1..2 : refs[n][1] # s.alias
    BY <1>5, <1>6, <2>1 DEF ToSet
  <2> QED BY <1>9, <1>10, <2>2
<1>13. refs[e][1] = "" => refs[e][2] \notin cols
  <2>1. \A t \in TermsOf(blk) : \A ref \in ToSet(t.refs) : ref[1] = "" => ref[2] \notin ColumnsOf(q, 1, s)
    BY <1>0, UseIsSeen
  <2>2. refs[e][1] = "" => refs[e][2] \notin ColumnsOf(q, 1, s)
    BY <1>5, <1>11, <2>1
  <2> QED BY <1>0, <2>2
<1>14. Unseen({s.alias}, cols, refs[e])
  BY <1>12, <1>13 DEF Unseen
<1>15. key \in Schema[s.name].keys \cap cols
  BY <1>0, <1>1, SchemaAssumption DEF SchemaAssumption
<1>16. RefersTo(refs[k], s.alias, key)
  BY <1>4, <1>7, <1>9 DEF RefersTo
<1>17. JoinsByKey(s, cols, key)
  BY <1>2, <1>4, <1>8, <1>10, <1>14, <1>16 DEF JoinsByKey
<1> QED BY <1>15, <1>17

--------------------------------------------------------------------------------
(* The records of a table, matched by a key *)

\* No two records of a relation have one value in column key, NULL aside.
IsKey(rel, key) ==
  \A n, m \in DOMAIN Records(rel) :
    Records(rel)[n][key] = Records(rel)[m][key] /\ Records(rel)[n][key] # Null => n = m

\* A key of the schema is one of the table.
LEMMA KeyedRecords ==
  ASSUME NEW db \in Databases, NEW name \in DOMAIN Schema, NEW key \in Schema[name].keys,
         NEW rel, rel = [cols |-> TableColumns[name], rows |-> db[name]]
  PROVE  IsList(rel.rows) /\ rel.cols = TableColumns[name] /\ IsKey(rel, key)
<1>1. rel.rows = db[name] /\ rel.cols = TableColumns[name]
  OBVIOUS
<1>2. IsList(db[name])
  BY SchemaAssumption DEF SchemaAssumption
<1>3. \A n, m \in DOMAIN Records(rel) :
        Records(rel)[n][key] = Records(rel)[m][key] /\ Records(rel)[n][key] # Null => n = m
  <2>1. LET rows == Records([cols |-> TableColumns[name], rows |-> db[name]])
        IN  \A n, m \in DOMAIN rows : rows[n][key] = rows[m][key] /\ rows[n][key] # Null => n = m
    BY SchemaAssumption DEF SchemaAssumption
  <2> QED BY <2>1, Zenon
<1> QED BY <1>1, <1>2, <1>3 DEF IsKey

\* One equation holds where its sides are equal.
LEMMA OneEquation ==
  ASSUME NEW terms, IsList(terms), Len(terms) = 1, terms[1].op = "same", NEW env, NEW relation,
         AllHold(terms, env, relation)
  PROVE  /\ Value(env, terms[1].refs[1]) # Null
         /\ Value(env, terms[1].refs[1]) = Value(env, terms[1].refs[2])
<1>1. DOMAIN terms = {1}
  BY ListFacts
<1>2. ~OpenOr(terms[1])
  BY DEF OpenOr
<1> DEFINE opens == {n \in DOMAIN terms : OpenOr(terms[n])}
           from(p) == {n \in DOMAIN terms : n > p /\ \A o \in opens : o <= p \/ n <= o}
<1>3. opens = {}
  BY <1>1, <1>2
<1>4. \E p \in {0} \cup opens : \A n \in from(p) : Truth(terms[n], env, relation)
  BY DEF AllHold
<1> HIDE DEF opens
<1>5. \A n \in from(0) : Truth(terms[n], env, relation)
  BY <1>3, <1>4
<1>6. 1 \in from(0)
  BY <1>1, <1>3
<1>7. Truth(terms[1], env, relation)
  BY <1>5, <1>6
<1>8. Holds(terms[1], env, <<>>)
  BY <1>2, <1>7 DEF Truth
<1> QED BY <1>8 DEF Holds

\* Whatever the record, a reference to another alias has one value.
LEMMA OtherValue ==
  ASSUME NEW env, NEW alias, NEW row, NEW line, NEW cols, DOMAIN row \subseteq cols, DOMAIN line \subseteq cols,
         NEW ref, Unseen({alias}, cols, ref)
  PROVE  Value(Nest(env, alias, row), ref) = Value(Nest(env, alias, line), ref)
<1> DEFINE e == Nest(env, alias, row) o == Nest(env, alias, line)
<1>1. /\ DOMAIN e = DOMAIN env \cup {alias} /\ DOMAIN o = DOMAIN env \cup {alias}
      /\ \A a \in DOMAIN env \cup {alias} : e[a] = (IF a = alias THEN row ELSE env[a])
                                            /\ o[a] = (IF a = alias THEN line ELSE env[a])
  BY DEF Nest
<1> HIDE DEF e, o
<1>2. AlikeBut({alias}, cols, e, o)
  BY <1>1 DEF AlikeBut
<1>3. Value(e, ref) = Value(o, ref)
  BY <1>2, SameValue
<1> QED BY <1>3 DEF e, o

\* A reference to column col of the alias has the record's value.
LEMMA OwnValue ==
  ASSUME NEW env, NEW alias, NEW row, NEW ref, NEW col, RefersTo(ref, alias, col), col \in DOMAIN row
  PROVE  Value(Nest(env, alias, row), ref) = row[col]
<1>0. alias # "" /\ ref[1] = alias /\ ref[2] = col
  BY DEF RefersTo
<1> DEFINE e == Nest(env, alias, row)
           homes == {a \in DOMAIN e : ref[1] \in {"", a} /\ ref[2] \in DOMAIN e[a]}
<1>1. DOMAIN e = DOMAIN env \cup {alias} /\ e[alias] = row
  BY DEF Nest
<1> HIDE DEF e
<1>2. homes = {alias}
  BY <1>0, <1>1
<1>3. Value(e, ref) = IF homes = {} THEN Null ELSE e[CHOOSE a \in homes : TRUE][ref[2]]
  BY DEF Value
<1> HIDE DEF homes
<1>4. (CHOOSE a \in homes : TRUE) = alias
  BY <1>2
<1>5. Value(e, ref) = row[col]
  BY <1>0, <1>1, <1>2, <1>3, <1>4
<1> QED BY <1>5 DEF e

\* Two records that match what a key of theirs is equal to have the same key.
LEMMA SameKey ==
  ASSUME NEW env, NEW alias, NEW cols, NEW row, NEW line, DOMAIN row = cols, DOMAIN line = cols,
         NEW key \in cols, NEW mine, RefersTo(mine, alias, key),
         NEW yours, Unseen({alias}, cols, yours),
         Value(Nest(env, alias, row), mine) # Null,
         Value(Nest(env, alias, row), mine) = Value(Nest(env, alias, row), yours),
         Value(Nest(env, alias, line), mine) = Value(Nest(env, alias, line), yours)
  PROVE  row[key] = line[key] /\ row[key] # Null
<1>1. Value(Nest(env, alias, row), mine) = row[key]
  BY OwnValue
<1>2. Value(Nest(env, alias, line), mine) = line[key]
  BY OwnValue
<1>3. Value(Nest(env, alias, row), yours) = Value(Nest(env, alias, line), yours)
  BY OtherValue
<1> QED BY <1>1, <1>2, <1>3

\* A join by a key finds no more than one record.
LEMMA GoneMatchesOne ==
  ASSUME NEW s, NEW cols, NEW key \in cols, JoinsByKey(s, cols, key),
         NEW relation, IsList(relation[s].rows), ToSet(relation[s].cols) = cols, IsKey(relation[s], key)
  PROVE  MatchesOne(s, relation)
<1> DEFINE right == Records(relation[s])
           refs == s.on[1].refs
<1>1. \A n \in DOMAIN right : DOMAIN right[n] = cols
  BY RecordsFacts
<1>2. \A n, m \in DOMAIN right : right[n][key] = right[m][key] /\ right[n][key] # Null => n = m
  BY DEF IsKey
<1>3. IsList(s.on) /\ Len(s.on) = 1 /\ s.on[1].op = "same"
  BY DEF JoinsByKey
<1>4. PICK own, other \in {1, 2} :
        own # other /\ RefersTo(refs[own], s.alias, key) /\ Unseen({s.alias}, cols, refs[other])
  BY DEF JoinsByKey
<1> DEFINE mine == refs[own] yours == refs[other]
<1>5. RefersTo(mine, s.alias, key) /\ Unseen({s.alias}, cols, yours)
  BY <1>4
<1>6. SUFFICES ASSUME NEW env, NEW n \in Matches(s, right, env, relation), NEW m \in Matches(s, right, env, relation)
               PROVE  n = m
  BY DEF MatchesOne
<1> HIDE DEF right, refs
<1>7. n \in DOMAIN right /\ m \in DOMAIN right
  BY DEF Matches
<1>8. ASSUME NEW r \in Matches(s, right, env, relation)
      PROVE  LET e == Nest(env, s.alias, right[r])
             IN  Value(e, mine) # Null /\ Value(e, mine) = Value(e, yours)
  <2> DEFINE e == Nest(env, s.alias, right[r])
  <2>1. AllHold(s.on, e, relation)
    BY <1>8 DEF Matches
  <2> HIDE DEF e
  <2>2. Value(e, refs[1]) # Null /\ Value(e, refs[1]) = Value(e, refs[2])
    BY <1>3, <2>1, OneEquation DEF refs
  <2>3. (own = 1 /\ other = 2) \/ (own = 2 /\ other = 1)
    BY <1>4
  <2>4. Value(e, mine) # Null /\ Value(e, mine) = Value(e, yours)
    BY <2>2, <2>3
  <2> QED BY <2>4 DEF e
<1> HIDE DEF mine, yours
<1> DEFINE row == right[n] line == right[m]
<1>9. DOMAIN row = cols /\ DOMAIN line = cols
  BY <1>1, <1>7
<1>10. /\ Value(Nest(env, s.alias, row), mine) # Null
       /\ Value(Nest(env, s.alias, row), mine) = Value(Nest(env, s.alias, row), yours)
       /\ Value(Nest(env, s.alias, line), mine) = Value(Nest(env, s.alias, line), yours)
  BY <1>8
<1> HIDE DEF row, line
<1>11. row[key] = line[key] /\ row[key] # Null
  BY <1>5, <1>9, <1>10, SameKey
<1> QED BY <1>2, <1>7, <1>11 DEF row, line

--------------------------------------------------------------------------------
(* The rows of a query without the joins *)

\* A block whose names have their sources reads tables that exist.
LEMMA WellScopedReads ==
  ASSUME NEW q, NEW N \in Nat, IsWhole(q, N), NEW b \in DOMAIN q.block, BlockIsWellScoped(q, b)
  PROVE  ReadsTables(q, b)
<1> DEFINE blk == q.block[b]
<1> SUFFICES ASSUME NEW s \in Sources(blk), s.name # "" PROVE IsRelation(q, b, s.name)
  BY DEF ReadsTables
<1>1. CASE s \in ToSet(blk.from)
  BY <1>1 DEF BlockIsWellScoped
<1>2. CASE s \in ToSet(blk.where) /\ s.op = "exists"
  BY <1>2 DEF BlockIsWellScoped
<1>3. CASE \E e \in ToSet(blk.from) : s \in ToSet(e.on) /\ s.op = "exists"
  <2>1. PICK i \in DOMAIN blk.from : s \in ToSet(blk.from[i].on)
    BY <1>3 DEF ToSet
  <2> QED BY <1>3, <2>1 DEF BlockIsWellScoped
<1> QED BY <1>1, <1>2, <1>3 DEF Sources, TermsOf

\* Nothing of a block depends on what is in its scope.
LEMMA UnscopedBlock ==
  ASSUME NEW q, NEW b, IsBlock(q, b)
  PROVE  LET blk == q.block[b] bare == Unscoped(blk)
         IN  /\ bare.from = blk.from /\ bare.where = blk.where /\ bare.group = blk.group
             /\ bare.out = blk.out /\ bare.having = blk.having /\ bare.distinct = blk.distinct
             /\ bare.limit = blk.limit
BY DEF Unscoped, IsBlock, BlockFields

\* Every source a block reads its rows from, a term of it that reads one included.
LEMMA BlockReads ==
  ASSUME NEW q, NEW b, IsBlock(q, b)
  PROVE  LET blk == q.block[b]
         IN  /\ \A j \in DOMAIN blk.from : blk.from[j] \in Sources(blk) /\ blk.from[j] \in ToSet(blk.from)
             /\ \A t \in ToSet(blk.where) : IsTerm(t) /\ (t.op = "exists" => t \in Sources(blk))
             /\ \A j \in DOMAIN blk.from : \A t \in ToSet(blk.from[j].on) :
                  IsTerm(t) /\ (t.op = "exists" => t \in Sources(blk))
<1> DEFINE blk == q.block[b]
<1>1. \A j \in DOMAIN blk.from : blk.from[j] \in ToSet(blk.from)
  BY DEF ToSet
<1>2. \A t \in TermsOf(blk) : IsTerm(t)
  BY DEF IsBlock
<1>3. /\ \A t \in ToSet(blk.where) : t \in TermsOf(blk)
      /\ \A j \in DOMAIN blk.from : \A t \in ToSet(blk.from[j].on) : t \in TermsOf(blk)
  BY <1>1 DEF TermsOf
<1> HIDE DEF blk
<1> QED BY <1>1, <1>2, <1>3 DEF Sources, blk

\* The rows of a block are a list if those of the blocks it reads are.
LEMMA BlockList ==
  ASSUME NEW q, NEW N \in Nat, IsWhole(q, N), NEW b \in DOMAIN q.block, ReadsTables(q, b),
         NEW db \in Databases, NEW f,
         \A s \in Sources(q.block[b]) : \A p \in ToSet(ReadBody(q, b, s).parts) : IsList(f[p].rows)
  PROVE  IsList(BlockRelation(q, db, f, b).rows)
<1> DEFINE blk == Unscoped(q.block[b])
           relation == [s \in Sources(blk) |-> SourceRelation(q, db, f, b, s)]
           every == DOMAIN blk.from
           rest == [from |-> Picked(blk.from, every), where |-> blk.where, group |-> blk.group, out |-> blk.out,
                    having |-> blk.having, distinct |-> blk.distinct, limit |-> blk.limit]
<1>1. IsBlock(q, b)
  BY DEF IsWhole
<1>2. Sources(blk) = Sources(q.block[b])
  BY SourcesUnscoped
<1>3. \A s \in Sources(blk) : IsList(relation[s].rows)
  BY <1>2, SourceList
<1>4. blk.from = q.block[b].from /\ blk.where = q.block[b].where /\ IsList(blk.from)
  <2>1. blk.from = q.block[b].from /\ blk.where = q.block[b].where
    BY <1>1, UnscopedBlock
  <2>2. IsList(q.block[b].from)
    BY <1>1 DEF IsBlock
  <2> QED BY <2>1, <2>2
<1>5. Cut(blk, rest, every)
  BY DEF Cut
<1> HIDE DEF relation, rest
<1>6. /\ \A j \in DOMAIN blk.from : blk.from[j] \in Sources(blk)
      /\ TermsFit({}, {}, blk.where, relation, relation)
      /\ \A j \in DOMAIN blk.from : TermsFit({}, {}, blk.from[j].on, relation, relation)
  BY <1>1, <1>2, <1>4, BlockReads DEF TermsFit, Unseen
<1>7. DOMAIN blk.from = 1..Len(blk.from)
  BY <1>4, ListFacts
<1> HIDE DEF blk
<1>8. SourcesFit({}, {}, blk.from, every, relation, relation)
  BY <1>3, <1>6, <1>7 DEF SourcesFit
<1>9. BlockFits({}, {}, blk, every, relation, relation)
  BY <1>4, <1>6, <1>8 DEF BlockFits, Unseen
<1>10. IsList(Evaluated(blk, relation).rows)
  BY <1>5, <1>9, EvaluatedAlike
<1> QED BY <1>10 DEF BlockRelation, blk, relation

\* The places of the joins that go, and of the sources that stay.
RemovedAt(q) == {i \in DOMAIN q.block[1].from : ShouldRemoveJoin(q, i)}
KeptAt(q) == {i \in DOMAIN q.block[1].from : ~ShouldRemoveJoin(q, i)}

\* The aliases and the columns of the joins that go.
RemovedAliases(q) == {q.block[1].from[i].alias : i \in RemovedAt(q)}
RemovedColumns(q) == UNION {ToSet(TableColumns[q.block[1].from[i].name]) : i \in RemovedAt(q)}

\* What is left refers to none of them.
LEMMA KeptIsUnseen ==
  ASSUME NEW q, NEW N \in Nat, IsWhole(q, N), ~MissedUse(q), NEW ref,
         \A i \in RemovedAt(q) : ref \in KeptRefs(q.block[1], i)
  PROVE  Unseen(RemovedAliases(q), RemovedColumns(q), ref)
<1>1. ASSUME NEW i \in RemovedAt(q)
      PROVE  LET s == q.block[1].from[i]
             IN  ref[1] # s.alias /\ (ref[1] = "" => ref[2] \notin ToSet(TableColumns[s.name]))
  <2>1. i \in DOMAIN q.block[1].from /\ ShouldRemoveJoin(q, i)
    BY DEF RemovedAt
  <2> QED BY <2>1, GoneTable DEF Identifiers
<1> QED BY <1>1 DEF Unseen, RemovedAliases, RemovedColumns

\* Whatever join goes, the references of what stays are outside its ON.
LEMMA KeptReferences ==
  ASSUME NEW q, NEW i \in RemovedAt(q)
  PROVE  LET blk == q.block[1]
         IN  /\ \A x \in ToSet(blk.out) : IsColumn(x.val) => x.val \in KeptRefs(blk, i)
             /\ \A ref \in ToSet(blk.group) : ref \in KeptRefs(blk, i)
             /\ \A t \in ToSet(blk.where) : \A ref \in ToSet(t.refs) : ref \in KeptRefs(blk, i)
             /\ \A j \in KeptAt(q) : \A t \in ToSet(blk.from[j].on) : \A ref \in ToSet(t.refs) : ref \in KeptRefs(blk, i)
<1>1. \A j \in KeptAt(q) : j \in (DOMAIN q.block[1].from) \ {i}
  BY DEF RemovedAt, KeptAt
<1> QED BY <1>1 DEF KeptRefs

\* The sources that go.
LEMMA RemovedSource ==
  ASSUME NEW q, NEW N \in Nat, IsWhole(q, N), BlockIsWellScoped(q, 1), ~MissedUse(q),
         NEW db \in Databases, NEW f, NEW i \in RemovedAt(q), NEW relation,
         relation[q.block[1].from[i]] = SourceRelation(q, db, f, 1, q.block[1].from[i])
  PROVE  LET s == q.block[1].from[i]
         IN  /\ s.alias \in RemovedAliases(q) /\ s.join = "left"
             /\ ToSet(relation[s].cols) \subseteq RemovedColumns(q) /\ MatchesOne(s, relation)
<1> DEFINE s == q.block[1].from[i]
           cols == ToSet(TableColumns[s.name])
<1>1. i \in DOMAIN q.block[1].from /\ ShouldRemoveJoin(q, i)
  BY DEF RemovedAt
<1>2. s.join = "left" /\ s.name \in DOMAIN Schema /\ ReadBody(q, 1, s) = NoBody
  BY <1>1, GoneTable
<1>3. relation[s] = [cols |-> TableColumns[s.name], rows |-> db[s.name]]
  BY <1>2 DEF SourceRelation
<1>4. PICK key \in Schema[s.name].keys \cap cols : JoinsByKey(s, cols, key)
  BY <1>1, GoneKey
<1>5. s.alias \in RemovedAliases(q) /\ cols \subseteq RemovedColumns(q)
  BY DEF RemovedAliases, RemovedColumns
<1> HIDE DEF s
<1>6. IsList(relation[s].rows) /\ relation[s].cols = TableColumns[s.name] /\ IsKey(relation[s], key)
  BY <1>2, <1>3, <1>4, KeyedRecords
<1>7. MatchesOne(s, relation)
  BY <1>4, <1>6, GoneMatchesOne
<1> QED BY <1>2, <1>5, <1>6, <1>7 DEF s

\* The root without the joins, and that the others read what they read.
LEMMA WithoutJoinsIs ==
  ASSUME NEW q, NEW N \in Nat, IsWhole(q, N)
  PROVE  LET r == WithoutJoins(q)
             root == r.block[1]
         IN  /\ \A b \in (DOMAIN q.block) \ {1} : r.block[b] = q.block[b]
             /\ root.from = Picked(q.block[1].from, KeptAt(q))
             /\ root.where = q.block[1].where /\ root.group = q.block[1].group
             /\ root.out = q.block[1].out /\ root.having = q.block[1].having
             /\ root.distinct = q.block[1].distinct /\ root.limit = q.block[1].limit
             /\ root.scope = q.block[1].scope
             /\ \A b \in DOMAIN q.block : /\ r.block[b].scope = q.block[b].scope
                                          /\ \A s : ReadBody(r, b, s) = ReadBody(q, b, s)
                                          /\ \A name : IsRelation(r, b, name) = IsRelation(q, b, name)
                                          /\ r.block[b].out = q.block[b].out
<1> DEFINE r == WithoutJoins(q)
<1>1. 1 \in DOMAIN q.block /\ r.ctes = q.ctes
  BY DEF IsWhole, WithoutJoins
<1>2. /\ \A b \in (DOMAIN q.block) \ {1} : r.block[b] = q.block[b]
      /\ r.block[1] = [q.block[1] EXCEPT !.from = RetainedSources(q)]
  BY <1>1 DEF WithoutJoins
<1>3. BlockFields \subseteq DOMAIN q.block[1]
  BY <1>1 DEF IsWhole, IsBlock
<1> HIDE DEF r
<1>4. RetainedSources(q) = Picked(q.block[1].from, KeptAt(q))
  BY DEF RetainedSources, KeptAt
<1>5. /\ r.block[1].from = RetainedSources(q)
      /\ r.block[1].where = q.block[1].where /\ r.block[1].group = q.block[1].group
      /\ r.block[1].out = q.block[1].out /\ r.block[1].having = q.block[1].having
      /\ r.block[1].distinct = q.block[1].distinct /\ r.block[1].limit = q.block[1].limit
      /\ r.block[1].scope = q.block[1].scope
  BY <1>2, <1>3 DEF BlockFields
<1>6. \A b \in DOMAIN q.block : r.block[b].scope = q.block[b].scope /\ r.block[b].out = q.block[b].out
  BY <1>2, <1>5
<1>7. \A b \in DOMAIN q.block : \A s : ReadBody(r, b, s) = ReadBody(q, b, s)
  BY <1>1, <1>6 DEF ReadBody, NamedBody, VisibleCtes
<1>8. \A b \in DOMAIN q.block : \A name : IsRelation(r, b, name) = IsRelation(q, b, name)
  BY <1>1, <1>6 DEF IsRelation, VisibleCtes
<1> QED BY <1>2, <1>4, <1>5, <1>6, <1>7, <1>8 DEF r

\* The columns of a source are those of what it stands for.
LEMMA ColumnsByBody ==
  ASSUME NEW q, NEW N \in Nat, IsWhole(q, N), NEW b \in DOMAIN q.block, NEW s \in Sources(q.block[b])
  PROVE  LET body == ReadBody(q, b, s)
         IN  /\ body = NoBody => ColumnsOf(q, b, s) = ToSet(TableColumns[s.name])
             /\ body # NoBody => /\ body.parts[1] \in DOMAIN q.block
                                /\ ColumnsOf(q, b, s) = {x.name : x \in ToSet(q.block[body.parts[1]].out)}
<1> DEFINE body == ReadBody(q, b, s)
           visible == VisibleCtes(q, q.block[b].scope, s.name)
<1>1. PICK rank : Ranked(q, rank)
  BY DEF IsWhole, IsFounded, Ranked
<1>2. ASSUME NEW select, IsSelectBody(select) PROVE select # NoBody /\ select.parts[1] \in ToSet(select.parts)
  <2>1. select.op # "none" /\ NoBody.op = "none" /\ 1 \in DOMAIN select.parts
    BY <1>2 DEF IsSelectBody, NoBody
  <2> QED BY <2>1 DEF ToSet
<1>3. \A p \in ToSet(body.parts) : p \in DOMAIN q.block
  BY <1>1 DEF Ranked
<1>4. CASE s.name = ""
  <2>1. body = s.body /\ IsSelectBody(body)
    BY <1>4 DEF ReadBody, IsWhole, IsBlock, DerivedTables
  <2>2. ColumnsOf(q, b, s) = {x.name : x \in ToSet(q.block[body.parts[1]].out)}
    BY <1>4, <2>1 DEF ColumnsOf
  <2> QED BY <1>2, <1>3, <2>1, <2>2
<1>5. CASE s.name # "" /\ visible # {}
  <2>1. body = q.ctes[Last1(visible)].body /\ Last1(visible) \in DOMAIN q.ctes
    BY <1>5, VisibleOne DEF ReadBody, NamedBody
  <2>2. IsSelectBody(body)
    BY <2>1 DEF IsWhole
  <2>3. ColumnsOf(q, b, s) = {x.name : x \in ToSet(q.block[body.parts[1]].out)}
    BY <1>5, <2>1 DEF ColumnsOf
  <2> QED BY <1>2, <1>3, <2>2, <2>3
<1>6. CASE s.name # "" /\ visible = {}
  BY <1>6 DEF ReadBody, NamedBody, ColumnsOf
<1> QED BY <1>4, <1>5, <1>6

\* The root fits, so that it returns the same without the joins that go.
LEMMA RootFits ==
  ASSUME NEW q, NEW N \in Nat, IsWhole(q, N), BlockIsWellScoped(q, 1), ~MissedUse(q),
         NEW db \in Databases, NEW f, NEW g,
         \A s \in Sources(q.block[1]) : \A p \in ToSet(ReadBody(q, 1, s).parts) : f[p] = g[p] /\ IsList(f[p].rows)
  PROVE  BlockRelation(q, db, f, 1) = BlockRelation(WithoutJoins(q), db, g, 1)
<1> DEFINE r == WithoutJoins(q)
           blk == Unscoped(q.block[1])
           rest == Unscoped(r.block[1])
           relation == [s \in Sources(blk) |-> SourceRelation(q, db, f, 1, s)]
           instead == [s \in Sources(rest) |-> SourceRelation(r, db, g, 1, s)]
           A == RemovedAliases(q) C == RemovedColumns(q) kept == KeptAt(q)
<1>1. IsWhole(r, N) /\ 1 \in DOMAIN q.block /\ 1 \in DOMAIN r.block
  BY WholeWithoutJoins DEF IsWhole
<1>2. IsBlock(q, 1) /\ IsBlock(r, 1) /\ ReadsTables(q, 1)
  BY <1>1, WellScopedReads DEF IsWhole
<1>3. Cut(blk, rest, kept)
  BY <1>2, UnscopedBlock, WithoutJoinsIs DEF Cut
<1>4. /\ blk.from = q.block[1].from /\ blk.where = q.block[1].where /\ blk.group = q.block[1].group
      /\ blk.out = q.block[1].out /\ IsList(blk.from)
  <2>1. IsList(q.block[1].from)
    BY <1>2 DEF IsBlock
  <2> QED BY <1>2, <2>1, UnscopedBlock
<1>5. Sources(blk) = Sources(q.block[1]) /\ Sources(rest) = Sources(r.block[1])
  BY SourcesUnscoped
<1>6. \A s : ReadBody(r, 1, s) = ReadBody(q, 1, s)
  BY <1>1, WithoutJoinsIs
<1>21. r.block[1].from = Picked(blk.from, kept) /\ r.block[1].where = blk.where
  BY <1>4, WithoutJoinsIs
<1> HIDE DEF r
<1>7. /\ \A s \in Sources(blk) : relation[s] = SourceRelation(q, db, f, 1, s)
      /\ \A s \in Sources(rest) : instead[s] = SourceRelation(r, db, g, 1, s)
  OBVIOUS
<1>8. \A s \in Sources(blk) : IsList(relation[s].rows)
  BY <1>1, <1>2, <1>5, <1>7, SourceList
<1>9. \A s \in Sources(blk) \cap Sources(rest) : relation[s] = instead[s]
  BY <1>5, <1>6, <1>7, SameSource
<1>10. BlockRelation(q, db, f, 1) = Evaluated(blk, relation) /\ BlockRelation(r, db, g, 1) = Evaluated(rest, instead)
  BY DEF BlockRelation
<1> HIDE DEF relation, instead
<1>11. /\ DOMAIN blk.from = 1..Len(blk.from)
       /\ \A j \in DOMAIN blk.from : j \in RemovedAt(q) <=> j \notin kept
       /\ RemovedAt(q) \subseteq DOMAIN blk.from /\ kept \subseteq DOMAIN blk.from
  BY <1>4, ListFacts DEF RemovedAt, KeptAt
<1>12. \A j \in kept : blk.from[j] \in ToSet(r.block[1].from)
  <2> DEFINE left == r.block[1].from
  <2>1. DOMAIN left = 1..Len(left)
    BY <1>2, ListFacts DEF IsBlock
  <2>2. PICK place : PickedAt(place, left, blk.from, kept)
    BY <1>4, <1>21, PickedPlaces
  <2> HIDE DEF left, kept, blk
  <2>3. ASSUME NEW j \in kept PROVE \E k \in DOMAIN left : left[k] = blk.from[j]
    <3>1. j \in kept \cap 1..Len(blk.from)
      BY <1>11, <2>3
    <3> QED BY <2>1, <2>2, <3>1 DEF PickedAt
  <2> QED BY <2>3 DEF ToSet, left
<1>13. \A t \in ToSet(blk.where) : IsTerm(t) /\ (t.op = "exists" => t \in Sources(blk) \cap Sources(rest))
  BY <1>2, <1>4, <1>5, <1>21, BlockReads
<1>14. \A j \in DOMAIN blk.from :
         /\ blk.from[j] \in Sources(blk)
         /\ \A t \in ToSet(blk.from[j].on) : IsTerm(t) /\ (t.op = "exists" => t \in Sources(blk))
  BY <1>2, <1>4, <1>5, BlockReads
<1>15. \A j \in kept :
         /\ blk.from[j] \in Sources(rest)
         /\ \A t \in ToSet(blk.from[j].on) : t.op = "exists" => t \in Sources(rest)
  <2> SUFFICES ASSUME NEW j \in kept
               PROVE  /\ blk.from[j] \in Sources(rest)
                      /\ \A t \in ToSet(blk.from[j].on) : t.op = "exists" => t \in Sources(rest)
    OBVIOUS
  <2>1. PICK k \in DOMAIN r.block[1].from : r.block[1].from[k] = blk.from[j]
    BY <1>12 DEF ToSet
  <2> HIDE DEF rest, blk, kept
  <2> QED BY <1>2, <1>5, <2>1, BlockReads
<1>16. /\ \A x \in ToSet(blk.out) : IsColumn(x.val) => Unseen(A, C, x.val)
       /\ \A ref \in ToSet(blk.group) : Unseen(A, C, ref)
       /\ \A t \in ToSet(blk.where) : \A ref \in ToSet(t.refs) : Unseen(A, C, ref)
       /\ \A j \in kept : \A t \in ToSet(blk.from[j].on) : \A ref \in ToSet(t.refs) : Unseen(A, C, ref)
  BY <1>4, KeptIsUnseen, KeptReferences
<1>17. \A j \in kept : blk.from[j].alias \notin A
  <2> SUFFICES ASSUME NEW j \in kept, NEW i \in RemovedAt(q) PROVE blk.from[j].alias # blk.from[i].alias
    BY <1>4 DEF RemovedAliases
  <2>1. i \in DOMAIN q.block[1].from /\ ShouldRemoveJoin(q, i) /\ j \in (DOMAIN q.block[1].from) \ {i}
    BY <1>4, <1>11 DEF RemovedAt, KeptAt
  <2>2. blk.from[j].alias \notin Identifiers(blk.from[i])
    BY <1>4, <2>1, GoneTable
  <2> QED BY <2>2 DEF Identifiers
<1>18. \A j \in RemovedAt(q) : /\ blk.from[j].alias \in A /\ blk.from[j].join = "left"
                               /\ ToSet(relation[blk.from[j]].cols) \subseteq C /\ MatchesOne(blk.from[j], relation)
  <2> SUFFICES ASSUME NEW j \in RemovedAt(q)
               PROVE  LET s == blk.from[j]
                      IN  /\ s.alias \in A /\ s.join = "left"
                          /\ ToSet(relation[s].cols) \subseteq C /\ MatchesOne(s, relation)
    OBVIOUS
  <2>1. blk.from[j] = q.block[1].from[j] /\ blk.from[j] \in Sources(blk)
    BY <1>4, <1>11, <1>14
  <2> HIDE DEF blk
  <2>2. relation[q.block[1].from[j]] = SourceRelation(q, db, f, 1, q.block[1].from[j])
    BY <1>7, <2>1
  <2> QED BY <2>1, <2>2, RemovedSource
<1> HIDE DEF A, C, kept, blk, rest
<1>19. SourcesFit(A, C, blk.from, kept, relation, instead)
  <2> SUFFICES ASSUME NEW j \in 1..Len(blk.from)
               PROVE  LET s == blk.from[j]
                      IN  /\ IsList(relation[s].rows)
                          /\ j \in kept => s.alias \notin A /\ relation[s] = instead[s]
                                           /\ TermsFit(A, C, s.on, relation, instead)
                          /\ j \notin kept => s.alias \in A /\ s.join = "left"
                                              /\ ToSet(relation[s].cols) \subseteq C /\ MatchesOne(s, relation)
    BY DEF SourcesFit
  <2>1. IsList(relation[blk.from[j]].rows)
    BY <1>8, <1>11, <1>14
  <2>2. CASE j \in kept
    <3>1. relation[blk.from[j]] = instead[blk.from[j]]
      BY <1>9, <1>11, <1>14, <1>15, <2>2
    <3>2. \A t \in ToSet(blk.from[j].on) : t.op = "exists" => relation[t] = instead[t]
      BY <1>9, <1>11, <1>14, <1>15, <2>2
    <3>3. TermsFit(A, C, blk.from[j].on, relation, instead)
      BY <1>11, <1>14, <1>16, <2>2, <3>2 DEF TermsFit
    <3> QED BY <1>17, <2>1, <2>2, <3>1, <3>3
  <2>3. CASE j \notin kept
    <3>1. j \in RemovedAt(q)
      BY <1>11, <2>3
    <3> QED BY <1>18, <2>1, <2>3, <3>1
  <2> QED BY <2>2, <2>3
<1>20. TermsFit(A, C, blk.where, relation, instead)
  BY <1>9, <1>13, <1>16 DEF TermsFit
<1>22. BlockFits(A, C, blk, kept, relation, instead)
  BY <1>4, <1>16, <1>19, <1>20 DEF BlockFits
<1>23. Evaluated(blk, relation) = Evaluated(rest, instead)
  BY <1>3, <1>22, EvaluatedAlike
<1>24. BlockRelation(q, db, f, 1) = BlockRelation(r, db, g, 1)
  BY <1>10, <1>23
<1> QED BY <1>24 DEF r

(* Without the joins that go the query returns what it returned, if none of their
   uses was missed. *)
LEMMA JoinsChangeNoRow ==
  ASSUME NEW q, NEW N \in Nat, IsWhole(q, N), IsWellScoped(q), ~MissedUse(q), NEW db \in Databases
  PROVE  Meaning(WithoutJoins(q), db) = Meaning(q, db)
<1> DEFINE r == WithoutJoins(q)
           S == Blocks(q)
<1>1. IsWhole(r, N)
  BY WholeWithoutJoins
<1>2. PICK rank : Ranked(q, rank)
  BY DEF IsWhole, IsFounded, Ranked
<1>3. PICK other : Ranked(r, other)
  BY <1>1 DEF IsWhole, IsFounded, Ranked
<1>4. DOMAIN q.block = 1..N /\ DOMAIN r.block = 1..N /\ 1 \in DOMAIN q.block
  BY <1>1 DEF IsWhole
<1>5. 1 \in S /\ S \subseteq DOMAIN q.block
  BY <1>4, RootIsRead
<1>6. PICK f : f = [b \in DOMAIN q.block |-> BlockRelation(q, db, f, b)] /\ Meaning(q, db) = f[1]
  BY <1>2, <1>4, MeaningIsOfTheRoot
<1>7. PICK g : g = [b \in DOMAIN r.block |-> BlockRelation(r, db, g, b)] /\ Meaning(r, db) = g[1]
  BY <1>3, <1>4, MeaningIsOfTheRoot
<1>8. \A b \in S : f[b] = BlockRelation(q, db, f, b) /\ g[b] = BlockRelation(r, db, g, b)
  BY <1>4, <1>5, <1>6, <1>7
<1>9. \A b \in S : BlockIsWellScoped(q, b) /\ ReadsTables(q, b)
  BY <1>5, WellScopedReads DEF IsWellScoped
<1>10. /\ \A b \in (DOMAIN q.block) \ {1} : r.block[b] = q.block[b]
       /\ \A b \in DOMAIN q.block : \A s : ReadBody(r, b, s) = ReadBody(q, b, s)
  BY WithoutJoinsIs
<1>11. \A b \in S : \A s \in Sources(q.block[b]) :
         \A p \in ToSet(ReadBody(q, b, s).parts) : p \in S /\ rank[p] < rank[b]
  BY <1>2, <1>5, BlocksClosed DEF Ranked
<1> HIDE DEF r, S
<1> DEFINE Same(b) == f[b] = g[b] /\ IsList(f[b].rows)
           Wrong == {rank[b] : b \in {b \in S : ~Same(b)}}
<1>12. Wrong = {}
  <2> SUFFICES ASSUME Wrong # {} PROVE FALSE
    OBVIOUS
  <2>1. \A b \in S : rank[b] \in Nat
    BY <1>2, <1>4, <1>5 DEF Ranked
  <2>2. PICK m \in Wrong : \A n \in Wrong : m <= n
    <3>1. Wrong \in SUBSET Nat
      BY <2>1
    <3> HIDE DEF Wrong
    <3> QED BY <3>1, LeastNat
  <2>3. PICK b \in S : m = rank[b] /\ ~Same(b)
    BY <2>2
  <2>4. ASSUME NEW s \in Sources(q.block[b]), NEW p \in ToSet(ReadBody(q, b, s).parts)
        PROVE  Same(p)
    <3>1. p \in S /\ rank[p] < rank[b]
      BY <1>11, <2>3, <2>4
    <3>2. ASSUME ~Same(p) PROVE FALSE
      <4>1. rank[p] \in Wrong
        BY <3>1, <3>2
      <4>2. m <= rank[p]
        BY <2>2, <4>1
      <4> HIDE DEF Wrong, Same
      <4> QED BY <2>1, <2>3, <3>1, <4>2
    <3> QED BY <3>2
  <2>5. b \in DOMAIN q.block /\ ReadsTables(q, b)
    BY <1>5, <1>9, <2>3
  <2> HIDE DEF Wrong
  <2>6. IsList(f[b].rows)
    BY <1>8, <2>3, <2>4, <2>5, BlockList
  <2>7. CASE b = 1
    <3>1. BlockIsWellScoped(q, 1)
      BY <1>9, <2>3, <2>7
    <3>2. BlockRelation(q, db, f, 1) = BlockRelation(WithoutJoins(q), db, g, 1)
      BY <2>4, <2>7, <3>1, RootFits
    <3>3. f[b] = g[b]
      BY <1>8, <2>3, <2>7, <3>2 DEF r
    <3> QED BY <2>3, <2>6, <3>3
  <2>8. CASE b # 1
    <3>1. r.block[b] = q.block[b]
      BY <1>10, <2>5, <2>8
    <3>2. \A s \in Sources(Unscoped(q.block[b])) :
            ReadBody(q, b, s) = ReadBody(r, b, s) /\ \A p \in ToSet(ReadBody(q, b, s).parts) : f[p] = g[p]
      BY <1>10, <2>4, <2>5, SourcesUnscoped
    <3> HIDE DEF Same
    <3>3. BlockRelation(q, db, f, b) = BlockRelation(r, db, g, b)
      BY <3>1, <3>2, SameRows
    <3>4. f[b] = g[b]
      BY <1>8, <2>3, <3>3
    <3> QED BY <2>3, <2>6, <3>4 DEF Same
  <2> QED BY <2>7, <2>8
<1>13. f[1] = g[1]
  BY <1>5, <1>12
<1> QED BY <1>6, <1>7, <1>13 DEF r

--------------------------------------------------------------------------------
(* The names of the query without joins and CTEs *)

\* Without joins the query has no block it did not have.
LEMMA FewerBlocks ==
  ASSUME NEW q, NEW N \in Nat, IsWhole(q, N)
  PROVE  Blocks(WithoutJoins(q)) \subseteq Blocks(q)
<1> DEFINE r == WithoutJoins(q)
<1>1. r.ctes = q.ctes /\ DOMAIN r.block = DOMAIN q.block /\ 1 \in DOMAIN q.block
  BY DEF WithoutJoins, IsWhole
<1>2. ASSUME NEW b \in DOMAIN q.block PROVE DerivedTables(r, b) \subseteq DerivedTables(q, b)
  <2>1. r.block[b].where = q.block[b].where
    BY <1>2, WithoutJoinsIs
  <2>2. ToSet(r.block[b].from) \subseteq ToSet(q.block[b].from)
    <3>1. CASE b # 1
      BY <1>2, <3>1, WithoutJoinsIs
    <3>2. CASE b = 1
      <4>1. IsList(q.block[1].from)
        BY <1>1 DEF IsWhole, IsBlock
      <4>2. r.block[1].from = Picked(q.block[1].from, KeptAt(q))
        BY WithoutJoinsIs
      <4>3. \A p : {q.block[1].from[n] : n \in (DOMAIN q.block[1].from) \cap p} \subseteq ToSet(q.block[1].from)
        BY DEF ToSet
      <4> QED BY <3>2, <4>1, <4>2, <4>3, PickedList
    <3> QED BY <3>1, <3>2
  <2> HIDE DEF r
  <2> QED BY <2>1, <2>2 DEF DerivedTables, Sources, TermsOf
<1> HIDE DEF r
<1>3. \A body : BlocksOf(r, body) \subseteq BlocksOf(q, body)
  BY <1>1, <1>2 DEF BlocksOf
<1>4. Blocks(r) \subseteq Blocks(q)
  BY <1>1, <1>3 DEF Blocks
<1> QED BY <1>4 DEF r

\* Reference ref of block b is to one of its first sources.
Binds(q, b, ref, upto) ==
  \E i \in 1..upto :
    ref[1] \in {"", q.block[b].from[i].alias} /\ ref[2] \in ColumnsOf(q, b, q.block[b].from[i])

\* Every reference of term t is to one of the first sources of its block.
TermBinds(q, b, t, upto) ==
  /\ t.op = "exists" => IsRelation(q, b, t.name)
  /\ \A ref \in ToSet(t.refs) : (t.op = "exists" /\ ref[1] = t.alias) \/ Binds(q, b, ref, upto)

\* The names of a block, one by one.
LEMMA WellScopedParts ==
  ASSUME NEW q, NEW b
  PROVE  LET blk == q.block[b]
         IN  BlockIsWellScoped(q, b) <=>
               /\ \A s \in ToSet(blk.from) : s.name # "" => IsRelation(q, b, s.name)
               /\ \A x \in ToSet(blk.out) : IsColumn(x.val) => Binds(q, b, x.val, Len(blk.from))
               /\ \A ref \in ToSet(blk.group) : Binds(q, b, ref, Len(blk.from))
               /\ \A t \in ToSet(blk.where) : TermBinds(q, b, t, Len(blk.from))
               /\ \A i \in DOMAIN blk.from : \A t \in ToSet(blk.from[i].on) : TermBinds(q, b, t, i)
BY DEF BlockIsWellScoped, Binds, TermBinds

\* A block that keeps its sources keeps its names.
LEMMA ScopeStays ==
  ASSUME NEW q, NEW r, NEW b, IsList(q.block[b].from),
         r.block[b].from = q.block[b].from, r.block[b].where = q.block[b].where,
         r.block[b].out = q.block[b].out, r.block[b].group = q.block[b].group,
         \A s \in Sources(q.block[b]) :
           ColumnsOf(r, b, s) = ColumnsOf(q, b, s) /\ IsRelation(r, b, s.name) = IsRelation(q, b, s.name),
         BlockIsWellScoped(q, b)
  PROVE  BlockIsWellScoped(r, b)
<1> DEFINE blk == q.block[b]
<1>1. DOMAIN blk.from = 1..Len(blk.from) /\ Len(blk.from) \in Nat
  BY ListFacts
<1>2. \A i \in DOMAIN blk.from : blk.from[i] \in ToSet(blk.from) /\ blk.from[i] \in Sources(blk)
  BY DEF ToSet, Sources
<1>3. /\ \A t \in ToSet(blk.where) : t.op = "exists" => t \in Sources(blk)
      /\ \A i \in DOMAIN blk.from : \A t \in ToSet(blk.from[i].on) : t.op = "exists" => t \in Sources(blk)
  BY <1>2 DEF TermsOf, Sources
<1>4. \A s \in ToSet(blk.from) : s \in Sources(blk)
  BY DEF Sources
<1>5. ASSUME NEW ref, NEW upto \in 0..Len(blk.from), Binds(q, b, ref, upto) PROVE Binds(r, b, ref, upto)
  <2>1. PICK i \in 1..upto : ref[1] \in {"", blk.from[i].alias} /\ ref[2] \in ColumnsOf(q, b, blk.from[i])
    BY <1>5 DEF Binds
  <2>2. i \in DOMAIN blk.from
    BY <1>1
  <2>3. ColumnsOf(r, b, blk.from[i]) = ColumnsOf(q, b, blk.from[i])
    BY <1>2, <2>2
  <2> QED BY <2>1, <2>3 DEF Binds
<1>6. ASSUME NEW t, t.op = "exists" => t \in Sources(blk), NEW upto \in 0..Len(blk.from), TermBinds(q, b, t, upto)
      PROVE  TermBinds(r, b, t, upto)
  BY <1>5, <1>6 DEF TermBinds
<1>7. /\ \A s \in ToSet(blk.from) : s.name # "" => IsRelation(q, b, s.name)
      /\ \A x \in ToSet(blk.out) : IsColumn(x.val) => Binds(q, b, x.val, Len(blk.from))
      /\ \A ref \in ToSet(blk.group) : Binds(q, b, ref, Len(blk.from))
      /\ \A t \in ToSet(blk.where) : TermBinds(q, b, t, Len(blk.from))
      /\ \A i \in DOMAIN blk.from : \A t \in ToSet(blk.from[i].on) : TermBinds(q, b, t, i)
  BY WellScopedParts
<1>8. Len(blk.from) \in 0..Len(blk.from) /\ \A i \in DOMAIN blk.from : i \in 0..Len(blk.from)
  BY <1>1
<1> HIDE DEF blk
<1>9. /\ \A s \in ToSet(blk.from) : s.name # "" => IsRelation(r, b, s.name)
      /\ \A x \in ToSet(blk.out) : IsColumn(x.val) => Binds(r, b, x.val, Len(blk.from))
      /\ \A ref \in ToSet(blk.group) : Binds(r, b, ref, Len(blk.from))
      /\ \A t \in ToSet(blk.where) : TermBinds(r, b, t, Len(blk.from))
      /\ \A i \in DOMAIN blk.from : \A t \in ToSet(blk.from[i].on) : TermBinds(r, b, t, i)
  BY <1>3, <1>4, <1>5, <1>6, <1>7, <1>8 DEF blk
<1> QED BY <1>9, WellScopedParts DEF blk

\* What a source stands for settles its columns.
LEMMA SameColumns ==
  ASSUME NEW q, NEW r, NEW N \in Nat, IsWhole(q, N), IsWhole(r, N), NEW b \in DOMAIN q.block,
         NEW s \in Sources(q.block[b]) \cap Sources(r.block[b]),
         ReadBody(r, b, s) = ReadBody(q, b, s),
         \A p \in DOMAIN q.block : r.block[p].out = q.block[p].out
  PROVE  ColumnsOf(r, b, s) = ColumnsOf(q, b, s)
<1>1. b \in DOMAIN r.block
  BY DEF IsWhole
<1> DEFINE body == ReadBody(q, b, s)
<1>2. body = ReadBody(r, b, s)
  OBVIOUS
<1> HIDE DEF body
<1>3. /\ body = NoBody => ColumnsOf(q, b, s) = ToSet(TableColumns[s.name])
      /\ body # NoBody => /\ body.parts[1] \in DOMAIN q.block
                          /\ ColumnsOf(q, b, s) = {x.name : x \in ToSet(q.block[body.parts[1]].out)}
  BY ColumnsByBody DEF body
<1>4. /\ body = NoBody => ColumnsOf(r, b, s) = ToSet(TableColumns[s.name])
      /\ body # NoBody => ColumnsOf(r, b, s) = {x.name : x \in ToSet(r.block[body.parts[1]].out)}
  BY <1>1, <1>2, ColumnsByBody
<1> QED BY <1>3, <1>4

\* The removal of unreferenced CTEs leaves every name its source.
LEMMA ScopedWithoutCtes ==
  ASSUME NEW q, NEW N \in Nat, IsWhole(q, N), IsWellScoped(q)
  PROVE  IsWellScoped(WithoutCtes(q, Unreferenced(q)))
<1> DEFINE gone == Unreferenced(q)
           r == WithoutCtes(q, gone)
<1> SUFFICES ASSUME NEW b \in Blocks(r) PROVE BlockIsWellScoped(r, b)
  BY DEF IsWellScoped
<1>1. PICK rank : Ranked(q, rank)
  BY DEF IsWhole, IsFounded, Ranked
<1>2. IsWhole(r, N)
  BY <1>1, WholeWithoutCtes
<1>3. b \in DOMAIN q.block /\ DOMAIN r.block = DOMAIN q.block /\ IsBlock(q, b)
  BY <1>2, RootIsRead DEF IsWhole
<1>4. b \in Blocks(q) \/ gone = {}
  BY UnreadWhenRemoved
<1>5. \A p \in DOMAIN q.block : /\ r.block[p].from = q.block[p].from /\ r.block[p].where = q.block[p].where
                                /\ r.block[p].out = q.block[p].out /\ r.block[p].group = q.block[p].group
                                /\ r.block[p].scope = q.block[p].scope \ gone
  <2> TAKE p \in DOMAIN q.block
  <2>1. r.block[p] = [q.block[p] EXCEPT !.scope = q.block[p].scope \ gone]
    BY DEF WithoutCtes
  <2>2. BlockFields \subseteq DOMAIN q.block[p]
    BY DEF IsWhole, IsBlock
  <2> HIDE DEF r
  <2> QED BY <2>1, <2>2 DEF BlockFields
<1>6. Sources(r.block[b]) = Sources(q.block[b])
  BY <1>3, ReadsStay
<1>7. \A s \in Sources(q.block[b]) : \A c \in gone : q.ctes[c].name # s.name
  BY UnreadWhenRemoved DEF NamesRead
<1>8. \A s \in Sources(q.block[b]) : ReadBody(r, b, s) = ReadBody(q, b, s)
  BY <1>3, <1>7, ReadBodyAfter
<1>9. \A c \in q.block[b].scope \ gone : r.ctes[c] = q.ctes[c]
  BY <1>3 DEF WithoutCtes, IsBlock
<1>10. b \in Blocks(q)
  <2>1. CASE gone = {}
    <3>1. DOMAIN r.ctes = DOMAIN q.ctes /\ \A c \in DOMAIN q.ctes : r.ctes[c] = q.ctes[c]
      BY <2>1 DEF WithoutCtes
    <3> QED BY <3>1, ReadsStay DEF Blocks
  <2> QED BY <1>4, <2>1
<1> HIDE DEF r, gone
<1>11. \A s \in Sources(q.block[b]) : IsRelation(r, b, s.name) = IsRelation(q, b, s.name)
  BY <1>3, <1>5, <1>7, <1>9 DEF IsRelation, VisibleCtes
<1>12. \A s \in Sources(q.block[b]) : ColumnsOf(r, b, s) = ColumnsOf(q, b, s)
  BY <1>2, <1>3, <1>5, <1>6, <1>8, SameColumns
<1>13. BlockIsWellScoped(q, b) /\ IsList(q.block[b].from)
  BY <1>3, <1>10 DEF IsWellScoped, IsBlock
<1> QED BY <1>3, <1>5, <1>11, <1>12, <1>13, ScopeStays

\* The sources of the root that stay, in their places.
LEMMA KeptPlaces ==
  ASSUME NEW q, NEW N \in Nat, IsWhole(q, N)
  PROVE  LET from == q.block[1].from
             left == WithoutJoins(q).block[1].from
         IN  /\ DOMAIN from = 1..Len(from) /\ Len(from) \in Nat /\ DOMAIN left = 1..Len(left) /\ Len(left) \in Nat
             /\ \E place : PickedAt(place, left, from, KeptAt(q))
<1> DEFINE from == q.block[1].from
           left == WithoutJoins(q).block[1].from
<1>1. IsList(from)
  BY DEF IsWhole, IsBlock
<1>2. left = Picked(from, KeptAt(q))
  BY WithoutJoinsIs
<1> HIDE DEF from, left
<1>3. IsList(left)
  BY <1>1, <1>2, PickedList
<1> QED BY <1>1, <1>2, <1>3, ListFacts, PickedPlaces DEF from, left

\* A name that is bound in the root is bound without the joins that go.
LEMMA KeptBinds ==
  ASSUME NEW q, NEW N \in Nat, IsWhole(q, N), ~MissedUse(q),
         NEW place, PickedAt(place, WithoutJoins(q).block[1].from, q.block[1].from, KeptAt(q)),
         \A i \in DOMAIN q.block[1].from :
           ColumnsOf(WithoutJoins(q), 1, q.block[1].from[i]) = ColumnsOf(q, 1, q.block[1].from[i])
           \/ i \notin KeptAt(q),
         NEW ref, \A i \in RemovedAt(q) : ref \in KeptRefs(q.block[1], i),
         NEW n \in 0..Len(q.block[1].from), Binds(q, 1, ref, n),
         NEW k \in 0..Len(WithoutJoins(q).block[1].from),
         \A m \in 1..Len(WithoutJoins(q).block[1].from) : place[m] <= n => m <= k
  PROVE  Binds(WithoutJoins(q), 1, ref, k)
<1> DEFINE from == q.block[1].from
           r == WithoutJoins(q)
           left == r.block[1].from
<1>1. /\ DOMAIN from = 1..Len(from) /\ Len(from) \in Nat /\ DOMAIN left = 1..Len(left) /\ Len(left) \in Nat
  BY KeptPlaces
<1>2. PICK i \in 1..n : ref[1] \in {"", from[i].alias} /\ ref[2] \in ColumnsOf(q, 1, from[i])
  BY DEF Binds
<1>3. i \in DOMAIN from /\ i <= n
  BY <1>1
<1>4. i \in KeptAt(q)
  <2> SUFFICES ASSUME i \notin KeptAt(q) PROVE FALSE
    OBVIOUS
  <2>1. i \in RemovedAt(q) /\ ShouldRemoveJoin(q, i)
    BY <1>3 DEF RemovedAt, KeptAt
  <2>2. ref[1] \notin Identifiers(from[i]) /\ (ref[1] = "" => ref[2] \notin ToSet(TableColumns[from[i].name]))
        /\ ColumnsOf(q, 1, from[i]) = ToSet(TableColumns[from[i].name])
    BY <1>3, <2>1, GoneTable
  <2> QED BY <1>2, <2>2 DEF Identifiers
<1>5. PICK m \in 1..Len(left) : place[m] = i /\ left[m] = from[place[m]]
  <2>1. i \in KeptAt(q) \cap 1..Len(from)
    BY <1>1, <1>3, <1>4
  <2> HIDE DEF left, from
  <2> QED BY <2>1 DEF PickedAt, left, from
<1>6. m \in 1..k
  BY <1>1, <1>3, <1>5
<1>7. ColumnsOf(r, 1, left[m]) = ColumnsOf(q, 1, from[i]) /\ left[m] = from[i]
  BY <1>3, <1>4, <1>5
<1> HIDE DEF from, left
<1> QED BY <1>2, <1>6, <1>7 DEF Binds, left, r

\* The removal of joins leaves every name its source.
LEMMA ScopedWithoutJoins ==
  ASSUME NEW q, NEW N \in Nat, IsWhole(q, N), IsWellScoped(q), ~MissedUse(q)
  PROVE  IsWellScoped(WithoutJoins(q))
<1> DEFINE r == WithoutJoins(q)
<1> SUFFICES ASSUME NEW b \in Blocks(r) PROVE BlockIsWellScoped(r, b)
  BY DEF IsWellScoped
<1>1. b \in Blocks(q) /\ b \in DOMAIN q.block /\ IsBlock(q, b) /\ 1 \in DOMAIN q.block
  BY FewerBlocks, RootIsRead DEF IsWhole
<1>2. IsWhole(r, N)
  BY WholeWithoutJoins
<1>3. /\ \A p \in (DOMAIN q.block) \ {1} : r.block[p] = q.block[p]
      /\ \A p \in DOMAIN q.block : /\ \A s : ReadBody(r, p, s) = ReadBody(q, p, s)
                                   /\ \A name : IsRelation(r, p, name) = IsRelation(q, p, name)
                                   /\ r.block[p].out = q.block[p].out
      /\ r.block[1].from = Picked(q.block[1].from, KeptAt(q))
      /\ r.block[1].where = q.block[1].where /\ r.block[1].group = q.block[1].group
      /\ r.block[1].out = q.block[1].out
  BY WithoutJoinsIs
<1>4. BlockIsWellScoped(q, b)
  BY <1>1 DEF IsWellScoped
<1>5. \A s \in Sources(q.block[b]) \cap Sources(r.block[b]) : ColumnsOf(r, b, s) = ColumnsOf(q, b, s)
  BY <1>1, <1>2, <1>3, SameColumns
<1>6. CASE b # 1
  <2>1. r.block[b] = q.block[b]
    BY <1>1, <1>3, <1>6
  <2>2. \A s \in Sources(q.block[b]) :
          ColumnsOf(r, b, s) = ColumnsOf(q, b, s) /\ IsRelation(r, b, s.name) = IsRelation(q, b, s.name)
    BY <1>1, <1>3, <1>5, <2>1
  <2>3. IsList(q.block[b].from)
    BY <1>1 DEF IsBlock
  <2> HIDE DEF r
  <2> QED BY <1>4, <2>1, <2>2, <2>3, ScopeStays
<1>7. CASE b = 1
  <2> DEFINE blk == q.block[1]
             from == q.block[1].from
             left == r.block[1].from
  <2>1. /\ DOMAIN from = 1..Len(from) /\ Len(from) \in Nat /\ DOMAIN left = 1..Len(left) /\ Len(left) \in Nat
    BY KeptPlaces
  <2>2. PICK place : PickedAt(place, left, from, KeptAt(q))
    BY KeptPlaces
  <2>3. \A m \in 1..Len(left) : /\ place[m] \in KeptAt(q) \cap 1..Len(from) /\ left[m] = from[place[m]]
                                /\ left[m] \in ToSet(left) /\ left[m] \in ToSet(from)
    <3> TAKE m \in 1..Len(left)
    <3>1. place[m] \in KeptAt(q) \cap 1..Len(from) /\ left[m] = from[place[m]]
      BY <2>2 DEF PickedAt
    <3> QED BY <2>1, <3>1 DEF ToSet
  <2>4. \A m, l \in 1..Len(left) : m < l => place[m] < place[l]
    BY <2>2 DEF PickedAt
  <2>5. \A i \in DOMAIN from : ColumnsOf(r, 1, from[i]) = ColumnsOf(q, 1, from[i]) \/ i \notin KeptAt(q)
    <3> SUFFICES ASSUME NEW i \in DOMAIN from, i \in KeptAt(q) PROVE ColumnsOf(r, 1, from[i]) = ColumnsOf(q, 1, from[i])
      OBVIOUS
    <3>0. i \in KeptAt(q) \cap 1..Len(from)
      BY <2>1
    <3> HIDE DEF from, left
    <3>1. PICK m \in 1..Len(left) : left[m] = from[i]
      BY <2>2, <3>0 DEF PickedAt
    <3> USE DEF from, left
    <3>2. from[i] \in ToSet(left) /\ from[i] \in ToSet(from)
      BY <2>3, <3>1
    <3> QED BY <1>5, <1>7, <3>2 DEF Sources
  <2> DEFINE Stays(ref) == \A i \in RemovedAt(q) : ref \in KeptRefs(blk, i)
  <2>6. ASSUME NEW ref, Stays(ref), Binds(q, 1, ref, Len(from)) PROVE Binds(r, 1, ref, Len(left))
    <3>1. Len(from) \in 0..Len(from) /\ Len(left) \in 0..Len(left) /\ \A m \in 1..Len(left) : m <= Len(left)
      BY <2>1
    <3> QED BY <2>2, <2>5, <2>6, <3>1, KeptBinds
  <2>7. ASSUME NEW m \in 1..Len(left), NEW ref, Stays(ref), Binds(q, 1, ref, place[m]) PROVE Binds(r, 1, ref, m)
    <3>1. place[m] \in 0..Len(from) /\ m \in 0..Len(left)
      BY <2>1, <2>3
    <3>2. ASSUME NEW l \in 1..Len(left), place[l] <= place[m] PROVE l <= m
      <4>1. ~(m < l)
        BY <2>3, <2>4, <3>1, <3>2
      <4> QED BY <2>1, <4>1
    <3> QED BY <2>2, <2>5, <2>7, <3>1, <3>2, KeptBinds
  <2>8. /\ \A s \in ToSet(from) : s.name # "" => IsRelation(q, 1, s.name)
        /\ \A x \in ToSet(blk.out) : IsColumn(x.val) => Binds(q, 1, x.val, Len(from))
        /\ \A ref \in ToSet(blk.group) : Binds(q, 1, ref, Len(from))
        /\ \A t \in ToSet(blk.where) : TermBinds(q, 1, t, Len(from))
        /\ \A i \in DOMAIN from : \A t \in ToSet(from[i].on) : TermBinds(q, 1, t, i)
    BY <1>4, <1>7, WellScopedParts
  <2>9. /\ \A x \in ToSet(blk.out) : IsColumn(x.val) => Stays(x.val)
        /\ \A ref \in ToSet(blk.group) : Stays(ref)
        /\ \A t \in ToSet(blk.where) : \A ref \in ToSet(t.refs) : Stays(ref)
        /\ \A j \in KeptAt(q) : \A t \in ToSet(from[j].on) : \A ref \in ToSet(t.refs) : Stays(ref)
    BY KeptReferences
  <2>10. /\ r.block[1].out = blk.out /\ r.block[1].group = blk.group /\ r.block[1].where = blk.where
         /\ \A name : IsRelation(r, 1, name) = IsRelation(q, 1, name)
    BY <1>1, <1>3
  <2> HIDE DEF r, Stays, blk, left, from
  <2>11. \A s \in ToSet(left) : s.name # "" => IsRelation(r, 1, s.name)
    <3>1. \A s \in ToSet(left) : s \in ToSet(from)
      BY <2>1, <2>3 DEF ToSet
    <3> QED BY <2>8, <2>10, <3>1
  <2>12. \A t \in ToSet(blk.where) : TermBinds(r, 1, t, Len(left))
    BY <2>6, <2>8, <2>9, <2>10 DEF TermBinds
  <2>13. ASSUME NEW m \in DOMAIN left, NEW t \in ToSet(left[m].on) PROVE TermBinds(r, 1, t, m)
    <3>1. /\ m \in 1..Len(left) /\ place[m] \in DOMAIN from /\ place[m] \in KeptAt(q) /\ t \in ToSet(from[place[m]].on)
      BY <2>1, <2>3, <2>13
    <3>2. TermBinds(q, 1, t, place[m]) /\ \A ref \in ToSet(t.refs) : Stays(ref)
      BY <2>8, <2>9, <3>1
    <3> QED BY <2>7, <2>10, <3>1, <3>2 DEF TermBinds
  <2>14. /\ \A x \in ToSet(blk.out) : IsColumn(x.val) => Binds(r, 1, x.val, Len(left))
         /\ \A ref \in ToSet(blk.group) : Binds(r, 1, ref, Len(left))
    BY <2>6, <2>8, <2>9
  <2>15. BlockIsWellScoped(r, 1)
    BY <2>10, <2>11, <2>12, <2>13, <2>14, WellScopedParts DEF left
  <2> QED BY <1>7, <2>15 DEF r
<1> QED BY <1>6, <1>7

\* A pass does not make a use that the code misses.
LEMMA NoneIsMissed ==
  ASSUME NEW q, NEW N \in Nat, IsWhole(q, N), ~MissedUse(q)
  PROVE  ~MissedUse(WithoutJoins(q))
<1> DEFINE r == WithoutJoins(q)
           blk == q.block[1]
           root == r.block[1]
           from == blk.from
           left == root.from
           all(terms) == UNION {ToSet(t.refs) : t \in terms}
           refs(x) == {o.val : o \in {o \in ToSet(x.out) : IsColumn(o.val)}} \cup ToSet(x.group) \cup all(TermsOf(x))
           Missed(p, i) ==
             LET x == p.block[1] s == x.from[i]
             IN  /\ s.join = "left"
                 /\ \/ \E ref \in all({t \in TermsOf(x) : t.op = "between"}) : ref[1] \in Identifiers(s)
                    \/ \E ref \in refs(x) : ref[1] = "" /\ ref[2] \in ColumnsOf(p, 1, s)
                    \/ \A ref \in all(ToSet(s.on)) : ref[1] = s.alias
                    \/ \E j \in (DOMAIN x.from) \ {i} : x.from[j].alias \in Identifiers(s)
                    \/ VisibleCtes(p, x.scope, s.name) # {} /\ s.name \in DOMAIN Schema
<1>1. \A p : MissedUse(p) <=> \E i \in DOMAIN p.block[1].from : Missed(p, i)
  BY DEF MissedUse
<1>2. /\ DOMAIN from = 1..Len(from) /\ Len(from) \in Nat /\ DOMAIN left = 1..Len(left) /\ Len(left) \in Nat
  BY KeptPlaces
<1>3. PICK place : PickedAt(place, left, from, KeptAt(q))
  BY KeptPlaces
<1>4. \A m \in 1..Len(left) : place[m] \in 1..Len(from) /\ left[m] = from[place[m]]
  BY <1>3 DEF PickedAt
<1>5. \A m, l \in 1..Len(left) : m # l => place[m] # place[l]
  BY <1>2, <1>3 DEF PickedAt
<1>6. /\ 1 \in DOMAIN q.block /\ root.out = blk.out /\ root.group = blk.group /\ root.where = blk.where
      /\ root.scope = blk.scope /\ r.ctes = q.ctes /\ \A s : ReadBody(r, 1, s) = ReadBody(q, 1, s)
      /\ \A p \in DOMAIN q.block : r.block[p].out = q.block[p].out
  <2>1. 1 \in DOMAIN q.block /\ r.ctes = q.ctes
    BY DEF IsWhole, WithoutJoins
  <2> QED BY <2>1, WithoutJoinsIs
<1>7. IsWhole(r, N)
  BY WholeWithoutJoins
<1>8. \A m \in 1..Len(left) : ColumnsOf(r, 1, left[m]) = ColumnsOf(q, 1, left[m])
  <2> TAKE m \in 1..Len(left)
  <2>1. left[m] \in Sources(blk) \cap Sources(root)
    BY <1>2, <1>4 DEF Sources, ToSet
  <2> HIDE DEF left
  <2> QED BY <1>6, <1>7, <2>1, SameColumns
<1>9. TermsOf(root) \subseteq TermsOf(blk)
  <2>1. ToSet(left) \subseteq ToSet(from)
    BY <1>2, <1>4 DEF ToSet
  <2> QED BY <1>6, <2>1 DEF TermsOf
<1>10. refs(root) \subseteq refs(blk) /\ all({t \in TermsOf(root) : t.op = "between"}) \subseteq all({t \in TermsOf(blk) : t.op = "between"})
  BY <1>6, <1>9
<1> HIDE DEF refs, all
<1>11. ASSUME NEW m \in DOMAIN left, Missed(r, m) PROVE Missed(q, place[m])
  <2>1. m \in 1..Len(left) /\ left[m] = from[place[m]]
    BY <1>2, <1>4
  <2> DEFINE s == left[m]
  <2>2. s.join = "left"
    BY <1>11
  <2>3. CASE \E ref \in all({t \in TermsOf(root) : t.op = "between"}) : ref[1] \in Identifiers(s)
    BY <1>10, <2>1, <2>2, <2>3
  <2>4. CASE \E ref \in refs(root) : ref[1] = "" /\ ref[2] \in ColumnsOf(r, 1, s)
    BY <1>8, <1>10, <2>1, <2>2, <2>4
  <2>5. CASE \A ref \in all(ToSet(s.on)) : ref[1] = s.alias
    BY <2>1, <2>2, <2>5
  <2>6. CASE \E j \in (DOMAIN left) \ {m} : left[j].alias \in Identifiers(s)
    <3>1. PICK j \in (DOMAIN left) \ {m} : left[j].alias \in Identifiers(s)
      BY <2>6
    <3>2. place[j] \in (DOMAIN from) \ {place[m]} /\ left[j] = from[place[j]]
      BY <1>2, <1>4, <1>5, <2>1, <3>1
    <3> QED BY <2>1, <2>2, <3>1, <3>2
  <2>7. CASE VisibleCtes(r, root.scope, s.name) # {} /\ s.name \in DOMAIN Schema
    <3>1. VisibleCtes(q, blk.scope, s.name) # {}
      BY <1>6, <2>7 DEF VisibleCtes
    <3> QED BY <2>1, <2>2, <2>7, <3>1
  <2> QED BY <1>11, <2>3, <2>4, <2>5, <2>6, <2>7
<1> HIDE DEF Missed
<1>12. ~\E m \in DOMAIN left : Missed(r, m)
  BY <1>1, <1>2, <1>4, <1>11
<1> QED BY <1>1, <1>12

\* The query means what it meant, and in its first phase none of its uses is missed.
MeaningInv ==
  ~MissedUse(input) =>
    /\ IsWellScoped(query)
    /\ \A db \in Databases : Meaning(query, db) = Meaning(input, db)
    /\ phase = "joins" => ~MissedUse(query)

(* DynamicQueryBuilder's removal of unused joins and CTEs: whatever the query, the
   schema and the tables, at every pass each name of the query still has its source,
   and it returns the rows of the query that came in. *)
THEOREM RemovalKeepsTheMeaning == UnusedSpec => []RemovalMeansTheSame
<1>1. UnusedInit => MeaningInv
  <2> SUFFICES ASSUME UnusedInit PROVE MeaningInv
    OBVIOUS
  <2>1. input \in UnusedInputs /\ query = input
    BY DEF UnusedInit
  <2>2. IsWellScoped(input)
    BY <2>1, UnusedInputsAssumption DEF UnusedInputsAssumption
  <2> QED BY <2>1, <2>2 DEF MeaningInv
<1>2. WholeInv /\ MeaningInv /\ [UnusedNext]_uvars => MeaningInv'
  <2> SUFFICES ASSUME WholeInv, MeaningInv, [UnusedNext]_uvars, ~MissedUse(input)' PROVE MeaningInv'
    BY DEF MeaningInv
  <2>1. PICK N \in Nat : IsWhole(query, N)
    BY DEF WholeInv
  <2>2. input' = input
    BY DEF UnusedNext, RemoveUnusedJoins, RemoveUnusedCtes, uvars
  <2>3. /\ IsWellScoped(query) /\ (phase = "joins" => ~MissedUse(query))
        /\ \A db \in Databases : Meaning(query, db) = Meaning(input, db)
    BY <2>2 DEF MeaningInv
  <2>4. CASE RemoveUnusedJoins /\ query' = WithoutJoins(query)
    <3>1. ~MissedUse(query)
      BY <2>3, <2>4 DEF RemoveUnusedJoins
    <3>2. IsWellScoped(query') /\ ~MissedUse(query')
      BY <2>1, <2>3, <2>4, <3>1, ScopedWithoutJoins, NoneIsMissed
    <3>3. \A db \in Databases : Meaning(query', db) = Meaning(query, db)
      BY <2>1, <2>3, <2>4, <3>1, JoinsChangeNoRow
    <3> QED BY <2>2, <2>3, <3>2, <3>3 DEF MeaningInv
  <2>5. CASE RemoveUnusedJoins /\ query' = query /\ phase' # "joins"
    BY <2>2, <2>3, <2>5 DEF MeaningInv
  <2>6. CASE RemoveUnusedCtes /\ query' = WithoutCtes(query, Unreferenced(query))
    <3>1. phase' # "joins"
      BY <2>6 DEF RemoveUnusedCtes
    <3>2. IsWellScoped(query')
      BY <2>1, <2>3, <2>6, ScopedWithoutCtes
    <3>3. \A db : Meaning(query', db) = Meaning(query, db)
      BY <2>1, <2>6, UnreferencedChangeNoRow
    <3> QED BY <2>2, <2>3, <3>1, <3>2, <3>3 DEF MeaningInv
  <2>7. CASE RemoveUnusedCtes /\ query' = query /\ phase' # "joins"
    BY <2>2, <2>3, <2>7 DEF MeaningInv
  <2>8. CASE UNCHANGED uvars
    BY <2>3, <2>8 DEF uvars, MeaningInv
  <2>9. RemoveUnusedJoins => query' = WithoutJoins(query) \/ (query' = query /\ phase' # "joins")
    BY DEF RemoveUnusedJoins
  <2>10. RemoveUnusedCtes => query' = WithoutCtes(query, Unreferenced(query)) \/ (query' = query /\ phase' # "joins")
    BY DEF RemoveUnusedCtes
  <2> QED BY <2>4, <2>5, <2>6, <2>7, <2>8, <2>9, <2>10 DEF UnusedNext
<1>3. MeaningInv => RemovalMeansTheSame
  <2> SUFFICES ASSUME MeaningInv, ~MissedUse(input) PROVE IsWellScoped(query) /\ SameMeaning(query, input)
    BY DEF RemovalMeansTheSame
  <2>1. IsWellScoped(query) /\ \A db \in Databases : Meaning(query, db) = Meaning(input, db)
    BY DEF MeaningInv
  <2>2. ASSUME NEW db \in Databases PROVE Cardinality({Meaning(one, db) : one \in {query, input}}) = 1
    <3>1. {Meaning(one, db) : one \in {query, input}} = {Meaning(input, db)}
      BY <2>1
    <3> QED BY <3>1, FS_Singleton
  <2> QED BY <2>1, <2>2 DEF SameMeaning
<1> QED BY <1>1, <1>2, <1>3, WholeInvHolds, PTL DEF UnusedSpec

--------------------------------------------------------------------------------
(* The search for a place never ends in the root, which is nobody's source *)

Below(q) == (DOMAIN q.block) \ {1}

LEMMA ReachableSource ==
  ASSUME NEW q, NEW b, NEW refs, NEW i \in Reachable(q, b, refs)
  PROVE  i \in DOMAIN q.block[b].from
<1>1. \A ref : SourceBinding(q, b, ref) \subseteq DOMAIN q.block[b].from
  BY DEF SourceBinding
<1>2. SoleSource(q, b, refs) \subseteq UNION {SourceBinding(q, b, ref) : ref \in ToSet(refs)}
  BY DEF SoleSource
<1> QED BY <1>1, <1>2 DEF Reachable

LEMMA UpstreamBody ==
  ASSUME NEW q, IsTree(q), NEW b \in DOMAIN q.block, NEW i \in DOMAIN q.block[b].from,
         NEW body \in Upstream(q, q.block[b].from[i])
  PROVE  IsBody(q, body)
<1>1. \A name : FindCte(q, name) \subseteq DOMAIN q.ctes
  BY DEF FindCte
<1> QED BY <1>1 DEF Upstream, IsTree

LEMMA DeeperIsBelow ==
  ASSUME NEW q, IsTree(q), NEW optimizer, NEW t, t.block \in Below(q)
  PROVE  Deeper(q, t, optimizer).block \in Below(q)
<1>1. ASSUME NEW u \in TargetsAbove(q, t, optimizer) PROVE u.block \in Below(q)
  <2>1. PICK i \in Reachable(q, t.block, t.columns) :
        \E body \in Upstream(q, q.block[t.block].from[i]) :
          body.op = "simple" /\ u.block = body.parts[1]
    BY <1>1 DEF TargetsAbove, At
  <2>2. PICK body \in Upstream(q, q.block[t.block].from[i]) :
          body.op = "simple" /\ u.block = body.parts[1]
    BY <2>1
  <2>3. IsBody(q, body)
    BY ReachableSource, UpstreamBody DEF Below
  <2> QED BY <2>2, <2>3 DEF IsBody, Below
<1> QED BY <1>1 DEF Deeper

Descent(q, t, optimizer, after, m) ==
  after = [n \in 0..m |-> IF n = 0 THEN t ELSE Deeper(q, after[n - 1], optimizer)]

\* There is the function by which DeepestBranchTarget is defined.
LEMMA DescentSteps ==
  ASSUME NEW q, NEW t, NEW optimizer, NEW N \in Nat
  PROVE  \E after : Descent(q, t, optimizer, after, N)
<1> DEFINE Undefined == {m \in Nat : ~\E after : Descent(q, t, optimizer, after, m)}
<1>1. Undefined = {}
  <2> SUFFICES ASSUME Undefined # {} PROVE FALSE
    OBVIOUS
  <2>1. PICK m \in Undefined : \A n \in Undefined : m <= n
    <3>1. Undefined \in SUBSET Nat
      OBVIOUS
    <3> QED BY <3>1, LeastNat
  <2>2. m # 0
    <3>1. Descent(q, t, optimizer, [n \in 0..0 |-> t], 0)
      BY DEF Descent
    <3> QED BY <3>1
  <2>3. PICK f : Descent(q, t, optimizer, f, m - 1)
    <3>1. m - 1 \in Nat /\ ~(m <= m - 1)
      BY <2>2
    <3> QED BY <2>1, <3>1
  <2> DEFINE g == [n \in 0..m |-> IF n = m THEN Deeper(q, f[m - 1], optimizer) ELSE f[n]]
  <2>4. Descent(q, t, optimizer, g, m)
    <3>1. \A n \in 0..(m - 1) : f[n] = IF n = 0 THEN t ELSE Deeper(q, f[n - 1], optimizer)
      BY <2>3 DEF Descent
    <3>2. ASSUME NEW n \in 0..m PROVE g[n] = IF n = 0 THEN t ELSE Deeper(q, g[n - 1], optimizer)
      <4>1. CASE n = m
        BY <2>2, <4>1
      <4>2. CASE n # m
        <5>1. n \in 0..(m - 1) /\ (n # 0 => n - 1 \in 0..m /\ n - 1 # m)
          BY <4>2
        <5> QED BY <3>1, <4>2, <5>1
      <4> QED BY <4>1, <4>2
    <3> QED BY <3>2 DEF Descent
  <2> QED BY <2>1, <2>4
<1> QED BY <1>1

LEMMA DeepestIsBelow ==
  ASSUME NEW q, IsTree(q), NEW b \in Below(q), NEW columns, NEW optimizer
  PROVE  DeepestBranchTarget(q, b, columns, optimizer).block \in Below(q)
<1> DEFINE N == Len(q.block)
           after == CHOOSE f : Descent(q, At(b, columns), optimizer, f, N)
           Wrong == {n \in 0..N : after[n].block \notin Below(q)}
<1>0. N \in Nat
  BY DEF IsTree
<1>1. Descent(q, At(b, columns), optimizer, after, N)
  BY <1>0, DescentSteps
<1>2. DeepestBranchTarget(q, b, columns, optimizer) = after[N]
  BY DEF DeepestBranchTarget, Descent
<1> HIDE DEF after, N
<1>3. \A n \in 0..N :
        after[n] = IF n = 0 THEN At(b, columns) ELSE Deeper(q, after[n - 1], optimizer)
  BY <1>1 DEF Descent
<1>4. Wrong = {}
  <2> SUFFICES ASSUME Wrong # {} PROVE FALSE
    OBVIOUS
  <2>1. PICK m \in Wrong : \A n \in Wrong : m <= n
    <3>1. Wrong \in SUBSET Nat
      OBVIOUS
    <3> QED BY <3>1, LeastNat
  <2>2. m # 0
    BY <1>0, <1>3 DEF At
  <2>3. after[m - 1].block \in Below(q)
    <3>1. m - 1 \in 0..N /\ ~(m <= m - 1)
      BY <1>0, <2>2
    <3> QED BY <2>1, <3>1
  <2>4. after[m] = Deeper(q, after[m - 1], optimizer)
    BY <1>3, <2>2
  <2> QED BY <2>3, <2>4, DeeperIsBelow
<1> QED BY <1>0, <1>2, <1>4

\* A destination is a join of the block itself, or blocks below the root.
LEMMA DestinationIsBelow ==
  ASSUME NEW q, IsTree(q), NEW b \in DOMAIN q.block, NEW t, NEW optimizer,
         NEW d \in Destination(q, b, t, optimizer)
  PROVE  \/ d.kind = "on"
         \/ /\ d.kind = "where" /\ 1 \in DOMAIN d.targets
            /\ \A n \in DOMAIN d.targets : d.targets[n].block \in Below(q)
<1> DEFINE refs == OuterRefs(t)
           into(body) ==
             CASE body.op = "simple" -> {<<At(body.parts[1], cols)>> : cols \in TargetColumns(q, body.parts[1], refs)}
               [] IsUnion(body) -> UnionTargets(q, body, refs, optimizer)
               [] OTHER -> {}
           Good(ts) == 1 \in DOMAIN ts /\ \A n \in DOMAIN ts : ts[n].block \in Below(q)
<1>1. ASSUME NEW body, IsBody(q, body), NEW ts \in into(body) PROVE Good(ts)
  <2>1. CASE body.op = "simple"
    <3>1. PICK cols : ts = <<At(body.parts[1], cols)>>
      BY <1>1, <2>1 DEF IsUnion
    <3>2. body.parts[1] \in Below(q)
      BY <1>1, <2>1 DEF IsBody, Below
    <3> QED BY <3>1, <3>2 DEF At
  <2>2. CASE IsUnion(body)
    <3>1. body.op # "simple" /\ body.op # "none"
      BY <2>2 DEF IsUnion
    <3>2. ts \in UnionTargets(q, body, refs, optimizer)
      BY <1>1, <2>2, <3>1
    <3>3. PICK at : ts = [n \in DOMAIN body.parts |->
             DeepestBranchTarget(q, body.parts[n],
               CHOOSE cols \in BranchColumns(q, body.parts[n], refs, at) : TRUE, optimizer)]
      BY <3>2 DEF UnionTargets
    <3>4. 1 \in DOMAIN body.parts /\ \A n \in DOMAIN body.parts : body.parts[n] \in Below(q)
      BY <1>1, <3>1 DEF IsBody, Below
    <3> QED BY <3>3, <3>4, DeepestIsBelow
  <2> QED BY <1>1, <2>1, <2>2
<1> HIDE DEF into
<1>2. PICK i \in Reachable(q, b, refs) :
        IF IsTable(q, q.block[b].from[i]) THEN d \in JoinOn(q, b, i)
        ELSE \E body \in Upstream(q, q.block[b].from[i]) : \E ts \in into(body) : d = Into(ts)
  BY DEF Destination, into
<1>3. CASE IsTable(q, q.block[b].from[i])
  BY <1>2, <1>3 DEF JoinOn
<1>4. CASE ~IsTable(q, q.block[b].from[i])
  <2>1. PICK body \in Upstream(q, q.block[b].from[i]) : \E ts \in into(body) : d = Into(ts)
    BY <1>2, <1>4
  <2>2. IsBody(q, body)
    BY ReachableSource, UpstreamBody
  <2> QED BY <1>1, <2>1, <2>2 DEF Into
<1> QED BY <1>3, <1>4

--------------------------------------------------------------------------------
(* What a step does to the conditions leaves the rest of the query as it is *)

\* Two queries of which a place is looked for in the same way.
Alike(q, r) == IsQuery(r) /\ Skeleton(r) = Skeleton(q)

LEMMA SkeletonIsTree ==
  ASSUME NEW q, IsQuery(q)
  PROVE  IsTree(Skeleton(q))
<1> DEFINE s == Skeleton(q)
           N == Len(q.block)
<1>1. s.ctes = q.ctes /\ DOMAIN s.block = 1..N /\ N \in Nat \ {0} /\ DOMAIN q.block = 1..N
  BY DEF Skeleton, IsQuery, IsTree
<1>2. Len(s.block) = N
  BY <1>1
<1>3. \A b \in 1..N : /\ DOMAIN s.block[b].from = DOMAIN q.block[b].from
                      /\ \A i \in DOMAIN q.block[b].from : s.block[b].from[i].body = q.block[b].from[i].body
  BY <1>1 DEF Skeleton, Bare, BareSource
<1>4. \A body : IsBody(q, body) => IsBody(s, body)
  BY <1>1 DEF IsBody
<1> HIDE DEF s, N
<1>5. IsTree(s)
  BY <1>1, <1>2, <1>3, <1>4 DEF IsQuery, IsTree
<1> QED BY <1>5 DEF s

LEMMA NewConditions ==
  ASSUME NEW q, IsQuery(q), NEW wheres,
         \A b \in DOMAIN q.block : IsList(wheres[b])
  PROVE  /\ Alike(q, WithConditions(q, wheres))
         /\ \A b \in DOMAIN q.block : WithConditions(q, wheres).block[b].where = wheres[b]
<1> DEFINE r == WithConditions(q, wheres)
           N == Len(q.block)
<1>1. r.ctes = q.ctes /\ DOMAIN r.block = 1..N /\ N \in Nat \ {0} /\ DOMAIN q.block = 1..N /\ Len(r.block) = N
  BY DEF WithConditions, IsQuery, IsTree
<1>2. \A b \in 1..N : r.block[b] = [q.block[b] EXCEPT !.where = wheres[b]]
  BY <1>1 DEF WithConditions
<1> HIDE DEF r, N
<1>3. ASSUME NEW b \in 1..N
      PROVE  /\ DOMAIN r.block[b] = DOMAIN q.block[b] /\ r.block[b].where = wheres[b]
             /\ r.block[b].from = q.block[b].from
             /\ Bare(r.block[b]) = Bare(q.block[b])
  <2>1. DOMAIN q.block[b] = {"from", "out", "where", "group", "having", "distinct", "limit", "scope"}
    BY <1>1 DEF IsQuery
  <2>2. \A field \in (DOMAIN q.block[b]) \ {"where"} : r.block[b][field] = q.block[b][field]
    BY <1>2
  <2>3. r.block[b].from = q.block[b].from /\ r.block[b].out = q.block[b].out
        /\ r.block[b].group = q.block[b].group /\ r.block[b].having = q.block[b].having
        /\ r.block[b].distinct = q.block[b].distinct /\ r.block[b].limit = q.block[b].limit
    BY <2>1, <2>2
  <2>4. DOMAIN r.block[b] = DOMAIN q.block[b] /\ r.block[b].where = wheres[b]
    BY <1>2, <2>1
  <2> QED BY <2>3, <2>4 DEF Bare
<1>4. Skeleton(r) = Skeleton(q)
  BY <1>1, <1>3 DEF Skeleton
<1>5. \A body : IsBody(q, body) => IsBody(r, body)
  BY <1>1 DEF IsBody
<1>6. IsTree(r)
  BY <1>1, <1>3, <1>5 DEF IsQuery, IsTree
<1>7. IsQuery(r)
  BY <1>1, <1>3, <1>6 DEF IsQuery
<1> QED BY <1>1, <1>3, <1>4, <1>7 DEF Alike, r

LEMMA NewJoinConditions ==
  ASSUME NEW q, IsQuery(q), NEW ons,
         \A b \in DOMAIN q.block : \A i \in DOMAIN q.block[b].from : IsList(ons[b][i])
  PROVE  /\ Alike(q, WithJoinConditions(q, ons))
         /\ \A b \in DOMAIN q.block : WithJoinConditions(q, ons).block[b].where = q.block[b].where
<1> DEFINE r == WithJoinConditions(q, ons)
           N == Len(q.block)
           from(b) == [i \in DOMAIN q.block[b].from |-> [q.block[b].from[i] EXCEPT !.on = ons[b][i]]]
<1>1. r.ctes = q.ctes /\ DOMAIN r.block = 1..N /\ N \in Nat \ {0} /\ DOMAIN q.block = 1..N /\ Len(r.block) = N
  BY DEF WithJoinConditions, IsQuery, IsTree
<1>2. \A b \in 1..N : r.block[b] = [q.block[b] EXCEPT !.from = from(b)]
  BY <1>1 DEF WithJoinConditions
<1>3. \A b \in 1..N : \A i \in DOMAIN q.block[b].from :
        /\ DOMAIN from(b)[i] = DOMAIN q.block[b].from[i]
        /\ from(b)[i].body = q.block[b].from[i].body
        /\ from(b)[i].alias = q.block[b].from[i].alias /\ from(b)[i].on = ons[b][i]
        /\ BareSource(from(b)[i]) = BareSource(q.block[b].from[i])
  BY <1>1 DEF IsQuery, IsFrom, BareSource
<1>4. \A b \in 1..N : DOMAIN from(b) = DOMAIN q.block[b].from
  OBVIOUS
<1>6. \A b \in 1..N : IsFrom(from(b))
  <2> TAKE b \in 1..N
  <2>1. IsFrom(q.block[b].from)
    BY <1>1 DEF IsQuery
  <2>2. IsList(from(b))
    <3>1. DOMAIN q.block[b].from = 1..Len(q.block[b].from) /\ Len(q.block[b].from) \in Nat
      BY <2>1, ListFacts DEF IsFrom
    <3>2. from(b) = [i \in 1..Len(q.block[b].from) |-> [q.block[b].from[i] EXCEPT !.on = ons[b][i]]]
      BY <3>1
    <3> QED BY <3>1, <3>2, ListOf
  <2> HIDE DEF from
  <2>3. ASSUME NEW i \in DOMAIN from(b)
        PROVE  DOMAIN from(b)[i] = {"name", "alias", "body", "join", "on"} /\ IsList(from(b)[i].on)
    <3>1. i \in DOMAIN q.block[b].from
      BY <1>4
    <3>2. DOMAIN q.block[b].from[i] = {"name", "alias", "body", "join", "on"} /\ IsList(ons[b][i])
      BY <1>1, <2>1, <3>1 DEF IsFrom
    <3> QED BY <1>3, <3>1, <3>2
  <2>4. ASSUME NEW i \in DOMAIN from(b), NEW j \in DOMAIN from(b), from(b)[i].alias = from(b)[j].alias
        PROVE  i = j
    <3>1. i \in DOMAIN q.block[b].from /\ j \in DOMAIN q.block[b].from
      BY <1>4
    <3>2. q.block[b].from[i].alias = q.block[b].from[j].alias
      BY <1>3, <2>4, <3>1
    <3> QED BY <2>1, <3>1, <3>2 DEF IsFrom
  <2> QED BY <2>2, <2>3, <2>4 DEF IsFrom
<1> HIDE DEF r, N, from
<1>5. ASSUME NEW b \in 1..N
      PROVE  /\ DOMAIN r.block[b] = DOMAIN q.block[b] /\ r.block[b].where = q.block[b].where
             /\ r.block[b].from = from(b)
             /\ Bare(r.block[b]) = Bare(q.block[b])
  <2>1. DOMAIN q.block[b] = {"from", "out", "where", "group", "having", "distinct", "limit", "scope"}
    BY <1>1 DEF IsQuery
  <2>2. \A field \in (DOMAIN q.block[b]) \ {"from"} : r.block[b][field] = q.block[b][field]
    BY <1>2
  <2>3. r.block[b].where = q.block[b].where /\ r.block[b].out = q.block[b].out
        /\ r.block[b].group = q.block[b].group /\ r.block[b].having = q.block[b].having
        /\ r.block[b].distinct = q.block[b].distinct /\ r.block[b].limit = q.block[b].limit
    BY <2>1, <2>2
  <2>4. DOMAIN r.block[b] = DOMAIN q.block[b] /\ r.block[b].from = from(b)
    BY <1>2, <2>1
  <2>5. [i \in DOMAIN from(b) |-> BareSource(from(b)[i])]
          = [i \in DOMAIN q.block[b].from |-> BareSource(q.block[b].from[i])]
    BY <1>3, <1>4
  <2> QED BY <2>3, <2>4, <2>5 DEF Bare
<1>7. Skeleton(r) = Skeleton(q)
  BY <1>1, <1>5 DEF Skeleton
<1>8. \A body : IsBody(q, body) => IsBody(r, body)
  BY <1>1 DEF IsBody
<1>9. IsTree(r)
  BY <1>1, <1>3, <1>4, <1>5, <1>8 DEF IsQuery, IsTree
<1>10. IsQuery(r)
  BY <1>1, <1>5, <1>6, <1>9 DEF IsQuery
<1> QED BY <1>1, <1>5, <1>7, <1>10 DEF Alike, r

LEMMA AppendedList ==
  ASSUME NEW terms, IsList(terms), NEW t
  PROVE  IsList(Append(terms, t))
<1>1. Append(terms, t) \in Seq(ToSet(terms) \cup {t})
  BY DEF IsList
<1>2. \A S : \A p \in Seq(S) : p \in Seq(ToSet(p))
  BY DEF ToSet
<1> QED BY <1>1, <1>2 DEF IsList

LEMMA DedupedList ==
  ASSUME NEW terms, IsList(terms)
  PROVE  IsList(Dedupe(terms)) /\ ToSet(Dedupe(terms)) \subseteq ToSet(terms)
<1> DEFINE first == {n \in DOMAIN terms : \A m \in 1..(n - 1) : terms[m] # terms[n]}
<1>1. Dedupe(terms) = Picked(terms, first)
  BY DEF Dedupe
<1> HIDE DEF first
<1>2. {terms[n] : n \in (DOMAIN terms) \cap first} \subseteq ToSet(terms)
  BY DEF ToSet
<1> QED BY <1>1, <1>2, PickedList

--------------------------------------------------------------------------------
(* ConditionOptimization *)

\* The terms of the root that a place would be found for.
Movable(q, optimizer) == {t \in ToSet(q.block[1].where) : Places(q, 1, t, optimizer) # {}}

IsItem(q, x) ==
  /\ x = [block |-> x.block, todo |-> x.todo, moved |-> x.moved]
  /\ x.block \in DOMAIN q.block /\ IsList(x.todo)

(* Only the first item may be the root, and what is movable in the root is still to
   be looked at or has been copied and will leave. *)
Queued(q, items, optimizer) ==
  /\ IsList(items)
  /\ \A n \in 1..Len(items) : IsItem(q, items[n]) /\ (n > 1 => items[n].block # 1)
  /\ \A t \in Movable(q, optimizer) :
       /\ items # <<>> /\ items[1].block = 1
       /\ t \in ToSet(items[1].todo) \cup items[1].moved

PlacementInv ==
  /\ phase \in Phases /\ IsQuery(query)
  /\ phase \in {"parameter", "static"} => Queued(query, agenda, phase)
  /\ phase \in {"static", "dedupe", "optimized"} => Movable(query, "parameter") = {}
  /\ phase \in {"dedupe", "optimized"} => Movable(query, "static") = {}

LEMMA FewerMovable ==
  ASSUME NEW q, NEW r, Alike(q, r), ToSet(r.block[1].where) \subseteq ToSet(q.block[1].where),
         NEW optimizer
  PROVE  Movable(r, optimizer) = Movable(q, optimizer) \cap ToSet(r.block[1].where)
BY DEF Movable, Places, Alike

\* A move leaves the conditions of the root alone.
LEMMA PlaceSpareRoot ==
  ASSUME NEW q, IsQuery(q), NEW b \in DOMAIN q.block, NEW t, NEW optimizer,
         NEW d \in Places(q, b, t, optimizer)
  PROVE  /\ Alike(q, Place(q, b, t, d))
         /\ Place(q, b, t, d).block[1].where = q.block[1].where
         /\ d.kind = "on" \/ (1 \in DOMAIN d.targets /\ d.targets[1].block \in Below(q))
<1>1. DOMAIN Skeleton(q).block = DOMAIN q.block /\ 1 \in DOMAIN q.block
  BY DEF Skeleton, IsQuery, IsTree
<1>2. d \in Destination(Skeleton(q), b, t, optimizer)
  BY DEF Places
<1>3. \/ d.kind = "on"
      \/ /\ d.kind = "where" /\ 1 \in DOMAIN d.targets
         /\ \A n \in DOMAIN d.targets : d.targets[n].block \in Below(q)
  BY <1>1, <1>2, SkeletonIsTree, DestinationIsBelow DEF Below
<1>4. CASE d.kind = "on"
  <2> DEFINE ons == [JoinConditions(q) EXCEPT ![b][d.join] = Dedupe(Append(@, t))]
  <2>1. ASSUME NEW c \in DOMAIN q.block, NEW i \in DOMAIN q.block[c].from PROVE IsList(ons[c][i])
    <3>1. IsList(q.block[c].from[i].on)
      BY DEF IsQuery, IsFrom
    <3>2. IsList(Dedupe(Append(q.block[c].from[i].on, t)))
      BY <3>1, AppendedList, DedupedList
    <3>3. ons[c][i] \in {q.block[c].from[i].on, Dedupe(Append(q.block[c].from[i].on, t))}
      BY DEF JoinConditions
    <3> QED BY <3>1, <3>2, <3>3
  <2>2. Place(q, b, t, d) = WithJoinConditions(q, ons)
    BY <1>4 DEF Place, AddToOn
  <2> HIDE DEF ons
  <2> QED BY <1>1, <1>4, <2>1, <2>2, NewJoinConditions
<1>5. CASE d.kind # "on"
  <2> DEFINE here(c) == {n \in DOMAIN d.targets : d.targets[n].block = c}
             wheres == [c \in DOMAIN q.block |->
               IF here(c) = {} THEN q.block[c].where
               ELSE Dedupe(Append(q.block[c].where, Rebase(t, d.targets[CHOOSE n \in here(c) : TRUE].columns)))]
  <2>1. Place(q, b, t, d) = WithConditions(q, wheres)
    BY <1>5 DEF Place, AddToWheres
  <2>2. here(1) = {}
    BY <1>3, <1>5 DEF Below
  <2>3. wheres[1] = q.block[1].where
    BY <1>1, <2>2
  <2>4. ASSUME NEW c \in DOMAIN q.block PROVE IsList(wheres[c])
    <3>1. IsList(q.block[c].where)
      BY DEF IsQuery
    <3>2. \A u : IsList(Dedupe(Append(q.block[c].where, u)))
      BY <3>1, AppendedList, DedupedList
    <3> QED BY <3>1, <3>2
  <2> HIDE DEF wheres
  <2> QED BY <1>1, <1>3, <1>5, <2>1, <2>3, <2>4, NewConditions
<1> QED BY <1>4, <1>5

\* The agenda after a look at a term of its first item.
After(items, x, onward) == <<x>> \o Tail(items) \o onward

LEMMA Requeued ==
  ASSUME NEW items, IsList(items), items # <<>>, NEW x, NEW onward, IsList(onward),
         NEW next, next = After(items, x, onward)
  PROVE  /\ IsList(next) /\ next # <<>> /\ next[1] = x
         /\ \A n \in 2..Len(next) : \/ \E m \in 2..Len(items) : next[n] = items[m]
                                    \/ \E m \in 1..Len(onward) : next[n] = onward[m]
<1> DEFINE S == ToSet(items) \cup {x} \cup ToSet(onward)
<1>1. items \in Seq(S) /\ onward \in Seq(S) /\ x \in S
  BY DEF IsList
<1> HIDE DEF S
<1>2. next \in Seq(S) /\ Len(next) = Len(items) + Len(onward) /\ Len(items) > 0
  BY <1>1 DEF After
<1>3. next[1] = x
  BY <1>1, <1>2 DEF After
<1>4. ASSUME NEW n \in 2..Len(next)
      PROVE  next[n] = IF n <= Len(items) THEN items[n] ELSE onward[n - Len(items)]
  BY <1>1, <1>2 DEF After
<1>5. \A p \in Seq(S) : p \in Seq(ToSet(p))
  BY DEF ToSet
<1>6. ASSUME NEW n \in 2..Len(next)
      PROVE  \/ \E m \in 2..Len(items) : next[n] = items[m]
             \/ \E m \in 1..Len(onward) : next[n] = onward[m]
  <2>1. CASE n <= Len(items)
    BY <1>1, <1>4, <2>1
  <2>2. CASE n > Len(items)
    <3>1. n - Len(items) \in 1..Len(onward)
      BY <1>1, <1>2, <2>2
    <3> QED BY <1>1, <1>4, <2>2, <3>1
  <2> QED BY <1>1, <2>1, <2>2
<1>7. IsList(next)
  <2>1. next \in Seq(ToSet(next))
    BY ONLY <1>2, <1>5
  <2> QED BY <2>1 DEF IsList
<1>8. next # <<>>
  <2>1. Len(next) > 0
    BY <1>1, <1>2
  <2> QED BY <2>1
<1> QED BY <1>3, <1>6, <1>7, <1>8

--------------------------------------------------------------------------------
(* Every step keeps PlacementInv *)

LEMMA FirstItem ==
  ASSUME IsQuery(query), NEW optimizer, Queued(query, agenda, optimizer), agenda # <<>>
  PROVE  /\ item = agenda[1] /\ IsItem(query, item)
         /\ item.todo # <<>> => /\ term \in ToSet(item.todo) /\ IsList(Tail(item.todo))
                                /\ ToSet(item.todo) \subseteq {term} \cup ToSet(Tail(item.todo))
<1>1. item = agenda[1] /\ 1 \in 1..Len(agenda)
  BY DEF Queued, IsList, item
<1>2. IsItem(query, item) /\ IsList(item.todo)
  BY <1>1 DEF Queued, IsItem
<1>3. ASSUME NEW todo, IsList(todo), todo # <<>>
      PROVE  /\ Head(todo) \in ToSet(todo) /\ IsList(Tail(todo))
             /\ ToSet(todo) \subseteq {Head(todo)} \cup ToSet(Tail(todo))
  <2>1. todo \in Seq(ToSet(todo)) /\ Len(todo) > 0
    BY <1>3 DEF IsList
  <2>2. Tail(todo) \in Seq(ToSet(todo)) /\ Len(Tail(todo)) = Len(todo) - 1
    BY <2>1
  <2>3. \A S : \A p \in Seq(S) : p \in Seq(ToSet(p))
    BY DEF ToSet
  <2>4. ASSUME NEW n \in 1..Len(todo) PROVE todo[n] \in {Head(todo)} \cup ToSet(Tail(todo))
    <3>1. CASE n = 1
      BY <2>1, <3>1
    <3>2. CASE n # 1
      <4>1. n - 1 \in 1..Len(Tail(todo)) /\ Tail(todo)[n - 1] = todo[n]
        BY <2>1, <2>2, <3>2
      <4>2. DOMAIN Tail(todo) = 1..Len(Tail(todo))
        BY <2>2
      <4>3. Tail(todo)[n - 1] \in ToSet(Tail(todo))
        BY <4>1, <4>2 DEF ToSet
      <4> QED BY <4>1, <4>3
    <3> QED BY <3>1, <3>2
  <2>5. Head(todo) \in ToSet(todo)
    BY <2>1 DEF ToSet
  <2>6. ToSet(todo) \subseteq {Head(todo)} \cup ToSet(Tail(todo))
    BY <2>1, <2>4 DEF ToSet
  <2> QED BY <2>2, <2>3, <2>5, <2>6 DEF IsList
<1> QED BY <1>1, <1>2, <1>3 DEF term

(* A look at one term: it stays because it has no place, or it is copied to its
   place, and the items that follow from it are not the root's. *)
LEMMA LookAtATerm ==
  ASSUME PlacementInv, phase \in {"parameter", "static"}, agenda # <<>>, item.todo # <<>>,
         UNCHANGED phase, Alike(query, query'), query'.block[1].where = query.block[1].where,
         NEW moved, NEW onward, IsList(onward),
         \A n \in 1..Len(onward) : IsItem(query, onward[n]) /\ onward[n].block # 1,
         Places(query, item.block, term, phase) = {} \/ moved = item.moved \cup {term},
         item.moved \subseteq moved,
         Look(moved, onward)
  PROVE  PlacementInv'
<1> DEFINE x == [block |-> item.block, todo |-> Tail(item.todo), moved |-> moved]
<1>0. x.block = item.block /\ x.todo = Tail(item.todo) /\ x.moved = moved
      /\ x = [block |-> x.block, todo |-> x.todo, moved |-> x.moved]
  OBVIOUS
<1>a. agenda' = After(agenda, x, onward)
  BY DEF Look, After
<1> HIDE DEF x
<1>1. IsQuery(query) /\ Queued(query, agenda, phase) /\ IsList(agenda)
  BY DEF PlacementInv, Queued
<1>2. IsQuery(query') /\ DOMAIN query'.block = DOMAIN query.block
  <2>1. DOMAIN Skeleton(query').block = DOMAIN query'.block
    BY DEF Skeleton
  <2>2. DOMAIN Skeleton(query).block = DOMAIN query.block
    BY DEF Skeleton
  <2> QED BY <2>1, <2>2 DEF Alike
<1>3. /\ IsItem(query, x) /\ x.block = item.block /\ x.todo = Tail(item.todo) /\ x.moved = moved
  BY <1>0, <1>1, FirstItem DEF IsItem
<1>4. /\ IsList(agenda') /\ agenda' # <<>> /\ agenda'[1] = x
      /\ \A n \in 2..Len(agenda') : \/ \E m \in 2..Len(agenda) : agenda'[n] = agenda[m]
                                    \/ \E m \in 1..Len(onward) : agenda'[n] = onward[m]
  BY <1>1, <1>a, Requeued
<1>5. ASSUME NEW n \in 1..Len(agenda')
      PROVE  IsItem(query', agenda'[n]) /\ (n > 1 => agenda'[n].block # 1)
  <2>1. IsItem(query, agenda'[n]) /\ (n > 1 => agenda'[n].block # 1)
    <3>1. CASE n = 1
      BY <1>3, <1>4, <3>1
    <3>2. CASE n # 1
      <4>1. n \in 2..Len(agenda')
        BY <3>2, <1>4 DEF IsList
      <4>2. CASE \E m \in 2..Len(agenda) : agenda'[n] = agenda[m]
        BY <1>1, <4>2 DEF Queued, IsList
      <4>3. CASE \E m \in 1..Len(onward) : agenda'[n] = onward[m]
        BY <4>3
      <4> QED BY <1>4, <4>1, <4>2, <4>3
    <3> QED BY <3>1, <3>2
  <2> QED BY <1>2, <2>1 DEF IsItem
<1>6. \A optimizer : Movable(query', optimizer) = Movable(query, optimizer)
  <2>1. \A optimizer : Movable(query', optimizer)
                          = Movable(query, optimizer) \cap ToSet(query'.block[1].where)
    BY FewerMovable
  <2>2. \A optimizer : Movable(query, optimizer) \subseteq ToSet(query.block[1].where)
    BY DEF Movable
  <2> QED BY <2>1, <2>2
<1>7. ASSUME NEW t \in Movable(query', phase)
      PROVE  agenda'[1].block = 1 /\ t \in ToSet(agenda'[1].todo) \cup agenda'[1].moved
  <2>1. t \in Movable(query, phase)
    BY <1>6
  <2>2. item.block = 1 /\ t \in ToSet(item.todo) \cup item.moved
    BY <1>1, <2>1, FirstItem DEF Queued
  <2>3. t \in ToSet(Tail(item.todo)) \cup moved
    <3>1. t \in {term} \cup ToSet(Tail(item.todo)) \cup item.moved
      BY <1>1, <2>2, FirstItem
    <3>2. t = term => term \in moved
      BY <2>1, <2>2 DEF Movable
    <3> QED BY <3>1, <3>2
  <2> QED BY <1>3, <1>4, <2>2, <2>3
<1>8. Queued(query', agenda', phase)
  BY <1>4, <1>5, <1>7 DEF Queued
<1> QED BY <1>2, <1>6, <1>8 DEF PlacementInv

LEMMA SkipStep ==
  ASSUME PlacementInv, phase \in {"parameter", "static"}, agenda # <<>>, item.todo # <<>>,
         UNCHANGED phase, Places(query, item.block, term, phase) = {}, Skip
  PROVE  PlacementInv'
<1>1. IsQuery(query)
  BY DEF PlacementInv
<1>2. query' = query /\ Look(item.moved, <<>>)
  BY DEF Skip
<1>3. Alike(query, query') /\ query'.block[1].where = query.block[1].where
  BY <1>1, <1>2 DEF Alike
<1>4. IsList(<<>>)
  BY DEF IsList
<1>5. \A n \in 1..Len(<<>>) : IsItem(query, <<>>[n]) /\ <<>>[n].block # 1
  OBVIOUS
<1>6. item.moved \subseteq item.moved
  OBVIOUS
<1> QED BY <1>2, <1>3, <1>4, <1>5, <1>6, LookAtATerm

LEMMA MoveStep ==
  ASSUME PlacementInv, phase \in {"parameter", "static"}, agenda # <<>>, item.todo # <<>>,
         UNCHANGED phase, NEW d \in Places(query, item.block, term, phase),
         NEW onward, IsList(onward),
         \A n \in 1..Len(onward) : IsItem(query, onward[n]) /\ onward[n].block # 1,
         Move(d, onward)
  PROVE  PlacementInv'
<1>1. IsQuery(query) /\ IsItem(query, item)
  BY FirstItem DEF PlacementInv
<1>2. query' = Place(query, item.block, term, d) /\ Look(item.moved \cup {term}, onward)
  BY DEF Move
<1>3. item.block \in DOMAIN query.block
  BY <1>1 DEF IsItem
<1>4. Alike(query, query') /\ query'.block[1].where = query.block[1].where
  BY <1>1, <1>2, <1>3, PlaceSpareRoot
<1>5. item.moved \subseteq item.moved \cup {term}
  OBVIOUS
<1> QED BY <1>2, <1>4, <1>5, LookAtATerm

LEMMA PlaceConditionKeeps ==
  ASSUME PlacementInv, PlaceCondition
  PROVE  PlacementInv'
<1>1. /\ phase = "parameter" /\ phase \in {"parameter", "static"} /\ UNCHANGED phase
      /\ agenda # <<>> /\ item.todo # <<>>
  BY DEF PlaceCondition
<1>2. CASE Places(query, item.block, term, phase) = {}
  <2>1. Skip
    BY <1>2 DEF PlaceCondition
  <2> QED BY <1>1, <1>2, <2>1, SkipStep
<1>3. CASE Places(query, item.block, term, phase) # {}
  <2>1. PICK d \in Places(query, item.block, term, phase) : Move(d, <<>>)
    BY <1>3 DEF PlaceCondition
  <2>2. IsList(<<>>)
    BY DEF IsList
  <2>3. \A n \in 1..Len(<<>>) : IsItem(query, <<>>[n]) /\ <<>>[n].block # 1
    OBVIOUS
  <2> QED BY <1>1, <2>1, <2>2, <2>3, MoveStep
<1> QED BY <1>2, <1>3

LEMMA PlacePredicateKeeps ==
  ASSUME PlacementInv, PlacePredicate
  PROVE  PlacementInv'
<1>1. /\ phase = "static" /\ phase \in {"parameter", "static"} /\ UNCHANGED phase
      /\ agenda # <<>> /\ item.todo # <<>>
  BY DEF PlacePredicate
<1>2. CASE Places(query, item.block, term, phase) = {}
  <2>1. Skip
    BY <1>2 DEF PlacePredicate
  <2> QED BY <1>1, <1>2, <2>1, SkipStep
<1>3. CASE Places(query, item.block, term, phase) # {}
  <2>1. PICK d \in Places(query, item.block, term, phase) : Move(d, Onward(query, term, d))
    BY <1>3 DEF PlacePredicate
  <2> DEFINE onward == Onward(query, term, d)
  <2>2. onward = <<>> \/ \E x : onward = <<x>> /\ IsItem(query, x) /\ x.block # 1
    <3> DEFINE target == d.targets[1]
               again == Rebase(term, target.columns)
    <3>1. CASE d.kind = "on" \/ Len(d.targets) > 1 \/ Contains(query.block[target.block].where, again)
      BY <3>1 DEF Onward
    <3>2. CASE ~(d.kind = "on" \/ Len(d.targets) > 1 \/ Contains(query.block[target.block].where, again))
      <4>1. onward = <<Item(target.block, <<again>>)>>
        BY <3>2 DEF Onward
      <4>2. IsQuery(query) /\ item.block \in DOMAIN query.block
        <5>1. IsQuery(query) /\ Queued(query, agenda, phase)
          BY <1>1 DEF PlacementInv
        <5> QED BY <1>1, <5>1, FirstItem DEF IsItem
      <4>3. target.block \in Below(query)
        BY <2>1, <3>2, <4>2, PlaceSpareRoot
      <4>4. IsList(<<again>>)
        BY DEF IsList, ToSet
      <4>5. IsItem(query, Item(target.block, <<again>>)) /\ Item(target.block, <<again>>).block # 1
        BY <4>3, <4>4 DEF IsItem, Item, Below
      <4> QED BY <4>1, <4>5
    <3> QED BY <3>1, <3>2
  <2> HIDE DEF onward
  <2>3. IsList(onward) /\ \A n \in 1..Len(onward) : IsItem(query, onward[n]) /\ onward[n].block # 1
    <3>1. CASE onward = <<>>
      BY <3>1 DEF IsList
    <3>2. CASE onward # <<>>
      <4>1. PICK x : onward = <<x>> /\ IsItem(query, x) /\ x.block # 1
        BY <2>2, <3>2
      <4>2. IsList(<<x>>)
        BY DEF IsList, ToSet
      <4> QED BY <4>1, <4>2
    <3> QED BY <3>1, <3>2
  <2>4. Move(d, onward)
    BY <2>1 DEF onward
  <2> QED BY <1>1, <2>1, <2>3, <2>4, MoveStep
<1> QED BY <1>2, <1>3

(* The terms of the root that were copied leave it with its item, and nothing else
   in it has a place. *)
LEMMA FinishItemKeeps ==
  ASSUME PlacementInv, FinishItem
  PROVE  PlacementInv'
<1>1. /\ phase \in {"parameter", "static"} /\ UNCHANGED phase
      /\ agenda # <<>> /\ item.todo = <<>> /\ agenda' = Tail(agenda)
  BY DEF FinishItem
<1>2. IsQuery(query) /\ Queued(query, agenda, phase) /\ IsList(agenda)
  BY <1>1 DEF PlacementInv, Queued
<1>3. item = agenda[1] /\ IsItem(query, item) /\ item.block \in DOMAIN query.block
  BY <1>1, <1>2, FirstItem DEF IsItem
<1> DEFINE N == DOMAIN query.block
           kept(terms) == Picked(terms, {n \in DOMAIN terms : terms[n] \notin item.moved})
           wheres == [Conditions(query) EXCEPT ![item.block] = kept(@)]
<1>4. query' = WithConditions(query, wheres)
  BY DEF FinishItem
<1>5. \A b \in N : wheres[b] = IF b = item.block THEN kept(query.block[b].where) ELSE query.block[b].where
  BY <1>3 DEF Conditions
<1>6. \A b \in N : /\ IsList(kept(query.block[b].where))
                   /\ ToSet(kept(query.block[b].where)) \subseteq ToSet(query.block[b].where) \ item.moved
  <2> SUFFICES ASSUME NEW b \in N
               PROVE  /\ IsList(kept(query.block[b].where))
                      /\ ToSet(kept(query.block[b].where)) \subseteq ToSet(query.block[b].where) \ item.moved
    OBVIOUS
  <2> DEFINE terms == query.block[b].where
             at == {n \in DOMAIN terms : terms[n] \notin item.moved}
  <2>1. IsList(terms)
    BY <1>2 DEF IsQuery
  <2>2. IsList(Picked(terms, at)) /\ ToSet(Picked(terms, at)) \subseteq {terms[n] : n \in (DOMAIN terms) \cap at}
    BY <2>1, PickedList
  <2>3. {terms[n] : n \in (DOMAIN terms) \cap at} \subseteq ToSet(terms) \ item.moved
    BY DEF ToSet
  <2> QED BY <2>2, <2>3
<1> HIDE DEF kept
<1>7. \A b \in N : IsList(wheres[b])
  BY <1>2, <1>5, <1>6 DEF IsQuery
<1>8. Alike(query, query') /\ \A b \in N : query'.block[b].where = wheres[b]
  <2> HIDE DEF wheres
  <2> QED BY <1>2, <1>4, <1>7, NewConditions
<1>9. 1 \in N /\ IsQuery(query') /\ DOMAIN query'.block = N
  <2>1. DOMAIN Skeleton(query').block = DOMAIN query'.block /\ DOMAIN Skeleton(query).block = N
    BY DEF Skeleton
  <2> QED BY <1>2, <1>8, <2>1 DEF Alike, IsQuery, IsTree
<1>10. ToSet(query'.block[1].where) \subseteq ToSet(query.block[1].where)
       /\ (item.block = 1 => ToSet(query'.block[1].where) \cap item.moved = {})
  BY <1>5, <1>6, <1>8, <1>9
<1>11. \A optimizer : Movable(query', optimizer) = Movable(query, optimizer) \cap ToSet(query'.block[1].where)
  BY <1>8, <1>10, FewerMovable
<1>12. Movable(query', phase) = {}
  <2> SUFFICES ASSUME NEW t \in Movable(query', phase) PROVE FALSE
    OBVIOUS
  <2>1. t \in Movable(query, phase) /\ t \in ToSet(query'.block[1].where)
    BY <1>11
  <2>2. item.block = 1 /\ t \in ToSet(item.todo) \cup item.moved
    BY <1>2, <1>3, <2>1 DEF Queued
  <2>3. ToSet(<<>>) = {}
    BY DEF ToSet
  <2> QED BY <1>1, <1>10, <2>1, <2>2, <2>3
<1>13. /\ IsList(agenda')
       /\ \A n \in 1..Len(agenda') : n + 1 \in 2..Len(agenda) /\ agenda'[n] = agenda[n + 1]
  <2>1. agenda \in Seq(ToSet(agenda)) /\ Len(agenda) > 0
    BY <1>1, <1>2 DEF IsList
  <2>2. agenda' \in Seq(ToSet(agenda)) /\ Len(agenda') = Len(agenda) - 1
    BY <1>1, <2>1
  <2>3. \A S : \A p \in Seq(S) : p \in Seq(ToSet(p))
    BY DEF ToSet
  <2>4. IsList(agenda')
    BY <2>2, <2>3 DEF IsList
  <2>5. ASSUME NEW n \in 1..Len(agenda')
        PROVE  n + 1 \in 2..Len(agenda) /\ agenda'[n] = agenda[n + 1]
    BY <1>1, <2>1, <2>2
  <2> QED BY <2>4, <2>5
<1>14. Queued(query', agenda', phase)
  <2>1. ASSUME NEW n \in 1..Len(agenda')
        PROVE  IsItem(query', agenda'[n]) /\ agenda'[n].block # 1
    <3>1. n + 1 \in 1..Len(agenda) /\ n + 1 > 1 /\ agenda'[n] = agenda[n + 1]
      BY <1>2, <1>13 DEF IsList
    <3>2. IsItem(query, agenda'[n]) /\ agenda'[n].block # 1
      BY <1>2, <3>1 DEF Queued
    <3> QED BY <1>9, <3>2 DEF IsItem
  <2> QED BY <1>12, <1>13, <2>1 DEF Queued
<1> QED BY <1>1, <1>9, <1>11, <1>14 DEF PlacementInv

\* A phase begins with all that is in the root.
LEMMA RootIsQueued ==
  ASSUME NEW q, IsQuery(q), NEW optimizer
  PROVE  Queued(q, RootItem(q), optimizer)
<1> DEFINE x == Item(1, q.block[1].where)
<1>1. RootItem(q) = <<x>>
  BY DEF RootItem
<1>2. 1 \in DOMAIN q.block /\ IsList(q.block[1].where)
  BY DEF IsQuery, IsTree
<1>3. x.block = 1 /\ x.todo = q.block[1].where /\ IsItem(q, x)
  BY <1>2 DEF Item, IsItem
<1> HIDE DEF x
<1>4. IsList(<<x>>)
  BY DEF IsList, ToSet
<1>5. Movable(q, optimizer) \subseteq ToSet(x.todo)
  BY <1>3 DEF Movable
<1>6. <<x>> # <<>> /\ Len(<<x>>) = 1 /\ <<x>>[1] = x
  OBVIOUS
<1>7. \A n \in 1..Len(<<x>>) : IsItem(q, <<x>>[n]) /\ (n > 1 => <<x>>[n].block # 1)
  BY <1>3, <1>6
<1>8. Queued(q, <<x>>, optimizer)
  BY <1>3, <1>4, <1>5, <1>6, <1>7 DEF Queued
<1> QED BY <1>1, <1>8

LEMMA EndRefreshKeeps ==
  ASSUME PlacementInv, EndRefresh
  PROVE  PlacementInv'
<1>1. phase' = "parameter" /\ agenda' = RootItem(query) /\ query' = query
  BY DEF EndRefresh
<1>2. IsQuery(query')
  BY <1>1 DEF PlacementInv
<1>3. Queued(query', agenda', phase')
  BY <1>1, <1>2, RootIsQueued
<1> QED BY <1>1, <1>2, <1>3 DEF PlacementInv, Phases

LEMMA EndPlacementKeeps ==
  ASSUME PlacementInv, EndPlacement
  PROVE  PlacementInv'
<1>1. phase \in {"parameter", "static"} /\ agenda = <<>> /\ query' = query
  BY DEF EndPlacement
<1>2. IsQuery(query') /\ Queued(query, agenda, phase)
  BY <1>1 DEF PlacementInv
<1>3. Movable(query', phase) = {}
  BY <1>1, <1>2 DEF Queued
<1>4. CASE phase = "parameter"
  <2>1. phase' = "static" /\ agenda' = RootItem(query)
    BY <1>4 DEF EndPlacement
  <2>2. Queued(query', agenda', phase')
    BY <1>1, <1>2, <2>1, RootIsQueued
  <2>3. Movable(query', "parameter") = {}
    BY <1>3, <1>4
  <2> QED BY <1>2, <2>1, <2>2, <2>3 DEF PlacementInv, Phases
<1>5. CASE phase = "static"
  <2>1. phase' = "dedupe"
    BY <1>5 DEF EndPlacement
  <2>2. Movable(query', "parameter") = {}
    BY <1>1, <1>5 DEF PlacementInv
  <2>3. Movable(query', "static") = {}
    BY <1>3, <1>5
  <2> QED BY <1>2, <2>1, <2>2, <2>3 DEF PlacementInv, Phases
<1> QED BY <1>1, <1>4, <1>5

LEMMA PruneKeeps ==
  ASSUME PlacementInv, Prune
  PROVE  PlacementInv'
<1> DEFINE wheres == [b \in DOMAIN query.block |-> Pruned(query.block[b].where)]
<1>1. query' = WithConditions(query, wheres) /\ phase' = "refresh"
  BY DEF Prune
<1>2. IsQuery(query)
  BY DEF PlacementInv
<1>3. ASSUME NEW b \in DOMAIN query.block PROVE IsList(wheres[b])
  <2>1. IsList(query.block[b].where)
    BY <1>2 DEF IsQuery
  <2>2. IsList(Pruned(query.block[b].where))
    BY <2>1, PickedList DEF Pruned
  <2> QED BY <2>2
<1> HIDE DEF wheres
<1>4. IsQuery(query')
  BY <1>1, <1>2, <1>3, NewConditions DEF Alike
<1> QED BY <1>1, <1>4 DEF PlacementInv, Phases

LEMMA RefreshBranchKeeps ==
  ASSUME PlacementInv, RefreshBranch
  PROVE  PlacementInv'
<1>1. phase = "refresh" /\ UNCHANGED phase /\ IsQuery(query)
  BY DEF RefreshBranch, PlacementInv
<1> DEFINE b == Head(agenda).block
           t == Head(agenda).term
           target == CHOOSE p \in RefreshPlan(query, b, t) : TRUE
           others(terms) == Picked(terms, {n \in DOMAIN terms : terms[n] # t})
           moved == RebaseBranch(t, target.columns[1])
           wheres == [Conditions(query) EXCEPT ![b] = others(@), ![target.block] = Append(@, moved)]
<1>2. query' = query \/ query' = WithConditions(query, wheres)
  BY DEF RefreshBranch
<1> HIDE DEF b, t, target, moved
<1>3. ASSUME NEW c \in DOMAIN query.block PROVE IsList(wheres[c])
  <2> DEFINE terms == query.block[c].where
  <2>1. IsList(terms)
    BY <1>1 DEF IsQuery
  <2>2. IsList(others(terms))
    BY <2>1, PickedList
  <2>3. IsList(Append(terms, moved)) /\ IsList(Append(others(terms), moved))
    BY <2>1, <2>2, AppendedList
  <2> HIDE DEF others
  <2>4. wheres[c] \in {terms, others(terms), Append(terms, moved), Append(others(terms), moved)}
    BY DEF Conditions
  <2> QED BY <2>1, <2>2, <2>3, <2>4
<1> HIDE DEF wheres
<1>4. IsQuery(query')
  BY <1>1, <1>2, <1>3, NewConditions DEF Alike
<1> QED BY <1>1, <1>4 DEF PlacementInv, Phases

LEMMA DedupeAllKeeps ==
  ASSUME PlacementInv, DedupeAll
  PROVE  PlacementInv'
<1> DEFINE less(terms) == IF IsAndList(terms) THEN Dedupe(terms) ELSE terms
           wheres == [b \in DOMAIN Conditions(query) |-> less(Conditions(query)[b])]
           ons == [b \in DOMAIN JoinConditions(query) |->
                     [i \in DOMAIN JoinConditions(query)[b] |-> less(JoinConditions(query)[b][i])]]
           between == WithConditions(query, wheres)
<1>1. query' = WithJoinConditions(between, ons) /\ phase = "dedupe" /\ phase' = "optimized"
  BY DEF DedupeAll
<1>2. /\ IsQuery(query) /\ 1 \in DOMAIN query.block
      /\ Movable(query, "parameter") = {} /\ Movable(query, "static") = {}
  BY <1>1 DEF PlacementInv, IsQuery, IsTree
<1>3. ASSUME NEW b \in DOMAIN query.block
      PROVE  IsList(wheres[b]) /\ ToSet(wheres[b]) \subseteq ToSet(query.block[b].where)
  <2>1. IsList(query.block[b].where)
    BY <1>2 DEF IsQuery
  <2>2. wheres[b] = less(query.block[b].where)
    BY DEF Conditions
  <2> QED BY <2>1, <2>2, DedupedList
<1> HIDE DEF wheres, ons
<1>4. Alike(query, between) /\ \A b \in DOMAIN query.block : between.block[b].where = wheres[b]
  BY <1>2, <1>3, NewConditions
<1>5. IsQuery(between) /\ 1 \in DOMAIN between.block
  BY <1>4 DEF Alike, IsQuery, IsTree
<1>9. \A b \in DOMAIN between.block : \A i \in DOMAIN between.block[b].from : IsList(ons[b][i])
  <2>1. /\ DOMAIN between.block = DOMAIN query.block
        /\ \A b \in DOMAIN query.block : between.block[b].from = query.block[b].from
    <3>1. \A b \in DOMAIN query.block : "from" \in DOMAIN query.block[b]
      BY <1>2 DEF IsQuery
    <3> QED BY <3>1 DEF WithConditions
  <2>2. ASSUME NEW b \in DOMAIN query.block, NEW i \in DOMAIN query.block[b].from PROVE IsList(ons[b][i])
    <3>1. IsList(query.block[b].from[i].on)
      BY <1>2 DEF IsQuery, IsFrom
    <3>2. ons[b][i] = less(query.block[b].from[i].on)
      BY DEF JoinConditions, ons
    <3> QED BY <3>1, <3>2, DedupedList
  <2> QED BY <2>1, <2>2
<1> HIDE DEF between
<1>6. Alike(between, query') /\ query'.block[1].where = between.block[1].where
  BY <1>1, <1>5, <1>9, NewJoinConditions
<1>7. Alike(query, query') /\ ToSet(query'.block[1].where) \subseteq ToSet(query.block[1].where)
  BY <1>2, <1>3, <1>4, <1>6 DEF Alike
<1>8. Movable(query', "parameter") = {} /\ Movable(query', "static") = {}
  BY <1>2, <1>7, FewerMovable
<1> QED BY <1>1, <1>7, <1>8 DEF PlacementInv, Phases, Alike

(* At no step of an optimization is a term of the root forgotten that has a place
   to go to: it is still to be looked at, or it was copied and will leave. *)
THEOREM PlacementInvHolds == ConditionSpec => []PlacementInv
<1>1. ConditionInit => PlacementInv
  BY InputsAssumption DEF ConditionInit, PlacementInv, InputsAssumption, Phases
<1>2. PlacementInv /\ [ConditionNext]_cvars => PlacementInv'
  <2> SUFFICES ASSUME PlacementInv, [ConditionNext]_cvars PROVE PlacementInv'
    OBVIOUS
  <2>1. CASE Prune BY <2>1, PruneKeeps
  <2>2. CASE RefreshBranch BY <2>2, RefreshBranchKeeps
  <2>3. CASE EndRefresh BY <2>3, EndRefreshKeeps
  <2>4. CASE PlaceCondition BY <2>4, PlaceConditionKeeps
  <2>5. CASE PlacePredicate BY <2>5, PlacePredicateKeeps
  <2>6. CASE FinishItem BY <2>6, FinishItemKeeps
  <2>7. CASE EndPlacement BY <2>7, EndPlacementKeeps
  <2>8. CASE DedupeAll BY <2>8, DedupeAllKeeps
  <2>9. CASE UNCHANGED cvars
    BY <2>9 DEF cvars, PlacementInv, Queued, Movable, IsItem
  <2> QED BY <2>1, <2>2, <2>3, <2>4, <2>5, <2>6, <2>7, <2>8, <2>9 DEF ConditionNext
<1> QED BY <1>1, <1>2, PTL DEF ConditionSpec

(* runConditionOptimization reaches its own fixed point: whatever query it is given,
   no term that is left in the root has a place to go to, for either optimizer, in
   the query that results. *)
THEOREM NothingIsLeftToMove == ConditionSpec => []NothingLeftToMove
<1>1. PlacementInv => NothingLeftToMove
  BY DEF PlacementInv, NothingLeftToMove, Movable
<1> QED BY <1>1, PlacementInvHolds, PTL

--------------------------------------------------------------------------------
(* Conditions that are true of every row, and what a query returns without them *)

\* A term by itself, an OR without parentheses included.
Stands(t, env, relation) == Holds(t, env, IF t.op = "exists" THEN Records(relation[t]) ELSE <<>>)

\* Without an open OR among others, a list holds when each term does.
LEMMA AndListHolds ==
  ASSUME NEW terms, IsList(terms), IsAndList(terms), NEW env, NEW relation
  PROVE  AllHold(terms, env, relation) = (\A t \in ToSet(terms) : Stands(t, env, relation))
<1> DEFINE opens == {n \in DOMAIN terms : OpenOr(terms[n])}
           after(p) == {n \in DOMAIN terms : n > p /\ \A o \in opens : o <= p \/ n <= o}
           Ends(p) == (p # 0 => Right(terms[p], env)) /\ \A n \in after(p) : Truth(terms[n], env, relation)
<1>1. AllHold(terms, env, relation) = \E p \in {0} \cup opens : Ends(p)
  BY DEF AllHold
<1>2. DOMAIN terms = 1..Len(terms) /\ Len(terms) \in Nat
  BY ListFacts
<1>3. (\A t \in ToSet(terms) : Stands(t, env, relation)) <=> \A n \in 1..Len(terms) : Stands(terms[n], env, relation)
  BY <1>2 DEF ToSet
<1>4. CASE \A t \in ToSet(terms) : ~OpenOr(t)
  <2>1. \A n \in DOMAIN terms : ~OpenOr(terms[n])
    BY <1>4 DEF ToSet
  <2>2. opens = {}
    BY <2>1
  <2>3. after(0) = 1..Len(terms)
    BY <1>2, <2>2
  <2>4. \A n \in 1..Len(terms) : Truth(terms[n], env, relation) = Stands(terms[n], env, relation)
    BY <1>2, <2>1 DEF Truth, Stands
  <2>5. (\E p \in {0} \cup opens : Ends(p)) <=> \A n \in 1..Len(terms) : Truth(terms[n], env, relation)
    BY <2>2, <2>3
  <2> HIDE DEF Ends
  <2> QED BY <1>1, <1>3, <2>4, <2>5
<1>5. CASE ~\A t \in ToSet(terms) : ~OpenOr(t)
  <2>1. Len(terms) = 1
    BY <1>5 DEF IsAndList
  <2>2. DOMAIN terms = {1} /\ 1..Len(terms) = {1}
    BY <1>2, <2>1
  <2>3. OpenOr(terms[1])
    BY <1>5, <2>2 DEF ToSet
  <2>4. opens = {1}
    BY <2>2, <2>3
  <2>5. after(0) = {1} /\ after(1) = {}
    BY <2>2, <2>4
  <2>6. Ends(0) = Left(terms[1], env) /\ Ends(1) = Right(terms[1], env)
    BY <2>3, <2>5 DEF Truth, Left, Right, IsOne
  <2>7. Stands(terms[1], env, relation) = (Left(terms[1], env) \/ Right(terms[1], env))
    BY <2>3 DEF Stands, Holds, OpenOr
  <2>8. (\E p \in {0} \cup opens : Ends(p)) = (Ends(0) \/ Ends(1))
    BY <2>4
  <2> HIDE DEF Ends
  <2> QED BY <1>1, <1>3, <2>2, <2>6, <2>7, <2>8
<1> QED BY <1>4, <1>5

\* What is picked, as a set; of one term there is no more than one.
LEMMA PickedSet ==
  ASSUME NEW terms, IsList(terms), NEW positions
  PROVE  /\ IsList(Picked(terms, positions))
         /\ ToSet(Picked(terms, positions)) = {terms[n] : n \in (DOMAIN terms) \cap positions}
         /\ Len(terms) = 1 /\ Picked(terms, positions) # <<>> => Len(Picked(terms, positions)) = 1
<1> DEFINE w == Picked(terms, positions)
<1>1. IsList(w) /\ DOMAIN w = 1..Len(w) /\ Len(w) \in Nat
  BY PickedList, ListFacts
<1>2. DOMAIN terms = 1..Len(terms)
  BY ListFacts
<1>3. PICK place : PickedAt(place, w, terms, positions)
  BY PickedPlaces
<1> HIDE DEF w
<1>4. ToSet(w) = {w[k] : k \in 1..Len(w)}
  BY <1>1 DEF ToSet
<1>5. {w[k] : k \in 1..Len(w)} = {terms[n] : n \in (DOMAIN terms) \cap positions}
  BY <1>2, <1>3 DEF PickedAt
<1>6. ASSUME Len(terms) = 1, w # <<>> PROVE Len(w) = 1
  <2>1. \A k \in 1..Len(w) : place[k] = 1
    BY <1>3, <1>6 DEF PickedAt
  <2>2. ASSUME Len(w) > 1 PROVE FALSE
    <3>1. 1 \in 1..Len(w) /\ 2 \in 1..Len(w)
      BY <1>1, <2>2
    <3>2. place[1] < place[2] /\ place[1] = 1 /\ place[2] = 1
      BY <1>3, <2>1, <3>1 DEF PickedAt
    <3> QED BY <3>2
  <2>3. Len(w) # 0
    BY <1>1, <1>6, ListFacts
  <2> QED BY <1>1, <2>2, <2>3
<1> QED BY <1>1, <1>4, <1>5, <1>6 DEF w

\* An AND list without some of its terms, each true by itself.
LessTrue(terms, less) ==
  /\ IsList(terms) /\ IsAndList(terms) /\ IsList(less) /\ IsAndList(less)
  /\ ToSet(less) \subseteq ToSet(terms)
  /\ \A t \in ToSet(terms) \ ToSet(less) : t.op # "exists" /\ \A env, relation : Stands(t, env, relation)

\* What is picked from an AND list is one.
LEMMA PickedAndList ==
  ASSUME NEW terms, IsList(terms), IsAndList(terms), NEW positions
  PROVE  IsAndList(Picked(terms, positions))
<1> DEFINE w == Picked(terms, positions)
<1>1. /\ ToSet(w) = {terms[n] : n \in (DOMAIN terms) \cap positions}
      /\ Len(terms) = 1 /\ w # <<>> => Len(w) = 1
  BY PickedSet
<1>2. ToSet(w) \subseteq ToSet(terms)
  BY <1>1 DEF ToSet
<1> HIDE DEF w
<1>3. w = <<>> => ToSet(w) = {}
  BY DEF ToSet
<1>4. IsAndList(w)
  BY <1>1, <1>2, <1>3 DEF IsAndList
<1> QED BY <1>4 DEF w

\* Pruning leaves out terms that are true of every environment.
LEMMA PrunedTrue ==
  ASSUME NEW terms, IsList(terms), IsAndList(terms)
  PROVE  LessTrue(terms, Pruned(terms))
<1> DEFINE P == {n \in DOMAIN terms : ~IsAbsent(terms[n]) /\ terms[n].op # "true"}
           w == Picked(terms, P)
<1>1. Pruned(terms) = w \/ Pruned(terms) = terms
  BY DEF Pruned
<1>2. LessTrue(terms, terms)
  BY DEF LessTrue
<1>3. IsList(w) /\ IsAndList(w) /\ ToSet(w) = {terms[n] : n \in (DOMAIN terms) \cap P}
  BY PickedSet, PickedAndList
<1>4. ToSet(w) \subseteq ToSet(terms) /\ \A t \in ToSet(terms) \ ToSet(w) : IsAbsent(t) \/ t.op = "true"
  BY <1>3 DEF ToSet
<1>5. ASSUME NEW t, IsAbsent(t) \/ t.op = "true", NEW env, NEW relation
      PROVE  t.op # "exists" /\ Stands(t, env, relation)
  <2>1. CASE t.op = "true"
    BY <2>1 DEF Stands, Holds
  <2>2. CASE IsAbsent(t)
    <3>1. t.op = "guard" /\ Left(t, env)
      BY <2>2 DEF IsAbsent, Left
    <3> QED BY <3>1 DEF Stands, Holds
  <2> QED BY <1>5, <2>1, <2>2
<1> HIDE DEF w
<1>6. LessTrue(terms, w)
  BY <1>3, <1>4, <1>5 DEF LessTrue
<1> QED BY <1>1, <1>2, <1>6

\* Deduplication leaves out none: each term is still there.
LEMMA DedupedTrue ==
  ASSUME NEW terms, IsList(terms), IsAndList(terms)
  PROVE  LessTrue(terms, Dedupe(terms))
<1> DEFINE P == {n \in DOMAIN terms : \A m \in 1..(n - 1) : terms[m] # terms[n]}
           w == Picked(terms, P)
<1>1. Dedupe(terms) = w
  BY DEF Dedupe
<1>2. IsList(w) /\ IsAndList(w) /\ ToSet(w) = {terms[n] : n \in (DOMAIN terms) \cap P}
  BY PickedSet, PickedAndList
<1>3. DOMAIN terms = 1..Len(terms) /\ Len(terms) \in Nat
  BY ListFacts
<1>4. ASSUME NEW t \in ToSet(terms) PROVE t \in ToSet(w)
  <2> DEFINE T == {n \in DOMAIN terms : terms[n] = t}
  <2>1. T # {} /\ T \in SUBSET Nat
    BY <1>3 DEF ToSet
  <2>2. PICK n \in T : \A m \in T : n <= m
    BY <2>1, LeastNat
  <2>3. \A m \in 1..(n - 1) : m \notin T /\ m \in DOMAIN terms
    BY <1>3, <2>2
  <2>4. n \in P /\ n \in DOMAIN terms /\ terms[n] = t
    BY <2>2, <2>3
  <2> HIDE DEF w, P
  <2> QED BY <1>2, <2>4
<1>5. ToSet(w) \subseteq ToSet(terms)
  BY <1>2 DEF ToSet
<1> HIDE DEF w
<1>6. LessTrue(terms, w)
  BY <1>2, <1>4, <1>5 DEF LessTrue
<1> QED BY <1>1, <1>6

\* Such a list holds where the whole one does.
LEMMA LessTrueHolds ==
  ASSUME NEW terms, NEW less, less = terms \/ LessTrue(terms, less), NEW env, NEW relation, NEW instead,
         \A t \in ToSet(less) : t.op = "exists" => relation[t] = instead[t]
  PROVE  AllHold(terms, env, relation) = AllHold(less, env, instead)
<1>1. CASE less = terms
  <2>1. \A n \in DOMAIN terms : Truth(terms[n], env, relation) = Truth(terms[n], env, instead)
    <3> TAKE n \in DOMAIN terms
    <3>1. terms[n] \in ToSet(less)
      BY <1>1 DEF ToSet
    <3> QED BY <3>1 DEF Truth
  <2> DEFINE opens == {n \in DOMAIN terms : OpenOr(terms[n])}
             after(p) == {n \in DOMAIN terms : n > p /\ \A o \in opens : o <= p \/ n <= o}
             Ends(rel, p) == (p # 0 => Right(terms[p], env)) /\ \A n \in after(p) : Truth(terms[n], env, rel)
  <2>2. \A p : Ends(relation, p) <=> Ends(instead, p)
    <3>1. \A p : after(p) \subseteq DOMAIN terms
      OBVIOUS
    <3> HIDE DEF after
    <3> QED BY <2>1, <3>1
  <2>3. /\ AllHold(terms, env, relation) = \E p \in {0} \cup opens : Ends(relation, p)
        /\ AllHold(terms, env, instead) = \E p \in {0} \cup opens : Ends(instead, p)
    BY DEF AllHold
  <2> HIDE DEF Ends
  <2> QED BY <1>1, <2>2, <2>3
<1>2. CASE LessTrue(terms, less)
  <2>1. AllHold(terms, env, relation) = \A t \in ToSet(terms) : Stands(t, env, relation)
    BY <1>2, AndListHolds DEF LessTrue
  <2>2. AllHold(less, env, instead) = \A t \in ToSet(less) : Stands(t, env, instead)
    BY <1>2, AndListHolds DEF LessTrue
  <2>3. \A t \in ToSet(less) : Stands(t, env, relation) = Stands(t, env, instead)
    BY DEF Stands
  <2> QED BY <1>2, <2>1, <2>2, <2>3 DEF LessTrue
<1> QED BY <1>1, <1>2

\* A block with other conditions that hold of the same environments.
SameConditions(terms, less, relation, instead) ==
  \A env : AllHold(terms, env, relation) = AllHold(less, env, instead)

\* The sources of the one are those of the other but for the ON terms.
SameSources(from, others, relation, instead) ==
  /\ Len(from) \in Nat /\ Len(others) = Len(from)
  /\ \A i \in 1..Len(from) :
       /\ others[i].alias = from[i].alias /\ others[i].join = from[i].join
       /\ relation[from[i]] = instead[others[i]]
       /\ SameConditions(from[i].on, others[i].on, relation, instead)
  /\ \A i, j \in 1..Len(from) : from[i].alias = from[j].alias => i = j

\* A source joins the same records.
LEMMA SameExtended ==
  ASSUME NEW s, NEW o, o.alias = s.alias, o.join = s.join, NEW relation, NEW instead,
         relation[s] = instead[o], SameConditions(s.on, o.on, relation, instead), NEW right, NEW env
  PROVE  /\ Matches(s, right, env, relation) = Matches(o, right, env, instead)
         /\ Extended(s, right, env, relation) = Extended(o, right, env, instead)
<1>1. Matches(s, right, env, relation) = Matches(o, right, env, instead)
  BY DEF Matches, SameConditions
<1> QED BY <1>1 DEF Extended

\* The sources joined before one.
Ahead(from, i) == {from[j] : j \in 1..(i - 1)}

\* So does one source after the other,
LEMMA SameJoinedWith ==
  ASSUME NEW from, NEW others, NEW relation, NEW instead, SameSources(from, others, relation, instead),
         NEW i \in 1..Len(from), NEW envs
  PROVE  JoinedWith(from[i], envs, Ahead(from, i), relation) = JoinedWith(others[i], envs, Ahead(others, i), instead)
<1> DEFINE s == from[i] o == others[i] right == Records(relation[s])
           before == {from[j] : j \in 1..(i - 1)}
           ahead == {others[j] : j \in 1..(i - 1)}
           one(S, a) == CHOOSE e \in {e \in S : e.alias = a} : TRUE
<1>1. /\ o.alias = s.alias /\ o.join = s.join /\ relation[s] = instead[o]
      /\ SameConditions(s.on, o.on, relation, instead)
  BY DEF SameSources
<1>2. \A env : /\ Matches(s, right, env, relation) = Matches(o, right, env, instead)
               /\ Extended(s, right, env, relation) = Extended(o, right, env, instead)
  BY <1>1, SameExtended
<1>3. [l \in DOMAIN envs |-> Extended(s, right, envs[l], relation)]
      = [l \in DOMAIN envs |-> Extended(o, right, envs[l], instead)]
  BY <1>2
<1>4. NullFor(before, relation) = NullFor(ahead, instead)
  <2>1. \A j \in 1..(i - 1) : j \in 1..Len(from)
    BY DEF SameSources
  <2>2. {e.alias : e \in before} = {e.alias : e \in ahead}
    BY <2>1 DEF SameSources
  <2>3. ASSUME NEW j \in 1..(i - 1)
        PROVE  relation[one(before, from[j].alias)] = instead[one(ahead, from[j].alias)]
    <3>1. \A k \in 1..(i - 1) : (from[k].alias = from[j].alias => k = j) /\ others[k].alias = from[k].alias
      BY <2>1, <2>3 DEF SameSources
    <3>2. {e \in before : e.alias = from[j].alias} = {from[j]}
      BY <3>1
    <3>3. {e \in ahead : e.alias = from[j].alias} = {others[j]}
      BY <3>1
    <3>4. relation[from[j]] = instead[others[j]]
      BY <2>1 DEF SameSources
    <3> HIDE DEF before, ahead
    <3> QED BY <3>2, <3>3, <3>4
  <2>4. \A a \in {e.alias : e \in before} : \E j \in 1..(i - 1) : a = from[j].alias
    OBVIOUS
  <2>5. \A a \in {e.alias : e \in before} : Nulls(relation[one(before, a)]) = Nulls(instead[one(ahead, a)])
    <3> HIDE DEF one, before, ahead
    <3> QED BY <2>3, <2>4
  <2> HIDE DEF before, ahead
  <2> QED BY <2>2, <2>5 DEF NullFor
<1> HIDE DEF before, ahead, right
<1>5. Lone(s, right, envs, before, relation) = Lone(o, right, envs, ahead, instead)
  BY <1>1, <1>2, <1>4 DEF Lone
<1> QED BY <1>1, <1>3, <1>5 DEF JoinedWith, right, before, ahead, Ahead

\* and so all of them: the same environments result.
LEMMA SameJoined ==
  ASSUME NEW from, NEW others, NEW relation, NEW instead, SameSources(from, others, relation, instead)
  PROVE  Joined(from, relation) = Joined(others, instead)
<1> DEFINE N == Len(from)
<1>1. N \in Nat /\ Len(others) = N
  BY DEF SameSources
<1>2. PICK f : JoinFronts(f, from, relation)
  BY <1>1, JoinedFronts
<1>3. PICK g : JoinFronts(g, others, instead)
  BY <1>1, JoinedFronts
<1> DEFINE T == {n \in 0..N : f[n] = g[n]}
<1>4. 0 \in T
  BY <1>1, <1>2, <1>3 DEF JoinFronts
<1>5. \A n \in 0..(N - 1) : n \in T => n + 1 \in T
  <2> SUFFICES ASSUME NEW n \in 0..(N - 1), n \in T PROVE n + 1 \in T
    OBVIOUS
  <2>1. PICK i \in 1..N : i = n + 1 /\ i - 1 = n /\ i \in 0..N
    BY <1>1
  <2>2. f[i] = JoinedWith(from[i], f[i - 1], Ahead(from, i), relation)
    BY <1>2 DEF JoinFronts, Ahead
  <2>3. g[i] = JoinedWith(others[i], g[i - 1], Ahead(others, i), instead)
    BY <1>1, <1>3 DEF JoinFronts, Ahead
  <2>4. f[i - 1] = g[i - 1]
    BY <2>1
  <2>5. JoinedWith(from[i], f[i - 1], Ahead(from, i), relation)
        = JoinedWith(others[i], f[i - 1], Ahead(others, i), instead)
    BY SameJoinedWith
  <2>6. f[i] = g[i]
    BY <2>2, <2>3, <2>4, <2>5, Zenon
  <2> QED BY <2>1, <2>6
<1>6. N \in T
  <2> HIDE DEF T
  <2>1. \A n \in 0..N : n \in T
    BY <1>1, <1>4, <1>5, UpTo
  <2> QED BY <1>1, <2>1
<1> QED BY <1>1, <1>2, <1>3, <1>6 DEF JoinFronts

\* Such a block returns the same rows.
LEMMA SameEvaluated ==
  ASSUME NEW blk, NEW new, NEW relation, NEW instead,
         SameSources(blk.from, new.from, relation, instead),
         SameConditions(blk.where, new.where, relation, instead),
         new.group = blk.group, new.out = blk.out, new.having = blk.having,
         new.distinct = blk.distinct, new.limit = blk.limit
  PROVE  Evaluated(blk, relation) = Evaluated(new, instead)
<1>1. Joined(blk.from, relation) = Joined(new.from, instead)
  BY SameJoined
<1>2. \A envs : Filtered(envs, blk.where, relation) = Filtered(envs, new.where, instead)
  BY DEF Filtered, SameConditions
<1>3. \A groups : HavingGroups(blk, groups) = HavingGroups(new, groups) /\ Selected(blk, groups) = Selected(new, groups)
  BY DEF HavingGroups, Selected
<1>4. \A rows : DistinctRows(blk, rows) = DistinctRows(new, rows) /\ LimitedRows(blk, rows) = LimitedRows(new, rows)
  BY DEF DistinctRows, LimitedRows
<1> QED BY <1>1, <1>2, <1>3, <1>4 DEF Evaluated

\* Two queries return the same if, of whatever the others return, each block does.
LEMMA SameBlocksSameMeaning ==
  ASSUME NEW q, NEW r, DOMAIN r.block = DOMAIN q.block, NEW db,
         \A f : \A b \in DOMAIN q.block : BlockRelation(q, db, f, b) = BlockRelation(r, db, f, b)
  PROVE  Meaning(q, db) = Meaning(r, db)
<1> DEFINE Rows(p, rel) == rel = [b \in DOMAIN p.block |-> BlockRelation(p, db, rel, b)]
<1>1. \A rel : Rows(q, rel) <=> Rows(r, rel)
  OBVIOUS
<1>2. Meaning(q, db) = (CHOOSE rel : Rows(q, rel))[1] /\ Meaning(r, db) = (CHOOSE rel : Rows(r, rel))[1]
  BY DEF Meaning
<1> HIDE DEF Rows
<1>3. (CHOOSE rel : Rows(q, rel)) = (CHOOSE rel : Rows(r, rel))
  BY <1>1
<1> QED BY <1>2, <1>3

\* Of a block, what its terms and sources are without some true terms.
Lessened(blk, new) ==
  /\ new.where = blk.where \/ LessTrue(blk.where, new.where)
  /\ DOMAIN new.from = DOMAIN blk.from /\ Len(new.from) = Len(blk.from)
  /\ \A i \in DOMAIN blk.from :
       /\ new.from[i].name = blk.from[i].name /\ new.from[i].alias = blk.from[i].alias
       /\ new.from[i].body = blk.from[i].body /\ new.from[i].join = blk.from[i].join
       /\ new.from[i].on = blk.from[i].on \/ LessTrue(blk.from[i].on, new.from[i].on)
  /\ new.group = blk.group /\ new.out = blk.out /\ new.having = blk.having
  /\ new.distinct = blk.distinct /\ new.limit = blk.limit /\ new.scope = blk.scope

\* A list without some true terms is the same condition.
LEMMA SameLess ==
  ASSUME NEW terms, NEW less, less = terms \/ LessTrue(terms, less), NEW relation, NEW instead,
         \A t \in ToSet(less) : t.op = "exists" => relation[t] = instead[t]
  PROVE  SameConditions(terms, less, relation, instead)
BY LessTrueHolds DEF SameConditions

\* The terms of the shorter list are of the longer one, which has no other EXISTS.
LEMMA LessTrueSubset ==
  ASSUME NEW terms, NEW less, less = terms \/ LessTrue(terms, less)
  PROVE  /\ ToSet(less) \subseteq ToSet(terms)
         /\ \A t \in ToSet(terms) : t.op = "exists" => t \in ToSet(less)
BY DEF LessTrue

\* The sources of such a block stand for what they stood for.
LEMMA LessenedRows ==
  ASSUME NEW q, NEW r, NEW b, IsFrom(q.block[b].from), Lessened(q.block[b], r.block[b]),
         r.ctes = q.ctes, NEW db, NEW f,
         DOMAIN q.block[b] = {"from", "out", "where", "group", "having", "distinct", "limit", "scope"},
         DOMAIN r.block[b] = DOMAIN q.block[b]
  PROVE  BlockRelation(q, db, f, b) = BlockRelation(r, db, f, b)
<1> DEFINE blk == q.block[b] new == r.block[b]
           bare == Unscoped(blk) fresh == Unscoped(new)
           relation == [s \in Sources(bare) |-> SourceRelation(q, db, f, b, s)]
           instead == [s \in Sources(fresh) |-> SourceRelation(r, db, f, b, s)]
<1>1. /\ bare.from = blk.from /\ bare.where = blk.where /\ bare.group = blk.group /\ bare.out = blk.out
      /\ bare.having = blk.having /\ bare.distinct = blk.distinct /\ bare.limit = blk.limit
      /\ fresh.from = new.from /\ fresh.where = new.where /\ fresh.group = new.group /\ fresh.out = new.out
      /\ fresh.having = new.having /\ fresh.distinct = new.distinct /\ fresh.limit = new.limit
  BY DEF Unscoped
<1>2. ASSUME NEW s, NEW o, o.name = s.name, o.name = "" => o.body = s.body
      PROVE  SourceRelation(q, db, f, b, s) = SourceRelation(r, db, f, b, o)
  <2>1. ReadBody(q, b, s) = ReadBody(r, b, o)
    BY <1>2 DEF ReadBody, NamedBody, VisibleCtes, Lessened
  <2> QED BY <1>2, <2>1 DEF SourceRelation
<1>3. DOMAIN blk.from = 1..Len(blk.from) /\ Len(blk.from) \in Nat
  BY ListFacts DEF IsFrom
<1>4. \A i \in 1..Len(blk.from) : blk.from[i] \in Sources(bare) /\ new.from[i] \in Sources(fresh)
  <2>1. \A i \in 1..Len(blk.from) : blk.from[i] \in ToSet(bare.from) /\ new.from[i] \in ToSet(fresh.from)
    BY <1>1, <1>3 DEF ToSet, Lessened
  <2> QED BY <2>1 DEF Sources
<1>5. ASSUME NEW t \in TermsOf(fresh), t.op = "exists"
      PROVE  t \in Sources(bare) /\ t \in Sources(fresh)
  <2>1. t \in TermsOf(bare)
    <3>1. CASE t \in ToSet(new.where)
      BY <1>1, <3>1, LessTrueSubset DEF TermsOf, Lessened
    <3>2. CASE \E o \in ToSet(new.from) : t \in ToSet(o.on)
      <4>1. PICK i \in 1..Len(blk.from) : t \in ToSet(new.from[i].on)
        BY <1>3, <3>2 DEF ToSet, Lessened
      <4>2. t \in ToSet(blk.from[i].on)
        BY <1>3, <4>1, LessTrueSubset DEF Lessened
      <4>3. blk.from[i] \in ToSet(bare.from)
        BY <1>1, <1>3 DEF ToSet
      <4> QED BY <4>2, <4>3 DEF TermsOf
    <3> QED BY <1>1, <1>5, <3>1, <3>2 DEF TermsOf
  <2> QED BY <1>5, <2>1 DEF Sources
<1>6. \A t \in TermsOf(fresh) : t.op = "exists" => relation[t] = instead[t]
  <2> TAKE t \in TermsOf(fresh)
  <2>1. SourceRelation(q, db, f, b, t) = SourceRelation(r, db, f, b, t)
    BY <1>2
  <2> QED BY <1>5, <2>1
<1>7. \A i \in 1..Len(blk.from) : relation[blk.from[i]] = instead[new.from[i]]
  <2> TAKE i \in 1..Len(blk.from)
  <2>1. new.from[i].name = blk.from[i].name /\ new.from[i].body = blk.from[i].body
    BY <1>3 DEF Lessened
  <2>2. SourceRelation(q, db, f, b, blk.from[i]) = SourceRelation(r, db, f, b, new.from[i])
    BY <1>2, <2>1
  <2> QED BY <1>4, <2>2
<1>8. BlockRelation(q, db, f, b) = Evaluated(bare, relation) /\ BlockRelation(r, db, f, b) = Evaluated(fresh, instead)
  BY DEF BlockRelation
<1> HIDE DEF relation, instead
<1>9. SameConditions(bare.where, fresh.where, relation, instead)
  <2>1. \A t \in ToSet(fresh.where) : t \in TermsOf(fresh)
    BY DEF TermsOf
  <2>2. fresh.where = bare.where \/ LessTrue(bare.where, fresh.where)
    BY <1>1 DEF Lessened
  <2>3. \A t \in ToSet(fresh.where) : t.op = "exists" => relation[t] = instead[t]
    BY <1>6, <2>1
  <2> HIDE DEF bare, fresh
  <2> QED BY <2>2, <2>3, SameLess
<1>10. ASSUME NEW i \in 1..Len(blk.from)
       PROVE  SameConditions(blk.from[i].on, new.from[i].on, relation, instead)
  <2>1. new.from[i] \in ToSet(fresh.from)
    BY <1>1, <1>3 DEF ToSet, Lessened
  <2>2. \A t \in ToSet(new.from[i].on) : t \in TermsOf(fresh)
    BY <2>1 DEF TermsOf
  <2>3. new.from[i].on = blk.from[i].on \/ LessTrue(blk.from[i].on, new.from[i].on)
    BY <1>3 DEF Lessened
  <2>4. \A t \in ToSet(new.from[i].on) : t.op = "exists" => relation[t] = instead[t]
    BY <1>6, <2>2
  <2> QED BY <2>3, <2>4, SameLess
<1>11. SameSources(bare.from, fresh.from, relation, instead)
  <2>1. \A i, j \in 1..Len(blk.from) : blk.from[i].alias = blk.from[j].alias => i = j
    BY <1>3 DEF IsFrom
  <2>2. \A i \in 1..Len(blk.from) : new.from[i].alias = blk.from[i].alias /\ new.from[i].join = blk.from[i].join
    BY <1>3 DEF Lessened
  <2>3. Len(new.from) = Len(blk.from)
    BY DEF Lessened
  <2> HIDE DEF bare, fresh
  <2> QED BY <1>1, <1>3, <1>7, <1>10, <2>1, <2>2, <2>3 DEF SameSources
<1>12. Evaluated(bare, relation) = Evaluated(fresh, instead)
  <2>1. fresh.group = bare.group /\ fresh.out = bare.out /\ fresh.having = bare.having
        /\ fresh.distinct = bare.distinct /\ fresh.limit = bare.limit
    BY <1>1 DEF Lessened
  <2> HIDE DEF bare, fresh
  <2> QED BY <1>9, <1>11, <2>1, SameEvaluated
<1> QED BY <1>8, <1>12

\* A query whose every block lost nothing but true terms returns the rows it returned.
LEMMA LessenedMeaning ==
  ASSUME NEW q, IsQuery(q), NEW r, r.ctes = q.ctes, DOMAIN r.block = DOMAIN q.block,
         \A b \in DOMAIN q.block : DOMAIN r.block[b] = DOMAIN q.block[b] /\ Lessened(q.block[b], r.block[b]),
         NEW db
  PROVE  Meaning(r, db) = Meaning(q, db)
<1>1. \A f : \A b \in DOMAIN q.block : BlockRelation(q, db, f, b) = BlockRelation(r, db, f, b)
  <2> SUFFICES ASSUME NEW f, NEW b \in DOMAIN q.block
               PROVE  BlockRelation(q, db, f, b) = BlockRelation(r, db, f, b)
    OBVIOUS
  <2>1. /\ IsFrom(q.block[b].from)
        /\ DOMAIN q.block[b] = {"from", "out", "where", "group", "having", "distinct", "limit", "scope"}
    BY DEF IsQuery
  <2> QED BY <2>1, LessenedRows
<1> QED BY <1>1, SameBlocksSameMeaning

\* A block with such a WHERE instead of its own lost nothing but true terms.
LEMMA LessenedWheres ==
  ASSUME NEW blk, NEW less,
         DOMAIN blk = {"from", "out", "where", "group", "having", "distinct", "limit", "scope"},
         less = blk.where \/ LessTrue(blk.where, less),
         NEW new, new = [blk EXCEPT !.where = less]
  PROVE  DOMAIN new = DOMAIN blk /\ Lessened(blk, new)
<1>1. DOMAIN new = DOMAIN blk /\ \A field \in DOMAIN blk : new[field] = IF field = "where" THEN less ELSE blk[field]
  OBVIOUS
<1>2. /\ new.where = less /\ new.from = blk.from /\ new.out = blk.out /\ new.group = blk.group
      /\ new.having = blk.having /\ new.distinct = blk.distinct /\ new.limit = blk.limit /\ new.scope = blk.scope
  BY <1>1
<1> QED BY <1>1, <1>2 DEF Lessened

\* Pruning: no block loses more than the branches of parameters that are null.
LEMMA PruneChangesNoRow ==
  ASSUME IsQuery(query), Prune, \A b \in DOMAIN query.block : IsAndList(query.block[b].where), NEW db
  PROVE  Meaning(query', db) = Meaning(query, db)
<1> DEFINE less(b) == Pruned(query.block[b].where)
<1>1. /\ query'.ctes = query.ctes /\ DOMAIN query'.block = DOMAIN query.block
      /\ \A b \in DOMAIN query.block : query'.block[b] = [query.block[b] EXCEPT !.where = less(b)]
  BY DEF Prune, WithConditions
<1>2. ASSUME NEW b \in DOMAIN query.block
      PROVE  DOMAIN query'.block[b] = DOMAIN query.block[b] /\ Lessened(query.block[b], query'.block[b])
  <2>1. /\ DOMAIN query.block[b] = {"from", "out", "where", "group", "having", "distinct", "limit", "scope"}
        /\ IsList(query.block[b].where)
    BY DEF IsQuery
  <2> DEFINE blk == query.block[b]
             new == query'.block[b]
             where == less(b)
  <2>2. LessTrue(blk.where, where)
    BY <2>1, PrunedTrue
  <2>3. new = [blk EXCEPT !.where = where]
    BY <1>1
  <2> HIDE DEF less, blk, new, where
  <2>4. DOMAIN new = DOMAIN blk /\ Lessened(blk, new)
    BY <2>1, <2>2, <2>3, LessenedWheres DEF blk
  <2> QED BY <2>4 DEF blk, new
<1> QED BY <1>1, <1>2, LessenedMeaning

\* The list that the deduplication makes of another.
LEMMA DedupedOrAsIs ==
  ASSUME NEW terms, IsList(terms)
  PROVE  LET less == IF IsAndList(terms) THEN Dedupe(terms) ELSE terms
         IN  less = terms \/ LessTrue(terms, less)
BY DedupedTrue

\* A FROM with these ON terms.
WithOns(from, ons) == [i \in DOMAIN from |-> [from[i] EXCEPT !.on = ons[i]]]

\* A block with such a WHERE and such ON lists lost nothing but true terms.
LEMMA LessenedOns ==
  ASSUME NEW blk, IsFrom(blk.from), NEW less, NEW ons,
         DOMAIN blk = {"from", "out", "where", "group", "having", "distinct", "limit", "scope"},
         less = blk.where \/ LessTrue(blk.where, less),
         \A i \in DOMAIN blk.from : ons[i] = blk.from[i].on \/ LessTrue(blk.from[i].on, ons[i]),
         NEW new,
         new = [[blk EXCEPT !.where = less] EXCEPT !.from = WithOns(blk.from, ons)]
  PROVE  DOMAIN new = DOMAIN blk /\ Lessened(blk, new)
<1> DEFINE from == WithOns(blk.from, ons)
<1>1. /\ DOMAIN new = DOMAIN blk
      /\ \A field \in DOMAIN blk : new[field] = CASE field = "where" -> less [] field = "from" -> from
                                                  [] OTHER -> blk[field]
  OBVIOUS
<1>2. DOMAIN from = DOMAIN blk.from
  BY DEF WithOns
<1>3. ASSUME NEW i \in DOMAIN blk.from
      PROVE  /\ from[i].name = blk.from[i].name /\ from[i].alias = blk.from[i].alias
             /\ from[i].body = blk.from[i].body /\ from[i].join = blk.from[i].join
             /\ from[i].on = ons[i]
  <2>1. DOMAIN blk.from[i] = {"name", "alias", "body", "join", "on"}
    BY DEF IsFrom
  <2> QED BY <2>1 DEF WithOns
<1>4. Len(from) = Len(blk.from)
  <2>1. DOMAIN blk.from = 1..Len(blk.from) /\ Len(blk.from) \in Nat
    BY ListFacts DEF IsFrom
  <2>2. from = [i \in 1..Len(blk.from) |-> from[i]]
    BY <2>1 DEF WithOns
  <2> HIDE DEF from
  <2> QED BY <2>1, <2>2, ListOf
<1> HIDE DEF from
<1>5. /\ new.where = less /\ new.from = from /\ new.out = blk.out /\ new.group = blk.group
      /\ new.having = blk.having /\ new.distinct = blk.distinct /\ new.limit = blk.limit /\ new.scope = blk.scope
  BY <1>1
<1> QED BY <1>1, <1>2, <1>3, <1>4, <1>5 DEF Lessened

\* Deduplication: no block loses more than a second copy of a term.
LEMMA DedupeChangesNoRow ==
  ASSUME IsQuery(query), DedupeAll, NEW db
  PROVE  Meaning(query', db) = Meaning(query, db)
<1> DEFINE less(terms) == IF IsAndList(terms) THEN Dedupe(terms) ELSE terms
           wheres == Conditions(query)
           ons == JoinConditions(query)
           between == WithConditions(query, [b \in DOMAIN wheres |-> less(wheres[b])])
           Ons(b) == [i \in DOMAIN ons[b] |-> less(ons[b][i])]
<1>1. query' = WithJoinConditions(between, [b \in DOMAIN ons |-> Ons(b)])
  BY DEF DedupeAll
<1>2. ASSUME NEW b \in DOMAIN query.block
      PROVE  /\ DOMAIN query.block[b] = {"from", "out", "where", "group", "having", "distinct", "limit", "scope"}
             /\ IsList(query.block[b].where) /\ IsFrom(query.block[b].from)
  BY DEF IsQuery
<1>3. /\ between.ctes = query.ctes /\ DOMAIN between.block = DOMAIN query.block
      /\ \A b \in DOMAIN query.block : between.block[b] = [query.block[b] EXCEPT !.where = less(query.block[b].where)]
  <2>1. DOMAIN wheres = DOMAIN query.block /\ \A b \in DOMAIN query.block : wheres[b] = query.block[b].where
    BY DEF Conditions
  <2> HIDE DEF less, wheres
  <2> QED BY <2>1 DEF WithConditions
<1>4. /\ DOMAIN ons = DOMAIN query.block
      /\ \A b \in DOMAIN query.block : \A i \in DOMAIN query.block[b].from :
           Ons(b)[i] = less(query.block[b].from[i].on)
  <2> HIDE DEF less
  <2> QED BY DEF JoinConditions
<1> HIDE DEF between, ons, Ons, less
<1>5. /\ query'.ctes = query.ctes /\ DOMAIN query'.block = DOMAIN query.block
      /\ \A b \in DOMAIN query.block :
           query'.block[b] = [between.block[b] EXCEPT !.from = WithOns(between.block[b].from, Ons(b))]
  BY <1>1, <1>3, <1>4 DEF WithJoinConditions, WithOns
<1>6. ASSUME NEW b \in DOMAIN query.block
      PROVE  DOMAIN query'.block[b] = DOMAIN query.block[b] /\ Lessened(query.block[b], query'.block[b])
  <2> DEFINE blk == query.block[b]
  <2>1. between.block[b] = [blk EXCEPT !.where = less(blk.where)] /\ between.block[b].from = blk.from
    BY <1>2, <1>3
  <2>2. query'.block[b] = [[blk EXCEPT !.where = less(blk.where)] EXCEPT !.from = WithOns(blk.from, Ons(b))]
    BY <1>5, <2>1
  <2>3. less(blk.where) = blk.where \/ LessTrue(blk.where, less(blk.where))
    BY <1>2, DedupedOrAsIs DEF less
  <2>4. \A i \in DOMAIN blk.from : Ons(b)[i] = blk.from[i].on \/ LessTrue(blk.from[i].on, Ons(b)[i])
    <3> TAKE i \in DOMAIN blk.from
    <3>1. IsList(blk.from[i].on) /\ Ons(b)[i] = less(blk.from[i].on)
      BY <1>2, <1>4 DEF IsFrom
    <3>2. less(blk.from[i].on) = blk.from[i].on \/ LessTrue(blk.from[i].on, less(blk.from[i].on))
      BY <3>1, DedupedOrAsIs DEF less
    <3> QED BY <3>1, <3>2
  <2>5. IsFrom(blk.from) /\ DOMAIN blk = {"from", "out", "where", "group", "having", "distinct", "limit", "scope"}
    BY <1>2
  <2> DEFINE new == query'.block[b]
             where == less(blk.where)
             on == Ons(b)
  <2>6. /\ where = blk.where \/ LessTrue(blk.where, where)
        /\ \A i \in DOMAIN blk.from : on[i] = blk.from[i].on \/ LessTrue(blk.from[i].on, on[i])
        /\ new = [[blk EXCEPT !.where = where] EXCEPT !.from = WithOns(blk.from, on)]
    BY <2>2, <2>3, <2>4
  <2> HIDE DEF blk, new, where, on
  <2>7. DOMAIN new = DOMAIN blk /\ Lessened(blk, new)
    BY <2>5, <2>6, LessenedOns
  <2> QED BY <2>7 DEF blk, new
<1> QED BY <1>5, <1>6, LessenedMeaning

(* Prune: whatever the tables hold, the query without its branches of parameters that
   are null returns the rows it returned with them, if no WHERE of it has an OR
   without parentheses beside other terms. *)
PrunedBranchesChangeNoRow ==
  [][Prune /\ (\A b \in DOMAIN query.block : IsAndList(query.block[b].where))
       => \A db : Meaning(query', db) = Meaning(query, db)]_cvars

(* pruneOptionalConditionBranches changes no row, for every query and every content
   of its tables: a branch whose parameter is null is true of every row. *)
THEOREM PruningKeepsTheMeaning == ConditionSpec => PrunedBranchesChangeNoRow
<1>1. PlacementInv /\ [ConditionNext]_cvars
        => [Prune /\ (\A b \in DOMAIN query.block : IsAndList(query.block[b].where))
              => \A db : Meaning(query', db) = Meaning(query, db)]_cvars
  <2> SUFFICES ASSUME PlacementInv, Prune, \A b \in DOMAIN query.block : IsAndList(query.block[b].where), NEW db
               PROVE  Meaning(query', db) = Meaning(query, db)
    OBVIOUS
  <2> QED BY PruneChangesNoRow DEF PlacementInv
<1> QED BY <1>1, PlacementInvHolds, PTL DEF ConditionSpec, PrunedBranchesChangeNoRow

(* DedupeAll: whatever the tables hold, the query without its repeated conditions
   returns the rows it returned with them. *)
DedupedConditionsChangeNoRow ==
  [][DedupeAll => \A db : Meaning(query', db) = Meaning(query, db)]_cvars

(* ConditionDeduplicationOptimizer changes no row, for every query that results from
   the placements and every content of its tables: of an outer join's ON too. *)
THEOREM DedupingKeepsTheMeaning == ConditionSpec => DedupedConditionsChangeNoRow
<1>1. PlacementInv /\ [ConditionNext]_cvars => [DedupeAll => \A db : Meaning(query', db) = Meaning(query, db)]_cvars
  <2> SUFFICES ASSUME PlacementInv, DedupeAll, NEW db PROVE Meaning(query', db) = Meaning(query, db)
    OBVIOUS
  <2> QED BY DedupeChangesNoRow DEF PlacementInv
<1> QED BY <1>1, PlacementInvHolds, PTL DEF ConditionSpec, DedupedConditionsChangeNoRow

================================================================================
