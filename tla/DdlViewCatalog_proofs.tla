------------------------- MODULE DdlViewCatalog_proofs -------------------------
(* Proofs about DdlViewCatalog, for every set of views, every references among
   them and every query.                                                     *)
EXTENDS DdlViewCatalog, SequenceTheorems, TLAPS

--------------------------------------------------------------------------------
(* The stack and the list grow and shrink at their end                     *)

LEMMA Push ==
  ASSUME NEW s \in Seq(Views), NEW v \in Views
  PROVE  /\ Append(s, v) \in Seq(Views)
         /\ Len(Append(s, v)) = Len(s) + 1
         /\ \A i \in 1..Len(s) : Append(s, v)[i] = s[i]
         /\ Append(s, v)[Len(s) + 1] = v
         /\ Elements(Append(s, v)) = Elements(s) \cup {v}
<1>1. /\ Append(s, v) \in Seq(Views)
      /\ Len(Append(s, v)) = Len(s) + 1
      /\ \A i \in 1..Len(s) : Append(s, v)[i] = s[i]
      /\ Append(s, v)[Len(s) + 1] = v
  OBVIOUS
<1> HIDE DEF Elements
<1>2. Elements(Append(s, v)) = Elements(s) \cup {v}
  BY <1>1 DEF Elements
<1> QED BY <1>1, <1>2

LEMMA Pop ==
  ASSUME NEW s \in Seq(Views), s # <<>>
  PROVE  /\ s[Len(s)] \in Views
         /\ Len(s) \in Nat \ {0}
         /\ SubSeq(s, 1, Len(s) - 1) \in Seq(Views)
         /\ Len(SubSeq(s, 1, Len(s) - 1)) = Len(s) - 1
         /\ \A i \in 1..(Len(s) - 1) : SubSeq(s, 1, Len(s) - 1)[i] = s[i]
         /\ Elements(s) = Elements(SubSeq(s, 1, Len(s) - 1)) \cup {s[Len(s)]}
<1>1. /\ s[Len(s)] \in Views
      /\ Len(s) \in Nat \ {0}
  OBVIOUS
<1>2. /\ SubSeq(s, 1, Len(s) - 1) \in Seq(Views)
      /\ Len(SubSeq(s, 1, Len(s) - 1)) = Len(s) - 1
      /\ \A i \in 1..(Len(s) - 1) : SubSeq(s, 1, Len(s) - 1)[i] = s[i]
  <2> DEFINE n == Len(s) - 1
  <2>1. n \in Int /\ \A i \in 1..n : s[i] \in Views
    BY <1>1
  <2>2. /\ SubSeq(s, 1, n) \in Seq(Views)
        /\ Len(SubSeq(s, 1, n)) = IF 1 <= n THEN n - 1 + 1 ELSE 0
        /\ \A i \in 1..(n - 1 + 1) : SubSeq(s, 1, n)[i] = s[1 + i - 1]
    <3> HIDE DEF n
    <3> QED BY <2>1, SubSeqProperties
  <2>3. n \in Nat
    BY <1>1
  <2>4. Len(SubSeq(s, 1, n)) = n /\ \A i \in 1..n : SubSeq(s, 1, n)[i] = s[i]
    <3> HIDE DEF n
    <3>1. \A i \in 1..n : i \in 1..(n - 1 + 1) /\ 1 + i - 1 = i
      BY <2>3
    <3> QED BY <2>2, <2>3, <3>1
  <2> QED BY <2>2, <2>4
<1>3. Elements(s) = Elements(SubSeq(s, 1, Len(s) - 1)) \cup {s[Len(s)]}
  BY <1>1, <1>2 DEF Elements
<1> QED BY <1>1, <1>2, <1>3

--------------------------------------------------------------------------------
(* The invariant                                                           *)

\* The stack is a path of the dependency graph: each view on it waits for the
\* next one, has visited the dependencies it has dealt with, and occurs once.
PathInv ==
  /\ Elements(path) \cap visited = {}
  /\ \A i, j \in 1..Len(path) : path[i] = path[j] => i = j
  /\ \A i \in 1..(Len(path) - 1) : path[i + 1] \in Dependencies(path[i])
  /\ \A i \in 1..Len(path) : left[path[i]] \subseteq Dependencies(path[i])
  /\ \A i \in 1..(Len(path) - 1) :
       Dependencies(path[i]) \subseteq left[path[i]] \cup visited \cup {path[i + 1]}
  /\ path # <<>> /\ ~thrown => Dependencies(Top) \subseteq left[Top] \cup visited

\* The visited views are closed under dependencies, not part of any cycle, and
\* needed by the targets.
VisitedInv ==
  /\ Closed(visited)
  /\ \A S \in SUBSET Views : Circular(S) => S \cap visited = {}
  /\ \A S \in SUBSET Views :
       targets \subseteq S /\ Closed(S) => visited \subseteq S /\ Elements(path) \subseteq S
  /\ todo \subseteq targets
  /\ targets \subseteq todo \cup visited \cup Elements(path)

\* The list holds the visited views, each after its dependencies.
OrderedInv ==
  /\ Elements(ordered) = {v \in visited : CteName[v] \notin existing}
  /\ NothingTwice
  /\ DependenciesComeFirst

CheckedInv == \A S \in SUBSET Views : Circular(S) => S \cap checked = {}

CallInv ==
  /\ ~busy /\ ~thrown => path = <<>> /\ todo = {}
  /\ thrown => ~busy
  /\ thrown => \E S \in SUBSET Views : Circular(S)

ExpandInv == PathInv /\ VisitedInv /\ OrderedInv /\ CheckedInv /\ CallInv

LEMMA InitInv == Init => TypeOK /\ ExpandInv
<1> SUFFICES ASSUME Init PROVE TypeOK /\ ExpandInv
  OBVIOUS
<1>1. path = <<>> /\ ordered = <<>> /\ Len(path) = 0 /\ Len(ordered) = 0
  BY DEF Init
<1>2. TypeOK
  <2>1. left \in [Views -> SUBSET Views] /\ references \in [Views -> SUBSET Views]
    BY DEF Init
  <2>2. path \in Seq(Views) /\ ordered \in Seq(Views)
    BY DEF Init
  <2> QED BY <2>1, <2>2 DEF Init, TypeOK
<1>3. PathInv
  BY <1>1 DEF Init, PathInv, Elements
<1>4. VisitedInv
  BY <1>1 DEF Init, VisitedInv, Elements, Closed
<1>5. OrderedInv
  BY <1>1 DEF Init, OrderedInv, NothingTwice, DependenciesComeFirst, Elements
<1>6. CheckedInv /\ CallInv
  BY DEF Init, CheckedInv, CallInv
<1> QED
  BY <1>2, <1>3, <1>4, <1>5, <1>6 DEF ExpandInv

LEMMA ExpandStep ==
  ASSUME TypeOK, ExpandInv, NEW T \in SUBSET Views, NEW E \in SUBSET Names, ~thrown, Expand(T, E)
  PROVE  TypeOK' /\ ExpandInv'
<1> USE DEF Expand, catalog
<1>1. path = <<>> /\ path' = <<>> /\ Len(path) = 0 /\ ordered' = <<>> /\ Len(ordered') = 0
  BY DEF ExpandInv, CallInv
<1>2. TypeOK'
  BY <1>1 DEF TypeOK
<1>3. PathInv'
  BY <1>1 DEF PathInv, Elements
<1>4. VisitedInv'
  BY <1>1 DEF VisitedInv, Elements, Closed
<1>5. OrderedInv'
  BY <1>1 DEF OrderedInv, NothingTwice, DependenciesComeFirst, Elements
<1>6. CheckedInv' /\ CallInv'
  BY DEF ExpandInv, CheckedInv, CallInv, Circular, Dependencies
<1> QED
  BY <1>2, <1>3, <1>4, <1>5, <1>6 DEF ExpandInv

LEMMA AmbiguousStep ==
  ASSUME TypeOK, ExpandInv, RejectAmbiguous
  PROVE  TypeOK' /\ ExpandInv'
<1> USE DEF RejectAmbiguous, catalog
<1>1. path = <<>> /\ path' = <<>> /\ Len(path) = 0 /\ ordered' = <<>> /\ Len(ordered') = 0
  OBVIOUS
<1>2. TypeOK'
  BY <1>1 DEF TypeOK
<1>3. PathInv'
  BY <1>1 DEF PathInv, Elements
<1>4. VisitedInv'
  BY <1>1 DEF VisitedInv, Elements, Closed
<1>5. OrderedInv'
  BY <1>1 DEF OrderedInv, NothingTwice, DependenciesComeFirst, Elements
<1>6. CheckedInv' /\ CallInv'
  BY DEF ExpandInv, CheckedInv, CallInv, Circular, Dependencies
<1> QED
  BY <1>2, <1>3, <1>4, <1>5, <1>6 DEF ExpandInv

\* visit(v) of a view not visited before, called by the loop over the targets
\* (remaining = left) or by the view on top of the stack.
LEMMA VisitNewStep ==
  ASSUME TypeOK, ExpandInv, busy, NEW v \in Views, NEW remaining \in [Views -> SUBSET Views],
         VisitNew(v, remaining),
         UNCHANGED <<catalog, targets, existing, visited, ordered>>,
         \/ path = <<>> /\ remaining = left /\ v \in todo /\ todo' = todo \ {v}
         \/ /\ path # <<>> /\ v \in left[Top] /\ UNCHANGED todo
            /\ remaining = [left EXCEPT ![Top] = @ \ {v}]
  PROVE  TypeOK' /\ ExpandInv'
<1> USE DEF catalog
<1>1. /\ path' \in Seq(Views)
      /\ Len(path) \in Nat
      /\ Len(path') = Len(path) + 1
      /\ \A i \in 1..Len(path) : path'[i] = path[i] /\ path[i] \in Views
      /\ path'[Len(path')] = v
      /\ Elements(path') = Elements(path) \cup {v}
  BY Push DEF TypeOK, VisitNew
<1>2. /\ \A i \in 1..Len(path) : path[i] # v /\ path[i] \notin visited
      /\ v \notin visited
  BY <1>1 DEF VisitNew, Elements, ExpandInv, PathInv
<1>3. /\ left' \in [Views -> SUBSET Views]
      /\ left'[v] = Dependencies(v)
      /\ \A i \in 1..(Len(path) - 1) : left'[path[i]] = left[path[i]]
      /\ path # <<>> => left'[Top] = left[Top] \ {v} /\ v \in left[Top]
  BY <1>1, <1>2 DEF VisitNew, TypeOK, Dependencies, ExpandInv, PathInv, Top
<1>4. TypeOK'
  BY <1>1, <1>3 DEF TypeOK, VisitNew
<1>5. PathInv'
  <2> USE DEF ExpandInv, PathInv, Dependencies
  <2>1. (Elements(path) \cap visited = {})'
    BY <1>1, <1>2
  <2>2. (\A i, j \in 1..Len(path) : path[i] = path[j] => i = j)'
    BY <1>1, <1>2
  <2>3. \A i \in 1..Len(path) : left[path[i]] \subseteq Dependencies(path[i])
    OBVIOUS
  <2>4. path # <<>> => path[Len(path)] = Top /\ Top \in Views /\ Len(path) \in 1..Len(path)
    BY <1>1 DEF Top
  <2>5. (\A i \in 1..(Len(path) - 1) : path[i + 1] \in Dependencies(path[i]))'
    BY <1>1, <1>3, <2>3, <2>4
  <2>6. (\A i \in 1..Len(path) : left[path[i]] \subseteq Dependencies(path[i]))'
    BY <1>1, <1>3, <2>3, <2>4
  <2>7. (\A i \in 1..(Len(path) - 1) :
          Dependencies(path[i]) \subseteq left[path[i]] \cup visited \cup {path[i + 1]})'
    <3> SUFFICES ASSUME NEW i \in 1..(Len(path') - 1)
                 PROVE  Dependencies(path[i]) \subseteq left'[path[i]] \cup visited \cup {path'[i + 1]}
      BY <1>1
    <3>1. CASE i = Len(path)
      <4>1. path # <<>> /\ ~thrown
        BY <1>1, <3>1 DEF CallInv
      <4>2. Dependencies(Top) \subseteq left[Top] \cup visited
        BY <4>1
      <4> QED BY <1>1, <1>3, <2>4, <3>1, <4>1, <4>2
    <3>2. CASE i # Len(path)
      BY <1>1, <1>3, <3>2
    <3> QED BY <3>1, <3>2
  <2>8. (path # <<>> /\ ~thrown => Dependencies(Top) \subseteq left[Top] \cup visited)'
    BY <1>1, <1>3 DEF Top
  <2> QED BY <2>1, <2>2, <2>5, <2>6, <2>7, <2>8
<1>6. VisitedInv'
  <2> USE DEF ExpandInv, VisitedInv
  <2>1. (Closed(visited) /\ \A S \in SUBSET Views : Circular(S) => S \cap visited = {})'
    BY DEF Closed, Circular, Dependencies
  <2>2. todo' \subseteq targets /\ targets \subseteq todo' \cup visited \cup Elements(path')
    BY <1>1
  <2>3. ASSUME NEW S \in SUBSET Views, targets \subseteq S, Closed(S)
        PROVE  v \in S
    <3>1. CASE path = <<>>
      BY <2>3, <3>1
    <3>2. CASE path # <<>>
      <4>1. Top \in Elements(path) /\ Top \in Views
        BY <1>1, <3>2 DEF Elements, Top
      <4>2. v \in Dependencies(Top)
        BY <1>1, <3>2 DEF PathInv, Top
      <4> QED BY <2>3, <4>1, <4>2 DEF Closed
    <3> QED BY <3>1, <3>2
  <2>4. (\A S \in SUBSET Views :
          targets \subseteq S /\ Closed(S) => visited \subseteq S /\ Elements(path) \subseteq S)'
    BY <1>1, <2>3 DEF Closed, Dependencies
  <2> QED BY <2>1, <2>2, <2>4
<1>7. OrderedInv'
  BY DEF OrderedInv, ExpandInv, NothingTwice, DependenciesComeFirst, Dependencies, Elements
<1>8. CheckedInv' /\ CallInv'
  BY DEF CheckedInv, CallInv, ExpandInv, Dependencies, Circular, VisitNew
<1> QED
  BY <1>4, <1>5, <1>6, <1>7, <1>8 DEF ExpandInv

LEMMA VisitTargetStep ==
  ASSUME TypeOK, ExpandInv, NEW v \in Views, VisitTarget(v)
  PROVE  TypeOK' /\ ExpandInv'
<1>1. CASE VisitNew(v, left)
  BY <1>1, VisitNewStep DEF VisitTarget, TypeOK
<1>2. CASE VisitAgain(v)
  <2> USE <1>2 DEF VisitTarget, VisitAgain, catalog
  <2>1. TypeOK'
    BY DEF TypeOK
  <2>2. PathInv' /\ OrderedInv' /\ CheckedInv' /\ CallInv'
    BY DEF ExpandInv, PathInv, OrderedInv, CheckedInv, CallInv, NothingTwice, DependenciesComeFirst,
           Dependencies, Circular, Elements, Top
  <2>3. VisitedInv'
    BY DEF ExpandInv, VisitedInv, Closed, Dependencies, Circular, Elements
  <2> QED BY <2>1, <2>2, <2>3 DEF ExpandInv
<1> QED
  BY <1>1, <1>2 DEF VisitTarget

\* A circular call finds a cycle: the views on the stack from the one that is
\* called again.
LEMMA CycleFound ==
  ASSUME TypeOK, PathInv, NEW v \in left[Top], v \in Elements(path), path # <<>>
  PROVE  \E S \in SUBSET Views : Circular(S)
<1>1. PICK k \in 1..Len(path) : path[k] = v
  BY DEF Elements
<1> DEFINE S == {path[i] : i \in k..Len(path)}
<1>2. S \in SUBSET Views /\ v \in S /\ Len(path) \in Nat
  BY <1>1 DEF TypeOK
<1>3. ASSUME NEW w \in S PROVE Dependencies(w) \cap S # {}
  <2>1. PICK i \in k..Len(path) : path[i] = w
    OBVIOUS
  <2>2. CASE i = Len(path)
    BY <1>2, <2>1, <2>2 DEF PathInv, Top
  <2>3. CASE i # Len(path)
    <3>1. i \in 1..(Len(path) - 1) /\ i + 1 \in k..Len(path)
      BY <1>1, <1>2, <2>1, <2>3
    <3> QED BY <2>1, <3>1 DEF PathInv
  <2> QED BY <2>2, <2>3
<1> QED
  BY <1>2, <1>3 DEF Circular

LEMMA VisitDependencyStep ==
  ASSUME TypeOK, ExpandInv, NEW v \in Views, VisitDependency(v)
  PROVE  TypeOK' /\ ExpandInv'
<1> DEFINE remaining == [left EXCEPT ![Top] = @ \ {v}]
<1>1. /\ remaining \in [Views -> SUBSET Views]
      /\ Top \in Views /\ Len(path) \in Nat \ {0}
  BY Pop DEF TypeOK, VisitDependency, Top
<1>2. CASE VisitNew(v, remaining)
  BY <1>1, <1>2, VisitNewStep DEF VisitDependency
<1>3. CASE v \in visited /\ left' = remaining /\ UNCHANGED <<busy, thrown, path>>
  <2> USE <1>3 DEF VisitDependency, catalog
  <2>1. TypeOK'
    BY <1>1 DEF TypeOK
  <2>2. OrderedInv' /\ CheckedInv' /\ CallInv'
    BY DEF ExpandInv, OrderedInv, CheckedInv, CallInv, NothingTwice, DependenciesComeFirst,
           Dependencies, Circular, Elements
  <2>3. VisitedInv'
    BY DEF ExpandInv, VisitedInv, Closed, Dependencies, Circular, Elements
  <2>4. PathInv'
    BY <1>1 DEF ExpandInv, PathInv, Dependencies, Elements, Top, TypeOK
  <2> QED BY <2>1, <2>2, <2>3, <2>4 DEF ExpandInv
<1>4. CASE VisitCircular(v) /\ left' = remaining
  <2> USE <1>4 DEF VisitDependency, VisitCircular, catalog
  <2>1. TypeOK'
    BY <1>1 DEF TypeOK
  <2>2. \E S \in SUBSET Views : Circular(S)
    BY CycleFound DEF ExpandInv
  <2>3. OrderedInv' /\ CheckedInv' /\ CallInv'
    BY <2>2 DEF ExpandInv, OrderedInv, CheckedInv, CallInv, NothingTwice, DependenciesComeFirst,
           Dependencies, Circular, Elements
  <2>4. VisitedInv'
    BY DEF ExpandInv, VisitedInv, Closed, Dependencies, Circular, Elements
  <2>5. PathInv'
    <3> USE DEF ExpandInv, PathInv, Dependencies
    <3>1. /\ \A i \in 1..Len(path) : path[i] \in Views
          /\ \A i \in 1..(Len(path) - 1) : i \in 1..Len(path) /\ path[i] # Top /\ left'[path[i]] = left[path[i]]
          /\ left'[Top] \subseteq left[Top]
      BY <1>1 DEF TypeOK, Top
    <3>2. (\A i \in 1..Len(path) : left[path[i]] \subseteq Dependencies(path[i]))'
      BY <1>1, <3>1 DEF Top
    <3>3. (\A i \in 1..(Len(path) - 1) :
            Dependencies(path[i]) \subseteq left[path[i]] \cup visited \cup {path[i + 1]})'
      BY <3>1
    <3>4. (\A i \in 1..(Len(path) - 1) : path[i + 1] \in Dependencies(path[i]))'
      OBVIOUS
    <3>5. (Elements(path) \cap visited = {} /\ (\A i, j \in 1..Len(path) : path[i] = path[j] => i = j))'
      BY DEF Elements
    <3>6. (path # <<>> /\ ~thrown => Dependencies(Top) \subseteq left[Top] \cup visited)'
      OBVIOUS
    <3> QED
      BY <3>2, <3>3, <3>4, <3>5, <3>6
  <2> QED BY <2>1, <2>3, <2>4, <2>5 DEF ExpandInv
<1> QED
  BY <1>2, <1>3, <1>4 DEF VisitDependency

LEMMA LeaveStep ==
  ASSUME TypeOK, ExpandInv, Leave
  PROVE  TypeOK' /\ ExpandInv'
<1> USE DEF Leave, catalog, call
<1>1. /\ Top \in Views /\ Len(path) \in Nat \ {0}
      /\ path' \in Seq(Views) /\ Len(path') = Len(path) - 1
      /\ \A i \in 1..Len(path') : path'[i] = path[i]
      /\ Elements(path) = Elements(path') \cup {Top}
  BY Pop DEF TypeOK, Top
<1>2. Dependencies(Top) \subseteq visited /\ Top \notin visited
  <2>1. path # <<>> /\ ~thrown /\ Top \in Elements(path)
    BY <1>1 DEF ExpandInv, CallInv
  <2> QED BY <2>1 DEF ExpandInv, PathInv
<1>3. /\ ordered' \in Seq(Views)
      /\ Len(ordered) \in Nat
      /\ \A i \in 1..Len(ordered) : ordered'[i] = ordered[i]
      /\ \/ CteName[Top] \in existing /\ ordered' = ordered
         \/ /\ CteName[Top] \notin existing
            /\ Len(ordered') = Len(ordered) + 1
            /\ ordered'[Len(ordered) + 1] = Top
            /\ Elements(ordered') = Elements(ordered) \cup {Top}
  BY <1>1, Push DEF TypeOK
<1>4. TypeOK'
  BY <1>1, <1>3 DEF TypeOK
<1>5. PathInv'
  <2> USE DEF ExpandInv, PathInv, Dependencies
  <2>1. \A i \in 1..Len(path') : i \in 1..(Len(path) - 1) /\ path[i] # Top /\ path[i] \notin visited
    <3>1. \A i \in 1..Len(path') : i \in 1..(Len(path) - 1) /\ i \in 1..Len(path) /\ i # Len(path)
      BY <1>1
    <3> QED BY <1>1, <3>1 DEF Top, Elements
  <2>2. (Elements(path) \cap visited = {})'
    BY <2>1, <1>1 DEF Elements
  <2>3. (\A i, j \in 1..Len(path) : path[i] = path[j] => i = j)'
    BY <1>1
  <2>4. (\A i \in 1..(Len(path) - 1) : path[i + 1] \in Dependencies(path[i]))'
    BY <1>1
  <2>5. (\A i \in 1..Len(path) : left[path[i]] \subseteq Dependencies(path[i]))'
    <3> SUFFICES ASSUME NEW i \in 1..Len(path')
                 PROVE  left[path[i]] \subseteq Dependencies(path[i])
      BY <1>1
    <3>1. i \in 1..Len(path)
      BY <1>1
    <3> QED BY <3>1
  <2>6. (\A i \in 1..(Len(path) - 1) :
          Dependencies(path[i]) \subseteq left[path[i]] \cup visited \cup {path[i + 1]})'
    <3> SUFFICES ASSUME NEW i \in 1..(Len(path') - 1)
                 PROVE  Dependencies(path[i]) \subseteq left[path[i]] \cup visited' \cup {path[i + 1]}
      BY <1>1
    <3>1. i \in 1..(Len(path) - 1)
      BY <1>1
    <3>2. Dependencies(path[i]) \subseteq left[path[i]] \cup visited \cup {path[i + 1]}
      BY <3>1
    <3> QED BY <3>2
  <2>7. (path # <<>> /\ ~thrown => Dependencies(Top) \subseteq left[Top] \cup visited)'
    <3> SUFFICES ASSUME path' # <<>>
                 PROVE  Dependencies(Top') \subseteq left[Top'] \cup visited'
      OBVIOUS
    <3> DEFINE n == Len(path) - 1
    <3>1. n \in 1..(Len(path) - 1) /\ Top' = path[n] /\ path[n + 1] = Top
      BY <1>1 DEF Top
    <3>2. Dependencies(path[n]) \subseteq left[path[n]] \cup visited \cup {path[n + 1]}
      BY <3>1
    <3> QED BY <3>1, <3>2
  <2> QED BY <2>2, <2>3, <2>4, <2>5, <2>6, <2>7
<1>6. VisitedInv'
  BY <1>1, <1>2 DEF ExpandInv, PathInv, VisitedInv, Closed, Dependencies, Circular
<1>7. OrderedInv'
  <2> USE DEF ExpandInv, OrderedInv
  <2>1. CASE CteName[Top] \in existing /\ ordered' = ordered
    BY <1>1, <1>2, <2>1 DEF NothingTwice, DependenciesComeFirst, Dependencies, Elements
  <2>2. CASE /\ CteName[Top] \notin existing
             /\ Len(ordered') = Len(ordered) + 1
             /\ ordered'[Len(ordered) + 1] = Top
             /\ Elements(ordered') = Elements(ordered) \cup {Top}
    <3> USE <2>2
    <3>1. (Elements(ordered) = {v \in visited : CteName[v] \notin existing})'
      BY <1>1
    <3>2. \A i \in 1..Len(ordered) : ordered[i] # Top /\ ordered'[i] = ordered[i]
      BY <1>2, <1>3 DEF Elements
    <3>3. NothingTwice'
      BY <1>3, <3>2 DEF NothingTwice
    <3>4. \A d \in Dependencies(Top) : CteName[d] \in existing \/ \E j \in 1..Len(ordered) : ordered[j] = d
      BY <1>2, <1>1 DEF Elements
    <3>5. DependenciesComeFirst'
      <4> SUFFICES ASSUME NEW i \in 1..Len(ordered'), NEW d \in Dependencies(ordered'[i])
                   PROVE  CteName[d] \in existing \/ \E j \in 1..(i - 1) : ordered'[j] = d
        BY DEF DependenciesComeFirst, Dependencies
      <4>1. CASE i = Len(ordered) + 1
        BY <1>3, <3>2, <3>4, <4>1
      <4>2. CASE i # Len(ordered) + 1
        <5>1. i \in 1..Len(ordered) /\ d \in Dependencies(ordered[i])
          BY <1>3, <3>2, <4>2
        <5>2. CteName[d] \in existing \/ \E j \in 1..(i - 1) : ordered[j] = d
          BY <5>1 DEF DependenciesComeFirst
        <5> QED BY <1>3, <3>2, <5>1, <5>2
      <4> QED BY <4>1, <4>2
    <3> QED BY <3>1, <3>3, <3>5
  <2> QED BY <1>3, <2>1, <2>2
<1>8. CheckedInv' /\ CallInv'
  BY DEF ExpandInv, CheckedInv, CallInv, Dependencies, Circular
<1> QED
  BY <1>4, <1>5, <1>6, <1>7, <1>8 DEF ExpandInv

LEMMA ReturnStep ==
  ASSUME TypeOK, ExpandInv, Return
  PROVE  TypeOK' /\ ExpandInv'
<1> USE DEF Return, catalog
<1>1. TypeOK'
  BY DEF TypeOK
<1>2. PathInv' /\ OrderedInv'
  BY DEF ExpandInv, PathInv, OrderedInv, NothingTwice, DependenciesComeFirst,
         Dependencies, Circular, Elements, Top
<1>3. VisitedInv'
  BY DEF ExpandInv, VisitedInv, Closed, Dependencies, Circular, Elements
<1>4. targets \subseteq visited
  BY DEF ExpandInv, VisitedInv, Elements
<1>5. CheckedInv' /\ CallInv'
  BY <1>4 DEF ExpandInv, VisitedInv, CheckedInv, CallInv, Dependencies, Circular
<1> QED
  BY <1>1, <1>2, <1>3, <1>5 DEF ExpandInv

LEMMA StutterStep ==
  ASSUME TypeOK, ExpandInv, UNCHANGED vars
  PROVE  TypeOK' /\ ExpandInv'
<1> USE DEF vars, catalog, call
<1>1. TypeOK' /\ PathInv'
  BY DEF ExpandInv, TypeOK, PathInv, Dependencies, Elements, Top
<1>2. VisitedInv'
  BY DEF ExpandInv, VisitedInv, Closed, Dependencies, Circular, Elements
<1>3. OrderedInv'
  BY DEF ExpandInv, OrderedInv, NothingTwice, DependenciesComeFirst, Dependencies, Elements
<1>4. CheckedInv' /\ CallInv'
  BY DEF ExpandInv, CheckedInv, CallInv, Dependencies, Circular
<1> QED
  BY <1>1, <1>2, <1>3, <1>4 DEF ExpandInv

LEMMA NotCircular == ExpandInv => ConstructedIsAcyclic
<1> SUFFICES ASSUME ExpandInv, Constructed
             PROVE  ~thrown /\ \A S \in SUBSET Views : ~Circular(S)
  BY DEF ConstructedIsAcyclic
<1>1. \A S \in SUBSET Views : ~Circular(S)
  BY DEF ExpandInv, CheckedInv, Constructed, Circular
<1> QED BY <1>1 DEF ExpandInv, CallInv

LEMMA Preserved ==
  ASSUME TypeOK, ExpandInv, [Next]_vars
  PROVE  TypeOK' /\ ExpandInv'
<1>1. ASSUME NEW v \in Views, assertAcyclic(v) PROVE TypeOK' /\ ExpandInv'
  BY <1>1, ExpandStep DEF assertAcyclic
<1>2. ASSUME NEW T \in SUBSET Views, NEW E \in SUBSET Names, expandReferencedViews(T, E)
      PROVE  TypeOK' /\ ExpandInv'
  BY <1>2, NotCircular, ExpandStep DEF expandReferencedViews, ConstructedIsAcyclic
<1>3. ASSUME Step PROVE TypeOK' /\ ExpandInv'
  BY <1>3, VisitTargetStep, VisitDependencyStep, LeaveStep, ReturnStep DEF Step
<1> QED
  BY <1>1, <1>2, <1>3, AmbiguousStep, StutterStep DEF Next

LEMMA Invariance == Spec => [](TypeOK /\ ExpandInv)
<1>1. (TypeOK /\ ExpandInv) /\ [Next]_vars => (TypeOK /\ ExpandInv)'
  BY Preserved
<1> QED BY <1>1, InitInv, PTL DEF Spec

--------------------------------------------------------------------------------
(* The theorems                                                            *)

\* The state of the expansion is always of its type.
THEOREM TypeCorrect == Spec => []TypeOK
  BY Invariance, PTL

\* Every definition comes after the definitions it reads, in every prefix of the
\* list that expandReferencedViews builds.
THEOREM DependenciesFirst == Spec => []DependenciesComeFirst
<1>1. ExpandInv => DependenciesComeFirst
  BY DEF ExpandInv, OrderedInv
<1> QED BY <1>1, Invariance, PTL

\* No view becomes a CTE twice, whatever the number of paths that lead to it.
THEOREM Unique == Spec => []NothingTwice
<1>1. ExpandInv => NothingTwice
  BY DEF ExpandInv, OrderedInv
<1> QED BY <1>1, Invariance, PTL

\* What is returned is what the query needs: the smallest set of views that
\* contains the targets and is closed under dependencies, without the CTEs that
\* the query has already.
THEOREM Complete == Spec => []ExactlyTheNeededViews
<1>1. TypeOK /\ ExpandInv => ExactlyTheNeededViews
  <2> SUFFICES ASSUME TypeOK, ExpandInv, Returned
               PROVE  Elements(ordered) = {v \in Needed : CteName[v] \notin existing}
    BY DEF ExactlyTheNeededViews
  <2>1. Elements(path) = {} /\ todo = {}
    <3>1. path = <<>> /\ todo = {}
      BY DEF Returned, ExpandInv, CallInv
    <3> QED BY <3>1 DEF Elements
  <2>2. targets \subseteq visited /\ Closed(visited) /\ visited \in SUBSET Views
    BY <2>1 DEF ExpandInv, VisitedInv, TypeOK
  <2>3. \A S \in SUBSET Views : targets \subseteq S /\ Closed(S) => visited \subseteq S
    BY DEF ExpandInv, VisitedInv
  <2>4. Needed = visited
    BY <2>2, <2>3 DEF Needed
  <2> QED BY <2>4 DEF ExpandInv, OrderedInv
<1> QED BY <1>1, Invariance, PTL

\* DdlViewUnsupportedError for a cycle is never thrown for a diamond of views: a
\* cycle exists.
THEOREM RejectsOnlyCycles == Spec => []OnlyCyclesAreRejected
<1>1. ExpandInv => OnlyCyclesAreRejected
  BY DEF ExpandInv, CallInv, OnlyCyclesAreRejected
<1> QED BY <1>1, Invariance, PTL

\* The constructor lets no circular catalog through, so expanding the views of a
\* query never throws.
THEOREM RejectsEveryCycle == Spec => []ConstructedIsAcyclic
  BY NotCircular, Invariance, PTL

================================================================================
