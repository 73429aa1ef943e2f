------------------------ MODULE MaterialOrder_proofs ------------------------
(***************************************************************************)
(* For every finite canvas: material_order and plan_card refuse a batch    *)
(* exactly if what it generates is circular, or the materials of one of    *)
(* its cards are; otherwise its targets are what there is to compute, once *)
(* each, behind what they read, and as far as that allows in interface     *)
(* order.                                                                  *)
(*                                                                         *)
(* The operators of the model are recursive functions, so the proof        *)
(* begins with why these exist (RecursiveFunction: the library's theorems  *)
(* on recursion take operators) and with induction over the places of a    *)
(* traversal.  Then: what sources() finds is what ordinary nodes lead to   *)
(* (ReadsAre); what a traversal adds to an order (TraversalAdds), when it  *)
(* is refused (TraversalCloses) and what it keeps of the order of its      *)
(* targets (TraversalSorts); and the same for a card, and for the batch.   *)
(***************************************************************************)
EXTENDS MaterialOrder, TLAPS, WellFoundedInduction, FiniteSetTheorems

-----------------------------------------------------------------------------
(* Numbers and recursive functions.                                         *)

\* A set of numbers has a smallest one.
LEMMA Smallest ==
  ASSUME NEW S \in SUBSET Nat, S # {}
  PROVE  \E s \in S : \A r \in S : ~(r < s)
<1>1. PICK s \in S : \A r \in S : ~(<<r, s>> \in OpToRel(<, Nat))
  BY NatLessThanWellFounded, WFMin
<1>2. \A r \in S : r < s => <<r, s>> \in OpToRel(<, Nat)
  BY DEF OpToRel
<1>. QED
  BY <1>1, <1>2

\* What body returns for an argument depends on arguments of a lower weight only,
\* and weights are bounded.
Founded(D, R, body, weight, bound) ==
  /\ [D -> R] # {} /\ body \in [[D -> R] -> [D -> R]]
  /\ bound \in Nat /\ weight \in [D -> 0..bound]
  /\ \A f, g \in [D -> R], d \in D :
       (\A e \in D : weight[e] < weight[d] => f[e] = g[e]) => body[f][d] = body[g][d]

\* Then a function that is defined recursively by it exists.
LEMMA RecursiveFunction ==
  ASSUME NEW D, NEW R, NEW body, NEW weight, NEW bound, Founded(D, R, body, weight, bound)
  PROVE  \E f \in [D -> R] : f = body[f]
<1>. USE DEF Founded
<1>. DEFINE Solved(n) == \E f \in [D -> R] : \A d \in D : weight[d] < n => f[d] = body[f][d]
            S == {n \in Nat : ~Solved(n)}
<1>1. Solved(0)
  <2>1. \A d \in D : ~(weight[d] < 0)
    OBVIOUS
  <2>. QED
    BY <2>1
<1>2. ASSUME NEW n \in Nat, Solved(n)
      PROVE  Solved(n + 1)
  <2>1. PICK f \in [D -> R] : \A d \in D : weight[d] < n => f[d] = body[f][d]
    BY <1>2
  <2>2. body[f] \in [D -> R]
    OBVIOUS
  <2>3. ASSUME NEW d \in D, weight[d] < n + 1
        PROVE  body[f][d] = body[body[f]][d]
    <3>1. \A e \in D : weight[e] < weight[d] => weight[e] < n
      BY <2>3
    <3>2. \A e \in D : weight[e] < weight[d] => f[e] = body[f][e]
      BY <2>1, <3>1
    <3>. QED
      BY <2>2, <3>2
  <2>. QED
    BY <2>2, <2>3
<1>3. S = {}
  <2>. SUFFICES ASSUME S # {} PROVE FALSE
    OBVIOUS
  <2>. HIDE DEF Solved
  <2>1. PICK s \in S : \A r \in S : ~(r < s)
    BY Smallest
  <2>2. s # 0 /\ s \in Nat /\ ~Solved(s)
    BY <1>1, <2>1
  <2>3. s - 1 \in Nat /\ s - 1 < s /\ (s - 1) + 1 = s
    BY <2>2
  <2>4. Solved(s - 1)
    BY <2>1, <2>3
  <2>. QED
    BY <1>2, <2>2, <2>3, <2>4
<1>4. PICK f \in [D -> R] : \A d \in D : weight[d] < bound + 1 => f[d] = body[f][d]
  <2>. HIDE DEF Solved
  <2>1. bound + 1 \in Nat
    OBVIOUS
  <2>2. Solved(bound + 1)
    BY <1>3, <2>1
  <2>. QED
    BY <2>2 DEF Solved
<1>5. \A d \in D : f[d] = body[f][d]
  BY <1>4
<1>6. body[f] \in [D -> R]
  OBVIOUS
<1>. QED
  BY <1>5, <1>6

-----------------------------------------------------------------------------
(* Closure.                                                                 *)

\* A relation that leads on from where it leads.
Transitive(P) == \A p, q \in P : p[2] = q[1] => <<p[1], q[2]>> \in P

\* Closure is the least transitive relation around the pairs.
LEMMA ClosureLeast ==
  ASSUME NEW nodes, IsFiniteSet(nodes), NEW pairs \in SUBSET (nodes \X nodes)
  PROVE  /\ pairs \subseteq Closure(pairs, nodes)
         /\ Closure(pairs, nodes) \subseteq nodes \X nodes
         /\ Transitive(Closure(pairs, nodes))
         /\ \A P : pairs \subseteq P /\ Transitive(P) => Closure(pairs, nodes) \subseteq P
<1>. DEFINE all == nodes \X nodes
            D == SUBSET all
            Wider(known) ==
              LET joined == {r \in known \X known : r[1][2] = r[2][1]}
              IN known \union {<<r[1][1], r[2][2]>> : r \in joined}
            Next(f, known) == IF Wider(known) = known THEN known ELSE f[Wider(known)]
            body == [f \in [D -> D] |-> [known \in D |-> Next(f, known)]]
            Def(f) == f = [known \in D |-> Next(f, known)]
            weight == [known \in D |-> Cardinality(all \ known)]
            more == CHOOSE f : Def(f)
<1>1. IsFiniteSet(all) /\ Cardinality(all) \in Nat
  BY FS_Product, FS_CardinalityType
<1>2. \A known \in D : Wider(known) \in D /\ known \subseteq Wider(known)
  OBVIOUS
<1>3. ASSUME NEW known \in D
      PROVE  /\ Cardinality(all \ known) \in 0..Cardinality(all)
             /\ Cardinality(all \ known) \in Nat
             /\ Wider(known) # known =>
                  Cardinality(all \ Wider(known)) < Cardinality(all \ known)
  <2>. HIDE DEF Wider
  <2>1. IsFiniteSet(all \ known) /\ Cardinality(all \ known) \in Nat
    BY <1>1, FS_Difference, FS_CardinalityType
  <2>2. Cardinality(all \ known) <= Cardinality(all)
    BY <1>1, FS_Subset
  <2>3. ASSUME Wider(known) # known
        PROVE  Cardinality(all \ Wider(known)) < Cardinality(all \ known)
    <3>1. all \ Wider(known) \subseteq all \ known /\ all \ Wider(known) # all \ known
      BY <1>2, <2>3
    <3>2. IsFiniteSet(all \ Wider(known)) /\ Cardinality(all \ Wider(known)) \in Nat
      BY <1>1, FS_Difference, FS_CardinalityType
    <3>. HIDE DEF all
    <3>. QED
      BY <2>1, <3>1, <3>2, FS_Subset
  <2>. QED
    BY <1>1, <2>1, <2>2, <2>3
<1>4. \E f : Def(f)
  <2>. HIDE DEF Wider
  <2>1. [known \in D |-> known] \in [D -> D]
    OBVIOUS
  <2>2. body \in [[D -> D] -> [D -> D]]
    BY <1>2
  <2>3. weight \in [D -> 0..Cardinality(all)]
    BY <1>3
  <2>4. ASSUME NEW f \in [D -> D], NEW g \in [D -> D], NEW d \in D,
               \A e \in D : weight[e] < weight[d] => f[e] = g[e]
        PROVE  body[f][d] = body[g][d]
    <3>1. Wider(d) # d => f[Wider(d)] = g[Wider(d)]
      BY <1>2, <1>3, <2>4
    <3>. QED
      BY <3>1
  <2>5. \A f, g \in [D -> D], d \in D :
          (\A e \in D : weight[e] < weight[d] => f[e] = g[e]) => body[f][d] = body[g][d]
    BY <2>4
  <2>. HIDE DEF body, weight, D, all
  <2>6. Founded(D, D, body, weight, Cardinality(all))
    BY <1>1, <2>1, <2>2, <2>3, <2>5 DEF Founded
  <2>7. PICK f \in [D -> D] : f = body[f]
    BY <2>6, RecursiveFunction
  <2>. QED
    BY <2>7 DEF body
<1>5. Def(more)
  BY <1>4
<1>6. Closure(pairs, nodes) = more[pairs]
  BY DEF Closure
<1>. HIDE DEF more
<1>7. \A known \in D : more[known] = IF Wider(known) = known THEN known ELSE more[Wider(known)]
  BY <1>5
<1>. DEFINE Good(known) ==
              /\ known \subseteq more[known] /\ more[known] \in D /\ Transitive(more[known])
              /\ \A P : known \subseteq P /\ Transitive(P) => more[known] \subseteq P
<1>8. ASSUME NEW known \in D, Wider(known) = known
      PROVE  Good(known)
  <2>1. ASSUME NEW p \in known, NEW q \in known, p[2] = q[1]
        PROVE  <<p[1], q[2]>> \in known
    <3>1. <<p, q>> \in {r \in known \X known : r[1][2] = r[2][1]}
      BY <2>1
    <3>2. <<<<p, q>>[1][1], <<p, q>>[2][2]>> \in Wider(known)
      BY <3>1
    <3>. QED
      BY <1>8, <3>2
  <2>2. Transitive(known)
    BY <2>1 DEF Transitive
  <2>3. more[known] = known
    BY <1>7, <1>8
  <2>. QED
    BY <2>2, <2>3
<1>9. ASSUME NEW known \in D, Wider(known) # known, Good(Wider(known))
      PROVE  Good(known)
  <2>1. ASSUME NEW P, known \subseteq P, Transitive(P)
        PROVE  Wider(known) \subseteq P
    <3>1. \A r \in known \X known : r[1] \in P /\ r[2] \in P
      BY <2>1
    <3>. QED
      BY <2>1, <3>1 DEF Transitive
  <2>2. more[known] = more[Wider(known)]
    BY <1>7, <1>9
  <2>. HIDE DEF Wider
  <2>. QED
    BY <1>2, <1>9, <2>1, <2>2
<1>10. \A known \in D : Good(known)
  <2>. HIDE DEF Good, Wider, all
  <2>. DEFINE S == {n \in Nat : \E known \in D : ~Good(known) /\ n = Cardinality(all \ known)}
  <2>. SUFFICES ASSUME NEW bad \in D, ~Good(bad) PROVE FALSE
    OBVIOUS
  <2>1. S # {}
    <3>1. Cardinality(all \ bad) \in Nat
      BY <1>3
    <3>. QED
      BY <3>1
  <2>2. PICK s \in S : \A r \in S : ~(r < s)
    BY <2>1, Smallest
  <2>3. PICK known \in D : ~Good(known) /\ s = Cardinality(all \ known)
    BY <2>2
  <2>4. Wider(known) # known
    BY <1>8, <2>3
  <2>5. Wider(known) \in D /\ Cardinality(all \ Wider(known)) < s
    BY <1>2, <1>3, <2>3, <2>4
  <2>6. Cardinality(all \ Wider(known)) \in Nat
    BY <1>3, <2>5
  <2>7. Good(Wider(known))
    BY <2>2, <2>5, <2>6
  <2>. QED
    BY <1>9, <2>3, <2>4, <2>7
<1>. QED
  BY <1>6, <1>10

-----------------------------------------------------------------------------
(* What a target reads.                                                     *)

Upstream(graph, reached, n) == UNION {reached[s] : s \in Sources(graph, n)}

\* The function that Reads defines, for every set of nodes that are being visited.
Walk(graph, local, sources) ==
  /\ sources \in [SUBSET graph.nodes -> [graph.nodes -> SUBSET (local \union {Circle})]]
  /\ \A visiting \in SUBSET graph.nodes, n \in graph.nodes :
       sources[visiting][n] =
         IF n \in graph.materials THEN {n} \intersect local
         ELSE IF n \in visiting THEN {Circle}
         ELSE Upstream(graph, sources[visiting \union {n}], n)

\* Nodes that are not visited become fewer.
LEMMA FewerLeft ==
  ASSUME NEW all, IsFiniteSet(all), NEW V \in SUBSET all
  PROVE  /\ Cardinality(all \ V) \in Nat /\ Cardinality(all) \in Nat
         /\ Cardinality(all \ V) <= Cardinality(all)
         /\ \A x \in all \ V : Cardinality(all \ (V \union {x})) = Cardinality(all \ V) - 1
<1>1. IsFiniteSet(all \ V) /\ Cardinality(all \ V) \in Nat /\ Cardinality(all) \in Nat
  BY FS_Difference, FS_CardinalityType
<1>2. Cardinality(all \ V) <= Cardinality(all)
  BY FS_Subset
<1>3. ASSUME NEW x \in all \ V
      PROVE  Cardinality(all \ (V \union {x})) = Cardinality(all \ V) - 1
  <2>1. all \ (V \union {x}) = (all \ V) \ {x}
    OBVIOUS
  <2>2. Cardinality((all \ V) \ {x}) = Cardinality(all \ V) - 1
    BY <1>1, FS_RemoveElement
  <2>. QED
    BY <2>1, <2>2
<1>. QED
  BY <1>1, <1>2, <1>3

LEMMA CanvasType ==
  ASSUME NEW graph \in Canvases
  PROVE  /\ IsFiniteSet(graph.nodes) /\ Circle \notin graph.nodes
         /\ graph.materials \subseteq graph.nodes
         /\ graph.links \subseteq graph.nodes \X graph.nodes
         /\ \A n : Sources(graph, n) = {x \in graph.nodes : <<x, n>> \in graph.links}
<1>1. graph.links \subseteq graph.nodes \X graph.nodes
  BY CanvasesAssumption
<1>2. ASSUME NEW n
      PROVE  Sources(graph, n) = {x \in graph.nodes : <<x, n>> \in graph.links}
  <2>1. ASSUME NEW x \in Sources(graph, n)
        PROVE  x \in graph.nodes /\ <<x, n>> \in graph.links
    BY <1>1, <2>1 DEF Sources
  <2>2. ASSUME NEW x \in graph.nodes, <<x, n>> \in graph.links
        PROVE  x \in Sources(graph, n)
    <3>1. <<x, n>> \in {k \in graph.links : k[2] = n} /\ <<x, n>>[1] = x
      BY <2>2
    <3>. QED
      BY <3>1 DEF Sources
  <2>. QED
    BY <2>1, <2>2
<1>. QED
  BY <1>1, <1>2, CanvasesAssumption

LEMMA SourcesExist ==
  ASSUME NEW graph \in Canvases, NEW local \in SUBSET graph.materials
  PROVE  \E sources :
           /\ Walk(graph, local, sources)
           /\ Reads(graph, local) = [t \in local |-> Upstream(graph, sources[{}], t)]
<1>. DEFINE D == SUBSET graph.nodes
            R == [graph.nodes -> SUBSET (local \union {Circle})]
            Next(f, visiting) ==
              [n \in graph.nodes |->
                 IF n \in graph.materials THEN {n} \intersect local
                 ELSE IF n \in visiting THEN {Circle}
                 ELSE Upstream(graph, f[visiting \union {n}], n)]
            body == [f \in [D -> R] |-> [visiting \in D |-> Next(f, visiting)]]
            Def(f) == f = [visiting \in D |-> Next(f, visiting)]
            weight == [visiting \in D |-> Cardinality(graph.nodes \ visiting)]
            sources == CHOOSE f : Def(f)
<1>1. IsFiniteSet(graph.nodes) /\ \A n : Sources(graph, n) \subseteq graph.nodes
  BY CanvasType
<1>2. \A reached \in R : \A n : Upstream(graph, reached, n) \in SUBSET (local \union {Circle})
  BY <1>1 DEF Upstream
<1>3. \A f \in [D -> R], visiting \in D : Next(f, visiting) \in R
  <2>1. ASSUME NEW f \in [D -> R], NEW visiting \in D, NEW n \in graph.nodes
        PROVE  Upstream(graph, f[visiting \union {n}], n) \in SUBSET (local \union {Circle})
    BY <1>2
  <2>. QED
    BY <2>1
<1>4. Founded(D, R, body, weight, Cardinality(graph.nodes))
  <2>1. [visiting \in D |-> [n \in graph.nodes |-> {}]] \in [D -> R]
    OBVIOUS
  <2>2. body \in [[D -> R] -> [D -> R]]
    <3>. HIDE DEF D, R, Next
    <3>. QED
      BY <1>3
  <2>3. Cardinality(graph.nodes) \in Nat /\ weight \in [D -> 0..Cardinality(graph.nodes)]
    BY <1>1, FewerLeft, FS_CardinalityType
  <2>4. ASSUME NEW f \in [D -> R], NEW g \in [D -> R], NEW d \in D,
               \A e \in D : weight[e] < weight[d] => f[e] = g[e]
        PROVE  body[f][d] = body[g][d]
    <3>1. ASSUME NEW n \in graph.nodes, n \notin d
          PROVE  f[d \union {n}] = g[d \union {n}]
      <4>1. d \union {n} \in D /\ n \in graph.nodes \ d
        BY <3>1
      <4>2. weight[d \union {n}] < weight[d]
        BY <1>1, <4>1, FewerLeft
      <4>. QED
        BY <2>4, <4>1, <4>2
    <3>2. Next(f, d) = Next(g, d)
      BY <3>1
    <3>. QED
      BY <3>2
  <2>5. \A f, g \in [D -> R], d \in D :
          (\A e \in D : weight[e] < weight[d] => f[e] = g[e]) => body[f][d] = body[g][d]
    BY <2>4
  <2>. HIDE DEF body, weight, D, R
  <2>. QED
    BY <2>1, <2>2, <2>3, <2>5 DEF Founded
<1>5. PICK f \in [D -> R] : Def(f)
  <2>. HIDE DEF weight, D, R, Next
  <2>1. PICK f \in [D -> R] : f = body[f]
    <3>. HIDE DEF body
    <3>. QED
      BY <1>4, RecursiveFunction
  <2>. QED
    BY <2>1
<1>6. Def(sources)
  BY <1>5
<1>7. Reads(graph, local) = [t \in local |-> Upstream(graph, sources[{}], t)]
  BY DEF Reads, Upstream
<1>. HIDE DEF sources
<1>8. \A visiting \in D : sources[visiting] = Next(sources, visiting)
  <2>. HIDE DEF D, Next
  <2>. QED
    BY <1>6
<1>9. \A visiting \in D, n \in graph.nodes :
        sources[visiting][n] =
          IF n \in graph.materials THEN {n} \intersect local
          ELSE IF n \in visiting THEN {Circle}
          ELSE Upstream(graph, sources[visiting \union {n}], n)
  <2>. TAKE visiting \in D, n \in graph.nodes
  <2>1. Next(sources, visiting)[n] =
          IF n \in graph.materials THEN {n} \intersect local
          ELSE IF n \in visiting THEN {Circle}
          ELSE Upstream(graph, sources[visiting \union {n}], n)
    OBVIOUS
  <2>. HIDE DEF Next
  <2>. QED
    BY <1>8, <2>1
<1>10. \A visiting \in D : sources[visiting] \in R
  <2>. DEFINE Left(V) == Cardinality(graph.nodes \ V)
              S == {n \in Nat : \E V \in D : sources[V] \notin R /\ n = Left(V)}
  <2>. SUFFICES ASSUME NEW bad \in D, sources[bad] \notin R PROVE FALSE
    OBVIOUS
  <2>1. \A V \in D : Left(V) \in Nat /\ \A x \in graph.nodes \ V : Left(V \union {x}) < Left(V)
    BY <1>1, FewerLeft
  <2>. HIDE DEF Left
  <2>2. Left(bad) \in S
    BY <2>1
  <2>3. PICK s \in S : \A r \in S : ~(r < s)
    <3>. HIDE DEF D, R
    <3>. QED
      BY <2>2, Smallest
  <2>4. PICK V \in D : sources[V] \notin R /\ s = Left(V)
    BY <2>3
  <2>5. ASSUME NEW x \in graph.nodes \ V
        PROVE  sources[V \union {x}] \in R
    <3>1. V \union {x} \in D /\ Left(V \union {x}) < s /\ Left(V \union {x}) \in Nat
      BY <2>1, <2>4, <2>5
    <3>. HIDE DEF D, R
    <3>. QED
      BY <2>3, <3>1
  <2>6. \A x \in graph.nodes \ V :
          Upstream(graph, sources[V \union {x}], x) \in SUBSET (local \union {Circle})
    BY <1>2, <2>5
  <2>7. Next(sources, V) \in R
    BY <2>6
  <2>. QED
    BY <1>8, <2>4, <2>7
<1>11. sources = [V \in D |-> sources[V]]
  <2>. HIDE DEF D, Next
  <2>. QED
    BY <1>6
<1>12. sources \in [D -> R]
  <2>. HIDE DEF D, R
  <2>. QED
    BY <1>10, <1>11
<1>. QED
  BY <1>7, <1>9, <1>12 DEF Walk

\* A walk at one node.
Steps(graph, local, sources, V, n) ==
  /\ n \in graph.materials => sources[V][n] = {n} \intersect local
  /\ n \notin graph.materials /\ n \in V => sources[V][n] = {Circle}
  /\ n \notin graph.materials /\ n \notin V =>
       sources[V][n] = Upstream(graph, sources[V \union {n}], n)
  /\ sources[V][n] \in SUBSET (local \union {Circle})
  /\ Circle \notin local

LEMMA WalkStep ==
  ASSUME NEW graph \in Canvases, NEW local \in SUBSET graph.materials,
         NEW sources, Walk(graph, local, sources)
  PROVE  \A V \in SUBSET graph.nodes, n \in graph.nodes : Steps(graph, local, sources, V, n)
<1>. TAKE V \in SUBSET graph.nodes, n \in graph.nodes
<1>1. sources[V] \in [graph.nodes -> SUBSET (local \union {Circle})]
  BY DEF Walk
<1>. QED
  BY <1>1, CanvasType DEF Walk, Steps

\* Sets of nodes that are being visited; one of them leaves the fewest nodes.
Visits(all, Bad) == IsFiniteSet(all) /\ Bad \subseteq SUBSET all /\ Bad # {}
LEMMA FewestLeft ==
  ASSUME NEW all, NEW Bad, Visits(all, Bad)
  PROVE  \E V \in Bad : \A x \in all \ V : V \union {x} \notin Bad
<1>. USE DEF Visits
<1>. DEFINE Left(V) == Cardinality(all \ V)
            S == {n \in Nat : \E V \in Bad : n = Left(V)}
<1>1. \A V \in Bad : Left(V) \in Nat /\ \A x \in all \ V : Left(V \union {x}) < Left(V)
  <2>. TAKE V \in Bad
  <2>1. /\ Left(V) \in Nat
        /\ \A x \in all \ V : Left(V \union {x}) = Left(V) - 1
    BY FewerLeft
  <2>. HIDE DEF Left
  <2>. QED
    BY <2>1
<1>. HIDE DEF Left
<1>2. S # {}
  BY <1>1
<1>3. PICK s \in S : \A r \in S : ~(r < s)
  BY <1>2, Smallest
<1>4. PICK V \in Bad : s = Left(V)
  BY <1>3
<1>5. ASSUME NEW x \in all \ V, V \union {x} \in Bad
      PROVE  FALSE
  <2>1. Left(V \union {x}) \in S /\ Left(V \union {x}) < s
    BY <1>1, <1>4, <1>5
  <2>. QED
    BY <1>3, <2>1
<1>. QED
  BY <1>5

LEMMA SameUpstream ==
  ASSUME NEW graph, NEW n, NEW f, NEW g, \A x \in Sources(graph, n) : f[x] = g[x]
  PROVE  Upstream(graph, f, n) = Upstream(graph, g, n)
<1>1. {f[x] : x \in Sources(graph, n)} = {g[x] : x \in Sources(graph, n)}
  OBVIOUS
<1>. QED
  BY <1>1 DEF Upstream

\* Where no circle is met, it does not matter what is being visited.
Anywhere(graph, sources, V) ==
  \A n \in graph.nodes, W \in SUBSET V :
    Circle \notin sources[V][n] => sources[W][n] = sources[V][n]
LEMMA WalkAnywhere ==
  ASSUME NEW graph \in Canvases, NEW local \in SUBSET graph.materials,
         NEW sources, Walk(graph, local, sources)
  PROVE  \A V \in SUBSET graph.nodes : Anywhere(graph, sources, V)
<1>. DEFINE Fine(V) == Anywhere(graph, sources, V)
            Bad == {V \in SUBSET graph.nodes : ~Fine(V)}
<1>. SUFFICES ASSUME Bad # {} PROVE FALSE
  OBVIOUS
<1>1. IsFiniteSet(graph.nodes) /\ \A n : Sources(graph, n) \subseteq graph.nodes
  BY CanvasType
<1>2. PICK V \in Bad : \A x \in graph.nodes \ V : V \union {x} \notin Bad
  <2>. HIDE DEF Fine
  <2>1. Visits(graph.nodes, Bad)
    BY <1>1 DEF Visits
  <2>. HIDE DEF Bad
  <2>. QED
    BY <2>1, FewestLeft
<1>3. PICK n \in graph.nodes, W \in SUBSET V :
        Circle \notin sources[V][n] /\ sources[W][n] # sources[V][n]
  BY <1>2 DEF Anywhere
<1>4. V \in SUBSET graph.nodes /\ W \in SUBSET graph.nodes
  BY <1>2
<1>. DEFINE At(U) == Steps(graph, local, sources, U, n)
<1>5. At(V) /\ At(W)
  BY <1>4, WalkStep
<1>6. n \notin graph.materials /\ n \notin V /\ n \notin W
  BY <1>3, <1>5 DEF Steps
<1>7. /\ sources[V][n] = Upstream(graph, sources[V \union {n}], n)
      /\ sources[W][n] = Upstream(graph, sources[W \union {n}], n)
  BY <1>5, <1>6 DEF Steps
<1>8. V \union {n} \in SUBSET graph.nodes /\ W \union {n} \in SUBSET (V \union {n})
  BY <1>4
<1>9. Fine(V \union {n})
  <2>1. V \union {n} \notin Bad
    BY <1>2, <1>6
  <2>. QED
    BY <1>8, <2>1
<1>10. \A x \in Sources(graph, n) :
         x \in graph.nodes /\ Circle \notin sources[V \union {n}][x]
  BY <1>1, <1>3, <1>7 DEF Upstream
<1>11. \A x \in Sources(graph, n) : sources[W \union {n}][x] = sources[V \union {n}][x]
  BY <1>8, <1>9, <1>10 DEF Anywhere
<1>12. Upstream(graph, sources[W \union {n}], n) = Upstream(graph, sources[V \union {n}], n)
  BY <1>11, SameUpstream
<1>. QED
  BY <1>3, <1>7, <1>12

\* An ordinary node off all circles passes on what its sources lead to.
Passes(graph, sources) ==
  \A n \in graph.nodes \ graph.materials : Circle \notin sources[{}][n] =>
    /\ sources[{}][n] = Upstream(graph, sources[{}], n)
    /\ \A x \in Sources(graph, n) : Circle \notin sources[{}][x]
LEMMA WalkOn ==
  ASSUME NEW graph \in Canvases, NEW local \in SUBSET graph.materials,
         NEW sources, Walk(graph, local, sources)
  PROVE  Passes(graph, sources)
<1>. SUFFICES ASSUME NEW n \in graph.nodes \ graph.materials, Circle \notin sources[{}][n]
              PROVE  /\ sources[{}][n] = Upstream(graph, sources[{}], n)
                     /\ \A x \in Sources(graph, n) : Circle \notin sources[{}][x]
  BY DEF Passes
<1>1. {} \in SUBSET graph.nodes /\ {n} \in SUBSET graph.nodes /\ {} \union {n} = {n}
  OBVIOUS
<1>2. sources[{}][n] = Upstream(graph, sources[{n}], n)
  <2>1. Steps(graph, local, sources, {}, n)
    BY <1>1, WalkStep
  <2>. QED
    BY <1>1, <2>1 DEF Steps
<1>3. \A x \in Sources(graph, n) : x \in graph.nodes /\ Circle \notin sources[{n}][x]
  BY <1>2, CanvasType DEF Upstream
<1>4. \A x \in Sources(graph, n) : sources[{}][x] = sources[{n}][x]
  <2>1. Anywhere(graph, sources, {n})
    BY <1>1, WalkAnywhere
  <2>. QED
    BY <1>3, <2>1 DEF Anywhere
<1>5. Upstream(graph, sources[{n}], n) = Upstream(graph, sources[{}], n)
  BY <1>4, SameUpstream
<1>. QED
  BY <1>2, <1>3, <1>4, <1>5

-----------------------------------------------------------------------------
(* Paths through ordinary nodes.                                            *)

\* The links that leave ordinary nodes.
Plain(graph) == {l \in graph.links : l[1] \notin graph.materials}
Ordinary(graph) == graph.nodes \ graph.materials

LEMMA ThroughLeast ==
  ASSUME NEW graph \in Canvases
  PROVE  /\ Plain(graph) \subseteq Through(graph)
         /\ Through(graph) \subseteq graph.nodes \X graph.nodes
         /\ Transitive(Through(graph))
         /\ \A P : Plain(graph) \subseteq P /\ Transitive(P) => Through(graph) \subseteq P
<1>1. IsFiniteSet(graph.nodes) /\ Plain(graph) \in SUBSET (graph.nodes \X graph.nodes)
  BY CanvasType DEF Plain
<1>2. Through(graph) = Closure(Plain(graph), graph.nodes)
  BY DEF Through, Plain
<1>. QED
  BY <1>1, <1>2, ClosureLeast

LEMMA TransitivePairs ==
  ASSUME NEW P, Transitive(P), NEW a, NEW b, NEW c, <<a, b>> \in P, <<b, c>> \in P
  PROVE  <<a, c>> \in P
BY DEF Transitive

LEMMA ThroughLink ==
  ASSUME NEW graph \in Canvases, NEW x \in Ordinary(graph), NEW y, <<x, y>> \in graph.links
  PROVE  <<x, y>> \in Through(graph)
BY ThroughLeast DEF Plain, Ordinary

\* Paths start at ordinary nodes, and their last link leaves one.
LEMMA ThroughEnds ==
  ASSUME NEW graph \in Canvases, NEW x, NEW y, <<x, y>> \in Through(graph)
  PROVE  /\ x \in Ordinary(graph) /\ y \in graph.nodes
         /\ \/ <<x, y>> \in graph.links
            \/ \E s \in Ordinary(graph) : <<s, y>> \in graph.links /\ <<x, s>> \in Through(graph)
<1>. DEFINE through == Through(graph)
            P == {p \in Ordinary(graph) \X graph.nodes :
                    /\ p \in through
                    /\ \/ p \in graph.links
                       \/ \E s \in Ordinary(graph) :
                            <<s, p[2]>> \in graph.links /\ <<p[1], s>> \in through}
<1>1. Plain(graph) \subseteq P
  <2>1. Plain(graph) \subseteq Ordinary(graph) \X graph.nodes
    BY CanvasType DEF Plain, Ordinary
  <2>. QED
    BY <2>1, ThroughLeast DEF Plain
<1>2. ASSUME NEW p \in P, NEW q \in P, p[2] = q[1]
      PROVE  <<p[1], q[2]>> \in P
  <2>. DEFINE x1 == p[1]
              y1 == p[2]
              z1 == q[2]
  <2>1. p = <<x1, y1>> /\ q = <<y1, z1>> /\ x1 \in Ordinary(graph) /\ z1 \in graph.nodes
    BY <1>2
  <2>2. <<x1, y1>> \in through /\ <<y1, z1>> \in through
    BY <2>1
  <2>3. <<x1, z1>> \in through
    BY <2>2, ThroughLeast, TransitivePairs
  <2>4. y1 \in Ordinary(graph)
    BY <2>1
  <2>5. CASE q \in graph.links
    BY <2>1, <2>2, <2>3, <2>4, <2>5
  <2>6. CASE \E s \in Ordinary(graph) : <<s, z1>> \in graph.links /\ <<y1, s>> \in through
    <3>1. PICK s \in Ordinary(graph) : <<s, z1>> \in graph.links /\ <<y1, s>> \in through
      BY <2>6
    <3>2. <<x1, s>> \in through
      BY <2>2, <3>1, ThroughLeast, TransitivePairs
    <3>. QED
      BY <2>1, <2>3, <3>1, <3>2
  <2>. QED
    BY <2>1, <2>5, <2>6
<1>3. Transitive(P)
  BY <1>2 DEF Transitive
<1>4. <<x, y>> \in P
  <2>. HIDE DEF P
  <2>. QED
    BY <1>1, <1>3, ThroughLeast
<1>. QED
  BY <1>4

\* t reads s: by a link, or through ordinary nodes.
Reading(graph, s, t) ==
  \/ <<s, t>> \in graph.links
  \/ \E x \in graph.nodes : <<s, x>> \in graph.links /\ <<x, t>> \in Through(graph)

\* t hangs on ordinary nodes that read themselves.
Hangs(graph, t) ==
  \E x \in graph.nodes : <<x, x>> \in Through(graph) /\ <<x, t>> \in Through(graph)

LEMMA ReadingOn ==
  ASSUME NEW graph \in Canvases, NEW s, NEW n \in Ordinary(graph), NEW t,
         <<n, t>> \in graph.links, Reading(graph, s, n)
  PROVE  Reading(graph, s, t)
<1>1. <<n, t>> \in Through(graph) /\ n \in graph.nodes
  BY ThroughLink DEF Ordinary
<1>2. CASE <<s, n>> \in graph.links
  BY <1>1, <1>2 DEF Reading
<1>3. CASE \E x \in graph.nodes : <<s, x>> \in graph.links /\ <<x, n>> \in Through(graph)
  <2>1. PICK x \in graph.nodes : <<s, x>> \in graph.links /\ <<x, n>> \in Through(graph)
    BY <1>3
  <2>2. <<x, t>> \in Through(graph)
    BY <1>1, <2>1, ThroughLeast, TransitivePairs
  <2>. QED
    BY <2>1, <2>2 DEF Reading
<1>. QED
  BY <1>2, <1>3 DEF Reading

\* What a walk finds is read: nothing is found that no path leads to.
Found(graph, local, sources, V) ==
  \A n \in graph.nodes : \A s \in sources[V][n] \ {Circle} :
    /\ s \in local
    /\ IF n \in graph.materials THEN s = n ELSE Reading(graph, s, n)
LEMMA WalkSound ==
  ASSUME NEW graph \in Canvases, NEW local \in SUBSET graph.materials,
         NEW sources, Walk(graph, local, sources)
  PROVE  \A V \in SUBSET graph.nodes : Found(graph, local, sources, V)
<1>. DEFINE Bad == {V \in SUBSET graph.nodes : ~Found(graph, local, sources, V)}
<1>. SUFFICES ASSUME Bad # {} PROVE FALSE
  OBVIOUS
<1>1. PICK V \in Bad : \A x \in graph.nodes \ V : V \union {x} \notin Bad
  <2>1. Visits(graph.nodes, Bad)
    BY CanvasType DEF Visits
  <2>. HIDE DEF Bad
  <2>. QED
    BY <2>1, FewestLeft
<1>2. PICK n \in graph.nodes : \E s \in sources[V][n] \ {Circle} :
        ~(s \in local /\ IF n \in graph.materials THEN s = n ELSE Reading(graph, s, n))
  BY <1>1 DEF Found
<1>. PICK s \in sources[V][n] \ {Circle} :
       ~(s \in local /\ IF n \in graph.materials THEN s = n ELSE Reading(graph, s, n))
  BY <1>2
<1>3. V \in SUBSET graph.nodes /\ Steps(graph, local, sources, V, n)
  BY <1>1, WalkStep
<1>4. n \notin graph.materials /\ n \notin V
  BY <1>2, <1>3 DEF Steps
<1>5. PICK x \in Sources(graph, n) : s \in sources[V \union {n}][x]
  <2>1. s \in Upstream(graph, sources[V \union {n}], n)
    BY <1>2, <1>3, <1>4 DEF Steps
  <2>. QED
    BY <2>1 DEF Upstream
<1>6. x \in graph.nodes /\ <<x, n>> \in graph.links
  BY <1>5, CanvasType
<1>7. Found(graph, local, sources, V \union {n})
  BY <1>1, <1>3, <1>4
<1>8. s \in local /\ IF x \in graph.materials THEN s = x ELSE Reading(graph, s, x)
  BY <1>2, <1>5, <1>6, <1>7 DEF Found
<1>9. CASE x \in graph.materials
  <2>1. Reading(graph, s, n)
    BY <1>6, <1>8, <1>9 DEF Reading
  <2>. QED
    BY <1>2, <1>4, <1>8, <2>1
<1>10. CASE x \notin graph.materials
  <2>1. x \in Ordinary(graph)
    BY <1>6, <1>10 DEF Ordinary
  <2>2. Reading(graph, s, n)
    BY <1>6, <1>8, <1>10, <2>1, ReadingOn
  <2>. QED
    BY <1>2, <1>4, <1>8, <2>2
<1>. QED
  BY <1>9, <1>10

\* A circle that a walk meets leads to the node it started from, if that node leads to
\* everything being visited.
Met(graph, sources, V) ==
  \A n \in Ordinary(graph) :
    /\ \A v \in V : v \in Ordinary(graph) /\ <<n, v>> \in Through(graph)
    /\ Circle \in sources[V][n]
    => <<n, n>> \in Through(graph) \/ Hangs(graph, n)
LEMMA CirclesSound ==
  ASSUME NEW graph \in Canvases, NEW local \in SUBSET graph.materials,
         NEW sources, Walk(graph, local, sources)
  PROVE  \A V \in SUBSET graph.nodes : Met(graph, sources, V)
<1>. DEFINE Bad == {V \in SUBSET graph.nodes : ~Met(graph, sources, V)}
<1>. SUFFICES ASSUME Bad # {} PROVE FALSE
  OBVIOUS
<1>1. PICK V \in Bad : \A x \in graph.nodes \ V : V \union {x} \notin Bad
  <2>1. Visits(graph.nodes, Bad)
    BY CanvasType DEF Visits
  <2>. HIDE DEF Bad
  <2>. QED
    BY <2>1, FewestLeft
<1>2. PICK n \in Ordinary(graph) :
        /\ \A v \in V : v \in Ordinary(graph) /\ <<n, v>> \in Through(graph)
        /\ Circle \in sources[V][n]
        /\ ~(<<n, n>> \in Through(graph) \/ Hangs(graph, n))
  BY <1>1 DEF Met
<1>3. n \in graph.nodes /\ n \notin graph.materials /\ V \in SUBSET graph.nodes
  BY <1>1, <1>2 DEF Ordinary
<1>4. Steps(graph, local, sources, V, n)
  BY <1>3, WalkStep
<1>5. n \notin V
  BY <1>2
<1>6. PICK x \in Sources(graph, n) : Circle \in sources[V \union {n}][x]
  <2>1. Circle \in Upstream(graph, sources[V \union {n}], n)
    BY <1>2, <1>3, <1>4, <1>5 DEF Steps
  <2>. QED
    BY <2>1 DEF Upstream
<1>7. x \in graph.nodes /\ <<x, n>> \in graph.links
  BY <1>6, CanvasType
<1>8. V \union {n} \in SUBSET graph.nodes
  BY <1>3
<1>9. x \in Ordinary(graph)
  <2>1. Steps(graph, local, sources, V \union {n}, x)
    BY <1>7, <1>8, WalkStep
  <2>. QED
    BY <1>6, <1>7, <2>1 DEF Steps, Ordinary
<1>10. <<x, n>> \in Through(graph)
  BY <1>7, <1>9, ThroughLink
<1>11. \A v \in V \union {n} : v \in Ordinary(graph) /\ <<x, v>> \in Through(graph)
  <2>. TAKE v \in V \union {n}
  <2>1. CASE v = n
    BY <1>2, <1>10, <2>1
  <2>2. CASE v \in V
    <3>1. v \in Ordinary(graph) /\ <<n, v>> \in Through(graph)
      BY <1>2, <2>2
    <3>. QED
      BY <1>10, <3>1, ThroughLeast, TransitivePairs
  <2>. QED
    BY <2>1, <2>2
<1>12. Met(graph, sources, V \union {n})
  BY <1>1, <1>3, <1>5, <1>8
<1>13. <<x, x>> \in Through(graph) \/ Hangs(graph, x)
  BY <1>6, <1>9, <1>11, <1>12 DEF Met
<1>14. CASE <<x, x>> \in Through(graph)
  BY <1>2, <1>7, <1>10, <1>14 DEF Hangs
<1>15. CASE Hangs(graph, x)
  <2>1. PICK y \in graph.nodes : <<y, y>> \in Through(graph) /\ <<y, x>> \in Through(graph)
    BY <1>15 DEF Hangs
  <2>2. <<y, n>> \in Through(graph)
    BY <1>10, <2>1, ThroughLeast, TransitivePairs
  <2>. QED
    BY <1>2, <2>1, <2>2 DEF Hangs
<1>. QED
  BY <1>13, <1>14, <1>15

\* Where no circle is met, no node that is being visited leads back.
Straight(graph, sources, V) ==
  \A n \in Ordinary(graph) :
    Circle \notin sources[V][n] => \A y \in V \union {n} : <<y, n>> \notin Through(graph)
LEMMA CirclesMet ==
  ASSUME NEW graph \in Canvases, NEW local \in SUBSET graph.materials,
         NEW sources, Walk(graph, local, sources)
  PROVE  \A V \in SUBSET graph.nodes : Straight(graph, sources, V)
<1>. DEFINE Bad == {V \in SUBSET graph.nodes : ~Straight(graph, sources, V)}
<1>. SUFFICES ASSUME Bad # {} PROVE FALSE
  OBVIOUS
<1>1. PICK V \in Bad : \A x \in graph.nodes \ V : V \union {x} \notin Bad
  <2>1. Visits(graph.nodes, Bad)
    BY CanvasType DEF Visits
  <2>. HIDE DEF Bad
  <2>. QED
    BY <2>1, FewestLeft
<1>2. PICK n \in Ordinary(graph) : \E y \in V \union {n} :
        Circle \notin sources[V][n] /\ <<y, n>> \in Through(graph)
  BY <1>1 DEF Straight
<1>. PICK y \in V \union {n} : Circle \notin sources[V][n] /\ <<y, n>> \in Through(graph)
  BY <1>2
<1>3. n \in graph.nodes /\ n \notin graph.materials /\ V \in SUBSET graph.nodes
  BY <1>1, <1>2 DEF Ordinary
<1>4. Steps(graph, local, sources, V, n)
  BY <1>3, WalkStep
<1>5. n \notin V
  BY <1>2, <1>3, <1>4 DEF Steps
<1>6. \A x \in Sources(graph, n) : Circle \notin sources[V \union {n}][x]
  <2>1. Circle \notin Upstream(graph, sources[V \union {n}], n)
    BY <1>2, <1>3, <1>4, <1>5 DEF Steps
  <2>. QED
    BY <2>1 DEF Upstream
<1>7. V \union {n} \in SUBSET graph.nodes
  BY <1>3
<1>8. Straight(graph, sources, V \union {n})
  BY <1>1, <1>3, <1>5, <1>7
<1>9. ASSUME NEW x \in Ordinary(graph), <<x, n>> \in graph.links
      PROVE  x \notin V \union {n} /\ <<y, x>> \notin Through(graph)
  <2>1. x \in Sources(graph, n) /\ x \in graph.nodes /\ x \notin graph.materials
    BY <1>9, CanvasType DEF Ordinary
  <2>2. Circle \notin sources[V \union {n}][x]
    BY <1>6, <2>1
  <2>3. Steps(graph, local, sources, V \union {n}, x)
    BY <1>7, <2>1, WalkStep
  <2>4. x \notin V \union {n}
    BY <2>1, <2>2, <2>3 DEF Steps
  <2>. QED
    BY <1>2, <1>8, <1>9, <2>2, <2>4 DEF Straight
<1>10. CASE <<y, n>> \in graph.links
  <2>1. y \in Ordinary(graph)
    BY <1>2, ThroughEnds
  <2>. QED
    BY <1>2, <1>9, <1>10, <2>1
<1>11. CASE \E s \in Ordinary(graph) : <<s, n>> \in graph.links /\ <<y, s>> \in Through(graph)
  BY <1>9, <1>11
<1>. QED
  BY <1>2, <1>10, <1>11, ThroughEnds

\* Reads: what a target reads, or that it hangs on a circle.
LEMMA ReadsAre ==
  ASSUME NEW graph \in Canvases, NEW local \in SUBSET graph.materials
  PROVE  LET reads == Reads(graph, local)
         IN /\ reads \in [local -> SUBSET (local \union {Circle})]
            /\ \A t \in local :
                 /\ Circle \in reads[t] <=> Hangs(graph, t)
                 /\ Circle \notin reads[t] => reads[t] = {s \in local : Reading(graph, s, t)}
<1>1. PICK sources :
        /\ Walk(graph, local, sources)
        /\ Reads(graph, local) = [t \in local |-> Upstream(graph, sources[{}], t)]
  BY SourcesExist
<1>. DEFINE S == sources[{}]
            reads == Reads(graph, local)
<1>2. {} \in SUBSET graph.nodes /\ S \in [graph.nodes -> SUBSET (local \union {Circle})]
  BY <1>1 DEF Walk
<1>3. \A n : Sources(graph, n) = {x \in graph.nodes : <<x, n>> \in graph.links}
  BY CanvasType
<1>4. \A t \in local : reads[t] = Upstream(graph, S, t)
  BY <1>1
<1>5. reads \in [local -> SUBSET (local \union {Circle})]
  <2>1. \A t \in local : Upstream(graph, S, t) \in SUBSET (local \union {Circle})
    BY <1>2, <1>3 DEF Upstream
  <2>. QED
    BY <1>1, <2>1
<1>. HIDE DEF reads
<1>6. \A n \in graph.nodes : Steps(graph, local, sources, {}, n)
  BY <1>1, <1>2, WalkStep
<1>7. ASSUME NEW t \in local, Circle \in reads[t]
      PROVE  Hangs(graph, t)
  <2>1. PICK x \in Sources(graph, t) : Circle \in S[x]
    BY <1>4, <1>7 DEF Upstream
  <2>2. x \in graph.nodes /\ <<x, t>> \in graph.links
    BY <1>3, <2>1
  <2>3. x \in Ordinary(graph)
    BY <1>6, <2>1, <2>2 DEF Steps, Ordinary
  <2>4. <<x, t>> \in Through(graph)
    BY <2>2, <2>3, ThroughLink
  <2>5. Met(graph, sources, {})
    BY <1>1, <1>2, CirclesSound
  <2>6. <<x, x>> \in Through(graph) \/ Hangs(graph, x)
    BY <2>1, <2>3, <2>5 DEF Met
  <2>7. CASE <<x, x>> \in Through(graph)
    BY <2>2, <2>4, <2>7 DEF Hangs
  <2>8. CASE Hangs(graph, x)
    <3>1. PICK y \in graph.nodes : <<y, y>> \in Through(graph) /\ <<y, x>> \in Through(graph)
      BY <2>8 DEF Hangs
    <3>2. <<y, t>> \in Through(graph)
      BY <2>4, <3>1, ThroughLeast, TransitivePairs
    <3>. QED
      BY <3>1, <3>2 DEF Hangs
  <2>. QED
    BY <2>6, <2>7, <2>8
<1>8. ASSUME NEW t \in local, Circle \notin reads[t]
      PROVE  \A x : <<x, t>> \in Through(graph) =>
                /\ Circle \notin S[x] /\ S[x] \subseteq reads[t]
                /\ S[x] = Upstream(graph, S, x)
  <2>. DEFINE P == {p \in Ordinary(graph) \X graph.nodes :
                      Circle \notin Upstream(graph, S, p[2]) =>
                        Circle \notin S[p[1]] /\ S[p[1]] \subseteq Upstream(graph, S, p[2])}
  <2>1. ASSUME NEW x \in Ordinary(graph), NEW y \in graph.nodes, <<x, y>> \in graph.links
        PROVE  <<x, y>> \in P
    <3>1. x \in Sources(graph, y)
      BY <1>3, <2>1 DEF Ordinary
    <3>. QED
      BY <3>1 DEF Upstream
  <2>2. Plain(graph) \subseteq P
    <3>1. \A l \in Plain(graph) : \E x \in Ordinary(graph), y \in graph.nodes :
            l = <<x, y>> /\ l \in graph.links
      BY CanvasType DEF Plain, Ordinary
    <3>. HIDE DEF P
    <3>. QED
      BY <2>1, <3>1
  <2>3. ASSUME NEW x \in Ordinary(graph), Circle \notin S[x]
        PROVE  S[x] = Upstream(graph, S, x)
    <3>1. x \in graph.nodes \ graph.materials
      BY DEF Ordinary
    <3>2. Passes(graph, sources)
      BY <1>1, WalkOn
    <3>. QED
      BY <2>3, <3>1, <3>2 DEF Passes
  <2>4. ASSUME NEW p \in P, NEW q \in P, p[2] = q[1]
        PROVE  <<p[1], q[2]>> \in P
    BY <2>3, <2>4
  <2>5. Through(graph) \subseteq P
    <3>. HIDE DEF P
    <3>1. Transitive(P)
      BY <2>4 DEF Transitive
    <3>. QED
      BY <2>2, <3>1, ThroughLeast
  <2>. QED
    BY <1>4, <1>8, <2>3, <2>5
<1>9. ASSUME NEW t \in local, Circle \notin reads[t], Hangs(graph, t)
      PROVE  FALSE
  <2>1. PICK x \in graph.nodes : <<x, x>> \in Through(graph) /\ <<x, t>> \in Through(graph)
    BY <1>9 DEF Hangs
  <2>2. Circle \notin S[x] /\ x \in Ordinary(graph)
    BY <1>8, <1>9, <2>1, ThroughEnds
  <2>3. Straight(graph, sources, {})
    BY <1>1, <1>2, CirclesMet
  <2>. QED
    BY <2>1, <2>2, <2>3 DEF Straight
<1>10. ASSUME NEW t \in local, Circle \notin reads[t]
       PROVE  reads[t] = {s \in local : Reading(graph, s, t)}
  <2>1. ASSUME NEW s \in reads[t]
        PROVE  s \in local /\ Reading(graph, s, t)
    <3>1. PICK x \in Sources(graph, t) : s \in S[x]
      BY <1>4, <1>10, <2>1 DEF Upstream
    <3>2. x \in graph.nodes /\ <<x, t>> \in graph.links /\ s # Circle
      BY <1>3, <1>10, <2>1, <3>1
    <3>3. Found(graph, local, sources, {})
      BY <1>1, <1>2, WalkSound
    <3>4. s \in local /\ IF x \in graph.materials THEN s = x ELSE Reading(graph, s, x)
      BY <3>1, <3>2, <3>3 DEF Found
    <3>5. CASE x \in graph.materials
      BY <3>2, <3>4, <3>5 DEF Reading
    <3>6. CASE x \notin graph.materials
      BY <3>2, <3>4, <3>6, ReadingOn DEF Ordinary
    <3>. QED
      BY <3>5, <3>6
  <2>2. ASSUME NEW s \in local, Reading(graph, s, t)
        PROVE  s \in reads[t]
    <3>1. s \in graph.materials /\ s \in graph.nodes /\ S[s] = {s}
      <4>1. s \in graph.materials /\ s \in graph.nodes
        BY CanvasType
      <4>2. Steps(graph, local, sources, {}, s)
        BY <1>6, <4>1
      <4>. QED
        BY <4>1, <4>2 DEF Steps
    <3>2. CASE <<s, t>> \in graph.links
      BY <1>3, <1>4, <3>1, <3>2 DEF Upstream
    <3>3. CASE \E x \in graph.nodes : <<s, x>> \in graph.links /\ <<x, t>> \in Through(graph)
      <4>1. PICK x \in graph.nodes : <<s, x>> \in graph.links /\ <<x, t>> \in Through(graph)
        BY <3>3
      <4>2. s \in Sources(graph, x)
        BY <1>3, <3>1, <4>1
      <4>3. S[x] = Upstream(graph, S, x) /\ S[x] \subseteq reads[t]
        BY <1>8, <1>10, <4>1
      <4>. QED
        BY <3>1, <4>2, <4>3 DEF Upstream
    <3>. QED
      BY <2>2, <3>2, <3>3 DEF Reading
  <2>. QED
    BY <2>1, <2>2
<1>. QED
  BY <1>5, <1>7, <1>9, <1>10 DEF reads

-----------------------------------------------------------------------------
(* The traversal of the targets.                                            *)

\* Where a traversal can be, and where it goes on.
Places(targets) ==
  [visiting: SUBSET ToSet(targets), wanted: SUBSET ToSet(targets),
   next: 1..Len(targets) + 1, completed: Seq(ToSet(targets))]
After(at) == [at EXCEPT !.next = @ + 1]
Into(reads, at, key) ==
  [at EXCEPT !.visiting = @ \union {key}, !.wanted = reads[key], !.next = 1]
Behind(at, upstream, key) == [After(at) EXCEPT !.completed = Append(upstream, key)]

Step(targets, reads, visit, at) ==
  IF at.next > Len(targets) THEN at.completed
  ELSE LET key == targets[at.next]
           upstream == visit[Into(reads, at, key)]
       IN IF key \notin at.wanted \/ key \in ToSet(at.completed) THEN visit[After(at)]
          ELSE IF key \in at.visiting \/ upstream = Refused THEN Refused
          ELSE visit[Behind(at, upstream, key)]

\* The function that Ordered defines.
Traversal(targets, reads, visit) ==
  \A at \in Places(targets) :
    /\ visit[at] = Step(targets, reads, visit, at)
    /\ visit[at] \in Seq(ToSet(targets)) \union {Refused}

\* Targets are nodes, and read targets.
Plans(targets, reads) ==
  /\ targets \in Seq(ToSet(targets)) /\ Circle \notin ToSet(targets)
  /\ reads \in [ToSet(targets) -> SUBSET ToSet(targets)]

\* A traversal goes down a position, or visits a target more.
Weight(targets, at) ==
  Cardinality(ToSet(targets) \ at.visiting) * (Len(targets) + 2) + (Len(targets) + 1 - at.next)
Heaviest(targets) == Cardinality(ToSet(targets)) * (Len(targets) + 2) + (Len(targets) + 1)
Lighter(targets, e, at) == e \in Places(targets) /\ Weight(targets, e) < Weight(targets, at)

LEMMA FiniteTargets ==
  ASSUME NEW targets, targets \in Seq(ToSet(targets))
  PROVE  IsFiniteSet(ToSet(targets)) /\ Cardinality(ToSet(targets)) \in Nat /\ Len(targets) \in Nat
<1>1. Len(targets) \in Nat /\ DOMAIN targets = 1..Len(targets)
  OBVIOUS
<1>2. targets \in Surjection(1..Len(targets), ToSet(targets))
  BY <1>1 DEF Surjection, ToSet
<1>3. IsFiniteSet(1..Len(targets))
  BY <1>1, FS_Interval
<1>. QED
  BY <1>1, <1>2, <1>3, FS_Surjection, FS_CardinalityType

LEMMA Products ==
  ASSUME NEW m \in Nat, NEW n \in Nat, NEW k \in Nat
  PROVE  /\ m * k \in Nat
         /\ m <= n => m * k <= n * k
         /\ m + 1 = n => m * k + k = n * k
<1>1. m * k \in Nat /\ n * k \in Nat
  OBVIOUS
<1>2. ASSUME m <= n
      PROVE  m * k <= n * k
  <2>1. PICK d \in Nat : n = m + d
    <3>1. n - m \in Nat /\ n = m + (n - m)
      BY <1>2
    <3>. QED
      BY <3>1
  <2>2. n * k = m * k + d * k /\ d * k \in Nat
    BY <2>1
  <2>. QED
    BY <1>1, <2>2
<1>3. m + 1 = n => m * k + k = n * k
  OBVIOUS
<1>. QED
  BY <1>1, <1>2, <1>3

LEMMA WeightType ==
  ASSUME NEW targets, targets \in Seq(ToSet(targets)), NEW at \in Places(targets)
  PROVE  Heaviest(targets) \in Nat /\ Weight(targets, at) \in 0..Heaviest(targets)
<1>. DEFINE all == ToSet(targets)
            left == Cardinality(all \ at.visiting)
            k == Len(targets) + 2
<1>1. IsFiniteSet(all) /\ Cardinality(all) \in Nat /\ k \in Nat /\ Len(targets) \in Nat
  BY FiniteTargets
<1>2. at.visiting \in SUBSET all /\ at.next \in 1..Len(targets) + 1
  BY DEF Places
<1>3. left \in Nat /\ left <= Cardinality(all)
  BY <1>1, <1>2, FewerLeft
<1>. HIDE DEF all, left, k
<1>4. left * k \in Nat /\ Cardinality(all) * k \in Nat /\ left * k <= Cardinality(all) * k
  BY <1>1, <1>3, Products
<1>5. /\ Weight(targets, at) = left * k + (Len(targets) + 1 - at.next)
      /\ Heaviest(targets) = Cardinality(all) * k + (Len(targets) + 1)
  BY DEF Weight, Heaviest, all, left, k
<1>6. Len(targets) + 1 - at.next \in Nat /\ Len(targets) + 1 - at.next <= Len(targets) + 1
  BY <1>1, <1>2
<1>. DEFINE x == left * k
            y == Cardinality(all) * k
            i == Len(targets) + 1 - at.next
            j == Len(targets) + 1
<1>7. /\ x \in Nat /\ y \in Nat /\ i \in Nat /\ j \in Nat /\ x <= y /\ i <= j
      /\ Weight(targets, at) = x + i /\ Heaviest(targets) = y + j
  BY <1>1, <1>4, <1>5, <1>6
<1>. HIDE DEF x, y, i, j
<1>. QED
  BY <1>7

\* The steps of a traversal are lighter.
LEMMA AfterLighter ==
  ASSUME NEW targets, targets \in Seq(ToSet(targets)), NEW at \in Places(targets),
         at.next <= Len(targets)
  PROVE  /\ Lighter(targets, After(at), at) /\ After(at).completed = at.completed
         /\ After(at).next = at.next + 1 /\ After(at).wanted = at.wanted
         /\ After(at).visiting = at.visiting
         /\ \A c \in Seq(ToSet(targets)), key \in ToSet(targets) :
              /\ Lighter(targets, Behind(at, c, key), at)
              /\ Behind(at, c, key).completed = Append(c, key)
              /\ Behind(at, c, key).next = at.next + 1 /\ Behind(at, c, key).wanted = at.wanted
              /\ Behind(at, c, key).visiting = at.visiting
<1>. DEFINE left == Cardinality(ToSet(targets) \ at.visiting) * (Len(targets) + 2)
<1>1. at.next \in Nat /\ at.next + 1 \in 1..Len(targets) + 1 /\ Len(targets) \in Nat
  BY DEF Places
<1>2. left \in Nat
  <2>1. at.visiting \in SUBSET ToSet(targets)
    BY DEF Places
  <2>2. Cardinality(ToSet(targets) \ at.visiting) \in Nat
    BY <2>1, FiniteTargets, FewerLeft
  <2>. QED
    BY <1>1, <2>2, Products
<1>. HIDE DEF left
<1>3. Weight(targets, at) = left + (Len(targets) + 1 - at.next)
  BY DEF Weight, left
<1>4. ASSUME NEW e \in Places(targets), e.visiting = at.visiting, e.next = at.next + 1
      PROVE  Lighter(targets, e, at)
  <2>1. Weight(targets, e) = left + (Len(targets) + 1 - (at.next + 1))
    BY <1>4 DEF Weight, left
  <2>. QED
    BY <1>1, <1>2, <1>3, <1>4, <2>1 DEF Lighter
<1>5. /\ After(at) \in Places(targets) /\ After(at).completed = at.completed
      /\ After(at).next = at.next + 1 /\ After(at).wanted = at.wanted
      /\ After(at).visiting = at.visiting
  BY <1>1 DEF After, Places
<1>6. ASSUME NEW c \in Seq(ToSet(targets)), NEW key \in ToSet(targets)
      PROVE  /\ Behind(at, c, key) \in Places(targets)
             /\ Behind(at, c, key).completed = Append(c, key)
             /\ Behind(at, c, key).next = at.next + 1 /\ Behind(at, c, key).wanted = at.wanted
             /\ Behind(at, c, key).visiting = at.visiting
  <2>1. Append(c, key) \in Seq(ToSet(targets))
    BY <1>6
  <2>. QED
    BY <1>1, <2>1 DEF Behind, After, Places
<1>. QED
  BY <1>4, <1>5, <1>6

LEMMA IntoLighter ==
  ASSUME NEW targets, NEW reads, Plans(targets, reads), NEW at \in Places(targets),
         NEW key \in ToSet(targets), key \notin at.visiting
  PROVE  /\ Lighter(targets, Into(reads, at, key), at)
         /\ Into(reads, at, key).completed = at.completed
         /\ Into(reads, at, key).next = 1 /\ Into(reads, at, key).wanted = reads[key]
         /\ Into(reads, at, key).visiting = at.visiting \union {key}
<1>. DEFINE all == ToSet(targets)
            e == Into(reads, at, key)
            k == Len(targets) + 2
            left == Cardinality(all \ at.visiting)
            less == Cardinality(all \ (at.visiting \union {key}))
<1>1. Len(targets) \in Nat /\ IsFiniteSet(all) /\ k \in Nat
  BY FiniteTargets DEF Plans
<1>2. at.visiting \in SUBSET all /\ at.next \in 1..Len(targets) + 1
  BY DEF Places
<1>3. /\ e \in Places(targets) /\ e.completed = at.completed /\ e.next = 1
      /\ e.wanted = reads[key] /\ e.visiting = at.visiting \union {key}
  <2>1. reads[key] \in SUBSET all /\ at.visiting \union {key} \in SUBSET all
    BY <1>2 DEF Plans
  <2>2. 1 \in 1..Len(targets) + 1
    BY <1>1
  <2>. QED
    BY <2>1, <2>2 DEF Into, Places
<1>4. left \in Nat /\ less \in Nat /\ less + 1 = left
  <2>1. key \in all \ at.visiting /\ at.visiting \union {key} \in SUBSET all
    BY <1>2
  <2>2. left \in Nat /\ less \in Nat
    BY <1>1, <1>2, <2>1, FewerLeft
  <2>3. less = left - 1
    BY <1>1, <1>2, <2>1, FewerLeft
  <2>. QED
    BY <2>2, <2>3
<1>5. /\ Weight(targets, e) = less * k + (Len(targets) + 1 - 1)
      /\ Weight(targets, at) = left * k + (Len(targets) + 1 - at.next)
  <2>. HIDE DEF e
  <2>. QED
    BY <1>3 DEF Weight
<1>6. less * k + k = left * k /\ less * k \in Nat
  <2>. HIDE DEF less, left, k
  <2>. QED
    BY <1>1, <1>4, Products
<1>7. Weight(targets, e) < Weight(targets, at)
  <2>1. k = Len(targets) + 2
    OBVIOUS
  <2>. HIDE DEF less, left, e, k
  <2>. QED
    BY <1>1, <1>2, <1>5, <1>6, <2>1
<1>. QED
  BY <1>3, <1>7 DEF Lighter

\* What holds at a place if it holds at all lighter ones holds everywhere.
LEMMA TraversalInduction ==
  ASSUME NEW targets, targets \in Seq(ToSet(targets)), NEW Good,
         \A at \in Places(targets) :
           (\A e : Lighter(targets, e, at) => e \in Good) => at \in Good
  PROVE  Places(targets) \subseteq Good
<1>. DEFINE S == {n \in Nat : \E at \in Places(targets) : at \notin Good /\ n = Weight(targets, at)}
<1>. SUFFICES ASSUME NEW bad \in Places(targets), bad \notin Good PROVE FALSE
  OBVIOUS
<1>1. \A at \in Places(targets) : Weight(targets, at) \in Nat
  <2>. TAKE at \in Places(targets)
  <2>1. Heaviest(targets) \in Nat /\ Weight(targets, at) \in 0..Heaviest(targets)
    BY WeightType
  <2>. QED
    BY <2>1
<1>2. S # {}
  BY <1>1
<1>3. PICK s \in S : \A r \in S : ~(r < s)
  BY <1>2, Smallest
<1>4. PICK at \in Places(targets) : at \notin Good /\ s = Weight(targets, at)
  BY <1>3
<1>5. ASSUME NEW e, Lighter(targets, e, at)
      PROVE  e \in Good
  BY <1>1, <1>3, <1>4, <1>5 DEF Lighter
<1>. QED
  BY <1>4, <1>5

\* What a step at a place returns, by cases.
Moves(targets, at, key, after, upstream, behind, r) ==
  \/ at.next = Len(targets) + 1 /\ r = at.completed
  \/ /\ at.next \in DOMAIN targets /\ key \in ToSet(targets)
     /\ \/ (key \notin at.wanted \/ key \in ToSet(at.completed)) /\ r = after
        \/ /\ key \in at.wanted /\ key \notin ToSet(at.completed)
           /\ \/ key \in at.visiting /\ r = Refused
              \/ key \notin at.visiting /\ upstream = Refused /\ r = Refused
              \/ key \notin at.visiting /\ upstream \in Seq(ToSet(targets)) /\ r = behind

LEMMA StepCases ==
  ASSUME NEW targets, NEW reads, Plans(targets, reads), NEW at \in Places(targets), NEW f,
         \A e : Lighter(targets, e, at) => f[e] \in Seq(ToSet(targets)) \union {Refused}
  PROVE  LET r == Step(targets, reads, f, at)
             key == targets[at.next]
             upstream == f[Into(reads, at, key)]
             behind == f[Behind(at, upstream, key)]
         IN /\ Moves(targets, at, key, f[After(at)], upstream, behind, r)
            /\ r \in Seq(ToSet(targets)) \union {Refused}
            /\ Refused \notin Seq(ToSet(targets))
<1>. DEFINE r == Step(targets, reads, f, at)
            key == targets[at.next]
            upstream == f[Into(reads, at, key)]
            behind == f[Behind(at, upstream, key)]
            R == Seq(ToSet(targets)) \union {Refused}
<1>1. /\ targets \in Seq(ToSet(targets)) /\ Len(targets) \in Nat
      /\ DOMAIN targets = 1..Len(targets) /\ at.next \in 1..Len(targets) + 1
      /\ at.completed \in Seq(ToSet(targets))
  BY DEF Plans, Places
<1>2. Refused \notin Seq(ToSet(targets))
  <2>1. Refused[1] = Circle /\ 1 \in DOMAIN Refused
    BY DEF Refused
  <2>2. \A c \in Seq(ToSet(targets)) : \A i \in DOMAIN c : c[i] \in ToSet(targets)
    OBVIOUS
  <2>. QED
    BY <2>1, <2>2 DEF Plans
<1>3. CASE at.next > Len(targets)
  <2>1. at.next = Len(targets) + 1
    BY <1>1, <1>3
  <2>2. r = at.completed
    BY <1>3 DEF Step
  <2>. QED
    BY <1>1, <1>2, <2>1, <2>2 DEF Moves
<1>4. CASE ~(at.next > Len(targets))
  <2>1. at.next \in DOMAIN targets /\ at.next <= Len(targets) /\ key \in ToSet(targets)
    BY <1>1, <1>4 DEF ToSet
  <2>2. r = IF key \notin at.wanted \/ key \in ToSet(at.completed) THEN f[After(at)]
            ELSE IF key \in at.visiting \/ upstream = Refused THEN Refused
            ELSE behind
    BY <1>4 DEF Step
  <2>3. f[After(at)] \in R
    BY <1>1, <2>1, AfterLighter
  <2>4. key \notin at.visiting => upstream \in R
    BY <2>1, IntoLighter
  <2>5. upstream \in Seq(ToSet(targets)) => behind \in R
    BY <1>1, <2>1, AfterLighter
  <2>. HIDE DEF r, key, upstream, behind
  <2>6. /\ Moves(targets, at, key, f[After(at)], upstream, behind, r)
        /\ r \in R /\ Refused \notin Seq(ToSet(targets))
    BY <1>2, <2>1, <2>2, <2>3, <2>4, <2>5 DEF Moves
  <2>. QED
    BY <2>6 DEF r, key, upstream, behind
<1>. QED
  BY <1>3, <1>4

LEMMA TraversalExists ==
  ASSUME NEW targets, NEW reads, Plans(targets, reads)
  PROVE  \E visit :
           /\ Traversal(targets, reads, visit)
           /\ Ordered(targets, reads) =
                visit[[visiting |-> {}, wanted |-> ToSet(targets), next |-> 1, completed |-> <<>>]]
<1>. DEFINE D == Places(targets)
            R == Seq(ToSet(targets)) \union {Refused}
            body == [f \in [D -> R] |-> [at \in D |-> Step(targets, reads, f, at)]]
            Def(f) == f = [at \in D |-> Step(targets, reads, f, at)]
            weight == [at \in D |-> Weight(targets, at)]
            visit == CHOOSE f : Def(f)
            start == [visiting |-> {}, wanted |-> ToSet(targets), next |-> 1, completed |-> <<>>]
<1>1. targets \in Seq(ToSet(targets))
  BY DEF Plans
<1>2. \A f \in [D -> R], at \in D : Step(targets, reads, f, at) \in R
  <2>. TAKE f \in [D -> R], at \in D
  <2>1. \A e : Lighter(targets, e, at) => f[e] \in R
    BY DEF Lighter
  <2>. QED
    BY <2>1, StepCases
<1>3. \A at \in D : Heaviest(targets) \in Nat /\ Weight(targets, at) \in 0..Heaviest(targets)
  BY <1>1, WeightType
<1>4. Founded(D, R, body, weight, Heaviest(targets))
  <2>1. [at \in D |-> <<>>] \in [D -> R]
    OBVIOUS
  <2>2. body \in [[D -> R] -> [D -> R]]
    <3>. HIDE DEF D, R
    <3>. QED
      BY <1>2
  <2>3. weight \in [D -> 0..Heaviest(targets)]
    BY <1>3
  <2>4. Heaviest(targets) \in Nat
    <3>1. IsFiniteSet(ToSet(targets)) /\ Cardinality(ToSet(targets)) \in Nat /\ Len(targets) \in Nat
      BY <1>1, FiniteTargets
    <3>2. Cardinality(ToSet(targets)) * (Len(targets) + 2) \in Nat
      BY <3>1, Products
    <3>. QED
      BY <3>1, <3>2 DEF Heaviest
  <2>5. ASSUME NEW f \in [D -> R], NEW g \in [D -> R], NEW at \in D,
               \A e \in D : weight[e] < weight[at] => f[e] = g[e]
        PROVE  body[f][at] = body[g][at]
    <3>1. \A e : Lighter(targets, e, at) => f[e] = g[e] /\ f[e] \in R
      BY <2>5 DEF Lighter
    <3>. DEFINE key == targets[at.next]
    <3>2. CASE at.next > Len(targets)
      BY <3>2 DEF Step
    <3>3. CASE ~(at.next > Len(targets))
      <4>1. at.next <= Len(targets) /\ key \in ToSet(targets)
        <5>1. /\ Len(targets) \in Nat /\ DOMAIN targets = 1..Len(targets)
              /\ at.next \in 1..Len(targets) + 1
          BY <1>1 DEF Places
        <5>. QED
          BY <3>3, <5>1 DEF ToSet
      <4>2. f[After(at)] = g[After(at)]
        BY <1>1, <3>1, <4>1, AfterLighter
      <4>3. \A c \in Seq(ToSet(targets)) : f[Behind(at, c, key)] = g[Behind(at, c, key)]
        BY <1>1, <3>1, <4>1, AfterLighter
      <4>4. key \notin at.visiting =>
              /\ f[Into(reads, at, key)] = g[Into(reads, at, key)]
              /\ f[Into(reads, at, key)] \in R
        BY <3>1, <4>1, IntoLighter
      <4>5. Step(targets, reads, f, at) = Step(targets, reads, g, at)
        <5>. HIDE DEF key
        <5>1. \A h : Step(targets, reads, h, at) =
                IF key \notin at.wanted \/ key \in ToSet(at.completed) THEN h[After(at)]
                ELSE IF key \in at.visiting \/ h[Into(reads, at, key)] = Refused THEN Refused
                ELSE h[Behind(at, h[Into(reads, at, key)], key)]
          BY <3>3 DEF Step, key
        <5>. QED
          BY <4>2, <4>3, <4>4, <5>1
      <4>. QED
        BY <4>5
    <3>. QED
      BY <3>2, <3>3
  <2>6. \A f, g \in [D -> R], d \in D :
          (\A e \in D : weight[e] < weight[d] => f[e] = g[e]) => body[f][d] = body[g][d]
    BY <2>5
  <2>. HIDE DEF body, weight, D, R
  <2>. QED
    BY <2>1, <2>2, <2>3, <2>4, <2>6 DEF Founded
<1>5. PICK f \in [D -> R] : Def(f)
  <2>. HIDE DEF weight, D, R
  <2>1. PICK f \in [D -> R] : f = body[f]
    <3>. HIDE DEF body
    <3>. QED
      BY <1>4, RecursiveFunction
  <2>. QED
    BY <2>1
<1>6. Def(visit)
  BY <1>5
<1>7. Ordered(targets, reads) = visit[start]
  BY DEF Ordered, Step, Places, Into, After, Behind
<1>. HIDE DEF visit
<1>8. \A at \in D : visit[at] = Step(targets, reads, visit, at)
  <2>. HIDE DEF D
  <2>. QED
    BY <1>6
<1>9. \A at \in D : visit[at] \in R
  <2>. DEFINE Good == {at \in D : visit[at] \in R}
  <2>1. ASSUME NEW at \in D, \A e : Lighter(targets, e, at) => e \in Good
        PROVE  at \in Good
    <3>1. \A e : Lighter(targets, e, at) => visit[e] \in R
      BY <2>1
    <3>2. Step(targets, reads, visit, at) \in R
      BY <3>1, StepCases
    <3>. QED
      BY <1>8, <3>2
  <2>2. D \subseteq Good
    <3>. HIDE DEF Good
    <3>. QED
      BY <1>1, <2>1, TraversalInduction
  <2>. QED
    BY <2>2
<1>10. Traversal(targets, reads, visit)
  BY <1>8, <1>9 DEF Traversal
<1>. QED
  BY <1>7, <1>10

-----------------------------------------------------------------------------
(* What a traversal returns.                                                *)

\* Orders: nothing twice, everything after what it reads, one continues another.
Once(c) == \A p, q \in DOMAIN c : c[p] = c[q] => p = q
InOrder(reads, c) ==
  \A p \in DOMAIN c : \A s \in reads[c[p]] : \E q \in DOMAIN c : q < p /\ c[q] = s
Continues(c, r) == Len(c) <= Len(r) /\ \A p \in DOMAIN c : r[p] = c[p]

\* N: what needs what.
Needs(N, m, t) == m = t \/ <<m, t>> \in N
Follows(reads, N) == Transitive(N) /\ \A t \in DOMAIN reads : \A s \in reads[t] : <<s, t>> \in N

LEMMA AppendIs ==
  ASSUME NEW T, NEW c \in Seq(T), NEW key \in T
  PROVE  /\ Append(c, key) \in Seq(T) /\ Len(Append(c, key)) = Len(c) + 1
         /\ DOMAIN c = 1..Len(c) /\ Len(c) \in Nat
         /\ DOMAIN Append(c, key) = 1..Len(c) + 1
         /\ Append(c, key)[Len(c) + 1] = key
         /\ \A p \in DOMAIN c : Append(c, key)[p] = c[p]
OBVIOUS

LEMMA AppendOrder ==
  ASSUME NEW T, NEW c \in Seq(T), NEW key \in T, NEW reads
  PROVE  /\ ToSet(Append(c, key)) = ToSet(c) \union {key}
         /\ Continues(c, Append(c, key))
         /\ Once(c) /\ key \notin ToSet(c) => Once(Append(c, key))
         /\ InOrder(reads, c) /\ reads[key] \subseteq ToSet(c) => InOrder(reads, Append(c, key))
<1>. DEFINE a == Append(c, key)
            n == Len(c)
<1>1. /\ DOMAIN c = 1..n /\ DOMAIN a = 1..n + 1 /\ n \in Nat /\ Len(a) = n + 1
      /\ a[n + 1] = key /\ \A p \in 1..n : a[p] = c[p]
  BY AppendIs
<1>. HIDE DEF a, n
<1>2. ToSet(a) = ToSet(c) \union {key}
  <2>1. ASSUME NEW x \in ToSet(a)
        PROVE  x \in ToSet(c) \union {key}
    BY <1>1, <2>1 DEF ToSet
  <2>2. key \in ToSet(a)
    <3>1. n + 1 \in 1..n + 1
      BY <1>1
    <3>. QED
      BY <1>1, <3>1 DEF ToSet
  <2>3. ToSet(c) \subseteq ToSet(a)
    BY <1>1 DEF ToSet
  <2>. QED
    BY <2>1, <2>2, <2>3
<1>3. Continues(c, a)
  BY <1>1 DEF Continues, n
<1>4. ASSUME Once(c), key \notin ToSet(c)
      PROVE  Once(a)
  <2>1. \A p \in 1..n : c[p] \in ToSet(c)
    BY <1>1 DEF ToSet
  <2>. QED
    BY <1>1, <1>4, <2>1 DEF Once
<1>5. ASSUME InOrder(reads, c), reads[key] \subseteq ToSet(c)
      PROVE  InOrder(reads, a)
  <2>1. ASSUME NEW p \in 1..n, NEW s \in reads[a[p]]
        PROVE  \E q \in DOMAIN a : q < p /\ a[q] = s
    <3>1. PICK q \in 1..n : q < p /\ c[q] = s
      BY <1>1, <1>5, <2>1 DEF InOrder
    <3>. QED
      BY <1>1, <3>1
  <2>2. ASSUME NEW s \in reads[key]
        PROVE  \E q \in DOMAIN a : q < n + 1 /\ a[q] = s
    <3>1. PICK q \in 1..n : c[q] = s
      BY <1>1, <1>5, <2>2 DEF ToSet
    <3>2. q \in DOMAIN a /\ q < n + 1 /\ a[q] = s
      BY <1>1, <3>1
    <3>. QED
      BY <3>2
  <2>3. \A p \in DOMAIN a : p \in 1..n \/ p = n + 1
    BY <1>1
  <2>. QED
    BY <1>1, <2>1, <2>2, <2>3 DEF InOrder
<1>. QED
  BY <1>2, <1>3, <1>4, <1>5 DEF a

LEMMA ContinuesOn ==
  ASSUME NEW T, NEW a \in Seq(T), NEW b \in Seq(T), NEW c \in Seq(T),
         Continues(a, b)
  PROVE  ToSet(a) \subseteq ToSet(b) /\ (Continues(b, c) => Continues(a, c))
<1>1. /\ DOMAIN a = 1..Len(a) /\ DOMAIN b = 1..Len(b) /\ DOMAIN c = 1..Len(c)
      /\ Len(a) \in Nat /\ Len(b) \in Nat /\ Len(c) \in Nat
  OBVIOUS
<1>2. DOMAIN a \subseteq DOMAIN b
  BY <1>1 DEF Continues
<1>3. \A x \in ToSet(a) : x \in ToSet(b)
  BY <1>2 DEF Continues, ToSet
<1>. QED
  BY <1>1, <1>2, <1>3 DEF Continues

\* What a traversal adds to an order.
Adds(targets, reads, N, at, r) ==
  /\ InOrder(reads, r) /\ Once(r) /\ Continues(at.completed, r)
  /\ \A i \in at.next..Len(targets) : targets[i] \in at.wanted => targets[i] \in ToSet(r)
  /\ ToSet(r) \intersect at.visiting \subseteq ToSet(at.completed)
  /\ \A m \in ToSet(r) \ ToSet(at.completed) : \E w \in at.wanted : Needs(N, m, w)

LEMMA TraversalAdds ==
  ASSUME NEW targets, NEW reads, Plans(targets, reads), NEW N, Follows(reads, N),
         NEW visit, Traversal(targets, reads, visit)
  PROVE  \A at \in Places(targets) :
           visit[at] # Refused /\ InOrder(reads, at.completed) /\ Once(at.completed) =>
             Adds(targets, reads, N, at, visit[at])
<1>. DEFINE T == ToSet(targets)
            Fine(at) == visit[at] # Refused /\ InOrder(reads, at.completed) /\ Once(at.completed) =>
                          Adds(targets, reads, N, at, visit[at])
            Good == {at \in Places(targets) : Fine(at)}
<1>1. targets \in Seq(T)
  BY DEF Plans
<1>2. ASSUME NEW at \in Places(targets), \A e : Lighter(targets, e, at) => e \in Good,
             visit[at] # Refused, InOrder(reads, at.completed), Once(at.completed)
      PROVE  Adds(targets, reads, N, at, visit[at])
  <2>. DEFINE key == targets[at.next]
              upstream == visit[Into(reads, at, key)]
              behind == visit[Behind(at, upstream, key)]
              r == visit[at]
  <2>1. /\ \A e : Lighter(targets, e, at) => e \in Places(targets) /\ Fine(e)
        /\ \A e : Lighter(targets, e, at) => visit[e] \in Seq(T) \union {Refused}
    BY <1>2 DEF Traversal, Lighter
  <2>2. /\ Moves(targets, at, key, visit[After(at)], upstream, behind, r)
        /\ Refused \notin Seq(T) /\ r \in Seq(T)
    <3>1. r = Step(targets, reads, visit, at) /\ r \in Seq(T) \union {Refused}
      BY DEF Traversal
    <3>2. \A e : Lighter(targets, e, at) => visit[e] \in Seq(T) \union {Refused}
      BY <2>1
    <3>. HIDE DEF T, Fine
    <3>. QED
      BY <1>2, <3>1, <3>2, StepCases DEF T
  <2>3. /\ at.completed \in Seq(T) /\ Len(targets) \in Nat /\ DOMAIN targets = 1..Len(targets)
        /\ at.next \in 1..Len(targets) + 1 /\ at.wanted \in SUBSET T
    BY <1>1 DEF Places
  <2>. HIDE DEF r, behind, upstream, key, T, Fine
  <2>4. CASE at.next = Len(targets) + 1 /\ r = at.completed
    <3>1. Continues(at.completed, at.completed)
      BY DEF Continues
    <3>2. \A i \in at.next..Len(targets) : FALSE
      BY <2>3, <2>4
    <3>. QED
      BY <1>2, <2>4, <3>1, <3>2 DEF Adds, r
  <2>5. CASE /\ at.next \in DOMAIN targets /\ key \in T
             /\ key \notin at.wanted \/ key \in ToSet(at.completed)
             /\ r = visit[After(at)]
    <3>1. /\ Lighter(targets, After(at), at) /\ After(at).completed = at.completed
          /\ After(at).next = at.next + 1 /\ After(at).wanted = at.wanted
          /\ After(at).visiting = at.visiting
      BY <1>1, <2>3, <2>5, AfterLighter DEF T
    <3>2. Adds(targets, reads, N, After(at), r)
      BY <1>2, <2>1, <2>5, <3>1 DEF Fine, r
    <3>3. ToSet(at.completed) \subseteq ToSet(r)
      BY <2>2, <2>3, <3>1, <3>2, ContinuesOn DEF Adds
    <3>4. ASSUME NEW i \in at.next..Len(targets), targets[i] \in at.wanted
          PROVE  targets[i] \in ToSet(r)
      <4>1. i = at.next \/ i \in at.next + 1..Len(targets)
        BY <2>3
      <4>. QED
        BY <2>5, <3>1, <3>2, <3>3, <3>4, <4>1 DEF Adds, key
    <3>. QED
      BY <3>1, <3>2, <3>4 DEF Adds, r
  <2>6. CASE /\ at.next \in DOMAIN targets /\ key \in T /\ key \in at.wanted
             /\ key \notin ToSet(at.completed) /\ key \notin at.visiting
             /\ upstream \in Seq(T) /\ r = behind
    <3>. DEFINE b == Append(upstream, key)
                e == Into(reads, at, key)
                d == Behind(at, upstream, key)
    <3>1. /\ Lighter(targets, e, at) /\ e.completed = at.completed /\ e.next = 1
          /\ e.wanted = reads[key] /\ e.visiting = at.visiting \union {key}
      BY <2>6, IntoLighter DEF T
    <3>2. /\ Lighter(targets, d, at) /\ d.completed = b /\ d.next = at.next + 1
          /\ d.wanted = at.wanted /\ d.visiting = at.visiting
      BY <1>1, <2>3, <2>6, AfterLighter DEF T
    <3>. HIDE DEF e, d
    <3>3. Adds(targets, reads, N, e, upstream)
      BY <1>2, <2>1, <2>2, <2>6, <3>1 DEF Fine, upstream, e
    <3>4. reads[key] \subseteq ToSet(upstream)
      <4>1. reads[key] \subseteq T
        BY <2>6 DEF Plans, T
      <4>2. \A s \in reads[key] : \E i \in 1..Len(targets) : targets[i] = s
        BY <2>3, <4>1 DEF T, ToSet
      <4>. QED
        BY <3>1, <3>3, <4>2 DEF Adds
    <3>5. key \notin ToSet(upstream)
      BY <2>6, <3>1, <3>3 DEF Adds
    <3>6. /\ b \in Seq(T) /\ InOrder(reads, b) /\ Once(b) /\ Continues(upstream, b)
          /\ ToSet(b) = ToSet(upstream) \union {key}
      BY <2>6, <3>3, <3>4, <3>5, AppendOrder, AppendIs DEF Adds
    <3>. HIDE DEF b
    <3>7. Adds(targets, reads, N, d, r)
      BY <1>2, <2>1, <2>6, <3>2, <3>6 DEF Fine, behind, d, r
    <3>8. /\ Continues(at.completed, r) /\ ToSet(b) \subseteq ToSet(r)
          /\ ToSet(at.completed) \subseteq ToSet(upstream)
      <4>1. Continues(at.completed, upstream) /\ Continues(b, r)
        BY <3>1, <3>2, <3>3, <3>7 DEF Adds
      <4>2. Continues(at.completed, b) /\ ToSet(at.completed) \subseteq ToSet(upstream)
        BY <2>3, <2>6, <3>6, <4>1, ContinuesOn
      <4>. QED
        BY <2>2, <2>3, <3>6, <4>1, <4>2, ContinuesOn
    <3>9. ASSUME NEW i \in at.next..Len(targets), targets[i] \in at.wanted
          PROVE  targets[i] \in ToSet(r)
      <4>1. i = at.next \/ i \in at.next + 1..Len(targets)
        BY <2>3
      <4>2. key \in ToSet(r)
        BY <3>6, <3>8
      <4>. QED
        BY <3>2, <3>7, <3>9, <4>1, <4>2 DEF Adds, key
    <3>10. ToSet(r) \intersect at.visiting \subseteq ToSet(at.completed)
      BY <2>6, <3>1, <3>2, <3>3, <3>6, <3>7 DEF Adds
    <3>11. ASSUME NEW m \in ToSet(r) \ ToSet(at.completed)
           PROVE  \E w \in at.wanted : Needs(N, m, w)
      <4>1. CASE m \notin ToSet(b)
        BY <3>2, <3>7, <3>11, <4>1 DEF Adds
      <4>2. CASE m = key
        BY <2>6, <4>2 DEF Needs
      <4>3. CASE m \in ToSet(upstream)
        <5>1. PICK w \in reads[key] : Needs(N, m, w)
          BY <3>1, <3>3, <3>11, <4>3 DEF Adds
        <5>2. <<w, key>> \in N
          BY <2>6, <5>1 DEF Follows, Plans, T
        <5>3. Transitive(N)
          BY DEF Follows
        <5>4. Needs(N, m, key)
          BY <5>1, <5>2, <5>3, TransitivePairs DEF Needs
        <5>. QED
          BY <2>6, <5>4
      <4>. QED
        BY <3>6, <4>1, <4>2, <4>3
    <3>. QED
      BY <3>7, <3>8, <3>9, <3>10, <3>11 DEF Adds, r
  <2>. QED
    BY <1>2, <2>2, <2>4, <2>5, <2>6 DEF Moves, T, r
<1>3. Places(targets) \subseteq Good
  <2>1. \A at \in Places(targets) :
          (\A e : Lighter(targets, e, at) => e \in Good) => at \in Good
    BY <1>2
  <2>. HIDE DEF Good, T
  <2>. QED
    BY <1>1, <2>1, TraversalInduction DEF T
<1>. QED
  BY <1>3

\* A traversal that comes back to what is being visited has gone round a circle.
Closes(T, N, at, r) ==
  r = Refused /\ (\A w \in at.wanted, v \in at.visiting : <<w, v>> \in N) =>
    \E m \in T : <<m, m>> \in N
LEMMA TraversalCloses ==
  ASSUME NEW targets, NEW reads, Plans(targets, reads), NEW N, Follows(reads, N),
         NEW visit, Traversal(targets, reads, visit)
  PROVE  \A at \in Places(targets) : Closes(ToSet(targets), N, at, visit[at])
<1>. DEFINE T == ToSet(targets)
            Good == {at \in Places(targets) : Closes(T, N, at, visit[at])}
<1>1. targets \in Seq(T)
  BY DEF Plans
<1>2. ASSUME NEW at \in Places(targets), \A e : Lighter(targets, e, at) => e \in Good,
             visit[at] = Refused, \A w \in at.wanted, v \in at.visiting : <<w, v>> \in N
      PROVE  \E m \in T : <<m, m>> \in N
  <2>. DEFINE key == targets[at.next]
              upstream == visit[Into(reads, at, key)]
              behind == visit[Behind(at, upstream, key)]
              r == visit[at]
  <2>1. \A e : Lighter(targets, e, at) =>
          Closes(T, N, e, visit[e]) /\ visit[e] \in Seq(T) \union {Refused}
    BY <1>2 DEF Traversal, Lighter
  <2>2. /\ Moves(targets, at, key, visit[After(at)], upstream, behind, r)
        /\ Refused \notin Seq(T)
    <3>1. r = Step(targets, reads, visit, at)
      BY DEF Traversal
    <3>. HIDE DEF T
    <3>. QED
      BY <1>2, <2>1, <3>1, StepCases DEF T
  <2>3. /\ at.completed \in Seq(T) /\ Len(targets) \in Nat /\ DOMAIN targets = 1..Len(targets)
    BY <1>1 DEF Places
  <2>. HIDE DEF r, behind, upstream, key, T
  <2>4. at.next \in DOMAIN targets => at.next <= Len(targets)
    BY <2>3
  <2>5. CASE at.next = Len(targets) + 1 /\ r = at.completed
    BY <1>2, <2>2, <2>3, <2>5 DEF r
  <2>6. CASE at.next \in DOMAIN targets /\ r = visit[After(at)]
    <3>1. /\ Lighter(targets, After(at), at)
          /\ After(at).wanted = at.wanted /\ After(at).visiting = at.visiting
      BY <1>1, <2>4, <2>6, AfterLighter DEF T
    <3>. QED
      BY <1>2, <2>1, <2>6, <3>1 DEF Closes, r
  <2>7. CASE key \in T /\ key \in at.wanted /\ key \in at.visiting
    BY <1>2, <2>7
  <2>8. CASE key \in T /\ key \in at.wanted /\ key \notin at.visiting /\ upstream = Refused
    <3>. DEFINE e == Into(reads, at, key)
    <3>1. /\ Lighter(targets, e, at)
          /\ e.wanted = reads[key] /\ e.visiting = at.visiting \union {key}
      BY <2>8, IntoLighter DEF T
    <3>2. ASSUME NEW w \in reads[key], NEW v \in at.visiting \union {key}
          PROVE  <<w, v>> \in N
      <4>1. <<w, key>> \in N /\ Transitive(N)
        BY <2>8, <3>2 DEF Follows, Plans, T
      <4>2. v # key => <<key, v>> \in N
        BY <1>2, <2>8
      <4>. QED
        BY <4>1, <4>2, TransitivePairs
    <3>. HIDE DEF e
    <3>3. \A w \in e.wanted, v \in e.visiting : <<w, v>> \in N
      BY <3>1, <3>2
    <3>4. Closes(T, N, e, upstream)
      BY <2>1, <3>1 DEF upstream, e
    <3>. QED
      BY <2>8, <3>3, <3>4 DEF Closes
  <2>9. CASE at.next \in DOMAIN targets /\ key \in T /\ upstream \in Seq(T) /\ r = behind
    <3>. DEFINE d == Behind(at, upstream, key)
    <3>1. Lighter(targets, d, at) /\ d.wanted = at.wanted /\ d.visiting = at.visiting
      BY <1>1, <2>4, <2>9, AfterLighter DEF T
    <3>. HIDE DEF d
    <3>2. Closes(T, N, d, r)
      BY <2>1, <2>9, <3>1 DEF behind, d
    <3>. QED
      BY <1>2, <3>1, <3>2 DEF Closes, r
  <2>. QED
    BY <2>2, <2>5, <2>6, <2>7, <2>8, <2>9 DEF Moves, T
<1>3. Places(targets) \subseteq Good
  <2>1. ASSUME NEW at \in Places(targets), \A e : Lighter(targets, e, at) => e \in Good
        PROVE  at \in Good
    <3>1. Closes(T, N, at, visit[at])
      BY <1>2, <2>1 DEF Closes
    <3>. QED
      BY <3>1
  <2>. HIDE DEF Good, T
  <2>. QED
    BY <1>1, <2>1, TraversalInduction DEF T
<1>. QED
  BY <1>3

LEMMA OrderedIs ==
  ASSUME NEW targets, NEW reads, Plans(targets, reads), NEW N, Follows(reads, N)
  PROVE  LET r == Ordered(targets, reads)
         IN /\ r = Refused => \E m \in ToSet(targets) : <<m, m>> \in N
            /\ r # Refused =>
                 /\ r \in Seq(ToSet(targets)) /\ ToSet(r) = ToSet(targets)
                 /\ InOrder(reads, r) /\ Once(r)
<1>. DEFINE T == ToSet(targets)
            start == [visiting |-> {}, wanted |-> T, next |-> 1, completed |-> <<>>]
            r == Ordered(targets, reads)
<1>1. PICK visit : Traversal(targets, reads, visit) /\ r = visit[start]
  BY TraversalExists
<1>2. targets \in Seq(T) /\ Len(targets) \in Nat /\ DOMAIN targets = 1..Len(targets)
  BY DEF Plans
<1>3. /\ start \in Places(targets) /\ start.next = 1 /\ start.wanted = T
      /\ start.visiting = {} /\ start.completed = <<>>
  <2>1. 1 \in 1..Len(targets) + 1 /\ <<>> \in Seq(T)
    BY <1>2
  <2>. QED
    BY <2>1 DEF Places
<1>. HIDE DEF start, r
<1>4. ASSUME r = Refused
      PROVE  \E m \in T : <<m, m>> \in N
  <2>1. Closes(T, N, start, r)
    BY <1>1, <1>3, TraversalCloses
  <2>. QED
    BY <1>3, <1>4, <2>1 DEF Closes
<1>5. ASSUME r # Refused
      PROVE  r \in Seq(T) /\ ToSet(r) = T /\ InOrder(reads, r) /\ Once(r)
  <2>1. r \in Seq(T)
    BY <1>1, <1>3, <1>5 DEF Traversal
  <2>2. InOrder(reads, start.completed) /\ Once(start.completed)
    BY <1>3 DEF InOrder, Once
  <2>3. Adds(targets, reads, N, start, r)
    BY <1>1, <1>3, <1>5, <2>2, TraversalAdds
  <2>4. ToSet(r) \subseteq T
    BY <2>1 DEF ToSet
  <2>5. \A m \in T : \E i \in 1..Len(targets) : targets[i] = m
    BY <1>2 DEF ToSet
  <2>. HIDE DEF T
  <2>6. T \subseteq ToSet(r)
    BY <1>3, <2>3, <2>5 DEF Adds
  <2>. QED
    BY <2>1, <2>3, <2>4, <2>6 DEF Adds
<1>. QED
  BY <1>4, <1>5 DEF r

-----------------------------------------------------------------------------
(* The order of materials on a canvas.                                      *)

\* What the order of a sequence of materials is, and when there is none.
Arranged(graph, targets, r) ==
  /\ r \in Seq(ToSet(targets)) /\ ToSet(r) = ToSet(targets) /\ Once(r)
  /\ \A t \in ToSet(targets) : ~Hangs(graph, t)
  /\ \A p \in DOMAIN r : \A s \in ToSet(targets) : Reading(graph, s, r[p]) =>
       \E q \in DOMAIN r : q < p /\ r[q] = s
Spans(graph, T, N) ==
  Transitive(N) /\ \A s, t \in T : Reading(graph, s, t) => <<s, t>> \in N

\* What materials need of each other is the least that does.
LeastSpan(graph, T, N) == Spans(graph, T, N) /\ \A P : Spans(graph, T, P) => N \subseteq P

LEMMA CircleIsNoMaterial ==
  ASSUME NEW graph \in Canvases, NEW targets \in Seq(graph.materials)
  PROVE  /\ targets \in Seq(ToSet(targets)) /\ ToSet(targets) \in SUBSET graph.materials
         /\ Circle \notin ToSet(targets) /\ Refused \notin Seq(graph.materials)
<1>1. ToSet(targets) \subseteq graph.materials /\ targets \in Seq(ToSet(targets))
  <2>1. Len(targets) \in Nat /\ targets = [i \in 1..Len(targets) |-> targets[i]]
    OBVIOUS
  <2>2. \A i \in 1..Len(targets) : targets[i] \in ToSet(targets) /\ targets[i] \in graph.materials
    BY DEF ToSet
  <2>. QED
    BY <2>1, <2>2 DEF ToSet
<1>2. Circle \notin graph.materials
  BY CanvasType
<1>3. Refused \notin Seq(graph.materials)
  <2>1. Refused[1] = Circle /\ 1 \in DOMAIN Refused
    BY DEF Refused
  <2>2. \A c \in Seq(graph.materials) : \A i \in DOMAIN c : c[i] \in graph.materials
    OBVIOUS
  <2>. QED
    BY <1>2, <2>1, <2>2
<1>. QED
  BY <1>1, <1>2, <1>3

LEMMA MaterialOrderIs ==
  ASSUME NEW graph \in Canvases, NEW targets \in Seq(graph.materials),
         NEW N, Spans(graph, ToSet(targets), N)
  PROVE  LET r == MaterialOrder(graph, targets)
         IN /\ r # Refused => Arranged(graph, targets, r)
            /\ r = Refused => \E m \in ToSet(targets) : Hangs(graph, m) \/ <<m, m>> \in N
<1>. DEFINE T == ToSet(targets)
            reads == Reads(graph, T)
            r == MaterialOrder(graph, targets)
<1>1. targets \in Seq(T) /\ T \in SUBSET graph.materials /\ Circle \notin T
  BY CircleIsNoMaterial
<1>2. /\ reads \in [T -> SUBSET (T \union {Circle})]
      /\ \A t \in T : /\ Circle \in reads[t] <=> Hangs(graph, t)
                      /\ Circle \notin reads[t] => reads[t] = {s \in T : Reading(graph, s, t)}
  <2>. HIDE DEF T
  <2>. QED
    BY <1>1, ReadsAre
<1>3. r = IF \E t \in T : Circle \in reads[t] THEN Refused ELSE Ordered(targets, reads)
  BY DEF MaterialOrder
<1>. HIDE DEF reads, r
<1>4. CASE \E t \in T : Circle \in reads[t]
  BY <1>2, <1>3, <1>4 DEF r
<1>5. CASE ~\E t \in T : Circle \in reads[t]
  <2>1. reads \in [T -> SUBSET T] /\ \A t \in T : reads[t] = {s \in T : Reading(graph, s, t)}
    BY <1>2, <1>5
  <2>2. Plans(targets, reads)
    BY <1>1, <2>1 DEF Plans
  <2>3. Follows(reads, N)
    BY <2>1 DEF Follows, Spans
  <2>4. r = Ordered(targets, reads)
    BY <1>3, <1>5
  <2>5. /\ r = Refused => \E m \in T : <<m, m>> \in N
        /\ r # Refused => r \in Seq(T) /\ ToSet(r) = T /\ InOrder(reads, r) /\ Once(r)
    BY <2>2, <2>3, <2>4, OrderedIs
  <2>6. ASSUME r # Refused
        PROVE  Arranged(graph, targets, r)
    <3>1. ASSUME NEW p \in DOMAIN r, NEW s \in T, Reading(graph, s, r[p])
          PROVE  \E q \in DOMAIN r : q < p /\ r[q] = s
      <4>1. r[p] \in T
        BY <2>5, <2>6, <3>1
      <4>2. s \in reads[r[p]]
        BY <2>1, <3>1, <4>1
      <4>. QED
        BY <2>5, <2>6, <4>2 DEF InOrder
    <3>. QED
      BY <1>2, <1>5, <2>5, <2>6, <3>1 DEF Arranged
  <2>. QED
    BY <2>5, <2>6 DEF r
<1>. QED
  BY <1>4, <1>5

\* What the loop over an order keeps: what there is to compute, in the same order.
Filtered(graph, ordered, k, r) ==
  /\ r \in Seq(ToSet(ordered))
  /\ \A m : m \in ToSet(r) <=> \E i \in 1..k : ordered[i] = m /\ Computed(graph, m)
  /\ \A p, q \in DOMAIN r : p < q =>
       \E i, j \in 1..k : i < j /\ ordered[i] = r[p] /\ ordered[j] = r[q]

Keeps(graph, ordered, f) ==
  [i \in 0..Len(ordered) |->
     IF i = 0 THEN <<>>
     ELSE IF Computed(graph, ordered[i]) THEN Append(f[i - 1], ordered[i])
     ELSE f[i - 1]]

LEMMA EmptyIs == ToSet(<<>>) = {} /\ DOMAIN <<>> = {} /\ \A T : <<>> \in Seq(T)
BY DEF ToSet

LEMMA FilterIs ==
  ASSUME NEW graph, NEW ordered, ordered \in Seq(ToSet(ordered)),
         NEW kept, kept = Keeps(graph, ordered, kept)
  PROVE  Filtered(graph, ordered, Len(ordered), kept[Len(ordered)])
<1>. DEFINE T == ToSet(ordered)
            n == Len(ordered)
            Fine(k) == Filtered(graph, ordered, k, kept[k])
            S == {k \in 0..n : ~Fine(k)}
<1>1. n \in Nat /\ DOMAIN ordered = 1..n /\ \A i \in 1..n : ordered[i] \in T
  BY DEF ToSet
<1>2. /\ kept[0] = <<>>
      /\ \A k \in 1..n : kept[k] = IF Computed(graph, ordered[k])
                                   THEN Append(kept[k - 1], ordered[k]) ELSE kept[k - 1]
  <2>1. 0 \in 0..n /\ \A k \in 1..n : k \in 0..n /\ k # 0
    BY <1>1
  <2>2. \A k \in 0..n : Keeps(graph, ordered, kept)[k] =
          IF k = 0 THEN <<>>
          ELSE IF Computed(graph, ordered[k]) THEN Append(kept[k - 1], ordered[k])
          ELSE kept[k - 1]
    BY DEF Keeps
  <2>3. \A k \in 0..n : Keeps(graph, ordered, kept)[k] = kept[k]
    OBVIOUS
  <2>. QED
    BY <2>1, <2>2, <2>3
<1>3. Fine(0)
  <2>1. kept[0] \in Seq(T) /\ ToSet(kept[0]) = {} /\ DOMAIN kept[0] = {}
    BY <1>2, EmptyIs
  <2>2. \A i \in 1..0 : FALSE
    OBVIOUS
  <2>3. Filtered(graph, ordered, 0, kept[0])
    BY <2>1, <2>2 DEF Filtered, T
  <2>. QED
    BY <2>3
<1>4. ASSUME NEW k \in 1..n, Fine(k - 1)
      PROVE  Fine(k)
  <2>. DEFINE r == kept[k - 1]
              t == ordered[k]
  <2>1. r \in Seq(T) /\ t \in T /\ k - 1 \in Nat /\ k \in Nat
    BY <1>1, <1>4 DEF Filtered
  <2>. HIDE DEF r, T
  <2>2. CASE Computed(graph, t)
    <3>. DEFINE a == Append(r, t)
    <3>1. kept[k] = a
      BY <1>2, <2>2 DEF r
    <3>2. a \in Seq(T) /\ ToSet(a) = ToSet(r) \union {t}
      BY <2>1, AppendIs, AppendOrder
    <3>3. /\ DOMAIN r = 1..Len(r) /\ Len(r) \in Nat /\ DOMAIN a = 1..Len(r) + 1
          /\ a[Len(r) + 1] = t /\ \A p \in DOMAIN r : a[p] = r[p]
      BY <2>1, AppendIs
    <3>. HIDE DEF a
    <3>4. \A m : m \in ToSet(a) <=> \E i \in 1..k : ordered[i] = m /\ Computed(graph, m)
      <4>1. \A i \in 1..k : i \in 1..k - 1 \/ i = k
        BY <2>1
      <4>2. k \in 1..k /\ \A i \in 1..k - 1 : i \in 1..k
        BY <2>1, <1>4
      <4>3. \A m : m \in ToSet(r) <=> \E i \in 1..k - 1 : ordered[i] = m /\ Computed(graph, m)
        BY <1>4 DEF Filtered, r
      <4>. QED
        BY <2>2, <3>2, <4>1, <4>2, <4>3
    <3>5. ASSUME NEW p \in DOMAIN a, NEW q \in DOMAIN a, p < q
          PROVE  \E i, j \in 1..k : i < j /\ ordered[i] = a[p] /\ ordered[j] = a[q]
      <4>1. p \in DOMAIN r
        BY <3>3, <3>5
      <4>2. CASE q \in DOMAIN r
        <5>1. PICK i \in 1..k - 1, j \in 1..k - 1 :
                i < j /\ ordered[i] = r[p] /\ ordered[j] = r[q]
          BY <1>4, <3>5, <4>1, <4>2 DEF Filtered, r
        <5>2. i \in 1..k /\ j \in 1..k
          BY <2>1
        <5>. QED
          BY <3>3, <4>1, <4>2, <5>1, <5>2
      <4>3. CASE q = Len(r) + 1
        <5>1. r[p] \in ToSet(r)
          BY <4>1 DEF ToSet
        <5>2. PICK i \in 1..k - 1 : ordered[i] = r[p]
          BY <1>4, <5>1 DEF Filtered, r
        <5>3. i \in 1..k /\ k \in 1..k /\ i < k
          BY <2>1, <1>4
        <5>. QED
          BY <3>3, <4>1, <4>3, <5>2, <5>3
      <4>. QED
        BY <3>3, <3>5, <4>2, <4>3
    <3>6. Filtered(graph, ordered, k, a)
      BY <3>2, <3>4, <3>5 DEF Filtered, T
    <3>. QED
      BY <3>1, <3>6
  <2>3. CASE ~Computed(graph, t)
    <3>1. kept[k] = r
      BY <1>2, <2>3 DEF r
    <3>2. \A i \in 1..k : i \in 1..k - 1 \/ i = k
      BY <2>1
    <3>3. \A i \in 1..k - 1 : i \in 1..k
      BY <2>1
    <3>4. \A m : (\E i \in 1..k : ordered[i] = m /\ Computed(graph, m)) <=>
                 \E i \in 1..k - 1 : ordered[i] = m /\ Computed(graph, m)
      BY <2>3, <3>2, <3>3
    <3>5. /\ r \in Seq(T)
          /\ \A m : m \in ToSet(r) <=> \E i \in 1..k - 1 : ordered[i] = m /\ Computed(graph, m)
          /\ \A p, q \in DOMAIN r : p < q =>
               \E i, j \in 1..k - 1 : i < j /\ ordered[i] = r[p] /\ ordered[j] = r[q]
      BY <1>4 DEF Filtered, r, T
    <3>6. \A p, q \in DOMAIN r : p < q =>
            \E i, j \in 1..k : i < j /\ ordered[i] = r[p] /\ ordered[j] = r[q]
      <4>. TAKE p, q \in DOMAIN r
      <4>. HAVE p < q
      <4>1. PICK i \in 1..k - 1, j \in 1..k - 1 :
              i < j /\ ordered[i] = r[p] /\ ordered[j] = r[q]
        BY <3>5
      <4>2. i \in 1..k /\ j \in 1..k
        BY <3>3
      <4>. QED
        BY <4>1, <4>2
    <3>7. Filtered(graph, ordered, k, r)
      BY <3>4, <3>5, <3>6 DEF Filtered, T
    <3>. QED
      BY <3>1, <3>7
  <2>. QED
    BY <2>2, <2>3
<1>5. S = {}
  <2>. SUFFICES ASSUME S # {} PROVE FALSE
    OBVIOUS
  <2>. HIDE DEF Fine
  <2>1. S \in SUBSET Nat
    BY <1>1
  <2>2. PICK k \in S : \A j \in S : ~(j < k)
    BY <2>1, Smallest
  <2>3. k \in 0..n /\ k # 0 /\ k \in 1..n
    BY <1>1, <1>3, <2>2
  <2>4. k - 1 \in 0..n /\ k - 1 < k
    BY <1>1, <2>3
  <2>5. Fine(k - 1)
    BY <2>2, <2>4
  <2>. QED
    BY <1>4, <2>2, <2>3, <2>5
<1>6. n \in 0..n
  BY <1>1
<1>. QED
  BY <1>5, <1>6

\* plan_card returns what there is to compute, in an order of the card's materials.
Planned(graph, card, r) ==
  \E ordered : /\ ordered = MaterialOrder(graph, card) /\ ordered # Refused
               /\ Arranged(graph, card, ordered)
               /\ Filtered(graph, ordered, Len(ordered), r)
LEMMA PlanCardIs ==
  ASSUME NEW graph \in Canvases, NEW card \in Seq(graph.materials),
         NEW N, Spans(graph, ToSet(card), N)
  PROVE  LET r == PlanCard(graph, card)
         IN /\ r # Refused => Planned(graph, card, r)
            /\ r = Refused => \E m \in ToSet(card) : Hangs(graph, m) \/ <<m, m>> \in N
<1>. DEFINE ordered == MaterialOrder(graph, card)
            r == PlanCard(graph, card)
            Kept(f) == Keeps(graph, ordered, f)
            kept == CHOOSE f : f = Kept(f)
<1>1. /\ ordered # Refused => Arranged(graph, card, ordered)
      /\ ordered = Refused => \E m \in ToSet(card) : Hangs(graph, m) \/ <<m, m>> \in N
  BY MaterialOrderIs
<1>2. r = IF ordered = Refused THEN Refused ELSE kept[Len(ordered)]
  BY DEF PlanCard, Keeps
<1>3. /\ card \in Seq(ToSet(card)) /\ ToSet(card) \in SUBSET graph.materials
      /\ Refused \notin Seq(graph.materials)
  BY CircleIsNoMaterial
<1>. HIDE DEF ordered, r
<1>4. ASSUME ordered # Refused
      PROVE  r # Refused /\ Planned(graph, card, r)
  <2>1. ordered \in Seq(ToSet(card)) /\ ToSet(ordered) = ToSet(card)
    BY <1>1, <1>4 DEF Arranged
  <2>2. ordered \in Seq(ToSet(ordered)) /\ Len(ordered) \in Nat
    BY <2>1
  <2>3. \E f : f = Kept(f)
    <3>. DEFINE D == 0..Len(ordered)
                R == Seq(ToSet(ordered))
                body == [f \in [D -> R] |-> Kept(f)]
                weight == [i \in D |-> i]
    <3>1. \A i \in D : i # 0 => i - 1 \in D /\ i - 1 < i /\ ordered[i] \in ToSet(ordered)
      <4>1. DOMAIN ordered = 1..Len(ordered)
        BY <2>2
      <4>. QED
        BY <2>2, <4>1 DEF ToSet
    <3>2. \A f \in [D -> R] : Kept(f) \in [D -> R]
      <4>1. ASSUME NEW f \in [D -> R], NEW i \in D, i # 0
            PROVE  f[i - 1] \in R /\ Append(f[i - 1], ordered[i]) \in R
        <5>1. f[i - 1] \in R /\ ordered[i] \in ToSet(ordered)
          BY <3>1, <4>1
        <5>. QED
          BY <5>1, AppendIs
      <4>2. <<>> \in R
        OBVIOUS
      <4>. HIDE DEF R
      <4>. QED
        BY <4>1, <4>2 DEF Keeps
    <3>3. \A f, g \in [D -> R], d \in D :
            (\A e \in D : weight[e] < weight[d] => f[e] = g[e]) => body[f][d] = body[g][d]
      BY <3>1 DEF Keeps
    <3>4. [i \in D |-> <<>>] \in [D -> R]
      OBVIOUS
    <3>5. body \in [[D -> R] -> [D -> R]]
      <4>. HIDE DEF D, R, Kept
      <4>. QED
        BY <3>2
    <3>6. weight \in [D -> 0..Len(ordered)]
      OBVIOUS
    <3>. HIDE DEF D, R, body, weight, Kept
    <3>7. Founded(D, R, body, weight, Len(ordered))
      BY <2>2, <3>3, <3>4, <3>5, <3>6 DEF Founded
    <3>8. PICK f \in [D -> R] : f = body[f]
      BY <3>7, RecursiveFunction
    <3>. QED
      BY <3>8 DEF body
  <2>4. kept = Kept(kept)
    BY <2>3
  <2>. HIDE DEF kept
  <2>5. Filtered(graph, ordered, Len(ordered), kept[Len(ordered)])
    BY <2>2, <2>4, FilterIs
  <2>6. Filtered(graph, ordered, Len(ordered), r)
    BY <1>2, <1>4, <2>5
  <2>7. r \in Seq(graph.materials)
    BY <1>3, <2>1, <2>6 DEF Filtered
  <2>. QED
    BY <1>1, <1>3, <1>4, <2>6, <2>7 DEF Planned, ordered
<1>5. CASE ordered = Refused
  BY <1>1, <1>2, <1>5 DEF r
<1>. QED
  BY <1>4, <1>5 DEF r

LEMMA Within ==
  ASSUME NEW from \in Nat, NEW m \in Nat, NEW n \in Nat, from + m <= n
  PROVE  \A p \in 1..m : from + p \in 1..n
OBVIOUS

LEMMA ConcatIs ==
  ASSUME NEW X, NEW a \in Seq(X), NEW b \in Seq(X)
  PROVE  LET c == a \o b
         IN /\ c \in Seq(X) /\ Len(c) = Len(a) + Len(b) /\ Len(a) \in Nat /\ Len(b) \in Nat
            /\ \A p \in 1..Len(a) : c[p] = a[p]
            /\ \A p \in 1..Len(b) : c[Len(a) + p] = b[p]
OBVIOUS

\* Sequences put one behind the other, from the offsets on.
Joined(seqs, flat, off) ==
  /\ off \in [0..Len(seqs) -> Nat] /\ off[0] = 0 /\ off[Len(seqs)] = Len(flat)
  /\ \A i \in 1..Len(seqs) :
       /\ off[i] = off[i - 1] + Len(seqs[i])
       /\ \A p \in 1..Len(seqs[i]) : flat[off[i - 1] + p] = seqs[i][p]

LEMMA FlattenIs ==
  ASSUME NEW X, NEW seqs \in Seq(Seq(X))
  PROVE  FlattenSeq(seqs) \in Seq(X) /\ \E off : Joined(seqs, FlattenSeq(seqs), off)
<1>. DEFINE n == Len(seqs)
            flat == FlattenSeq(seqs)
<1>1. /\ n \in Nat /\ DOMAIN seqs = 1..n /\ \A i \in 1..n : seqs[i] \in Seq(X)
  OBVIOUS
<1>2. CASE n = 0
  <2>1. flat = seqs /\ seqs = <<>>
    BY <1>1, <1>2 DEF FlattenSeq
  <2>2. Joined(seqs, flat, [i \in {0} |-> 0])
    BY <1>1, <1>2, <2>1 DEF Joined
  <2>. QED
    BY <2>1, <2>2
<1>3. CASE n # 0
  <2>. DEFINE D == 1..n
              R == Seq(X)
              Next(f) == [i \in D |-> IF i = 1 THEN seqs[i] ELSE f[i - 1] \o seqs[i]]
              body == [f \in [D -> R] |-> Next(f)]
              weight == [i \in D |-> i]
              flatten == CHOOSE f : f = Next(f)
  <2>1. \A i \in D : i # 1 => i - 1 \in D /\ i - 1 < i
    BY <1>1
  <2>2. \E f : f = Next(f)
    <3>1. \A f \in [D -> R] : Next(f) \in [D -> R]
      <4>1. ASSUME NEW f \in [D -> R], NEW i \in D, i # 1
            PROVE  f[i - 1] \o seqs[i] \in R
        <5>1. f[i - 1] \in Seq(X) /\ seqs[i] \in Seq(X)
          BY <1>1, <2>1, <4>1
        <5>. QED
          BY <5>1
      <4>2. \A i \in D : seqs[i] \in R
        BY <1>1
      <4>. HIDE DEF R
      <4>. QED
        BY <4>1, <4>2
    <3>2. \A f, g \in [D -> R], d \in D :
            (\A e \in D : weight[e] < weight[d] => f[e] = g[e]) => body[f][d] = body[g][d]
      BY <2>1
    <3>3. [i \in D |-> <<>>] \in [D -> R]
      OBVIOUS
    <3>4. body \in [[D -> R] -> [D -> R]]
      <4>. HIDE DEF D, R, Next
      <4>. QED
        BY <3>1
    <3>5. weight \in [D -> 0..n]
      BY <1>1
    <3>. HIDE DEF D, R, body, weight, Next
    <3>6. Founded(D, R, body, weight, n)
      BY <1>1, <3>2, <3>3, <3>4, <3>5 DEF Founded
    <3>7. PICK f \in [D -> R] : f = body[f]
      BY <3>6, RecursiveFunction
    <3>. QED
      BY <3>7 DEF body
  <2>3. flatten = Next(flatten)
    BY <2>2
  <2>4. flat = flatten[n]
    BY <1>3 DEF FlattenSeq
  <2>. HIDE DEF flatten, flat
  <2>5. \A i \in 1..n : flatten[i] = IF i = 1 THEN seqs[i] ELSE flatten[i - 1] \o seqs[i]
    BY <2>3
  <2>. DEFINE off == [i \in 0..n |-> IF i = 0 THEN 0 ELSE Len(flatten[i])]
              Fine(i) ==
                /\ flatten[i] \in Seq(X) /\ off[i] = off[i - 1] + Len(seqs[i])
                /\ \A j \in 1..i : \A p \in 1..Len(seqs[j]) :
                     /\ off[j - 1] + p \in 1..Len(flatten[i])
                     /\ flatten[i][off[j - 1] + p] = seqs[j][p]
              S == {i \in 1..n : ~Fine(i)}
  <2>6. off[0] = 0 /\ \A i \in 1..n : off[i] = Len(flatten[i])
    BY <1>1
  <2>. HIDE DEF off
  <2>7. Fine(1)
    <3>1. 1 \in 1..n /\ flatten[1] = seqs[1] /\ seqs[1] \in Seq(X)
      BY <1>1, <1>3, <2>5
    <3>2. off[1] = Len(seqs[1]) /\ Len(seqs[1]) \in Nat
      BY <2>6, <3>1
    <3>3. \A j \in 1..1 : j = 1
      OBVIOUS
    <3>. QED
      BY <2>6, <3>1, <3>2, <3>3
  <2>8. ASSUME NEW i \in 1..n, i # 1, Fine(i - 1)
        PROVE  Fine(i)
    <3>. DEFINE a == flatten[i - 1]
                b == seqs[i]
                c == flatten[i]
    <3>1. i - 1 \in 1..n /\ a \in Seq(X) /\ b \in Seq(X) /\ c = a \o b
      BY <1>1, <2>1, <2>5, <2>8
    <3>2. /\ c \in Seq(X) /\ Len(c) = Len(a) + Len(b) /\ Len(a) \in Nat /\ Len(b) \in Nat
          /\ \A p \in 1..Len(a) : c[p] = a[p]
          /\ \A p \in 1..Len(b) : c[Len(a) + p] = b[p]
      <4>. HIDE DEF a, b, c
      <4>. QED
        BY <3>1, ConcatIs
    <3>3. off[i] = Len(c) /\ off[i - 1] = Len(a)
      BY <2>6, <3>1
    <3>4. ASSUME NEW j \in 1..i, NEW p \in 1..Len(seqs[j])
          PROVE  off[j - 1] + p \in 1..Len(c) /\ c[off[j - 1] + p] = seqs[j][p]
      <4>1. CASE j = i
        <5>1. p \in 1..Len(b) /\ off[j - 1] = Len(a) /\ seqs[j] = b
          BY <3>3, <3>4, <4>1
        <5>. HIDE DEF a, b, c
        <5>2. Len(a) + p \in 1..Len(c) /\ c[Len(a) + p] = b[p]
          BY <3>2, <5>1
        <5>. QED
          BY <5>1, <5>2
      <4>2. CASE j # i
        <5>1. j \in 1..i - 1
          BY <3>4, <4>2
        <5>2. off[j - 1] + p \in 1..Len(a) /\ a[off[j - 1] + p] = seqs[j][p]
          BY <2>8, <3>4, <5>1
        <5>. HIDE DEF a, c
        <5>3. off[j - 1] + p \in 1..Len(c)
          <6>. DEFINE k == off[j - 1] + p
          <6>1. k \in 1..Len(a) /\ Len(c) = Len(a) + Len(b)
            BY <3>2, <5>2
          <6>. HIDE DEF k
          <6>2. k \in 1..Len(c)
            BY <3>2, <6>1
          <6>. QED
            BY <6>2 DEF k
        <5>. QED
          BY <3>2, <5>2, <5>3
      <4>. QED
        BY <4>1, <4>2
    <3>. QED
      BY <3>2, <3>3, <3>4
  <2>9. S = {}
    <3>. SUFFICES ASSUME S # {} PROVE FALSE
      OBVIOUS
    <3>. HIDE DEF Fine
    <3>1. S \in SUBSET Nat
      BY <1>1
    <3>2. PICK k \in S : \A j \in S : ~(j < k)
      BY <3>1, Smallest
    <3>3. k \in 1..n /\ k # 1 /\ k - 1 \in 1..n /\ k - 1 < k
      BY <1>1, <2>7, <3>2
    <3>4. Fine(k - 1)
      BY <3>2, <3>3
    <3>. QED
      BY <2>8, <3>2, <3>3, <3>4
  <2>10. n \in 1..n /\ \A i \in 1..n : Fine(i)
    <3>. HIDE DEF Fine
    <3>1. n \in 1..n
      BY <1>1, <1>3
    <3>. QED
      BY <2>9, <3>1
  <2>11. flat \in Seq(X) /\ Len(flat) = off[n]
    BY <2>4, <2>6, <2>10
  <2>12. off \in [0..n -> Nat]
    <3>1. \A i \in 0..n : i = 0 \/ i \in 1..n
      BY <1>1
    <3>2. \A i \in 0..n : off[i] \in Nat
      BY <2>6, <2>10, <3>1
    <3>3. off = [i \in 0..n |-> off[i]]
      BY DEF off
    <3>. QED
      BY <3>2, <3>3
  <2>13. \A i \in 1..n : /\ off[i] = off[i - 1] + Len(seqs[i])
                         /\ \A p \in 1..Len(seqs[i]) : flat[off[i - 1] + p] = seqs[i][p]
    BY <2>4, <2>10
  <2>14. Joined(seqs, flat, off)
    BY <2>6, <2>11, <2>12, <2>13 DEF Joined
  <2>. QED
    BY <2>11, <2>14 DEF flat
<1>. QED
  BY <1>2, <1>3

\* Every place in joined sequences is a place in one of them, and their order is kept.
Placed(seqs, flat, off) ==
  /\ \A i, j \in 0..Len(seqs) : i <= j => off[i] <= off[j]
  /\ \A i \in 1..Len(seqs) : \A p \in 1..Len(seqs[i]) :
       off[i - 1] + p \in 1..Len(flat) /\ flat[off[i - 1] + p] = seqs[i][p]
  /\ \A k \in 1..Len(flat) : \E i \in 1..Len(seqs) : \E p \in 1..Len(seqs[i]) :
       k = off[i - 1] + p
LEMMA JoinedIs ==
  ASSUME NEW X, NEW seqs \in Seq(Seq(X)), NEW flat \in Seq(X), NEW off, Joined(seqs, flat, off)
  PROVE  Placed(seqs, flat, off)
<1>. DEFINE n == Len(seqs)
<1>1. /\ n \in Nat /\ Len(flat) \in Nat /\ off[0] = 0 /\ off[n] = Len(flat)
      /\ \A i \in 1..n : seqs[i] \in Seq(X) /\ Len(seqs[i]) \in Nat
  BY DEF Joined
<1>2. /\ \A i \in 0..n : off[i] \in Nat
      /\ \A i \in 1..n : /\ off[i] = off[i - 1] + Len(seqs[i])
                         /\ \A p \in 1..Len(seqs[i]) : flat[off[i - 1] + p] = seqs[i][p]
  BY DEF Joined
<1>. HIDE DEF n
<1>3. \A i, j \in 0..n : i <= j => off[i] <= off[j]
  <2>. DEFINE S == {j \in 0..n : \E i \in 0..n : i <= j /\ ~(off[i] <= off[j])}
  <2>. SUFFICES ASSUME S # {} PROVE FALSE
    OBVIOUS
  <2>1. S \in SUBSET Nat
    BY <1>1
  <2>2. PICK j \in S : \A k \in S : ~(k < j)
    BY <2>1, Smallest
  <2>3. PICK i \in 0..n : i <= j /\ ~(off[i] <= off[j])
    BY <2>2
  <2>4. j \in 0..n /\ i # j
    BY <1>2, <2>2, <2>3
  <2>5. j \in 1..n /\ j - 1 \in 0..n /\ j - 1 < j /\ i <= j - 1
    BY <1>1, <2>3, <2>4
  <2>6. off[i] <= off[j - 1]
    BY <2>2, <2>3, <2>5
  <2>7. off[j - 1] <= off[j]
    <3>1. off[j] = off[j - 1] + Len(seqs[j]) /\ Len(seqs[j]) \in Nat
      BY <1>1, <1>2, <2>5
    <3>2. off[j - 1] \in Nat
      BY <1>2, <2>5
    <3>. QED
      BY <3>1, <3>2
  <2>8. off[i] \in Nat /\ off[j] \in Nat /\ off[j - 1] \in Nat
    BY <1>2, <2>4, <2>5
  <2>. QED
    BY <2>3, <2>6, <2>7, <2>8
<1>4. ASSUME NEW i \in 1..n, NEW p \in 1..Len(seqs[i])
      PROVE  off[i - 1] + p \in 1..Len(flat) /\ flat[off[i - 1] + p] = seqs[i][p]
  <2>1. i - 1 \in 0..n /\ i \in 0..n /\ n \in 0..n /\ i <= n
    BY <1>1
  <2>2. off[i - 1] \in Nat /\ off[i] <= off[n] /\ off[i] = off[i - 1] + Len(seqs[i])
    BY <1>2, <1>3, <2>1
  <2>3. off[i - 1] + p \in 1..Len(flat)
    <3>. DEFINE m == Len(seqs[i])
                from == off[i - 1]
    <3>1. from \in Nat /\ m \in Nat /\ from + m <= Len(flat) /\ p \in 1..m
      BY <1>1, <2>2
    <3>. HIDE DEF m, from
    <3>2. from + p \in 1..Len(flat)
      BY <1>1, <3>1, Within
    <3>. QED
      BY <3>2 DEF from
  <2>. QED
    BY <1>2, <2>3
<1>5. ASSUME NEW k \in 1..Len(flat)
      PROVE  \E i \in 1..n : \E p \in 1..Len(seqs[i]) : k = off[i - 1] + p
  <2>. DEFINE S == {i \in 0..n : k <= off[i]}
  <2>1. S \in SUBSET Nat /\ n \in S
    BY <1>1
  <2>2. PICK i \in S : \A j \in S : ~(j < i)
    BY <2>1, Smallest
  <2>3. i \in 1..n /\ i - 1 \in 0..n /\ i - 1 < i
    BY <1>1, <2>2
  <2>4. off[i - 1] \in Nat /\ off[i - 1] < k
    BY <1>2, <2>2, <2>3
  <2>5. k <= off[i] /\ off[i] = off[i - 1] + Len(seqs[i]) /\ Len(seqs[i]) \in Nat
    BY <1>1, <1>2, <2>2, <2>3
  <2>6. k - off[i - 1] \in 1..Len(seqs[i]) /\ k = off[i - 1] + (k - off[i - 1])
    BY <2>4, <2>5
  <2>. QED
    BY <2>3, <2>6
<1>. QED
  BY <1>3, <1>4, <1>5 DEF n, Placed

LEMMA JoinedElements ==
  ASSUME NEW X, NEW seqs \in Seq(Seq(X))
  PROVE  \A m : m \in ToSet(FlattenSeq(seqs)) <=> \E i \in DOMAIN seqs : m \in ToSet(seqs[i])
<1>. DEFINE flat == FlattenSeq(seqs)
<1>1. flat \in Seq(X)
  BY FlattenIs
<1>2. PICK off : Joined(seqs, flat, off)
  BY FlattenIs
<1>. HIDE DEF flat
<1>. Placed(seqs, flat, off)
  BY <1>1, <1>2, JoinedIs
<1>3. /\ DOMAIN flat = 1..Len(flat) /\ DOMAIN seqs = 1..Len(seqs)
      /\ \A i \in 1..Len(seqs) : DOMAIN seqs[i] = 1..Len(seqs[i])
  BY <1>1
<1>4. ASSUME NEW m \in ToSet(flat)
      PROVE  \E i \in DOMAIN seqs : m \in ToSet(seqs[i])
  <2>1. PICK k \in 1..Len(flat) : flat[k] = m
    BY <1>3, <1>4 DEF ToSet
  <2>2. PICK i \in 1..Len(seqs) : \E p \in 1..Len(seqs[i]) : k = off[i - 1] + p
    BY DEF Placed
  <2>3. PICK p \in 1..Len(seqs[i]) : k = off[i - 1] + p
    BY <2>2
  <2>4. seqs[i][p] = m
    BY <1>2, <2>1, <2>3 DEF Joined
  <2>. QED
    BY <1>3, <2>4 DEF ToSet
<1>5. ASSUME NEW i \in DOMAIN seqs, NEW m \in ToSet(seqs[i])
      PROVE  m \in ToSet(flat)
  <2>1. PICK p \in 1..Len(seqs[i]) : seqs[i][p] = m
    BY <1>3, <1>5 DEF ToSet
  <2>2. off[i - 1] + p \in 1..Len(flat) /\ flat[off[i - 1] + p] = m
    BY <1>3, <2>1 DEF Placed
  <2>. QED
    BY <1>3, <2>2 DEF ToSet
<1>. QED
  BY <1>4, <1>5 DEF flat

-----------------------------------------------------------------------------
(* What a batch generates.                                                  *)

LEMMA WantedIs ==
  ASSUME NEW graph \in Canvases
  PROVE  /\ Len(graph.cards) \in Nat /\ DOMAIN graph.cards = 1..Len(graph.cards)
         /\ \A i \in DOMAIN graph.cards :
              /\ graph.cards[i] \in Seq(graph.materials)
              /\ \A m \in ToSet(graph.cards[i]) : Computed(graph, m) => m \in Wanted(graph)
         /\ \A m : m \in Wanted(graph) <=>
              Computed(graph, m) /\ \E i \in DOMAIN graph.cards : m \in ToSet(graph.cards[i])
         /\ Wanted(graph) \in SUBSET graph.materials /\ IsFiniteSet(Wanted(graph))
<1>1. graph.cards \in Seq(Seq(graph.materials))
  BY CanvasesAssumption
<1>2. /\ Len(graph.cards) \in Nat /\ DOMAIN graph.cards = 1..Len(graph.cards)
      /\ \A i \in DOMAIN graph.cards : graph.cards[i] \in Seq(graph.materials)
  BY <1>1
<1>3. \A m : m \in ToSet(Asked(graph)) <=> \E i \in DOMAIN graph.cards : m \in ToSet(graph.cards[i])
  BY <1>1, JoinedElements DEF Asked
<1>4. \A i \in DOMAIN graph.cards : ToSet(graph.cards[i]) \in SUBSET graph.materials
  BY <1>2, CircleIsNoMaterial
<1>5. \A m : m \in Wanted(graph) <=>
        Computed(graph, m) /\ \E i \in DOMAIN graph.cards : m \in ToSet(graph.cards[i])
  BY <1>3 DEF Wanted
<1>6. Wanted(graph) \in SUBSET graph.materials
  BY <1>4, <1>5
<1>7. IsFiniteSet(graph.nodes) /\ Wanted(graph) \in SUBSET graph.nodes
  BY <1>6, CanvasType
<1>8. IsFiniteSet(Wanted(graph))
  BY <1>7, FS_Subset
<1>. QED
  BY <1>2, <1>5, <1>6, <1>8

\* What materials need through each other, and when that is circular.
LEMMA NeededIs ==
  ASSUME NEW graph \in Canvases, NEW T \in SUBSET graph.materials
  PROVE  LET N == Needed(graph, T)
         IN /\ ReadPairs(graph, T) = {p \in T \X T : Reading(graph, p[1], p[2])}
            /\ N \subseteq T \X T /\ LeastSpan(graph, T, N)
            /\ Circular(graph, T) <=> \E m \in T : <<m, m>> \in N \/ Hangs(graph, m)
<1>. DEFINE N == Needed(graph, T)
            pairs == ReadPairs(graph, T)
<1>1. IsFiniteSet(T)
  BY CanvasType, FS_Subset
<1>2. pairs = {p \in T \X T : Reading(graph, p[1], p[2])}
  <2>1. \A p \in T \X T : p = <<p[1], p[2]>>
    OBVIOUS
  <2>. QED
    BY <2>1 DEF ReadPairs, Reading
<1>3. pairs \in SUBSET (T \X T)
  BY <1>2
<1>4. Circular(graph, T) <=> \E m \in T : <<m, m>> \in N \/ Hangs(graph, m)
  BY DEF Circular, Hangs
<1>5. N = Closure(pairs, T)
  BY DEF Needed
<1>. HIDE DEF N, pairs
<1>6. /\ pairs \subseteq N /\ N \subseteq T \X T /\ Transitive(N)
      /\ \A P : pairs \subseteq P /\ Transitive(P) => N \subseteq P
  BY <1>1, <1>3, <1>5, ClosureLeast
<1>7. Spans(graph, T, N)
  <2>1. ASSUME NEW s \in T, NEW t \in T, Reading(graph, s, t)
        PROVE  <<s, t>> \in N
    BY <1>2, <1>6, <2>1
  <2>. QED
    BY <1>6, <2>1 DEF Spans
<1>8. ASSUME NEW P, Spans(graph, T, P)
      PROVE  N \subseteq P
  <2>1. pairs \subseteq P
    BY <1>2, <1>8 DEF Spans
  <2>. QED
    BY <1>6, <1>8, <2>1 DEF Spans
<1>. QED
  BY <1>2, <1>4, <1>6, <1>7, <1>8 DEF LeastSpan, N, pairs

\* Targets that are in order neither hang on a circle nor form one.
LEMMA ArrangedAcyclic ==
  ASSUME NEW graph \in Canvases, NEW targets, NEW r, Arranged(graph, targets, r),
         ToSet(targets) \in SUBSET graph.materials
  PROVE  ~Circular(graph, ToSet(targets))
<1>. DEFINE W == ToSet(targets)
            N == Needed(graph, W)
            P == {p \in W \X W : \E i, j \in DOMAIN r : i < j /\ r[i] = p[1] /\ r[j] = p[2]}
<1>1. /\ r \in Seq(W) /\ ToSet(r) = W /\ Once(r) /\ \A t \in W : ~Hangs(graph, t)
      /\ \A p \in DOMAIN r : \A s \in W : Reading(graph, s, r[p]) =>
           \E q \in DOMAIN r : q < p /\ r[q] = s
  BY DEF Arranged
<1>. HIDE DEF W, N
<1>2. DOMAIN r \in SUBSET Nat /\ \A m \in W : \E p \in DOMAIN r : r[p] = m
  <2>1. ToSet(r) = {r[p] : p \in DOMAIN r}
    BY DEF ToSet
  <2>2. DOMAIN r = 1..Len(r) /\ Len(r) \in Nat
    BY <1>1
  <2>. QED
    BY <1>1, <2>1, <2>2
<1>3. Spans(graph, W, P)
  <2>1. ASSUME NEW p \in P, NEW q \in P, p[2] = q[1]
        PROVE  <<p[1], q[2]>> \in P
    <3>1. PICK i, j \in DOMAIN r : i < j /\ r[i] = p[1] /\ r[j] = p[2]
      OBVIOUS
    <3>2. PICK k, l \in DOMAIN r : k < l /\ r[k] = q[1] /\ r[l] = q[2]
      OBVIOUS
    <3>3. j = k
      BY <1>1, <2>1, <3>1, <3>2 DEF Once
    <3>4. i \in Nat /\ j \in Nat /\ l \in Nat
      BY <1>2
    <3>5. i < l
      BY <3>1, <3>2, <3>3, <3>4
    <3>6. p[1] \in W /\ q[2] \in W
      OBVIOUS
    <3>. QED
      BY <3>1, <3>2, <3>5, <3>6
  <2>2. ASSUME NEW s \in W, NEW t \in W, Reading(graph, s, t)
        PROVE  <<s, t>> \in P
    <3>1. PICK p \in DOMAIN r : r[p] = t
      BY <1>2
    <3>2. PICK q \in DOMAIN r : q < p /\ r[q] = s
      BY <1>1, <2>2, <3>1
    <3>. QED
      BY <3>1, <3>2
  <2>. HIDE DEF P
  <2>. QED
    BY <2>1, <2>2 DEF Spans, Transitive
<1>4. \A m \in W : <<m, m>> \notin P
  <2>. SUFFICES ASSUME NEW i \in DOMAIN r, NEW j \in DOMAIN r, i < j, r[i] = r[j]
                PROVE  FALSE
    OBVIOUS
  <2>. QED
    BY <1>1, <1>2 DEF Once
<1>. HIDE DEF P
<1>5. /\ LeastSpan(graph, W, N)
      /\ (Circular(graph, W) <=> \E m \in W : <<m, m>> \in N \/ Hangs(graph, m))
  BY NeededIs DEF N, W
<1>6. N \subseteq P
  BY <1>3, <1>5 DEF LeastSpan
<1>. QED
  BY <1>1, <1>4, <1>5, <1>6 DEF W

\* The plans of the cards: one is refused only for a circle among the materials of its
\* card, and otherwise they hold together what the batch generates.
LEMMA PlansAre ==
  ASSUME NEW graph \in Canvases
  PROVE  LET plans == [i \in DOMAIN graph.cards |-> PlanCard(graph, graph.cards[i])]
         IN /\ Refused \in ToSet(plans) =>
                 \E i \in DOMAIN graph.cards : Circular(graph, ToSet(graph.cards[i]))
            /\ Refused \notin ToSet(plans) =>
                 /\ plans \in Seq(Seq(graph.materials)) /\ Len(plans) = Len(graph.cards)
                 /\ \A i \in DOMAIN graph.cards :
                      /\ Planned(graph, graph.cards[i], plans[i])
                      /\ \A m : m \in ToSet(plans[i]) <=>
                           m \in ToSet(graph.cards[i]) /\ Computed(graph, m)
                 /\ ToSet(FlattenSeq(plans)) = Wanted(graph)
<1>. DEFINE cards == graph.cards
            W == Wanted(graph)
            plans == [i \in DOMAIN cards |-> PlanCard(graph, cards[i])]
<1>1. /\ Len(cards) \in Nat /\ DOMAIN cards = 1..Len(cards)
      /\ \A i \in DOMAIN cards :
           /\ cards[i] \in Seq(graph.materials)
           /\ \A m \in ToSet(cards[i]) : Computed(graph, m) => m \in W
      /\ \A m : m \in W <=> Computed(graph, m) /\ \E i \in DOMAIN cards : m \in ToSet(cards[i])
      /\ W \in SUBSET graph.materials
  BY WantedIs
<1>2. \A i \in DOMAIN cards : ToSet(cards[i]) \in SUBSET graph.materials
  BY <1>1, CircleIsNoMaterial
<1>. HIDE DEF W, cards
<1>5. ASSUME NEW i \in DOMAIN cards
      PROVE  /\ plans[i] # Refused => Planned(graph, cards[i], plans[i])
             /\ plans[i] = Refused => Circular(graph, ToSet(cards[i]))
  <2>. DEFINE T == ToSet(cards[i])
              N == Needed(graph, T)
  <2>1. /\ T \in SUBSET graph.materials /\ Spans(graph, T, N)
        /\ Circular(graph, T) <=> \E m \in T : <<m, m>> \in N \/ Hangs(graph, m)
    <3>1. T \in SUBSET graph.materials
      BY <1>2
    <3>. HIDE DEF T
    <3>. QED
      BY <3>1, NeededIs DEF LeastSpan
  <2>. HIDE DEF N
  <2>2. /\ plans[i] # Refused => Planned(graph, cards[i], plans[i])
        /\ plans[i] = Refused => \E m \in T : Hangs(graph, m) \/ <<m, m>> \in N
    BY <1>1, <2>1, PlanCardIs
  <2>. HIDE DEF T, plans
  <2>. QED
    BY <2>1, <2>2 DEF T
<1>6. ASSUME Refused \in ToSet(plans)
      PROVE  \E i \in DOMAIN cards : Circular(graph, ToSet(cards[i]))
  <2>1. PICK i \in DOMAIN cards : plans[i] = Refused
    BY <1>6 DEF ToSet
  <2>. QED
    BY <1>5, <2>1
<1>7. ASSUME Refused \notin ToSet(plans)
      PROVE  /\ plans \in Seq(Seq(graph.materials)) /\ Len(plans) = Len(cards)
             /\ \A i \in DOMAIN cards :
                  /\ Planned(graph, cards[i], plans[i])
                  /\ \A m : m \in ToSet(plans[i]) <=>
                       m \in ToSet(cards[i]) /\ Computed(graph, m)
             /\ ToSet(FlattenSeq(plans)) = W
  <2>1. ASSUME NEW i \in DOMAIN cards
        PROVE  /\ Planned(graph, cards[i], plans[i]) /\ plans[i] \in Seq(graph.materials)
               /\ \A m : m \in ToSet(plans[i]) <=> m \in ToSet(cards[i]) /\ Computed(graph, m)
    <3>1. Planned(graph, cards[i], plans[i])
      <4>1. plans[i] \in ToSet(plans)
        BY DEF ToSet
      <4>. QED
        BY <1>5, <1>7, <4>1
    <3>. DEFINE r == plans[i]
    <3>. HIDE DEF plans
    <3>2. PICK ordered : /\ Arranged(graph, cards[i], ordered)
                         /\ Filtered(graph, ordered, Len(ordered), r)
      BY <3>1 DEF Planned
    <3>3. /\ ordered \in Seq(ToSet(cards[i])) /\ ToSet(ordered) = ToSet(cards[i])
          /\ r \in Seq(ToSet(cards[i]))
      BY <3>2 DEF Arranged, Filtered
    <3>4. ToSet(cards[i]) \in SUBSET graph.materials
      BY <1>1, CircleIsNoMaterial
    <3>5. r \in Seq(graph.materials)
      BY <3>3, <3>4
    <3>6. \A m : m \in ToSet(r) <=> \E k \in 1..Len(ordered) : ordered[k] = m /\ Computed(graph, m)
      BY <3>2 DEF Filtered
    <3>7. \A m : m \in ToSet(cards[i]) <=> \E k \in 1..Len(ordered) : ordered[k] = m
      <4>1. DOMAIN ordered = 1..Len(ordered)
        BY <3>3
      <4>2. \A m : m \in ToSet(ordered) <=> \E k \in 1..Len(ordered) : ordered[k] = m
        BY <4>1 DEF ToSet
      <4>. QED
        BY <3>3, <4>2
    <3>. QED
      BY <3>1, <3>5, <3>6, <3>7
  <2>2. plans \in Seq(Seq(graph.materials)) /\ Len(plans) = Len(cards)
    <3>1. plans \in [1..Len(cards) -> Seq(graph.materials)]
      BY <1>1, <2>1
    <3>. HIDE DEF plans
    <3>. QED
      BY <1>1, <3>1
  <2>3. DOMAIN plans = DOMAIN cards
    OBVIOUS
  <2>. HIDE DEF plans
  <2>4. \A m : m \in ToSet(FlattenSeq(plans)) <=> \E i \in DOMAIN plans : m \in ToSet(plans[i])
    BY <2>2, JoinedElements
  <2>5. \A m : m \in ToSet(FlattenSeq(plans)) <=> m \in W
    BY <1>1, <2>1, <2>3, <2>4
  <2>. QED
    BY <2>1, <2>2, <2>5
<1>. QED
  BY <1>6, <1>7 DEF cards, W

\* The targets of a batch.
LEMMA TargetsAre ==
  ASSUME NEW graph \in Canvases
  PROVE  LET r == Targets(graph)
             plans == [i \in DOMAIN graph.cards |-> PlanCard(graph, graph.cards[i])]
         IN /\ r = Refused => \E T \in Scopes(graph) : Circular(graph, T)
            /\ r # Refused =>
                 /\ Refused \notin ToSet(plans) /\ r = MaterialOrder(graph, FlattenSeq(plans))
                 /\ Arranged(graph, FlattenSeq(plans), r)
                 /\ ToSet(FlattenSeq(plans)) = Wanted(graph)
                 /\ \A T \in Scopes(graph) : ~Circular(graph, T)
<1>. DEFINE r == Targets(graph)
            W == Wanted(graph)
            plans == [i \in DOMAIN graph.cards |-> PlanCard(graph, graph.cards[i])]
            flat == FlattenSeq(plans)
<1>1. r = IF Refused \in ToSet(plans) THEN Refused ELSE MaterialOrder(graph, flat)
  BY DEF Targets
<1>2. /\ Refused \in ToSet(plans) =>
           \E i \in DOMAIN graph.cards : Circular(graph, ToSet(graph.cards[i]))
      /\ Refused \notin ToSet(plans) =>
           /\ plans \in Seq(Seq(graph.materials)) /\ ToSet(flat) = W
           /\ \A i \in DOMAIN graph.cards : Planned(graph, graph.cards[i], plans[i])
  BY PlansAre
<1>3. /\ W \in SUBSET graph.materials
      /\ \A i \in DOMAIN graph.cards : ToSet(graph.cards[i]) \in SUBSET graph.materials
  BY WantedIs, CircleIsNoMaterial
<1>4. /\ W \in Scopes(graph)
      /\ \A i \in DOMAIN graph.cards : ToSet(graph.cards[i]) \in Scopes(graph)
      /\ \A T \in Scopes(graph) : T = W \/ \E i \in DOMAIN graph.cards : T = ToSet(graph.cards[i])
  BY DEF Scopes
<1>. HIDE DEF r, plans, W
<1>5. CASE Refused \in ToSet(plans)
  BY <1>1, <1>2, <1>4, <1>5 DEF r, plans
<1>6. CASE Refused \notin ToSet(plans)
  <2>. DEFINE N == Needed(graph, W)
  <2>1. flat \in Seq(graph.materials) /\ ToSet(flat) = W
    BY <1>2, <1>6, FlattenIs
  <2>2. /\ Spans(graph, W, N)
        /\ Circular(graph, W) <=> \E m \in W : <<m, m>> \in N \/ Hangs(graph, m)
    BY <1>3, NeededIs DEF LeastSpan
  <2>. HIDE DEF N
  <2>3. /\ r # Refused => Arranged(graph, flat, r)
        /\ r = Refused => \E m \in W : Hangs(graph, m) \/ <<m, m>> \in N
    <3>. HIDE DEF flat
    <3>. QED
      BY <1>1, <1>6, <2>1, <2>2, MaterialOrderIs
  <2>4. r = Refused => \E T \in Scopes(graph) : Circular(graph, T)
    BY <1>4, <2>2, <2>3
  <2>5. ASSUME r # Refused
        PROVE  ~Circular(graph, W)
    <3>. HIDE DEF flat
    <3>. QED
      BY <1>3, <2>1, <2>3, <2>5, ArrangedAcyclic
  <2>6. ASSUME NEW i \in DOMAIN graph.cards
        PROVE  ~Circular(graph, ToSet(graph.cards[i]))
    <3>1. PICK ordered : Arranged(graph, graph.cards[i], ordered)
      BY <1>2, <1>6 DEF Planned
    <3>. QED
      BY <1>3, <3>1, ArrangedAcyclic
  <2>7. r # Refused => \A T \in Scopes(graph) : ~Circular(graph, T)
    BY <1>4, <2>5, <2>6
  <2>. QED
    BY <1>1, <1>2, <1>6, <2>3, <2>4, <2>7 DEF r, plans, W
<1>. QED
  BY <1>5, <1>6

-----------------------------------------------------------------------------
(* The order of the targets, kept where what they read allows it.           *)

\* What comes first in an order is needed no later among the targets.
Sorted(targets, N, r) ==
  \A p, q \in DOMAIN r : \A k \in DOMAIN targets :
    p < q /\ Needs(N, r[q], targets[k]) =>
      \E j \in DOMAIN targets : j <= k /\ Needs(N, r[p], targets[j])
Least(reads, N) == Follows(reads, N) /\ \A P : Follows(reads, P) => N \subseteq P

\* An order holds all that its elements need.
LEMMA OrderCloses ==
  ASSUME NEW reads, NEW N, Least(reads, N), NEW c, InOrder(reads, c)
  PROVE  \A t \in ToSet(c) : \A m : Needs(N, m, t) => m \in ToSet(c)
<1>. DEFINE C == ToSet(c)
            P == {p \in N : p[2] \in C => p[1] \in C}
<1>1. \A t \in C : \A s \in reads[t] : s \in C
  BY DEF InOrder, ToSet
<1>. HIDE DEF C
<1>2. Transitive(P)
  <2>1. ASSUME NEW p \in P, NEW q \in P, p[2] = q[1]
        PROVE  <<p[1], q[2]>> \in P
    <3>1. <<p[1], q[2]>> \in N
      BY <2>1 DEF Least, Follows, Transitive
    <3>. QED
      BY <2>1, <3>1
  <2>. HIDE DEF P
  <2>. QED
    BY <2>1 DEF Transitive
<1>3. \A t \in DOMAIN reads : \A s \in reads[t] : <<s, t>> \in P
  BY <1>1 DEF Least, Follows
<1>. HIDE DEF P
<1>4. Follows(reads, P)
  BY <1>2, <1>3 DEF Follows
<1>5. N \subseteq P
  BY <1>4 DEF Least
<1>6. \A m, t : <<m, t>> \in P /\ t \in C => m \in C
  BY DEF P
<1>. QED
  BY <1>5, <1>6 DEF Needs, C

\* An outermost traversal that has put the targets before next in order.
Sorting(targets, reads, N, at) ==
  /\ at.visiting = {} /\ at.wanted = ToSet(targets)
  /\ InOrder(reads, at.completed) /\ Once(at.completed) /\ Sorted(targets, N, at.completed)
  /\ \A k \in DOMAIN targets : k < at.next => targets[k] \in ToSet(at.completed)
  /\ \A m \in ToSet(at.completed) :
       \E k \in DOMAIN targets : k < at.next /\ Needs(N, m, targets[k])

\* What is put behind an order because one target needs it, and none before did.
LEMMA SortedOn ==
  ASSUME NEW targets, targets \in Seq(ToSet(targets)), NEW reads, NEW N, Least(reads, N),
         NEW at \in Places(targets), Sorting(targets, reads, N, at),
         at.next \in DOMAIN targets,
         NEW b \in Seq(ToSet(targets)), Continues(at.completed, b), Once(b),
         InOrder(reads, b), targets[at.next] \in ToSet(b),
         \A m \in ToSet(b) \ ToSet(at.completed) : Needs(N, m, targets[at.next])
  PROVE  /\ Sorted(targets, N, b)
         /\ \A k \in DOMAIN targets : k < at.next + 1 => targets[k] \in ToSet(b)
         /\ \A m \in ToSet(b) :
              \E k \in DOMAIN targets : k < at.next + 1 /\ Needs(N, m, targets[k])
<1>. DEFINE c == at.completed
            n == at.next
<1>1. /\ DOMAIN targets = 1..Len(targets) /\ Len(targets) \in Nat /\ n \in Nat
      /\ c \in Seq(ToSet(targets)) /\ DOMAIN c = 1..Len(c) /\ DOMAIN b = 1..Len(b)
      /\ Len(c) \in Nat /\ Len(b) \in Nat
  BY DEF Places
<1>2. ToSet(c) \subseteq ToSet(b) /\ DOMAIN c \subseteq DOMAIN b /\ \A p \in DOMAIN c : b[p] = c[p]
  <2>1. ToSet(c) \subseteq ToSet(b)
    BY <1>1, ContinuesOn
  <2>. HIDE DEF c
  <2>2. Len(c) <= Len(b) /\ \A p \in DOMAIN c : b[p] = c[p]
    BY DEF Continues, c
  <2>. QED
    BY <1>1, <2>1, <2>2
<1>3. \A k \in DOMAIN targets : k < n + 1 => k < n \/ k = n
  BY <1>1
<1>. HIDE DEF c, n
<1>4. \A k \in DOMAIN targets : k < n + 1 => targets[k] \in ToSet(b)
  BY <1>2, <1>3 DEF Sorting, c, n
<1>5. \A m \in ToSet(b) : \E k \in DOMAIN targets : k < n + 1 /\ Needs(N, m, targets[k])
  <2>1. \A k \in DOMAIN targets : k < n => k < n + 1
    BY <1>1
  <2>2. n < n + 1
    BY <1>1
  <2>. QED
    BY <2>1, <2>2 DEF Sorting, c, n
<1>6. ASSUME NEW p \in DOMAIN b, NEW q \in DOMAIN b, NEW k \in DOMAIN targets,
             p < q, Needs(N, b[q], targets[k])
      PROVE  \E j \in DOMAIN targets : j <= k /\ Needs(N, b[p], targets[j])
  <2>1. CASE q \in DOMAIN c
    <3>1. p \in DOMAIN c
      BY <1>1, <1>6, <2>1
    <3>. QED
      BY <1>2, <1>6, <2>1, <3>1 DEF Sorting, Sorted, c
  <2>2. CASE q \notin DOMAIN c
    <3>1. b[q] \notin ToSet(c)
      BY <1>2, <2>2 DEF ToSet, Once
    <3>2. targets[k] \notin ToSet(c)
      BY <1>6, <3>1, OrderCloses DEF Sorting, c
    <3>3. ~(k < n)
      BY <3>2 DEF Sorting, c, n
    <3>4. b[p] \in ToSet(b)
      BY <1>1 DEF ToSet
    <3>5. PICK j \in DOMAIN targets : j < n + 1 /\ Needs(N, b[p], targets[j])
      BY <1>5, <3>4
    <3>6. j <= k
      BY <1>1, <3>3, <3>5
    <3>. QED
      BY <3>5, <3>6
  <2>. QED
    BY <2>1, <2>2
<1>7. Sorted(targets, N, b)
  BY <1>6 DEF Sorted
<1>. QED
  BY <1>4, <1>5, <1>7 DEF c, n

\* An outermost traversal puts the targets in an order that follows their own.
LEMMA TraversalSorts ==
  ASSUME NEW targets, NEW reads, Plans(targets, reads), NEW N, Least(reads, N),
         NEW visit, Traversal(targets, reads, visit)
  PROVE  \A at \in Places(targets) :
           visit[at] # Refused /\ Sorting(targets, reads, N, at) => Sorted(targets, N, visit[at])
<1>. DEFINE T == ToSet(targets)
            Fine(at) == visit[at] # Refused /\ Sorting(targets, reads, N, at) =>
                          Sorted(targets, N, visit[at])
            Good == {at \in Places(targets) : Fine(at)}
<1>1. targets \in Seq(T) /\ Follows(reads, N)
  BY DEF Plans, Least
<1>2. ASSUME NEW at \in Places(targets), \A e : Lighter(targets, e, at) => e \in Good,
             visit[at] # Refused, Sorting(targets, reads, N, at)
      PROVE  Sorted(targets, N, visit[at])
  <2>. DEFINE key == targets[at.next]
              upstream == visit[Into(reads, at, key)]
              behind == visit[Behind(at, upstream, key)]
              r == visit[at]
  <2>1. /\ \A e : Lighter(targets, e, at) => e \in Places(targets) /\ Fine(e)
        /\ \A e : Lighter(targets, e, at) => visit[e] \in Seq(T) \union {Refused}
    BY <1>2 DEF Traversal, Lighter
  <2>2. /\ Moves(targets, at, key, visit[After(at)], upstream, behind, r)
        /\ Refused \notin Seq(T) /\ r \in Seq(T)
    <3>1. r = Step(targets, reads, visit, at) /\ r \in Seq(T) \union {Refused}
      BY DEF Traversal
    <3>2. \A e : Lighter(targets, e, at) => visit[e] \in Seq(T) \union {Refused}
      BY <2>1
    <3>. HIDE DEF T, Fine
    <3>. QED
      BY <1>2, <3>1, <3>2, StepCases DEF T
  <2>3. /\ at.completed \in Seq(T) /\ Len(targets) \in Nat /\ DOMAIN targets = 1..Len(targets)
        /\ at.next \in 1..Len(targets) + 1
    BY <1>1 DEF Places
  <2>4. /\ at.visiting = {} /\ at.wanted = T /\ InOrder(reads, at.completed)
        /\ Once(at.completed) /\ Sorted(targets, N, at.completed)
    BY <1>2 DEF Sorting
  <2>. HIDE DEF r, behind, upstream, key, T, Fine
  <2>5. CASE at.next = Len(targets) + 1 /\ r = at.completed
    BY <2>4, <2>5 DEF r
  <2>6. CASE at.next \in DOMAIN targets /\ key \in ToSet(at.completed) /\ r = visit[After(at)]
    <3>. DEFINE d == After(at)
    <3>1. /\ Lighter(targets, d, at) /\ d.completed = at.completed
          /\ d.next = at.next + 1 /\ d.wanted = at.wanted /\ d.visiting = at.visiting
      BY <1>1, <2>3, <2>6, AfterLighter DEF T
    <3>2. Continues(at.completed, at.completed)
      BY DEF Continues
    <3>. HIDE DEF d
    <3>3. /\ \A k \in DOMAIN targets : k < at.next + 1 => targets[k] \in ToSet(at.completed)
          /\ \A m \in ToSet(at.completed) :
               \E k \in DOMAIN targets : k < at.next + 1 /\ Needs(N, m, targets[k])
      BY <1>1, <1>2, <2>3, <2>4, <2>6, <3>2, SortedOn DEF key, T
    <3>4. Sorting(targets, reads, N, d)
      BY <2>4, <3>1, <3>3 DEF Sorting, T
    <3>. QED
      BY <1>2, <2>1, <2>6, <3>1, <3>4 DEF Fine, r, d
  <2>7. CASE /\ at.next \in DOMAIN targets /\ key \in T
             /\ key \notin ToSet(at.completed) /\ key \notin at.visiting
             /\ upstream \in Seq(T) /\ r = behind
    <3>. DEFINE b == Append(upstream, key)
                e == Into(reads, at, key)
                d == Behind(at, upstream, key)
    <3>1. /\ Lighter(targets, e, at) /\ e.completed = at.completed /\ e.next = 1
          /\ e.wanted = reads[key] /\ e.visiting = at.visiting \union {key}
      BY <2>7, IntoLighter DEF T
    <3>2. /\ Lighter(targets, d, at) /\ d.completed = b /\ d.next = at.next + 1
          /\ d.wanted = at.wanted /\ d.visiting = at.visiting
      BY <1>1, <2>3, <2>7, AfterLighter DEF T
    <3>. HIDE DEF e, d
    <3>3. Adds(targets, reads, N, e, upstream)
      <4>1. e \in Places(targets) /\ visit[e] = upstream /\ visit[e] # Refused
        BY <2>2, <2>7, <3>1 DEF Lighter, upstream, e
      <4>. QED
        BY <1>1, <2>4, <3>1, <4>1, TraversalAdds
    <3>4. reads[key] \subseteq ToSet(upstream)
      <4>1. reads[key] \subseteq T
        BY <2>7 DEF Plans, T
      <4>2. \A s \in reads[key] : \E i \in 1..Len(targets) : targets[i] = s
        BY <2>3, <4>1 DEF T, ToSet
      <4>. QED
        BY <3>1, <3>3, <4>2 DEF Adds
    <3>5. key \notin ToSet(upstream)
      BY <2>7, <3>1, <3>3 DEF Adds
    <3>6. /\ b \in Seq(T) /\ InOrder(reads, b) /\ Once(b) /\ Continues(upstream, b)
          /\ ToSet(b) = ToSet(upstream) \union {key}
      BY <2>7, <3>3, <3>4, <3>5, AppendOrder, AppendIs DEF Adds
    <3>. HIDE DEF b
    <3>7. Continues(at.completed, b)
      <4>1. Continues(at.completed, upstream)
        BY <3>1, <3>3 DEF Adds
      <4>. QED
        BY <2>3, <2>7, <3>6, <4>1, ContinuesOn
    <3>8. ASSUME NEW m \in ToSet(b) \ ToSet(at.completed)
          PROVE  Needs(N, m, key)
      <4>1. CASE m = key
        BY <4>1 DEF Needs
      <4>2. CASE m \in ToSet(upstream)
        <5>1. PICK w \in reads[key] : Needs(N, m, w)
          BY <3>1, <3>3, <3>8, <4>2 DEF Adds
        <5>2. <<w, key>> \in N
          BY <1>1, <2>7, <5>1 DEF Follows, Plans, T
        <5>3. Transitive(N)
          BY <1>1 DEF Follows
        <5>. QED
          BY <5>1, <5>2, <5>3, TransitivePairs DEF Needs
      <4>. QED
        BY <3>6, <3>8, <4>1, <4>2
    <3>9. /\ Sorted(targets, N, b)
          /\ \A k \in DOMAIN targets : k < at.next + 1 => targets[k] \in ToSet(b)
          /\ \A m \in ToSet(b) :
               \E k \in DOMAIN targets : k < at.next + 1 /\ Needs(N, m, targets[k])
      <4>1. key \in ToSet(b)
        BY <3>6
      <4>. QED
        BY <1>1, <1>2, <2>7, <3>6, <3>7, <3>8, <4>1, SortedOn DEF key, T
    <3>10. Sorting(targets, reads, N, d)
      BY <2>4, <3>2, <3>6, <3>9 DEF Sorting, T
    <3>. QED
      BY <1>2, <2>1, <2>7, <3>2, <3>10 DEF Fine, r, behind, d
  <2>. QED
    BY <1>2, <2>2, <2>4, <2>5, <2>6, <2>7 DEF Moves, T, r
<1>3. Places(targets) \subseteq Good
  <2>1. \A at \in Places(targets) :
          (\A e : Lighter(targets, e, at) => e \in Good) => at \in Good
    BY <1>2
  <2>. HIDE DEF Good, T
  <2>. QED
    BY <1>1, <2>1, TraversalInduction DEF T
<1>. QED
  BY <1>3

LEMMA OrderedSorts ==
  ASSUME NEW targets, NEW reads, Plans(targets, reads), NEW N, Least(reads, N),
         Ordered(targets, reads) # Refused
  PROVE  Sorted(targets, N, Ordered(targets, reads))
<1>. DEFINE T == ToSet(targets)
            start == [visiting |-> {}, wanted |-> T, next |-> 1, completed |-> <<>>]
            r == Ordered(targets, reads)
<1>1. PICK visit : Traversal(targets, reads, visit) /\ r = visit[start]
  BY TraversalExists
<1>2. targets \in Seq(T) /\ Len(targets) \in Nat /\ DOMAIN targets = 1..Len(targets)
  BY DEF Plans
<1>3. /\ start \in Places(targets) /\ start.next = 1 /\ start.wanted = T
      /\ start.visiting = {} /\ start.completed = <<>>
  <2>1. 1 \in 1..Len(targets) + 1 /\ <<>> \in Seq(T)
    BY <1>2
  <2>. QED
    BY <2>1 DEF Places
<1>. HIDE DEF start, r
<1>4. Sorting(targets, reads, N, start)
  <2>1. DOMAIN start.completed = {} /\ ToSet(start.completed) = {}
    BY <1>3, EmptyIs
  <2>2. \A k \in DOMAIN targets : ~(k < start.next)
    BY <1>2, <1>3
  <2>. QED
    BY <1>3, <2>1, <2>2 DEF Sorting, Sorted, InOrder, Once
<1>. QED
  BY <1>1, <1>3, <1>4, TraversalSorts DEF r

\* material_order keeps to the order of its targets where what they read lets it.
LEMMA MaterialOrderSorts ==
  ASSUME NEW graph \in Canvases, NEW targets \in Seq(graph.materials),
         NEW N, LeastSpan(graph, ToSet(targets), N), MaterialOrder(graph, targets) # Refused
  PROVE  Sorted(targets, N, MaterialOrder(graph, targets))
<1>. DEFINE T == ToSet(targets)
            reads == Reads(graph, T)
            r == MaterialOrder(graph, targets)
<1>1. targets \in Seq(T) /\ T \in SUBSET graph.materials /\ Circle \notin T
  BY CircleIsNoMaterial
<1>2. /\ reads \in [T -> SUBSET (T \union {Circle})]
      /\ \A t \in T : Circle \notin reads[t] => reads[t] = {s \in T : Reading(graph, s, t)}
  <2>. HIDE DEF T
  <2>. QED
    BY <1>1, ReadsAre
<1>3. r = IF \E t \in T : Circle \in reads[t] THEN Refused ELSE Ordered(targets, reads)
  BY DEF MaterialOrder
<1>. HIDE DEF reads, r
<1>4. /\ reads \in [T -> SUBSET T] /\ \A t \in T : reads[t] = {s \in T : Reading(graph, s, t)}
      /\ r = Ordered(targets, reads) /\ r # Refused
  BY <1>2, <1>3 DEF r
<1>5. Plans(targets, reads)
  BY <1>1, <1>4 DEF Plans
<1>6. \A P : Follows(reads, P) <=> Spans(graph, T, P)
  <2>. HIDE DEF T
  <2>. QED
    BY <1>4 DEF Follows, Spans
<1>7. Least(reads, N)
  <2>. HIDE DEF T
  <2>. QED
    BY <1>6 DEF Least, LeastSpan, T
<1>. QED
  BY <1>4, <1>5, <1>7, OrderedSorts DEF r

LEMMA BlockOrder ==
  ASSUME NEW from \in Nat, NEW to \in Nat, NEW m \in Nat, NEW n \in Nat,
         NEW p \in 1..m, NEW q \in 1..n, NEW i \in Nat, NEW j \in Nat,
         i < j => from + m <= to, j < i => to + n <= from, i = j => from = to
  PROVE  from + p <= to + q <=> i < j \/ (i = j /\ p <= q)
OBVIOUS

\* Which of two places in joined sequences comes first.
LEMMA Blocks ==
  ASSUME NEW X, NEW seqs \in Seq(Seq(X)), NEW flat \in Seq(X), NEW off, Joined(seqs, flat, off),
         NEW i \in 1..Len(seqs), NEW j \in 1..Len(seqs),
         NEW p \in 1..Len(seqs[i]), NEW q \in 1..Len(seqs[j])
  PROVE  off[i - 1] + p <= off[j - 1] + q <=> i < j \/ (i = j /\ p <= q)
<1>1. /\ \A k, l \in 0..Len(seqs) : k <= l => off[k] <= off[l]
      /\ \A k \in 0..Len(seqs) : off[k] \in Nat
      /\ \A k \in 1..Len(seqs) : off[k] = off[k - 1] + Len(seqs[k])
  <2>1. Placed(seqs, flat, off)
    BY JoinedIs
  <2>. QED
    BY <2>1 DEF Placed, Joined
<1>2. /\ i - 1 \in 0..Len(seqs) /\ j - 1 \in 0..Len(seqs) /\ i \in Nat /\ j \in Nat
      /\ i \in 0..Len(seqs) /\ j \in 0..Len(seqs)
  OBVIOUS
<1>3. Len(seqs[i]) \in Nat /\ Len(seqs[j]) \in Nat
  OBVIOUS
<1>4. ASSUME i < j
      PROVE  off[i - 1] + Len(seqs[i]) <= off[j - 1]
  <2>1. i <= j - 1
    BY <1>2, <1>4
  <2>2. off[i] <= off[j - 1]
    BY <1>1, <1>2, <2>1
  <2>. QED
    BY <1>1, <2>2
<1>5. ASSUME j < i
      PROVE  off[j - 1] + Len(seqs[j]) <= off[i - 1]
  <2>1. j <= i - 1
    BY <1>2, <1>5
  <2>2. off[j] <= off[i - 1]
    BY <1>1, <1>2, <2>1
  <2>. QED
    BY <1>1, <2>2
<1>6. off[i - 1] \in Nat /\ off[j - 1] \in Nat
  BY <1>1, <1>2
<1>. DEFINE from == off[i - 1]
            to == off[j - 1]
            m == Len(seqs[i])
            n == Len(seqs[j])
<1>7. /\ from \in Nat /\ to \in Nat /\ m \in Nat /\ n \in Nat /\ p \in 1..m /\ q \in 1..n
      /\ i < j => from + m <= to
      /\ j < i => to + n <= from
      /\ i = j => from = to
  BY <1>3, <1>4, <1>5, <1>6
<1>. HIDE DEF from, to, m, n
<1>8. from + p <= to + q <=> i < j \/ (i = j /\ p <= q)
  BY <1>2, <1>7, BlockOrder
<1>. QED
  BY <1>8 DEF from, to

\* The plan of a card keeps to the interface of the card.
LEMMA PlanSorts ==
  ASSUME NEW graph \in Canvases, NEW card \in Seq(graph.materials), NEW plan,
         Planned(graph, card, plan), NEW N, LeastSpan(graph, ToSet(card), N),
         NEW u \in DOMAIN plan, NEW v \in DOMAIN plan, u < v,
         NEW a \in DOMAIN card, Needs(N, plan[v], card[a])
  PROVE  \E b \in DOMAIN card : b <= a /\ Needs(N, plan[u], card[b])
<1>1. PICK ordered : /\ ordered = MaterialOrder(graph, card) /\ ordered # Refused
                     /\ Arranged(graph, card, ordered)
                     /\ Filtered(graph, ordered, Len(ordered), plan)
  BY DEF Planned
<1>2. Sorted(card, N, ordered)
  BY <1>1, MaterialOrderSorts
<1>3. PICK i, j \in 1..Len(ordered) : i < j /\ ordered[i] = plan[u] /\ ordered[j] = plan[v]
  BY <1>1 DEF Filtered
<1>4. DOMAIN ordered = 1..Len(ordered)
  BY <1>1 DEF Arranged
<1>5. Needs(N, ordered[j], card[a])
  BY <1>3
<1>. QED
  BY <1>2, <1>3, <1>4, <1>5 DEF Sorted

\* Where in the interface a material is placed: by what needs, in its card, a target
\* that needs the material.
InCards(graph) == UNION {Needed(graph, ToSet(graph.cards[i])) : i \in DOMAIN graph.cards}
PlacedAt(graph, m, k) ==
  \E t \in Wanted(graph) : /\ Needs(Needed(graph, Wanted(graph)), m, t)
                           /\ Needs(InCards(graph), t, Asked(graph)[k])

\* The order of a batch keeps to the interface, card by card.
LEMMA TargetsSort ==
  ASSUME NEW graph \in Canvases, Targets(graph) # Refused
  PROVE  \A p, q \in DOMAIN Targets(graph) : \A k \in DOMAIN Asked(graph) :
           p < q /\ PlacedAt(graph, Targets(graph)[q], k) =>
             \E j \in DOMAIN Asked(graph) : j <= k /\ PlacedAt(graph, Targets(graph)[p], j)
<1>. DEFINE r == Targets(graph)
            cards == graph.cards
            plans == [i \in DOMAIN cards |-> PlanCard(graph, cards[i])]
            flat == FlattenSeq(plans)
            asked == Asked(graph)
            W == Wanted(graph)
            N == Needed(graph, W)
            M == graph.materials
<1>1. /\ r = MaterialOrder(graph, flat) /\ Arranged(graph, flat, r) /\ ToSet(flat) = W
      /\ Refused \notin ToSet(plans)
  BY TargetsAre
<1>2. /\ plans \in Seq(Seq(M)) /\ Len(plans) = Len(cards)
      /\ \A i \in DOMAIN cards :
           /\ Planned(graph, cards[i], plans[i])
           /\ \A m : m \in ToSet(plans[i]) <=> m \in ToSet(cards[i]) /\ Computed(graph, m)
  BY <1>1, PlansAre
<1>3. DOMAIN plans = DOMAIN cards
  OBVIOUS
<1>4. /\ cards \in Seq(Seq(M)) /\ asked = FlattenSeq(cards)
      /\ \A i \in DOMAIN cards : cards[i] \in Seq(M)
  BY CanvasesAssumption DEF Asked
<1>5. LeastSpan(graph, W, N) /\ \A m \in W : Computed(graph, m)
  <2>1. W \in SUBSET graph.materials /\ \A m \in W : Computed(graph, m)
    BY WantedIs
  <2>. HIDE DEF W
  <2>. QED
    BY <2>1, NeededIs
<1>. HIDE DEF r, cards, plans, flat, asked, N, W, M
<1>6. flat \in Seq(M) /\ \E off : Joined(plans, flat, off)
  BY <1>2, FlattenIs DEF flat
<1>7. asked \in Seq(M) /\ \E off : Joined(cards, asked, off)
  BY <1>4, FlattenIs
<1>8. PICK offp : Joined(plans, flat, offp)
  BY <1>6
<1>9. PICK offc : Joined(cards, asked, offc)
  BY <1>7
<1>10. Placed(plans, flat, offp) /\ Placed(cards, asked, offc)
  BY <1>2, <1>4, <1>6, <1>7, <1>8, <1>9, JoinedIs
<1>11. Sorted(flat, N, r)
  BY <1>1, <1>5, <1>6, MaterialOrderSorts DEF r, M
<1>12. /\ DOMAIN cards = 1..Len(cards) /\ DOMAIN plans = 1..Len(plans)
       /\ DOMAIN flat = 1..Len(flat) /\ DOMAIN asked = 1..Len(asked)
       /\ \A i \in DOMAIN cards :
            DOMAIN cards[i] = 1..Len(cards[i]) /\ DOMAIN plans[i] = 1..Len(plans[i])
  BY <1>2, <1>3, <1>4, <1>6, <1>7
<1>13. r \in Seq(W) /\ \A p \in DOMAIN r : r[p] \in W
  BY <1>1 DEF Arranged
<1>16. \A k \in DOMAIN asked : \E i \in DOMAIN cards : \E a \in 1..Len(cards[i]) :
         k = offc[i - 1] + a
  <2>1. DOMAIN asked = 1..Len(asked) /\ DOMAIN cards = 1..Len(cards)
    BY <1>12
  <2>2. \A k \in 1..Len(asked) : \E i \in 1..Len(cards) : \E a \in 1..Len(cards[i]) :
          k = offc[i - 1] + a
    <3>1. Placed(cards, asked, offc)
      BY <1>10
    <3>. QED
      BY <3>1 DEF Placed
  <2>. QED
    BY <2>1, <2>2
<1>17. \A k \in DOMAIN flat : \E i \in DOMAIN cards : \E a \in 1..Len(plans[i]) :
         k = offp[i - 1] + a
  <2>1. DOMAIN flat = 1..Len(flat) /\ DOMAIN cards = 1..Len(plans)
    BY <1>3, <1>12
  <2>2. \A k \in 1..Len(flat) : \E i \in 1..Len(plans) : \E a \in 1..Len(plans[i]) :
          k = offp[i - 1] + a
    <3>1. Placed(plans, flat, offp)
      BY <1>10
    <3>. QED
      BY <3>1 DEF Placed
  <2>. QED
    BY <2>1, <2>2
<1>14. \A i, j \in DOMAIN cards : i # j => ToSet(cards[i]) \intersect ToSet(cards[j]) = {}
  BY CanvasesAssumption DEF cards
<1>18. ASSUME NEW p \in DOMAIN r, NEW q \in DOMAIN r, NEW k \in DOMAIN asked, p < q,
              NEW t \in W, Needs(N, r[q], t), Needs(InCards(graph), t, asked[k])
       PROVE  \E j \in DOMAIN asked : j <= k /\
                \E s \in W : Needs(N, r[p], s) /\ Needs(InCards(graph), s, asked[j])
  <2>i. PICK i \in DOMAIN cards : \E a \in 1..Len(cards[i]) : k = offc[i - 1] + a
    BY <1>16
  <2>a. PICK a \in 1..Len(cards[i]) : k = offc[i - 1] + a
    BY <2>i
  <2>2. k = offc[i - 1] + a /\ cards[i][a] = asked[k]
    BY <1>10, <1>12, <2>a DEF Placed
  <2>. DEFINE Ni == Needed(graph, ToSet(cards[i]))
  <2>n. LeastSpan(graph, ToSet(cards[i]), Ni)
    <3>1. ToSet(cards[i]) \in SUBSET graph.materials
      BY <1>4, CircleIsNoMaterial DEF M
    <3>. QED
      BY <3>1, NeededIs
  <2>m. \A l \in DOMAIN cards :
          Needed(graph, ToSet(cards[l])) \subseteq ToSet(cards[l]) \X ToSet(cards[l])
    <3>1. \A l \in DOMAIN cards : ToSet(cards[l]) \in SUBSET graph.materials
      BY <1>4, CircleIsNoMaterial DEF M
    <3>. QED
      BY <3>1, NeededIs
  <2>o. Ni \subseteq InCards(graph)
    BY DEF InCards, cards
  <2>1. t \in ToSet(cards[i]) /\ Needs(Ni, t, cards[i][a])
    <3>1. asked[k] \in ToSet(cards[i])
      BY <1>12, <2>2 DEF ToSet
    <3>2. CASE t = asked[k]
      BY <2>2, <3>1, <3>2 DEF Needs
    <3>3. CASE <<t, asked[k]>> \in InCards(graph)
      <4>1. PICK l \in DOMAIN cards : <<t, asked[k]>> \in Needed(graph, ToSet(cards[l]))
        BY <3>3 DEF InCards, cards
      <4>2. t \in ToSet(cards[l]) /\ asked[k] \in ToSet(cards[l])
        BY <2>m, <4>1
      <4>3. l = i
        BY <1>14, <3>1, <4>2
      <4>. QED
        BY <2>2, <4>1, <4>2, <4>3 DEF Needs
    <3>. QED
      BY <1>18, <3>2, <3>3 DEF Needs
  <2>. HIDE DEF Ni
  <2>3. PICK v \in 1..Len(plans[i]) : plans[i][v] = t
    <3>1. t \in ToSet(plans[i])
      BY <1>2, <1>5, <2>1
    <3>. QED
      BY <1>12, <3>1 DEF ToSet
  <2>4. offp[i - 1] + v \in DOMAIN flat /\ flat[offp[i - 1] + v] = t
    BY <1>2, <1>10, <1>12, <2>3 DEF Placed
  <2>5. PICK g \in DOMAIN flat : g <= offp[i - 1] + v /\ Needs(N, r[p], flat[g])
    BY <1>11, <1>18, <2>4 DEF Sorted
  <2>c. PICK c \in DOMAIN cards : \E u \in 1..Len(plans[c]) : g = offp[c - 1] + u
    BY <1>17
  <2>u. PICK u \in 1..Len(plans[c]) : g = offp[c - 1] + u
    BY <2>c
  <2>6. g = offp[c - 1] + u /\ plans[c][u] = flat[g]
    BY <1>3, <1>10, <1>12, <2>u DEF Placed
  <2>7. c < i \/ (c = i /\ u <= v)
    <3>1. c \in 1..Len(plans) /\ i \in 1..Len(plans)
      BY <1>3, <1>12
    <3>. QED
      BY <1>2, <1>6, <1>8, <2>3, <2>5, <2>6, <3>1, Blocks
  <2>8. \A b \in 1..Len(cards[c]) :
          /\ offc[c - 1] + b \in DOMAIN asked /\ asked[offc[c - 1] + b] = cards[c][b]
          /\ c < i \/ (c = i /\ b <= a) => offc[c - 1] + b <= k
    <3>1. \A b \in 1..Len(cards[c]) :
            offc[c - 1] + b \in DOMAIN asked /\ asked[offc[c - 1] + b] = cards[c][b]
      BY <1>10, <1>12 DEF Placed
    <3>2. \A b \in 1..Len(cards[c]) : c < i \/ (c = i /\ b <= a) => offc[c - 1] + b <= k
      BY <1>4, <1>7, <1>9, <1>12, <2>2, Blocks
    <3>. QED
      BY <3>1, <3>2
  <2>9. plans[c][u] \in ToSet(cards[c]) /\ plans[c][u] \in W
    <3>1. plans[c][u] \in ToSet(plans[c])
      BY <1>12 DEF ToSet
    <3>2. plans[c][u] \in ToSet(flat)
      BY <2>6 DEF ToSet
    <3>. QED
      BY <1>1, <1>2, <3>1, <3>2
  <2>. DEFINE s == plans[c][u]
  <2>f. s \in W /\ Needs(N, r[p], s)
    BY <2>5, <2>6, <2>9
  <2>. HIDE DEF s
  <2>10. CASE c < i
    <3>1. PICK b \in 1..Len(cards[c]) : cards[c][b] = s
      BY <1>12, <2>9 DEF ToSet, s
    <3>2. Needs(InCards(graph), s, asked[offc[c - 1] + b])
      BY <2>8, <3>1 DEF Needs
    <3>. QED
      BY <2>8, <2>10, <2>f, <3>1, <3>2
  <2>11. CASE c = i /\ u = v
    <3>1. s = t /\ k <= k
      BY <1>12, <2>3, <2>11 DEF s
    <3>. QED
      BY <1>18, <2>f, <3>1
  <2>12. CASE c = i /\ u < v
    <3>2. PICK b \in DOMAIN cards[i] : b <= a /\ Needs(Ni, s, cards[i][b])
      <4>1. cards[i] \in Seq(graph.materials) /\ Planned(graph, cards[i], plans[i])
        BY <1>2, <1>4 DEF M
      <4>2. /\ u \in DOMAIN plans[i] /\ v \in DOMAIN plans[i] /\ u < v
            /\ a \in DOMAIN cards[i] /\ Needs(Ni, plans[i][v], cards[i][a])
        BY <1>12, <2>1, <2>3, <2>12
      <4>3. \E b \in DOMAIN cards[i] : b <= a /\ Needs(Ni, plans[i][u], cards[i][b])
        BY <2>n, <4>1, <4>2, PlanSorts
      <4>. QED
        BY <2>12, <4>3 DEF s
    <3>3. Needs(InCards(graph), s, cards[i][b])
      BY <2>o, <3>2 DEF Needs
    <3>4. /\ offc[c - 1] + b \in DOMAIN asked /\ asked[offc[c - 1] + b] = cards[i][b]
          /\ offc[c - 1] + b <= k
      BY <1>12, <2>8, <2>12, <3>2
    <3>. QED
      BY <2>f, <3>3, <3>4
  <2>13. c < i \/ (c = i /\ u = v) \/ (c = i /\ u < v)
    BY <2>7
  <2>. QED
    BY <2>10, <2>11, <2>12, <2>13
<1>. QED
  BY <1>18 DEF PlacedAt, asked, N, W, r

-----------------------------------------------------------------------------
(* The theorems.                                                            *)

\* Where nothing is twice, there are as many places as elements.
LEMMA OnceCounts ==
  ASSUME NEW X, NEW r \in Seq(X), Once(r)
  PROVE  Len(r) = Cardinality(ToSet(r))
<1>. DEFINE T == ToSet(r)
            n == Len(r)
<1>1. n \in Nat /\ DOMAIN r = 1..n /\ r = [p \in 1..n |-> r[p]]
  OBVIOUS
<1>2. \A p \in 1..n : r[p] \in T
  BY <1>1 DEF ToSet
<1>3. \A m \in T : \E p \in 1..n : r[p] = m
  BY <1>1 DEF ToSet
<1>. HIDE DEF T
<1>4. r \in [1..n -> T]
  BY <1>1, <1>2
<1>5. r \in Surjection(1..n, T)
  BY <1>3, <1>4 DEF Surjection
<1>6. r \in Injection(1..n, T)
  BY <1>1, <1>4 DEF Injection, IsInjective, Once
<1>7. IsFiniteSet(1..n) /\ Cardinality(1..n) = n
  <2>. HIDE DEF n
  <2>1. 1 \in Int /\ n \in Int /\ n \in Nat
    BY <1>1
  <2>2. IsFiniteSet(1..n) /\ Cardinality(1..n) = IF 1 > n THEN 0 ELSE n - 1 + 1
    BY <2>1, FS_Interval
  <2>. QED
    BY <2>1, <2>2
<1>. QED
  BY <1>5, <1>6, <1>7, FS_Surjection DEF T

\* What planning finds does not change.
LEMMA DrawnStays == ASSUME Drawn, [UNCHANGED drawn]_drawn PROVE Drawn'
BY DEF Drawn

\* Whatever the canvas, material_order and plan_card refuse a batch, before anything
\* runs, exactly if what it generates reads itself, by whatever input, or the materials
\* of one of its cards do, or hang on ordinary nodes that do.
THEOREM RefusesCircles == Planning => []CirclesRefused
<1>1. Drawn => CirclesRefused
  <2>. SUFFICES ASSUME drawn \in Canvases
                PROVE  (\E T \in Scopes(drawn) : Circular(drawn, T)) <=> Targets(drawn) = Refused
    BY DEF Drawn, CirclesRefused
  <2>. QED
    BY TargetsAre
<1>. QED
  BY <1>1, DrawnStays, PTL DEF Planning

\* Whatever the canvas, a batch that is not refused has every material it generates
\* as a target once, behind all the targets that the material reads by any input.
THEOREM DependenciesComeFirst == Planning => []DependenciesFirst
<1>1. Drawn => DependenciesFirst
  <2>. DEFINE r == Targets(drawn)
              W == Wanted(drawn)
  <2>. SUFFICES ASSUME drawn \in Canvases, r # Refused
                PROVE  /\ ToSet(r) = W /\ Len(r) = Cardinality(W)
                       /\ \A i, j \in DOMAIN r : <<r[i], r[j]>> \in ReadPairs(drawn, W) => i < j
    BY DEF Drawn, DependenciesFirst
  <2>1. PICK targets : Arranged(drawn, targets, r) /\ ToSet(targets) = W
    BY TargetsAre
  <2>. HIDE DEF r
  <2>2. W \in SUBSET drawn.materials
    BY WantedIs
  <2>. HIDE DEF W
  <2>6. ReadPairs(drawn, W) = {p \in W \X W : Reading(drawn, p[1], p[2])}
    BY <2>2, NeededIs
  <2>3. /\ r \in Seq(W) /\ ToSet(r) = W /\ Once(r)
        /\ \A p \in DOMAIN r : \A s \in W : Reading(drawn, s, r[p]) =>
             \E q \in DOMAIN r : q < p /\ r[q] = s
    BY <2>1 DEF Arranged
  <2>4. Len(r) = Cardinality(W)
    BY <2>3, OnceCounts
  <2>5. ASSUME NEW i \in DOMAIN r, NEW j \in DOMAIN r, <<r[i], r[j]>> \in ReadPairs(drawn, W)
        PROVE  i < j
    <3>1. r[i] \in W /\ Reading(drawn, r[i], r[j])
      BY <2>5, <2>6
    <3>2. PICK q \in DOMAIN r : q < j /\ r[q] = r[i]
      BY <2>3, <3>1
    <3>. QED
      BY <2>3, <3>2 DEF Once
  <2>. QED
    BY <2>3, <2>4, <2>5
<1>. QED
  BY <1>1, DrawnStays, PTL DEF Planning

\* Whatever the canvas, the interface decides what the dependencies leave open: the
\* targets of a batch that is not refused come in the order of their first places, where
\* a material of the interface needs, in its card, a target that needs them.
THEOREM KeepsInterfaceOrder == Planning => []InterfaceOrder
<1>1. Drawn => InterfaceOrder
  <2>. DEFINE r == Targets(drawn)
              W == Wanted(drawn)
              N == Needed(drawn, W)
              asked == Asked(drawn)
              NeededBy(m) ==
                {i \in DOMAIN asked : \E t \in W :
                   /\ t = m \/ <<m, t>> \in N
                   /\ t = asked[i] \/ <<t, asked[i]>> \in InCards(drawn)}
              First(m) == CHOOSE i \in NeededBy(m) : \A j \in NeededBy(m) : i <= j
  <2>. SUFFICES ASSUME drawn \in Canvases, r # Refused
                PROVE  \A i, j \in DOMAIN r : i < j => First(r[i]) <= First(r[j])
    BY DEF Drawn, InterfaceOrder, InCards
  <2>1. \A m, k : k \in NeededBy(m) <=> k \in DOMAIN asked /\ PlacedAt(drawn, m, k)
    BY DEF PlacedAt, Needs
  <2>2. \A p, q \in DOMAIN r : \A k \in DOMAIN asked :
          p < q /\ PlacedAt(drawn, r[q], k) =>
            \E j \in DOMAIN asked : j <= k /\ PlacedAt(drawn, r[p], j)
    BY TargetsSort
  <2>3. ToSet(r) = W
    BY TargetsAre DEF Arranged
  <2>4. DOMAIN asked \in SUBSET Nat /\ \A m \in W : \E i \in DOMAIN asked : asked[i] = m
    <3>1. drawn.cards \in Seq(Seq(drawn.materials))
      BY CanvasesAssumption
    <3>2. asked \in Seq(drawn.materials)
      BY <3>1, FlattenIs DEF Asked
    <3>3. W \subseteq ToSet(asked)
      BY DEF Wanted
    <3>. HIDE DEF asked
    <3>. QED
      BY <3>2, <3>3 DEF ToSet
  <2>5. \A m \in W : NeededBy(m) # {}
    <3>1. ASSUME NEW m \in W
          PROVE  NeededBy(m) # {}
      <4>1. PICK i \in DOMAIN asked : asked[i] = m
        BY <2>4
      <4>2. i \in NeededBy(m)
        BY <4>1
      <4>. QED
        BY <4>2
    <3>. QED
      BY <3>1
  <2>. HIDE DEF r, W, N, asked, NeededBy
  <2>6. \A m \in W : /\ First(m) \in NeededBy(m) /\ First(m) \in Nat
                     /\ \A k \in NeededBy(m) : First(m) <= k
    <3>. SUFFICES ASSUME NEW m \in W
                  PROVE  \E i \in NeededBy(m) : i \in Nat /\ \A k \in NeededBy(m) : i <= k
      BY <2>1, <2>4
    <3>1. NeededBy(m) \in SUBSET Nat /\ NeededBy(m) # {}
      BY <2>1, <2>4, <2>5
    <3>2. PICK i \in NeededBy(m) : \A k \in NeededBy(m) : ~(k < i)
      BY <3>1, Smallest
    <3>. QED
      BY <3>1, <3>2
  <2>. HIDE DEF First
  <2>7. ASSUME NEW i \in DOMAIN r, NEW j \in DOMAIN r, i < j
        PROVE  First(r[i]) <= First(r[j])
    <3>1. r[i] \in W /\ r[j] \in W
      BY <2>3 DEF ToSet
    <3>2. First(r[j]) \in DOMAIN asked /\ PlacedAt(drawn, r[j], First(r[j]))
      BY <2>1, <2>6, <3>1
    <3>3. PICK k \in DOMAIN asked : k <= First(r[j]) /\ PlacedAt(drawn, r[i], k)
      BY <2>2, <2>7, <3>2
    <3>4. k \in Nat /\ First(r[i]) <= k
      BY <2>1, <2>4, <2>6, <3>1, <3>3
    <3>. QED
      BY <2>6, <3>1, <3>3, <3>4
  <2>. QED
    BY <2>7
<1>. QED
  BY <1>1, DrawnStays, PTL DEF Planning
=============================================================================
