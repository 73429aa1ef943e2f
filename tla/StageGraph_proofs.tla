-------------------------- MODULE StageGraph_proofs --------------------------
(***************************************************************************)
(* Lemmas about the operators of StageBarrier: what Closure returns, and   *)
(* that the latest phase and the assignment of phases exist.               *)
(*                                                                         *)
(* Both rest on the assumption that prompts have no cycles.  The library's *)
(* induction theorems take operators; here the least counterexample of a   *)
(* set of numbers stands for them.                                         *)
(***************************************************************************)
EXTENDS StageBarrier, TLAPS, WellFoundedInduction, FiniteSetTheorems

-----------------------------------------------------------------------------
(* Numbers and finite sets.                                                 *)

\* A set of numbers has a smallest one.
LEMMA Smallest ==
  ASSUME NEW S \in SUBSET Nat, S # {}
  PROVE  \E s \in S : \A r \in S : ~(r < s)
<1>1. PICK s \in S : \A r \in S : ~(<<r, s>> \in OpToRel(<, Nat))
  BY NatLessThanWellFounded, WFMin
<1>2. \A r \in S : r < s => <<r, s>> \in OpToRel(<, Nat)
  BY DEF OpToRel
<1>. QED
  BY <1>1, <1>2

\* A finite set has a topmost element in every order.
LEMMA Topmost ==
  ASSUME NEW S, IsFiniteSet(S), S # {}, NEW R,
         \A a \in S : <<a, a>> \notin R,
         \A a, b, c \in S : <<a, b>> \in R /\ <<b, c>> \in R => <<a, c>> \in R
  PROVE  \E a \in S : \A b \in S : <<a, b>> \notin R
<1>. DEFINE Up(a) == {b \in S : <<a, b>> \in R}
            Sizes == {Cardinality(Up(a)) : a \in S}
<1>1. \A a \in S : IsFiniteSet(Up(a)) /\ Cardinality(Up(a)) \in Nat
  <2> SUFFICES ASSUME NEW a \in S PROVE IsFiniteSet(Up(a)) /\ Cardinality(Up(a)) \in Nat
    OBVIOUS
  <2>1. Up(a) \in SUBSET S
    OBVIOUS
  <2>2. IsFiniteSet(Up(a))
    BY <2>1, FS_Subset
  <2>. QED
    BY <2>2, FS_CardinalityType
<1>2. Sizes \in SUBSET Nat /\ Sizes # {}
  <2>1. ASSUME NEW a \in S PROVE Cardinality(Up(a)) \in Nat
    BY <1>1
  <2>. HIDE DEF Up
  <2>. QED
    BY <2>1
<1>3. PICK n \in Sizes : \A m \in Sizes : ~(m < n)
  BY <1>2, Smallest
<1>4. PICK a \in S : n = Cardinality(Up(a))
  OBVIOUS
<1>5. ASSUME NEW b \in S, <<a, b>> \in R PROVE FALSE
  <2>1. Up(b) \in SUBSET Up(a) /\ b \in Up(a) /\ b \notin Up(b)
    BY <1>5
  <2>2. Cardinality(Up(b)) <= Cardinality(Up(a)) /\ Cardinality(Up(b)) # Cardinality(Up(a))
    BY <1>1, <2>1, FS_Subset
  <2>3. Cardinality(Up(b)) \in Sizes
    OBVIOUS
  <2>. HIDE DEF Up, Sizes
  <2>. QED
    BY <1>1, <1>3, <1>4, <2>2, <2>3
<1>. QED
  BY <1>5

-----------------------------------------------------------------------------
(* The closure of nodes under links.                                       *)

\* The sets that Closure goes through: what reaches nodes in at most i links.
Path(p, j, x, nodes, kind) ==
  p[0] = x /\ p[j] \in nodes /\ \A k \in 0..j-1 : <<p[k], p[k + 1]>> \in kind

Within(nodes, kind, i) ==
  {x \in Nodes : \E j \in 0..i : \E p \in [0..j -> Nodes] : Path(p, j, x, nodes, kind)}

\* No link reaches the nodes themselves only.
LEMMA WithinZero ==
  ASSUME NEW nodes \in SUBSET Nodes, NEW kind
  PROVE  Within(nodes, kind, 0) = nodes
<1>1. ASSUME NEW x \in nodes PROVE x \in Within(nodes, kind, 0)
  <2>. DEFINE p == [k \in 0..0 |-> x]
  <2>1. p \in [0..0 -> Nodes] /\ 0 \in 0..0
    OBVIOUS
  <2>2. Path(p, 0, x, nodes, kind)
    BY DEF Path
  <2>. HIDE DEF p
  <2>. QED
    BY <2>1, <2>2 DEF Within
<1>2. ASSUME NEW x \in Within(nodes, kind, 0) PROVE x \in nodes
  BY DEF Within, Path
<1>. QED
  BY <1>1, <1>2

\* A path of one link more starts at an input of a shorter one.
LEMMA WithinStep ==
  ASSUME NEW nodes \in SUBSET Nodes, NEW kind, NEW i \in Nat \ {0}
  PROVE  Within(nodes, kind, i) =
           Within(nodes, kind, i - 1) \union Inputs(Within(nodes, kind, i - 1), kind)
<1>1. ASSUME NEW x \in Within(nodes, kind, i), x \notin Within(nodes, kind, i - 1)
      PROVE  x \in Inputs(Within(nodes, kind, i - 1), kind)
  <2>0. PICK j \in 0..i : \E p \in [0..j -> Nodes] : Path(p, j, x, nodes, kind)
    BY <1>1 DEF Within
  <2>1. PICK p \in [0..j -> Nodes] : Path(p, j, x, nodes, kind)
    BY <2>0
  <2>2. x \in Nodes /\ j = i
    <3>1. CASE j \in 0..i-1
      BY <1>1, <2>1, <3>1 DEF Within
    <3>. QED
      BY <2>1, <3>1 DEF Within
  <2>. DEFINE q == [k \in 0..i-1 |-> p[k + 1]]
  <2>3. q \in [0..i-1 -> Nodes] /\ q[0] = p[1] /\ q[i - 1] = p[i]
    BY <2>1, <2>2 DEF Path
  <2>4. \A k \in 0..(i-1)-1 : q[k] = p[k + 1] /\ q[k + 1] = p[(k + 1) + 1] /\ k + 1 \in 0..j-1
    BY <2>2
  <2>. HIDE DEF q
  <2>5. Path(q, i - 1, p[1], nodes, kind)
    BY <2>1, <2>2, <2>3, <2>4 DEF Path
  <2>6. p[1] \in Nodes /\ <<x, p[1]>> \in kind
    BY <2>1, <2>2 DEF Path
  <2>7. p[1] \in Within(nodes, kind, i - 1)
    BY <2>3, <2>5, <2>6, i - 1 \in 0..i-1 DEF Within
  <2>. QED
    BY <2>2, <2>6, <2>7 DEF Inputs
<1>2. ASSUME NEW x \in Within(nodes, kind, i - 1) PROVE x \in Within(nodes, kind, i)
  <2>1. 0..i-1 \subseteq 0..i
    OBVIOUS
  <2>. QED
    BY <2>1 DEF Within
<1>3. ASSUME NEW x \in Inputs(Within(nodes, kind, i - 1), kind)
      PROVE  x \in Within(nodes, kind, i)
  <2>1. PICK y \in Within(nodes, kind, i - 1) : x \in Nodes /\ <<x, y>> \in kind
    BY DEF Inputs
  <2>0. PICK j \in 0..i-1 : \E p \in [0..j -> Nodes] : Path(p, j, y, nodes, kind)
    BY <2>1 DEF Within
  <2>2. PICK p \in [0..j -> Nodes] : Path(p, j, y, nodes, kind)
    BY <2>0
  <2>. DEFINE q == [k \in 0..j+1 |-> IF k = 0 THEN x ELSE p[k - 1]]
  <2>3. q \in [0..j+1 -> Nodes] /\ q[0] = x /\ q[1] = y /\ q[j + 1] = p[j]
    BY <2>1, <2>2 DEF Path
  <2>4. ASSUME NEW k \in 0..(j+1)-1 PROVE <<q[k], q[k + 1]>> \in kind
    <3>1. CASE k = 0
      BY <2>1, <2>3, <3>1
    <3>2. CASE k # 0
      <4>1. k - 1 \in 0..j-1 /\ q[k] = p[k - 1] /\ q[k + 1] = p[(k - 1) + 1]
        BY <2>2, <3>2
      <4>. QED
        BY <4>1, <2>2 DEF Path
    <3>. QED
      BY <3>1, <3>2
  <2>. HIDE DEF q
  <2>5. Path(q, j + 1, x, nodes, kind)
    BY <2>2, <2>3, <2>4 DEF Path
  <2>6. j + 1 \in 0..i
    OBVIOUS
  <2>. QED
    BY <2>1, <2>3, <2>5, <2>6 DEF Within
<1>. QED
  BY <1>1, <1>2, <1>3

\* Closure is what reaches nodes in as many links as there are nodes.
LEMMA ClosureIs ==
  ASSUME NEW nodes \in SUBSET Nodes, NEW kind
  PROVE  Closure(nodes, kind) = Within(nodes, kind, Cardinality(Nodes))
<1>. DEFINE more == [found \in SUBSET Nodes |-> found \union Inputs(found, kind)]
            Def(f) == f = [i \in Nat |-> IF i = 0 THEN nodes ELSE more[f[i - 1]]]
            g == [i \in Nat |-> Within(nodes, kind, i)]
            reach == CHOOSE f : Def(f)
<1>1. \A i \in Nat : g[i] \in SUBSET Nodes
  BY DEF Within
<1>2. Def(g)
  <2>1. ASSUME NEW i \in Nat
        PROVE  g[i] = IF i = 0 THEN nodes ELSE more[g[i - 1]]
    <3>1. CASE i = 0
      BY <3>1, WithinZero
    <3>2. CASE i # 0
      <4>1. i - 1 \in Nat /\ i \in Nat \ {0}
        BY <3>2
      <4>2. more[g[i - 1]] = g[i - 1] \union Inputs(g[i - 1], kind)
        BY <1>1, <4>1
      <4>3. g[i - 1] = Within(nodes, kind, i - 1)
        BY <4>1
      <4>. QED
        BY <3>2, <4>1, <4>2, <4>3, WithinStep
    <3>. QED
      BY <3>1, <3>2
  <2>. QED
    BY <2>1
<1>3. Def(reach)
  BY <1>2
<1>. HIDE DEF reach, g
<1>4. \A i \in Nat : reach[i] = IF i = 0 THEN nodes ELSE more[reach[i - 1]]
  BY <1>3
<1>5. \A i \in Nat : g[i] = IF i = 0 THEN nodes ELSE more[g[i - 1]]
  BY <1>2
<1>6. \A i \in Nat : reach[i] = g[i]
  <2>. DEFINE S == {i \in Nat : reach[i] # g[i]}
  <2>. SUFFICES ASSUME S # {} PROVE FALSE
    OBVIOUS
  <2>1. PICK s \in S : \A r \in S : ~(r < s)
    BY Smallest
  <2>2. s # 0
    BY <1>4, <1>5, <2>1
  <2>3. s - 1 \in Nat /\ s - 1 < s
    BY <2>1, <2>2
  <2>4. reach[s - 1] = g[s - 1]
    BY <2>1, <2>3
  <2>5. s \in Nat /\ reach[s] # g[s]
    BY <2>1
  <2>6. reach[s] = more[reach[s - 1]] /\ g[s] = more[g[s - 1]]
    BY <1>4, <1>5, <2>2, <2>5
  <2>. QED
    BY <2>4, <2>5, <2>6
<1>7. Cardinality(Nodes) \in Nat
  BY PromptsAssumption, FS_CardinalityType
<1>8. Closure(nodes, kind) = Nodes \intersect reach[Cardinality(Nodes)]
  BY DEF Closure, reach
<1>9. g[Cardinality(Nodes)] = Within(nodes, kind, Cardinality(Nodes))
  BY <1>7 DEF g
<1>. QED
  BY <1>6, <1>7, <1>8, <1>9, <1>1

\* A set of links without cycles: it leads upwards in some numbering of the nodes.
Ranked(kind) ==
  \E rank \in [Nodes -> 1..Cardinality(Nodes)] : \A l \in kind : rank[l[1]] < rank[l[2]]

\* There is a number of nodes.
LEMMA CardinalityType == Cardinality(Nodes) \in Nat
BY PromptsAssumption, FS_CardinalityType

\* These sets are nodes, and hold the first ones.
LEMMA WithinType ==
  ASSUME NEW nodes \in SUBSET Nodes, NEW kind, NEW i \in Nat
  PROVE  nodes \subseteq Within(nodes, kind, i) /\ Within(nodes, kind, i) \subseteq Nodes
<1>1. Within(nodes, kind, 0) \subseteq Within(nodes, kind, i)
  <2>1. 0..0 \subseteq 0..i
    OBVIOUS
  <2>. QED
    BY <2>1 DEF Within
<1>. QED
  BY <1>1, WithinZero DEF Within

\* The nodes themselves are in their closure, and all of it are nodes.
LEMMA ClosureHolds ==
  ASSUME NEW nodes \in SUBSET Nodes, NEW kind
  PROVE  nodes \subseteq Closure(nodes, kind) /\ Closure(nodes, kind) \subseteq Nodes
BY WithinType, ClosureIs, CardinalityType

\* More nodes have a larger closure.
LEMMA ClosureGrows ==
  ASSUME NEW nodes \in SUBSET Nodes, NEW more \in SUBSET Nodes, nodes \subseteq more, NEW kind
  PROVE  Closure(nodes, kind) \subseteq Closure(more, kind)
<1>1. \A p, j, x : Path(p, j, x, nodes, kind) => Path(p, j, x, more, kind)
  BY DEF Path
<1>. QED
  BY <1>1, ClosureIs DEF Within

\* It is the least set with the nodes and, with a node, what leads to it.
LEMMA ClosureLeast ==
  ASSUME NEW nodes \in SUBSET Nodes, NEW kind, NEW S, nodes \subseteq S,
         \A x \in Nodes, y \in S : <<x, y>> \in kind => x \in S
  PROVE  Closure(nodes, kind) \subseteq S
<1>. DEFINE W(i) == Within(nodes, kind, i)
            B == {i \in Nat : ~(W(i) \subseteq S)}
<1>1. B = {}
  <2>. SUFFICES ASSUME B # {} PROVE FALSE
    OBVIOUS
  <2>1. PICK i \in B : \A j \in B : ~(j < i)
    BY Smallest
  <2>2. i \in Nat /\ ~(W(i) \subseteq S)
    OBVIOUS
  <2>3. i # 0
    BY <2>2, WithinZero
  <2>4. i - 1 \in Nat /\ i - 1 < i /\ i \in Nat \ {0}
    BY <2>2, <2>3
  <2>5. W(i - 1) \subseteq S
    BY <2>1, <2>4
  <2>6. W(i) = W(i - 1) \union Inputs(W(i - 1), kind)
    BY <2>4, WithinStep
  <2>7. Inputs(W(i - 1), kind) \subseteq S
    BY <2>5 DEF Inputs
  <2>. QED
    BY <2>2, <2>5, <2>6, <2>7
<1>2. Cardinality(Nodes) \notin B
  BY <1>1
<1>. QED
  BY <1>2, ClosureIs, CardinalityType

\* Without cycles, the inputs of a closure are in it: what a step adds to the
\* nodes that reach the first ones is lower by one rank at least, and after as
\* many steps as there are nodes nothing is left to add.
LEMMA ClosureClosed ==
  ASSUME NEW nodes \in SUBSET Nodes, NEW kind, Ranked(kind),
         NEW x \in Nodes, NEW y \in Closure(nodes, kind), <<x, y>> \in kind
  PROVE  x \in Closure(nodes, kind)
<1>. DEFINE N == Cardinality(Nodes)
            W(i) == Within(nodes, kind, i)
<1>1. PICK rank \in [Nodes -> 1..N] : \A l \in kind : rank[l[1]] < rank[l[2]]
  BY DEF Ranked
<1>2. N \in Nat
  BY CardinalityType
<1>3. \A i \in Nat : W(i + 1) = W(i) \union Inputs(W(i), kind)
  <2> SUFFICES ASSUME NEW i \in Nat PROVE W(i + 1) = W(i) \union Inputs(W(i), kind)
    OBVIOUS
  <2>1. i + 1 \in Nat \ {0} /\ (i + 1) - 1 = i
    OBVIOUS
  <2>. QED
    BY <2>1, WithinStep
<1>4. \A i \in Nat : W(i) \subseteq Nodes
  BY WithinType
<1>5. \A z \in Nodes : rank[z] \in 1..N
  OBVIOUS
<1>6. \A a, b \in Nodes : <<a, b>> \in kind => rank[a] < rank[b]
  BY <1>1
<1>. HIDE DEF N, W
<1>7. \A i \in Nat : \A z \in W(i + 1) \ W(i) : rank[z] <= N - (i + 1)
  <2>. DEFINE S == {i \in Nat : \E z \in W(i + 1) \ W(i) : ~(rank[z] <= N - (i + 1))}
  <2>. SUFFICES ASSUME S # {} PROVE FALSE
    OBVIOUS
  <2>1. PICK i \in S : \A j \in S : ~(j < i)
    BY Smallest
  <2>2. i \in Nat
    OBVIOUS
  <2>3. PICK z \in W(i + 1) \ W(i) : ~(rank[z] <= N - (i + 1))
    BY <2>1
  <2>4. z \in Inputs(W(i), kind)
    BY <2>2, <2>3, <1>3
  <2>5. PICK v \in W(i) : <<z, v>> \in kind /\ z \in Nodes
    BY <2>4 DEF Inputs
  <2>6. v \in Nodes /\ rank[z] < rank[v] /\ rank[v] \in 1..N /\ rank[z] \in 1..N
    BY <2>2, <2>5, <1>4, <1>5, <1>6
  <2>7. CASE i = 0
    BY <2>3, <2>6, <2>7, <1>2
  <2>8. CASE i # 0
    <3>1. i - 1 \in Nat /\ (i - 1) + 1 = i /\ i - 1 < i
      BY <2>2, <2>8
    <3>2. i - 1 \notin S
      BY <2>1, <3>1
    <3>3. v \notin W(i - 1)
      <4>1. v \in W(i - 1) => z \in W(i)
        BY <2>5, <3>1, <1>3 DEF Inputs
      <4>. QED
        BY <4>1, <2>3
    <3>4. v \in W((i - 1) + 1) \ W(i - 1)
      BY <2>5, <3>1, <3>3
    <3>5. rank[v] <= N - ((i - 1) + 1)
      BY <3>1, <3>2, <3>4
    <3>. QED
      BY <3>5, <2>2, <2>3, <2>6, <1>2
  <2>. QED
    BY <2>7, <2>8
<1>8. W(N + 1) \subseteq W(N)
  <2> SUFFICES ASSUME NEW z \in W(N + 1) \ W(N) PROVE FALSE
    OBVIOUS
  <2>1. rank[z] <= N - (N + 1) /\ z \in Nodes
    BY <1>2, <1>4, <1>7
  <2>. QED
    BY <2>1, <1>2, <1>5
<1>9. Closure(nodes, kind) = W(N)
  BY ClosureIs DEF W, N
<1>10. x \in W(N + 1)
  BY <1>2, <1>3, <1>9 DEF Inputs
<1>. QED
  BY <1>8, <1>9, <1>10

-----------------------------------------------------------------------------
(* Phases.                                                                  *)

\* A phase with its numbers, or NoPhase.
Phases == Rounds \X Rounds

\* The order of phases is total and transitive.
LEMMA PhaseOrder ==
  ASSUME NEW p \in Phases, NEW q \in Phases, NEW s \in Phases
  PROVE  /\ AtMost(p, q) \/ AtMost(q, p)
         /\ AtMost(p, q) /\ AtMost(q, s) => AtMost(p, s)
<1>1. PICK a \in Rounds, b \in Rounds : p = <<a, b>>
  BY DEF Phases
<1>2. PICK c \in Rounds, d \in Rounds : q = <<c, d>>
  BY DEF Phases
<1>3. PICK e \in Rounds, f \in Rounds : s = <<e, f>>
  BY DEF Phases
<1>4. a \in Int /\ b \in Int /\ c \in Int /\ d \in Int /\ e \in Int /\ f \in Int
  BY DEF Rounds, None
<1>. QED
  BY <1>1, <1>2, <1>3, <1>4 DEF AtMost, Before

\* To be before is irreflexive and transitive, and the converse of AtMost.
LEMMA BeforeOrder ==
  ASSUME NEW p \in Phases, NEW q \in Phases, NEW s \in Phases
  PROVE  /\ ~Before(p, p)
         /\ Before(p, q) /\ Before(q, s) => Before(p, s)
         /\ ~Before(p, q) => AtMost(q, p)
<1>1. PICK a \in Rounds, b \in Rounds : p = <<a, b>>
  BY DEF Phases
<1>2. PICK c \in Rounds, d \in Rounds : q = <<c, d>>
  BY DEF Phases
<1>3. PICK e \in Rounds, f \in Rounds : s = <<e, f>>
  BY DEF Phases
<1>4. a \in Int /\ b \in Int /\ c \in Int /\ d \in Int /\ e \in Int /\ f \in Int
  BY DEF Rounds, None
<1>. QED
  BY <1>1, <1>2, <1>3, <1>4 DEF AtMost, Before

\* A path of the prompt has a number as its label.
LEMMA StageType ==
  ASSUME TypeOK, NEW n \in Nodes
  PROVE  Stage(n) \in Rounds
BY DEF TypeOK, Stage, PromptRecords, Rounds

\* A phase has numbers.
LEMMA PhaseType ==
  ASSUME TypeOK, NEW n \in Nodes, NEW r \in [Nodes -> Rounds]
  PROVE  Phase(r, n) \in Phases
BY StageType DEF Phase, Phases


-----------------------------------------------------------------------------
(* What the planner computes.                                               *)

\* The latest of the phases that have completed is among them.
LEMMA FloorRecorded == ASSUME TypeOK PROVE Recorded(Floor)
<1>. DEFINE S == {m \in visible \ pending : rounds[m] # None}
            R == {l \in S \X S : Before(Phase(rounds, l[1]), Phase(rounds, l[2]))}
<1>1. S \in SUBSET Nodes /\ IsFiniteSet(S)
  BY PromptsAssumption, FS_Subset DEF TypeOK
<1>2. \A m \in S : Phase(rounds, m) \in Phases
  BY <1>1, PhaseType DEF TypeOK
<1>3. floor \in Phases
  BY DEF TypeOK, Phases
<1>4. Completed = {Phase(rounds, m) : m \in S}
  BY DEF Completed
<1>. SUFFICES \E passed \in Completed \union {floor} : Recorded(passed)
  BY DEF Floor
<1>5. CASE S = {}
  BY <1>4, <1>5 DEF Recorded, AtMost
<1>6. CASE S # {}
  <2>1. \A a \in S : <<a, a>> \notin R
    BY <1>2, BeforeOrder
  <2>2. \A a, b, c \in S : <<a, b>> \in R /\ <<b, c>> \in R => <<a, c>> \in R
    BY <1>2, BeforeOrder
  <2>3. PICK a \in S : \A b \in S : <<a, b>> \notin R
    <3>. HIDE DEF S, R
    <3>. QED
      BY <1>1, <1>6, <2>1, <2>2, Topmost
  <2>4. \A b \in S : AtMost(Phase(rounds, b), Phase(rounds, a))
    <3> SUFFICES ASSUME NEW b \in S PROVE AtMost(Phase(rounds, b), Phase(rounds, a))
      OBVIOUS
    <3>1. ~Before(Phase(rounds, a), Phase(rounds, b))
      BY <2>3
    <3>. QED
      BY <1>2, <3>1, BeforeOrder
  <2>. DEFINE top == Phase(rounds, a)
  <2>5. top \in Phases
    BY <1>2
  <2>6. CASE AtMost(floor, top)
    BY <1>4, <2>4, <2>6 DEF Recorded
  <2>7. CASE ~AtMost(floor, top)
    <3>1. AtMost(top, floor)
      BY <1>3, <2>5, <2>7, PhaseOrder
    <3>2. \A b \in S : AtMost(Phase(rounds, b), floor)
      BY <1>2, <1>3, <2>4, <2>5, <3>1, PhaseOrder
    <3>. QED
      BY <1>4, <3>2 DEF Recorded, AtMost
  <2>. QED
    BY <2>6, <2>7
<1>. QED
  BY <1>5, <1>6

\* The minimum for a new phase is a round.
LEMMA MinimumRoundType ==
  ASSUME TypeOK, NEW i
  PROVE  MinimumRound(i) \in Rounds
<1>1. floor \in Phases /\ Completed \subseteq Phases
  BY PhaseType DEF Completed, TypeOK, Phases
<1>2. Floor \in Phases
  BY <1>1, FloorRecorded DEF Recorded
<1>3. Floor[1] \in Rounds
  BY <1>2 DEF Phases
<1>. QED
  BY <1>3 DEF MinimumRound, Drop, Rounds, None

\* The latest bound of a path exists.
LEMMA LatestBound ==
  ASSUME TypeOK, NEW r \in [Nodes -> Rounds], NEW b \in Nodes
  PROVE  /\ Bounds(r, b) \subseteq Rounds
         /\ Latest(Bounds(r, b)) \in Bounds(r, b)
         /\ \A i \in Bounds(r, b) : i <= Latest(Bounds(r, b))
<1>. DEFINE S == Nearest(b)
            h == [s \in S |-> r[s] + Drop(Stage(b), Stage(s))]
            R == {l \in S \X S : h[l[1]] < h[l[2]]}
            first == MinimumRound(Stage(b))
<1>1. S \in SUBSET Nodes
  BY DEF Nearest, Paths, Closure
<1>2. IsFiniteSet(S)
  BY <1>1, PromptsAssumption, FS_Subset
<1>3. \A s \in S : h[s] \in Rounds
  BY <1>1 DEF Drop, Rounds, None
<1>4. first \in Rounds /\ rounds[b] \in Rounds
  BY MinimumRoundType DEF TypeOK
<1>5. Bounds(r, b) = {first, rounds[b]} \union {h[s] : s \in S}
  BY DEF Bounds
<1>6. Rounds \subseteq Int
  BY DEF Rounds, None
<1>. HIDE DEF S, h, first
<1>7. \E i \in Bounds(r, b) : \A j \in Bounds(r, b) : j <= i
  <2>1. CASE S = {}
    BY <2>1, <1>4, <1>5, <1>6
  <2>2. CASE S # {}
    <3>0. /\ \A a, c \in S : <<a, c>> \in R <=> h[a] < h[c]
          /\ \A a \in S : h[a] \in Int
      BY <1>3, <1>6
    <3>. HIDE DEF R
    <3>1. \A a \in S : <<a, a>> \notin R
      BY <3>0
    <3>2. \A a, c, d \in S : <<a, c>> \in R /\ <<c, d>> \in R => <<a, d>> \in R
      BY <3>0
    <3>3. PICK a \in S : \A c \in S : <<a, c>> \notin R
      BY <1>2, <2>2, <3>1, <3>2, Topmost
    <3>4. ASSUME NEW c \in S PROVE h[c] <= h[a]
      <4>1. h[c] \in Int /\ h[a] \in Int /\ ~(h[a] < h[c])
        BY <3>0, <3>3
      <4>. QED
        BY <4>1
    <3>. QED
      BY <1>3, <1>4, <1>5, <1>6, <3>4
  <2>. QED
    BY <2>1, <2>2
<1>. QED
  BY <1>3, <1>4, <1>5, <1>7 DEF Latest

\* The stage paths before a path are of a lower rank.
LEMMA NearestLower ==
  ASSUME NEW rank \in [Nodes -> Nat], \A l \in links : rank[l[1]] < rank[l[2]],
         NEW b \in Nodes, NEW s \in Nearest(b)
  PROVE  s \in Nodes /\ rank[s] < rank[b]
<1>. DEFINE Lower == {n \in Nodes : rank[n] < rank[b]}
            kind == {l \in BlockingLinks : Stage(l[2]) = None}
<1>1. Blocking({b}) \subseteq Lower
  BY DEF Blocking, Inputs, BlockingLinks
<1>2. \A x \in Nodes, y \in Lower : <<x, y>> \in kind => x \in Lower
  BY DEF BlockingLinks
<1>3. Blocking({b}) \in SUBSET Nodes
  BY DEF Blocking, Inputs
<1>. HIDE DEF Lower
<1>4. Closure(Blocking({b}), kind) \subseteq Lower
  BY <1>1, <1>2, <1>3, ClosureLeast
<1>. QED
  BY <1>4 DEF Nearest, Paths, Lower

\* Every pending path has the latest of its lower bounds, other nodes what they had.
Solved(r) ==
  /\ r \in [Nodes -> Rounds]
  /\ \A b \in Nodes :
       IF b \in Paths(pending)
       THEN r[b] \in Bounds(r, b) /\ \A i \in Bounds(r, b) : i <= r[b]
       ELSE r[b] = rounds[b]

\* The assignment of phases solves its equations: without cycles, the nodes can
\* be assigned in the order of their ranks.
LEMMA AssignmentSolved ==
  ASSUME TypeOK, Ranked(links)
  PROVE  Solved(Assignment)
<1>. DEFINE E(f, b) == IF b \in Paths(pending) THEN Latest(Bounds(f, b)) ELSE rounds[b]
            N == Cardinality(Nodes)
            F == [Nodes -> Rounds]
<1>1. PICK rank \in [Nodes -> 1..N] : \A l \in links : rank[l[1]] < rank[l[2]]
  BY DEF Ranked
<1>2. N \in Nat /\ rank \in [Nodes -> Nat] /\ \A b \in Nodes : rank[b] \in Nat /\ rank[b] <= N
  BY CardinalityType
<1>3. \A f \in F, b \in Nodes : E(f, b) \in Rounds
  BY LatestBound DEF TypeOK
<1>4. ASSUME NEW f, NEW g, NEW b \in Nodes,
             \A s \in Nodes : rank[s] < rank[b] => f[s] = g[s]
      PROVE  E(f, b) = E(g, b)
  <2>1. \A s \in Nearest(b) : f[s] = g[s]
    BY <1>1, <1>2, <1>4, NearestLower
  <2>2. Bounds(f, b) = Bounds(g, b)
    BY <2>1 DEF Bounds
  <2>. QED
    BY <2>2
<1>. HIDE DEF N, E
<1>5. \A k \in Nat : \E f \in F : \A b \in Nodes : rank[b] <= k => f[b] = E(f, b)
  <2>. DEFINE B == {k \in Nat : ~\E f \in F : \A b \in Nodes : rank[b] <= k => f[b] = E(f, b)}
  <2>. SUFFICES ASSUME B # {} PROVE FALSE
    OBVIOUS
  <2>1. PICK k \in B : \A j \in B : ~(j < k)
    BY Smallest
  <2>2. k \in Nat
    OBVIOUS
  <2>3. PICK f \in F : \A b \in Nodes : rank[b] < k => f[b] = E(f, b)
    <3>1. CASE k = 0
      <4>1. rounds \in F
        BY DEF TypeOK
      <4>. QED
        BY <4>1, <3>1, <1>2
    <3>2. CASE k # 0
      <4>1. k - 1 \in Nat /\ k - 1 < k
        BY <2>2, <3>2
      <4>2. k - 1 \notin B
        BY <2>1, <4>1
      <4>3. PICK f \in F : \A b \in Nodes : rank[b] <= k - 1 => f[b] = E(f, b)
        BY <4>1, <4>2
      <4>4. \A b \in Nodes : rank[b] < k => rank[b] <= k - 1
        BY <1>2, <2>2
      <4>. QED
        BY <4>3, <4>4
    <3>. QED
      BY <3>1, <3>2
  <2>. DEFINE g == [b \in Nodes |-> IF rank[b] = k THEN E(f, b) ELSE f[b]]
  <2>4. g \in F
    BY <1>3
  <2>5. ASSUME NEW b \in Nodes, rank[b] <= k PROVE g[b] = E(g, b)
    <3>1. \A s \in Nodes : rank[s] < rank[b] => g[s] = f[s]
      BY <1>2, <2>2, <2>5
    <3>2. E(g, b) = E(f, b)
      <4>. HIDE DEF g
      <4>. QED
        BY <3>1, <1>4
    <3>3. CASE rank[b] = k
      BY <3>2, <3>3
    <3>4. CASE rank[b] # k
      BY <1>2, <2>2, <2>3, <2>5, <3>2, <3>4
    <3>. QED
      BY <3>3, <3>4
  <2>. HIDE DEF g
  <2>. QED
    BY <2>1, <2>4, <2>5
<1>6. PICK f \in F : \A b \in Nodes : f[b] = E(f, b)
  BY <1>2, <1>5
<1>. DEFINE Def(r) == r = [b \in Nodes |-> E(r, b)]
            r == CHOOSE r : Def(r)
<1>7. Def(f)
  BY <1>6
<1>8. Def(r)
  BY <1>7
<1>. HIDE DEF r
<1>9. \A b \in Nodes : r[b] = E(r, b)
  BY <1>8
<1>10. \A b \in Nodes : r[b] = f[b]
  <2>. DEFINE B == {rank[b] : b \in {c \in Nodes : r[c] # f[c]}}
  <2>. SUFFICES ASSUME B # {} PROVE FALSE
    OBVIOUS
  <2>1. B \in SUBSET Nat
    BY <1>2
  <2>2. PICK k \in B : \A j \in B : ~(j < k)
    BY <2>1, Smallest
  <2>3. PICK b \in Nodes : r[b] # f[b] /\ k = rank[b]
    OBVIOUS
  <2>4. \A s \in Nodes : rank[s] < rank[b] => r[s] = f[s]
    BY <2>2, <2>3
  <2>5. E(r, b) = E(f, b)
    BY <2>4, <1>4
  <2>. QED
    BY <2>3, <2>5, <1>6, <1>9
<1>11. Assignment = f
  <2>1. Assignment = [b \in Nodes |-> r[b]]
    BY DEF Assignment, r, E
  <2>. QED
    BY <2>1, <1>10
<1>12. \A b \in Paths(pending) : f[b] \in Bounds(f, b) /\ \A i \in Bounds(f, b) : i <= f[b]
  BY <1>6, LatestBound DEF E, Paths, TypeOK
<1>. QED
  BY <1>6, <1>11, <1>12 DEF Solved, E
=============================================================================
