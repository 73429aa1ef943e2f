--------------------------- MODULE MaterialOrder ----------------------------
(***************************************************************************)
(* The targets of an operation: which materials of the selected cards      *)
(* _snapshots of workspace/execution.py and plan_card of tasks.py choose,  *)
(* and the order material_order of compiler.py gives them.                 *)
(*                                                                         *)
(* Materials are boundaries.  What is ordered follows what it reads, by    *)
(* any of its inputs, through ordinary nodes; materials that are not       *)
(* ordered with it are saved content.  The materials of a card are ordered *)
(* among themselves first, those that are only loaded included.            *)
(***************************************************************************)
EXTENDS Naturals, FiniteSets, SequencesExt

CONSTANTS
  Circle,   \* a circle was met, not a node
  NoCanvas, \* nothing is being planned
  Canvases  \* the canvases considered

\* links: pairs <<source, target>> of nodes, by any input of the target; content:
\* those into the input a material is computed from (value, images or text), not
\* the audio of a video or a converted widget; cards: the selected cards, each the
\* sequence of its own materials in interface order.
ASSUME CanvasesAssumption ==
  \A c \in Canvases :
    /\ IsFiniteSet(c.nodes) /\ Circle \notin c.nodes /\ c.materials \subseteq c.nodes
    /\ c.links \subseteq c.nodes \X c.nodes /\ c.content \subseteq c.links
    /\ c.cards \in Seq(Seq(c.materials))
    /\ \A i, j \in DOMAIN c.cards :
         i # j => ToSet(c.cards[i]) \intersect ToSet(c.cards[j]) = {}

VARIABLE drawn  \* the canvas that is planned on, or NoCanvas

\* Planning reads the canvas and keeps nothing.
Drawn == drawn \in Canvases \union {NoCanvas}
Planning == Drawn /\ [][UNCHANGED drawn]_drawn

Sources(graph, n) == {l[1] : l \in {k \in graph.links : k[2] = n}}
Refused == <<Circle>>

\* sources(): the local materials that the inputs of a target lead to.
Reads(graph, local) ==
  LET Upstream(reached, n) == UNION {reached[s] : s \in Sources(graph, n)}
      sources[visiting \in SUBSET graph.nodes] ==
        [n \in graph.nodes |->
           IF n \in graph.materials THEN {n} \intersect local
           ELSE IF n \in visiting THEN {Circle}
           ELSE Upstream(sources[visiting \union {n}], n)]
  IN [t \in local |-> Upstream(sources[{}], t)]

\* visit(), depth first: the targets wanted, from position next on, are put behind
\* those completed before.
Ordered(targets, reads) ==
  LET known == ToSet(targets)
      visit[at \in [visiting: SUBSET known, wanted: SUBSET known,
                    next: 1..Len(targets) + 1, completed: Seq(known)]] ==
        IF at.next > Len(targets) THEN at.completed
        ELSE LET key == targets[at.next]
                 after == [at EXCEPT !.next = @ + 1]
                 upstream == visit[[at EXCEPT !.visiting = @ \union {key},
                                              !.wanted = reads[key], !.next = 1]]
             IN IF key \notin at.wanted \/ key \in ToSet(at.completed) THEN visit[after]
                ELSE IF key \in at.visiting \/ upstream = Refused THEN Refused
                ELSE visit[[after EXCEPT !.completed = Append(upstream, key)]]
  IN visit[[visiting |-> {}, wanted |-> known, next |-> 1, completed |-> <<>>]]

MutMaterialOrder(graph, targets) ==
  LET plain == {l \in graph.links : l[2] \notin graph.materials}
      reads == Reads([graph EXCEPT !.links = plain \union graph.content], ToSet(targets))
  IN IF \E t \in ToSet(targets) : Circle \in reads[t] THEN Refused
     ELSE Ordered(targets, reads)
MaterialOrder(graph, targets) ==
  LET reads == Reads(graph, ToSet(targets))
  IN IF \E t \in ToSet(targets) : Circle \in reads[t] THEN Refused
     ELSE Ordered(targets, reads)

\* plan_card: materials that are only loaded have nothing to compute.
Computed(graph, m) == \E l \in graph.content : l[2] = m
PlanCard(graph, card) ==
  LET ordered == MaterialOrder(graph, card)
      targets[i \in 0..Len(ordered)] ==
        IF i = 0 THEN <<>>
        ELSE IF Computed(graph, ordered[i]) THEN Append(targets[i - 1], ordered[i])
        ELSE targets[i - 1]
  IN IF ordered = Refused THEN Refused ELSE targets[Len(ordered)]

\* _snapshots: card by card, then all of them.
MutTargets(graph) ==
  LET plans == [i \in DOMAIN graph.cards |-> PlanCard(graph, graph.cards[i])]
  IN MaterialOrder(graph, FlattenSeq(Reverse(plans)))
Targets(graph) ==
  LET plans == [i \in DOMAIN graph.cards |-> PlanCard(graph, graph.cards[i])]
  IN IF Refused \in ToSet(plans) THEN Refused
     ELSE MaterialOrder(graph, FlattenSeq(plans))

-----------------------------------------------------------------------------
(* What the order is meant to be, without a traversal.                      *)

\* <<x, t>>: pairs lead from x to t.
Closure(pairs, nodes) ==
  LET more[known \in SUBSET (nodes \X nodes)] ==
        LET joined == {r \in known \X known : r[1][2] = r[2][1]}
            wider == known \union {<<r[1][1], r[2][2]>> : r \in joined}
        IN IF wider = known THEN known ELSE more[wider]
  IN more[pairs]

\* <<x, t>>: a path from x to t whose nodes before t are ordinary.
Through(graph) ==
  Closure({l \in graph.links : l[1] \notin graph.materials}, graph.nodes)

Asked(graph) == FlattenSeq(graph.cards)
Wanted(graph) == {m \in ToSet(Asked(graph)) : Computed(graph, m)}

\* <<s, t>>: materials of T, of which t reads s through ordinary nodes; and what
\* they need, through others of T.
ReadPairs(graph, T) ==
  LET through == Through(graph)
  IN {p \in T \X T :
        \/ p \in graph.links
        \/ \E x \in graph.nodes : <<p[1], x>> \in graph.links /\ <<x, p[2]>> \in through}
Needed(graph, T) == Closure(ReadPairs(graph, T), T)

\* What is put in order: the materials of each card, then all that is generated.
Scopes(graph) == {ToSet(graph.cards[i]) : i \in DOMAIN graph.cards} \union {Wanted(graph)}

Circular(graph, T) ==
  LET through == Through(graph)
      needed == Needed(graph, T)
  IN \E m \in T : \/ <<m, m>> \in needed
                  \/ \E x \in graph.nodes : <<x, x>> \in through /\ <<x, m>> \in through

\* A batch is refused, before anything runs, exactly if what it generates reads
\* itself, by whatever input, or the materials of one of its cards do, those that
\* are only loaded included, or hang on ordinary nodes that do.
CirclesRefused ==
  drawn # NoCanvas =>
    ((\E T \in Scopes(drawn) : Circular(drawn, T)) <=> Targets(drawn) = Refused)

\* Otherwise every material to be generated is a target once, after all targets it
\* reads, a video after its audio too.
DependenciesFirst ==
  drawn # NoCanvas =>
  LET order == Targets(drawn)
      reads == ReadPairs(drawn, Wanted(drawn))
  IN order # Refused =>
       /\ ToSet(order) = Wanted(drawn) /\ Len(order) = Cardinality(Wanted(drawn))
       /\ \A i, j \in DOMAIN order : <<order[i], order[j]>> \in reads => i < j

\* The interface decides the rest.  A target is needed by the batch, directly or
\* through other targets, for a target that is itself needed in its card, where
\* materials that are only loaded count, by a material of the interface: the
\* targets come in the order of the first such places.
InterfaceOrder ==
  drawn # NoCanvas =>
  LET order == Targets(drawn)
      wanted == Wanted(drawn)
      asked == Asked(drawn)
      inBatch == Needed(drawn, wanted)
      inCard == UNION {Needed(drawn, ToSet(drawn.cards[i])) : i \in DOMAIN drawn.cards}
      Places(m) ==
        {i \in DOMAIN asked : \E t \in wanted :
           /\ t = m \/ <<m, t>> \in inBatch
           /\ t = asked[i] \/ <<t, asked[i]>> \in inCard}
      First(m) == CHOOSE i \in Places(m) : \A j \in Places(m) : i <= j
  IN order # Refused => \A i, j \in DOMAIN order : i < j => First(order[i]) <= First(order[j])
=============================================================================
