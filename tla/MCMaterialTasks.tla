-------------------------- MODULE MCMaterialTasks ---------------------------
(* Small instances of MaterialTasks for TLC.                                *)
EXTENDS MaterialTasks, MaterialOrder, TLC

CONSTANTS o1, o2, a, b, c, x, y

\* A card with both materials; b reads a, a reads an ordinary node.
Card == [nodes |-> {a, b, x}, materials |-> {a, b}, cards |-> <<<<b, a>>>>,
         links |-> {<<x, a>>, <<a, b>>}, content |-> {<<x, a>>, <<a, b>>}]
\* o1 generates the card, o2 the downstream material.
PlanChain == (o1 :> <<a, b>>) @@ (o2 :> <<b>>)
ASSUME ChainOrdered == PlanChain[o1] = Targets(Card)
\* b reads a, at every revision.
NeedsChain == [r \in 0..MaxEdits |-> {<<b, a>>}]
\* Each generates one material: circles within a batch are refused before it starts.
PlanApart == (o1 :> <<a>>) @@ (o2 :> <<b>>)
\* a and b read each other.
NeedsCircle == [r \in 0..MaxEdits |-> {<<b, a>>, <<a, b>>}]

\* Every way to link nodes with up to MaxLinks links, also with themselves where there
\* are only two; all linked materials are computed, or all but one (by which of their
\* links makes no difference): two cards; one card that reads another; one with two
\* ordinary nodes.
MaxLinks == 5
Linked(nodes, stubs, cards, selves) ==
  LET Drawings == UNION {kSubset(k, {l \in nodes \X nodes : l[1] # l[2] \/ selves}) :
                           k \in 0..MaxLinks}
      Contents(links) ==
        LET into == {{l \in links : l[2] = m} : m \in stubs} \ {{}}
            all == {CHOOSE l \in linked : TRUE : linked \in into}
        IN {all} \union {all \ {l} : l \in all}
  IN UNION {[nodes : {nodes}, materials : {stubs}, cards : {cards}, links : {links},
             content : Contents(links)] : links \in Drawings}
SmallCanvases ==
  Linked({a, b, c, x}, {a, b, c}, <<<<c, a>>, <<b>>>>, FALSE)
    \union Linked({a, b, c, x}, {a, b, c}, <<<<b, a>>>>, FALSE)
    \union Linked({a, b, x, y}, {a, b}, <<<<b, a>>>>, FALSE)
    \union Linked({a, x}, {a}, <<<<a>>>>, TRUE)

\* Planning keeps no state: canvases are planned on before operations run.
DrawnInit == Init /\ Drawn
DrawnSpec ==
  /\ DrawnInit
  /\ [][drawn = NoCanvas /\ Next /\ UNCHANGED drawn]_<<vars, drawn>>
FairDrawnSpec == DrawnSpec /\ Fairness
=============================================================================
