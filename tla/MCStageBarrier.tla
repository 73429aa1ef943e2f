--------------------------- MODULE MCStageBarrier ----------------------------
(* Small instances of StageBarrier for TLC.                                 *)
EXTENDS StageBarrier, TLC

\* Every prompt of four nodes whose links lead upwards, with labels 0 and 1 on
\* all but the first node, 0 on the last.  The first two are asynchronous unless they are stage
\* paths.  The inputs of the last node are strong, or lazy, or come from its
\* expansion, or they are strong and the second node is cached.
Last == Cardinality(Nodes)
Links == {l \in Nodes \X Nodes : l[1] < l[2]}
Stages == {s \in [Nodes -> {None, 0, 1}] : s[1] = None /\ s[Last] # 1}
Kinds == {"strong", "lazy", "dynamic", "cached"}
Small ==
  {[stage |-> stage,
    strong |-> {l \in all : kind \in {"strong", "cached"} \/ l[2] # Last},
    lazy |-> {l \in all : kind = "lazy" /\ l[2] = Last},
    dynamic |-> {l \in all : kind = "dynamic" /\ l[2] = Last},
    outputs |-> {n \in Nodes : \A l \in all : l[1] # n},
    async |-> {n \in {1, 2} : stage[n] = None},
    cached |-> IF kind = "cached" THEN {2} ELSE {}] :
     stage \in Stages, all \in SUBSET Links, kind \in Kinds}

\* 1 and 4 are stage paths of label 0; 2 follows the first, 3 leads to the other.
Peers ==
  {[stage |-> (1 :> 0) @@ (2 :> None) @@ (3 :> None) @@ (4 :> 0),
    strong |-> {<<1, 2>>, <<3, 4>>}, lazy |-> {}, dynamic |-> {},
    outputs |-> {2, 4}, async |-> {}, cached |-> {}]}
=============================================================================
