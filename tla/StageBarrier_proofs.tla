------------------------- MODULE StageBarrier_proofs -------------------------
(***************************************************************************)
(* For every set of nodes and prompts without cycles: the planner's state  *)
(* is well typed, stage paths complete in the order of their phases,       *)
(* nothing else starts, and no wait is left unanswered.                    *)
(*                                                                         *)
(* The invariant adds to the types what relates the floor to the paths     *)
(* that have completed (each is still in the planner's last view of the    *)
(* prompt, or its phase is at most the floor), what ComfyUI's lists say of *)
(* each other, and who a wait is for.                                      *)
(***************************************************************************)
EXTENDS StageGraph_proofs

\* The planner still sees a path that has completed, or has passed its phase.
FloorCovers ==
  \A c \in done : rounds[c] # None =>
    Stage(c) # None /\ (c \in visible \/ AtMost(Phase(rounds, c), floor))

\* Only stage paths ever get a round.
OnlyPaths == \A n \in Nodes : rounds[n] # None => Stage(n) # None

\* The floor is the phase of a path that has a round.
FloorNumbered == floor[1] = None => floor = NoPhase

\* What ComfyUI's lists say of each other: a link leads between listed nodes, and
\* a node that is done has its inputs.
Linked ==
  /\ prompt \in Prompts
  /\ links \subseteq prompt.strong \union prompt.lazy \union prompt.dynamic
  /\ \A l \in links :
       /\ l[1] \in pending \union done /\ l[2] \in pending \union done
       /\ l[2] \in done => l[1] \in done

\* Who waits, waits for a node; in ComfyUI's own wait, nothing new gets ready.
Waiting ==
  /\ at = "native" => pending # {} /\ Available \subseteq finished
  /\ at # "loop" /\ ~event => blocked # {}

IInv == TypeOK /\ Linked /\ OnlyPaths /\ FloorCovers /\ FloorNumbered /\ Waiting

-----------------------------------------------------------------------------
(* ComfyUI's lists.                                                         *)

\* The links that exist lead upwards in some numbering.
LEMMA LinksRanked == ASSUME Linked PROVE Ranked(links)
BY PromptsAssumption DEF Linked, Ranked

\* The pending nodes stay nodes, and none of them is cached.
LEMMA NeededType ==
  ASSUME NEW nodes, NEW cached
  PROVE  Needed(nodes, cached) \subseteq Nodes \ cached
BY DEF Needed, Closure

-----------------------------------------------------------------------------
(* What a call of the planner establishes.                                  *)

LEMMA PlannedType ==
  ASSUME TypeOK, Linked, NEW r, r = Planned
  PROVE  /\ r \in [Nodes -> Rounds]
         /\ \A n \in Nodes \ Paths(pending) : r[n] = rounds[n]
<1>1. CASE Outdated
  BY <1>1, LinksRanked, AssignmentSolved DEF Planned, Solved
<1>2. CASE ~Outdated
  BY <1>2 DEF Planned, TypeOK
<1>. QED
  BY <1>1, <1>2

\* The new floor is a phase, and at least the old one.
LEMMA FloorType ==
  ASSUME TypeOK
  PROVE  Floor \in Phases /\ AtMost(floor, Floor)
<1>1. floor \in Phases
  BY DEF TypeOK, Phases
<1>2. Completed \subseteq Phases
  BY PhaseType DEF Completed, TypeOK
<1>. QED
  BY <1>1, <1>2, FloorRecorded DEF Recorded

\* It still is NoPhase, or has a round.
LEMMA FloorKeepsNumber ==
  ASSUME TypeOK, FloorNumbered, Floor[1] = None
  PROVE  Floor = NoPhase
<1>1. CASE Floor = floor
  BY <1>1 DEF FloorNumbered
<1>2. CASE Floor \in Completed
  <2>1. PICK n : Floor = Phase(rounds, n) /\ rounds[n] # None
    BY <1>2 DEF Completed
  <2>. QED
    BY <2>1 DEF Phase
<1>. QED
  BY <1>1, <1>2, FloorRecorded DEF Recorded

\* No pending path keeps a phase before the floor.
LEMMA PendingAfterFloor ==
  ASSUME TypeOK, Linked, FloorNumbered, NEW r, r = Planned, NEW b \in Paths(pending)
  PROVE  r[b] # None /\ AtMost(Floor, Phase(r, b))
<1>1. b \in Nodes /\ b \in pending /\ Stage(b) # None /\ Stage(b) \in Rounds
  BY StageType DEF Paths, TypeOK
<1>2. r[b] \in Rounds
  BY <1>1, PlannedType
<1>3. MinimumRound(Stage(b)) <= r[b]
  <2>1. CASE Outdated
    BY <2>1, <1>1, LinksRanked, AssignmentSolved DEF Planned, Solved, Bounds
  <2>2. CASE ~Outdated
    <3>1. r = rounds /\ rounds[b] # None /\ ~(rounds[b] < MinimumRound(Stage(b)))
      BY <2>2 DEF Planned, Outdated
    <3>2. MinimumRound(Stage(b)) \in Int
      BY MinimumRoundType DEF Rounds, None
    <3>. QED
      BY <3>1, <3>2, <1>2 DEF Rounds, None
  <2>. QED
    BY <2>1, <2>2
<1>4. PICK f1 \in Rounds, f2 \in Rounds : Floor = <<f1, f2>>
  BY FloorType DEF Phases
<1>5. CASE Floor = NoPhase
  BY <1>1, <1>2, <1>3, <1>5 DEF MinimumRound, NoPhase, AtMost, Before, Phase, Rounds, None
<1>6. CASE Floor # NoPhase
  <2>1. MinimumRound(Stage(b)) = f1 + Drop(Stage(b), f2)
    BY <1>4, <1>6 DEF MinimumRound
  <2>2. f1 + (IF Stage(b) < f2 THEN 1 ELSE 0) <= r[b]
    BY <2>1, <1>3 DEF Drop
  <2>3. f1 \in Int /\ f2 \in Int /\ r[b] \in Int /\ Stage(b) \in Int
    BY <1>1, <1>2, <1>4 DEF Rounds, None
  <2>4. f1 < r[b] \/ (f1 = r[b] /\ f2 <= Stage(b))
    BY <2>2, <2>3
  <2>5. f1 # None
    BY <1>4, <1>6, FloorKeepsNumber
  <2>6. AtMost(<<f1, f2>>, <<r[b], Stage(b)>>)
    BY <2>3, <2>4 DEF AtMost, Before
  <2>7. f1 \in Nat
    BY <2>5 DEF Rounds
  <2>8. r[b] # None
    BY <2>3, <2>4, <2>7 DEF None
  <2>. QED
    BY <2>6, <2>8, <1>4 DEF Phase
<1>. QED
  BY <1>5, <1>6

\* Every path that has completed is at most the new floor.
LEMMA DoneBeforeFloor ==
  ASSUME IInv, NEW r, r = Planned, NEW c \in done, rounds[c] # None
  PROVE  /\ r[c] = rounds[c]
         /\ AtMost(Phase(rounds, c), Floor)
<1>1. TypeOK /\ Linked /\ c \in Nodes /\ c \notin pending
  BY DEF IInv, TypeOK
<1>2. r[c] = rounds[c]
  BY <1>1, PlannedType DEF Paths
<1>3. CASE c \in visible
  <2>1. Phase(rounds, c) \in Completed
    BY <1>1, <1>3 DEF Completed
  <2>. QED
    BY <1>1, <1>2, <2>1, FloorRecorded DEF Recorded
<1>4. CASE AtMost(Phase(rounds, c), floor)
  <2>1. Phase(rounds, c) \in Phases /\ floor \in Phases /\ Floor \in Phases
    BY <1>1, PhaseType, FloorType DEF TypeOK, Phases
  <2>2. AtMost(floor, Floor)
    BY <1>1, FloorType
  <2>. QED
    BY <1>2, <1>4, <2>1, <2>2, PhaseOrder
<1>. QED
  BY <1>2, <1>3, <1>4 DEF IInv, FloorCovers

\* A call of the planner, with whatever node runs after it, keeps the invariant.
LEMMA PlanKeeps ==
  ASSUME IInv, NEW r, r = Planned, Plan(r), UNCHANGED prompt,
         done \subseteq done', done' \subseteq done \union pending
  PROVE  /\ rounds' \in [Nodes -> Rounds]
         /\ visible' \subseteq Nodes /\ \A b \in visible' : rounds'[b] # None
         /\ floor' \in Phases
         /\ OnlyPaths' /\ FloorCovers' /\ FloorNumbered'
<1>1. TypeOK /\ Linked /\ rounds' = r /\ visible' = Paths(pending) /\ floor' = Floor
  BY DEF IInv, Plan
<1>2. rounds' \in [Nodes -> Rounds]
  BY <1>1, PlannedType
<1>3. visible' \subseteq Nodes /\ \A b \in visible' : rounds'[b] # None
  BY <1>1, PendingAfterFloor DEF IInv, Paths, TypeOK
<1>4. floor' \in Phases
  BY <1>1, FloorType DEF Plan
<1>5. \A n \in Nodes : Stage(n)' = Stage(n)
  BY DEF Stage
<1>6. OnlyPaths'
  BY <1>1, <1>5, PlannedType DEF IInv, OnlyPaths, Paths
<1>7. FloorCovers'
  <2> SUFFICES ASSUME NEW c \in done', rounds'[c] # None
               PROVE  Stage(c)' # None /\ (c \in visible' \/ AtMost(Phase(rounds, c)', floor'))
    BY DEF FloorCovers
  <2>1. c \in Nodes /\ Stage(c)' # None
    BY <1>6, <1>1 DEF OnlyPaths, TypeOK
  <2>2. CASE c \in done
    <3>1. rounds[c] # None /\ r[c] = rounds[c] /\ AtMost(Phase(rounds, c), Floor)
      <4>1. c \notin pending
        BY <1>1, <2>2 DEF TypeOK
      <4>2. rounds[c] # None
          BY <1>1, <2>1, <4>1, PlannedType DEF Paths
      <4>. QED
        BY <2>2, <4>2, DoneBeforeFloor
    <3>2. Phase(rounds, c)' = Phase(rounds, c)
      BY <1>1, <1>5, <2>1, <3>1 DEF Phase
    <3>. QED
      BY <1>1, <2>1, <3>1, <3>2
  <2>3. CASE c \notin done
    BY <1>1, <1>5, <2>1, <2>3 DEF Paths
  <2>. QED
    BY <2>2, <2>3
<1>8. FloorNumbered'
  BY <1>1, FloorKeepsNumber DEF IInv, FloorNumbered
<1>. QED
  BY <1>2, <1>3, <1>4, <1>6, <1>7, <1>8

-----------------------------------------------------------------------------
(* The invariant.                                                           *)

\* What a node does when it runs keeps the types of ComfyUI's lists.
LEMMA ExecuteType ==
  ASSUME TypeOK, NEW n \in Nodes, n \in pending, n \notin blocked, Execute(n)
  PROVE  /\ pending' \subseteq Nodes /\ done' \subseteq Nodes
         /\ pending' \intersect done' = {}
         /\ links' \subseteq Nodes \X Nodes
         /\ blocked' \subseteq pending' /\ finished' \subseteq Nodes
         /\ done \subseteq done' /\ done' \subseteq done \union pending
<1>1. CASE Ask(n)
  <2>1. PICK asked \in Demands(n) :
          LET new == Needed({l[1] : l \in asked} \ done, done) \ pending
          IN /\ pending' = pending \union new
             /\ links' = links \union asked \union {l \in prompt.strong : l[2] \in new}
    BY <1>1 DEF Ask
  <2>2. asked \subseteq Nodes \X Nodes
    <3>1. prompt.dynamic \subseteq Nodes \X Nodes /\ prompt.lazy \subseteq Nodes \X Nodes
      BY DEF TypeOK, PromptRecords
    <3>. QED
      BY <2>1, <3>1 DEF Demands
  <2>3. prompt.strong \subseteq Nodes \X Nodes
    BY DEF TypeOK, PromptRecords
  <2>4. links' \subseteq Nodes \X Nodes
    BY <2>1, <2>2, <2>3 DEF TypeOK
  <2>5. pending' \subseteq Nodes /\ pending \subseteq pending' /\ pending' \intersect done = {}
    BY <2>1, NeededType DEF TypeOK
  <2>. QED
    BY <1>1, <2>4, <2>5 DEF Ask, TypeOK
<1>2. CASE Launch(n)
  BY <1>2 DEF Launch, TypeOK
<1>3. CASE Complete(n)
  BY <1>3 DEF Complete, TypeOK
<1>. QED
  BY <1>1, <1>2, <1>3 DEF Execute

\* A node that is chosen is ready.
LEMMA ChosenReady ==
  ASSUME TypeOK, NEW r, NEW n \in Chosen(Candidates(r))
  PROVE  n \in Available /\ n \in Nodes /\ n \in pending /\ n \notin blocked
BY DEF Chosen, Candidates, Available, TypeOK

\* What is needed holds its own strong inputs,
LEMMA NeededClosed ==
  ASSUME prompt \in Prompts, NEW nodes \in SUBSET Nodes, NEW cached,
         NEW l \in prompt.strong, l \in Nodes \X Nodes, l[2] \in Needed(nodes, cached)
  PROVE  l[1] \in cached \union Needed(nodes, cached)
<1>. DEFINE kind == {k \in prompt.strong : k[1] \notin cached}
<1>1. Ranked(kind)
  BY PromptsAssumption DEF Ranked
<1>. SUFFICES ASSUME l[1] \notin cached PROVE l[1] \in Needed(nodes, cached)
  OBVIOUS
<1>2. l = <<l[1], l[2]>> /\ l[1] \in Nodes /\ l \in kind /\ l[2] \in Closure(nodes, kind)
  BY DEF Needed
<1>3. l[1] \in Closure(nodes, kind)
  <2>. HIDE DEF kind
  <2>. QED
    BY <1>1, <1>2, ClosureClosed
<1>. QED
  BY <1>3 DEF Needed

\* and it holds what it was asked for, as far as it is not cached.
LEMMA NeededHolds ==
  ASSUME NEW nodes \in SUBSET Nodes, NEW cached
  PROVE  nodes \ cached \subseteq Needed(nodes, cached)
BY ClosureHolds DEF Needed

\* A node that runs keeps the lists linked: what it asks for is listed with all
\* it needs, and it completes with its inputs done.
LEMMA ExecuteLinked ==
  ASSUME TypeOK, Linked, NEW n \in Available, Execute(n), UNCHANGED prompt
  PROVE  Linked'
<1>1. /\ prompt.strong \subseteq Nodes \X Nodes /\ prompt.lazy \subseteq Nodes \X Nodes
      /\ prompt.dynamic \subseteq Nodes \X Nodes
      /\ n \in pending /\ n \in Nodes
  BY DEF TypeOK, PromptRecords, Available
<1>2. CASE Ask(n)
  <2>1. PICK asked \in Demands(n) :
          LET new == Needed({l[1] : l \in asked} \ done, done) \ pending
          IN /\ pending' = pending \union new
             /\ links' = links \union asked \union {l \in prompt.strong : l[2] \in new}
    BY <1>2 DEF Ask
  <2>. DEFINE from == {l[1] : l \in asked} \ done
              all == Needed(from, done)
              new == all \ pending
  <2>2. done' = done
    BY <1>2 DEF Ask
  <2>3. \A l \in asked : l \in prompt.lazy \union prompt.dynamic /\ l[2] = n
    BY <2>1 DEF Demands
  <2>4. from \in SUBSET Nodes
    BY <1>1, <2>3
  <2>5. from \subseteq all /\ all \intersect done = {}
    <3>1. from \ done = from
      OBVIOUS
    <3>. HIDE DEF from
    <3>. QED
      BY <2>4, <3>1, NeededHolds, NeededType
  <2>6. \A l \in asked : l[1] \in pending' \union done' /\ l[2] \in pending' /\ l[2] \notin done
    BY <1>1, <2>1, <2>2, <2>3, <2>5 DEF TypeOK
  <2>7. \A l \in prompt.strong : l[2] \in new =>
          l[1] \in pending' \union done' /\ l[2] \in pending' /\ l[2] \notin done
    <3>1. \A l \in prompt.strong : l[2] \in all => l[1] \in done \union all
      <4>. HIDE DEF from
      <4>. QED
        BY <1>1, <2>4, NeededClosed DEF Linked
    <3>. HIDE DEF from, all
    <3>. QED
      BY <2>1, <2>2, <2>5, <3>1 DEF from, all
  <2>8. links' = links \union asked \union {l \in prompt.strong : l[2] \in new} /\ pending \subseteq pending'
    BY <2>1
  <2>. HIDE DEF new
  <2>. QED
    BY <2>2, <2>3, <2>6, <2>7, <2>8 DEF Linked
<1>3. CASE Launch(n)
  BY <1>3 DEF Launch, Linked
<1>4. CASE Complete(n)
  <2>1. ASSUME NEW l \in links, l[2] = n PROVE l[1] \in done
    <3>1. l = <<l[1], l[2]>> /\ l[1] \in Nodes
      BY DEF TypeOK
    <3>2. l[1] \notin pending
      BY <2>1, <3>1 DEF Available, Blocking, Inputs, BlockingLinks
    <3>. QED
      BY <3>2 DEF Linked
  <2>. QED
    BY <1>1, <1>4, <2>1 DEF Complete, Linked
<1>. QED
  BY <1>2, <1>3, <1>4 DEF Execute

\* Of the pending nodes that lead to some of them, one waits for no input.
LEMMA OneUnblocked ==
  ASSUME TypeOK, Linked, NEW S \in SUBSET pending, S # {},
         \A x \in pending, y \in S : <<x, y>> \in links => x \in S
  PROVE  \E n \in S : Blocking({n}) = {}
<1>1. PICK rank \in [Nodes -> 1..Cardinality(Nodes)] : \A l \in links : rank[l[1]] < rank[l[2]]
  BY LinksRanked DEF Ranked
<1>2. S \subseteq Nodes /\ \A x \in Nodes : rank[x] \in Nat
  BY CardinalityType DEF TypeOK
<1>. DEFINE R == {rank[x] : x \in S}
<1>3. PICK k \in R : \A j \in R : ~(j < k)
  <2>1. R \in SUBSET Nat /\ R # {}
    BY <1>2
  <2>. HIDE DEF R
  <2>. QED
    BY <2>1, Smallest
<1>4. PICK n \in S : k = rank[n]
  OBVIOUS
<1>5. ASSUME NEW x \in Blocking({n}) PROVE FALSE
  <2>1. x \in pending /\ <<x, n>> \in links
    BY DEF Blocking, Inputs, BlockingLinks
  <2>2. x \in S /\ rank[x] < rank[n]
    BY <1>1, <2>1
  <2>. QED
    BY <1>3, <1>4, <2>2
<1>. QED
  BY <1>5

\* While work is left, a node is ready or somebody's asynchronous work goes on.
LEMMA WorkLeft ==
  ASSUME TypeOK, Linked, pending # {}, Available = {}
  PROVE  blocked # {}
<1>1. PICK n \in pending : Blocking({n}) = {}
  BY OneUnblocked
<1>. QED
  BY <1>1 DEF Available

LEMMA InitInvariant == ASSUME Init PROVE IInv
<1>1. prompt \in Prompts /\ prompt \in PromptRecords
  BY PromptsAssumption DEF Init
<1>2. TypeOK
  <2>1. pending \subseteq Nodes \ done
    BY NeededType DEF Init
  <2>. QED
    BY <1>1, <2>1 DEF Init, TypeOK, PromptRecords, Rounds, NoPhase
<1>3. Linked
  <2>. DEFINE from == prompt.outputs \ prompt.cached
  <2>1. from \in SUBSET Nodes /\ prompt.strong \subseteq Nodes \X Nodes
    BY <1>1 DEF PromptRecords
  <2>2. \A l \in links : l \in prompt.strong /\ l[2] \in pending /\ l[1] \in done \union pending
    <3>. HIDE DEF from
    <3>. QED
      BY <1>1, <2>1, NeededClosed DEF Init, from
  <2>. QED
    BY <1>1, <1>2, <2>2 DEF Linked, TypeOK
<1>. QED
  BY <1>2, <1>3 DEF Init, IInv, OnlyPaths, FloorCovers, FloorNumbered, TypeOK, Waiting

\* A step that picks a node keeps the invariant.
LEMMA PickKeeps ==
  ASSUME IInv, NEW n \in Chosen(Candidates(Planned)), Execute(n), Plan(Planned),
         UNCHANGED prompt, at' = "loop", event' \in BOOLEAN
  PROVE  IInv'
<1>1. TypeOK /\ Linked
  BY DEF IInv
<1>2. n \in Available /\ n \in Nodes /\ n \in pending /\ n \notin blocked
  BY <1>1, ChosenReady
<1>3. TypeOK' /\ OnlyPaths' /\ FloorCovers' /\ FloorNumbered'
  <2>1. done \subseteq done' /\ done' \subseteq done \union pending
    BY <1>1, <1>2, ExecuteType
  <2>2. /\ rounds' \in [Nodes -> Rounds]
        /\ visible' \subseteq Nodes /\ \A b \in visible' : rounds'[b] # None
        /\ floor' \in Phases
        /\ OnlyPaths' /\ FloorCovers' /\ FloorNumbered'
    BY <2>1, PlanKeeps
  <2>. QED
    BY <1>1, <1>2, <2>2, ExecuteType DEF TypeOK, Phases
<1>4. Linked'
  BY <1>1, <1>2, ExecuteLinked
<1>. QED
  BY <1>3, <1>4 DEF IInv, Waiting

LEMMA StepInvariant == ASSUME IInv, [Next]_vars PROVE IInv'
<1>1. TypeOK /\ Linked
  BY DEF IInv
<1>2. CASE Pick
  <2>1. /\ \E n \in Chosen(Candidates(Planned)) : Execute(n)
        /\ Plan(Planned) /\ UNCHANGED prompt /\ at' = "loop" /\ event' = event
    BY <1>2 DEF Pick
  <2>. QED
    BY <1>1, <2>1, PickKeeps DEF TypeOK
<1>3. CASE NativePick
  <2>1. /\ \E n \in Chosen(Candidates(Planned)) : Execute(n)
        /\ Plan(Planned) /\ UNCHANGED prompt /\ at' = "loop" /\ event' = FALSE
    BY <1>3 DEF NativePick
  <2>. QED
    BY <2>1, PickKeeps
<1>4. CASE Wait
  <2>1. /\ Plan(Planned) /\ at' = "waiting" /\ event' = event /\ prompt' = prompt
        /\ UNCHANGED <<pending, done, links, blocked, finished>> /\ blocked # {}
    BY <1>4 DEF Wait, listVars, Proceeds
  <2>2. /\ rounds' \in [Nodes -> Rounds]
        /\ visible' \subseteq Nodes /\ \A b \in visible' : rounds'[b] # None
        /\ floor' \in Phases
        /\ OnlyPaths' /\ FloorCovers' /\ FloorNumbered'
    BY <2>1, PlanKeeps
  <2>3. TypeOK'
    BY <1>1, <2>1, <2>2 DEF TypeOK, Phases
  <2>. QED
    BY <1>1, <2>1, <2>2, <2>3 DEF IInv, Linked, Waiting
<1>5. CASE Wake \/ NativeWait \/ NativeWake \/ UNCHANGED vars
  <2>1. /\ UNCHANGED <<prompt, pending, done, links, blocked, finished, rounds, visible, floor>>
        /\ at' \in {"loop", "waiting", "native"} /\ event' \in BOOLEAN
    BY <1>1, <1>5 DEF TypeOK, Wake, NativeWait, NativeWake, vars, listVars, planner
  <2>2. TypeOK' /\ Linked'
    BY <1>1, <2>1 DEF TypeOK, Linked
  <2>3. OnlyPaths' /\ FloorCovers' /\ FloorNumbered'
    BY <2>1 DEF IInv, OnlyPaths, FloorCovers, FloorNumbered, Phase, Stage
  <2>4. Available' = Available
    BY <2>1 DEF Available, Blocking, Inputs, BlockingLinks
  <2>5. Waiting'
    <3>1. CASE Wake
      BY <3>1 DEF Wake, Waiting
    <3>2. CASE NativeWait
      BY <1>1, <2>1, <2>4, <3>2 DEF NativeWait, Waiting, TypeOK
    <3>3. CASE NativeWake
      <4>1. pending # {} /\ Available = {}
        BY <3>3 DEF NativeWake, Waiting, IInv
      <4>2. blocked # {}
        BY <1>1, <4>1, WorkLeft
      <4>. QED
        BY <2>1, <2>4, <4>1, <4>2 DEF Waiting
    <3>4. CASE UNCHANGED vars
      BY <2>1, <2>4, <3>4 DEF IInv, Waiting, vars
    <3>. QED
      BY <1>5, <3>1, <3>2, <3>3, <3>4
  <2>. QED
    BY <2>2, <2>3, <2>5 DEF IInv
<1>6. CASE \E n \in Nodes : Unblock(n)
  <2>1. PICK n \in Nodes : Unblock(n)
    BY <1>6
  <2>2. /\ UNCHANGED <<prompt, pending, done, links, at, rounds, visible, floor>>
        /\ blocked' = blocked \ {n} /\ finished' = finished \union {n} /\ event' = TRUE
    BY <2>1 DEF Unblock, planner
  <2>3. TypeOK' /\ Linked'
    BY <1>1, <2>2 DEF TypeOK, Linked
  <2>4. OnlyPaths' /\ FloorCovers' /\ FloorNumbered'
    BY <2>2 DEF IInv, OnlyPaths, FloorCovers, FloorNumbered, Phase, Stage
  <2>5. Available' \subseteq Available \union {n}
    BY <2>2 DEF Available, Blocking, Inputs, BlockingLinks
  <2>. QED
    BY <2>2, <2>3, <2>4, <2>5 DEF IInv, Waiting
<1>. QED
  BY <1>2, <1>3, <1>4, <1>5, <1>6 DEF Next

LEMMA Invariant == Spec => []IInv
BY InitInvariant, StepInvariant, PTL DEF Spec

-----------------------------------------------------------------------------
(* Theorems.                                                                *)

\* Every reachable state of the scheduler is well typed, and every path the
\* planner has seen has a round.
THEOREM TypeCorrect == Spec => []TypeOK
BY Invariant, PTL DEF IInv

\* Nothing completes but what is picked, and only after the planner was asked.
LEMMA CompletesPlanned ==
  ASSUME IInv, Next, NEW b \in pending \ pending'
  PROVE  Plan(Planned)
<1>1. \A n : Execute(n) => done' \subseteq done \union pending
  BY DEF Execute, Ask, Launch, Complete
<1>2. CASE Pick
  BY <1>2 DEF Pick
<1>3. CASE NativePick
  BY <1>3 DEF NativePick
<1>4. CASE Wait \/ Wake \/ NativeWait \/ NativeWake
  BY <1>4 DEF Wait, Wake, NativeWait, NativeWake, listVars
<1>5. CASE \E n \in Nodes : Unblock(n)
  BY <1>5 DEF Unblock
<1>. QED
  BY <1>2, <1>3, <1>4, <1>5 DEF Next

\* A step keeps the prompt.
LEMMA StepKeepsPrompt == ASSUME [Next]_vars PROVE prompt' = prompt
BY DEF Next, Pick, Wait, Wake, NativeWait, NativeWake, NativePick, Unblock, vars

\* Only a call of the planner changes rounds, and only a node that runs the lists.
LEMMA StepPlans ==
  ASSUME [Next]_vars, ~Plan(Planned)
  PROVE  rounds' = rounds /\ links' = links /\ done' = done
BY DEF Next, Pick, Wait, Wake, NativeWait, NativeWake, NativePick, Unblock, vars, listVars, planner

\* A node that gets done was ready.
LEMMA StepCompletes ==
  ASSUME TypeOK, [Next]_vars, done' # done
  PROVE  \E n \in Available : Complete(n) /\ Plan(Planned)
<1>1. PICK n \in Chosen(Candidates(Planned)) : Execute(n) /\ Plan(Planned)
  BY DEF Next, Pick, Wait, Wake, NativeWait, NativeWake, NativePick, Unblock, vars, listVars, planner
<1>2. n \in Available
  BY ChosenReady
<1>3. Complete(n)
  BY <1>1 DEF Execute, Ask, Launch
<1>. QED
  BY <1>1, <1>2, <1>3

\* A new link leads to a node that is not done.
LEMMA OldLinks ==
  ASSUME TypeOK, [Next]_vars, NEW l \in links', l[2] \notin pending'
  PROVE  l \in links
<1>1. CASE \E n \in Chosen(Candidates(Planned)) : Execute(n)
  <2>1. PICK n \in Chosen(Candidates(Planned)) : Execute(n)
    BY <1>1
  <2>2. CASE Ask(n)
    <3>1. n \in pending
      BY ChosenReady
    <3>2. PICK asked \in Demands(n) :
          LET new == Needed({k[1] : k \in asked} \ done, done) \ pending
          IN /\ pending' = pending \union new
             /\ links' = links \union asked \union {k \in prompt.strong : k[2] \in new}
      BY <2>2 DEF Ask
    <3>3. \A k \in asked : k[2] = n
      BY <3>2 DEF Demands
    <3>. QED
      BY <3>1, <3>2, <3>3
  <2>3. CASE Launch(n) \/ Complete(n)
    BY <2>3 DEF Launch, Complete
  <2>. QED
    BY <2>1, <2>2, <2>3 DEF Execute
<1>2. CASE links' = links
  BY <1>2
<1>. QED
  BY <1>1, <1>2 DEF Next, Pick, Wait, Wake, NativeWait, NativeWake, NativePick, Unblock, vars, listVars

\* Stage paths complete in the order of their phases, whatever the prompt.
THEOREM PassedPhasesStay == Spec => PhasesInOrder
<1>1. ASSUME IInv, [Next]_vars
      PROVE  [\A b \in Paths(pending \ pending') : \A c \in done :
               rounds'[c] # None => AtMost(Phase(rounds', c), Phase(rounds', b))]_vars
  <2> SUFFICES ASSUME Next, NEW b \in Paths(pending \ pending'), NEW c \in done,
                      rounds'[c] # None
               PROVE  AtMost(Phase(rounds', c), Phase(rounds', b))
    BY <1>1
  <2>1. b \in Paths(pending) /\ b \in pending \ pending'
    BY DEF Paths
  <2>2. Plan(Planned) /\ rounds' = Planned
    BY <1>1, <2>1, CompletesPlanned DEF Plan
  <2>3. TypeOK /\ Linked /\ b \in Nodes /\ c \in Nodes /\ c \notin pending
    BY <1>1, <2>1 DEF IInv, TypeOK
  <2>4. rounds[c] # None
    BY <2>2, <2>3, PlannedType DEF Paths
  <2>5. Phase(rounds', c) = Phase(rounds, c) /\ AtMost(Phase(rounds, c), Floor)
    BY <1>1, <2>2, <2>4, DoneBeforeFloor DEF Phase
  <2>6. AtMost(Floor, Phase(rounds', b))
    BY <1>1, <2>1, <2>2, <2>3, PendingAfterFloor DEF IInv
  <2>7. Phase(rounds, c) \in Phases /\ Floor \in Phases /\ Phase(rounds', b) \in Phases
    BY <2>2, <2>3, PhaseType, FloorType, PlannedType DEF Plan, TypeOK
  <2>. QED
    BY <2>5, <2>6, <2>7, PhaseOrder
<1>. QED
  BY <1>1, Invariant, PTL DEF Spec, PhasesInOrder

\* Whatever the prompt, a stage path that needs another one of a higher label is
\* of a later round: when it completes, the other has, and phases only go up.
THEOREM DependenciesTakeRounds == Spec => []RoundsFollowDependencies
<1>1. Init => RoundsFollowDependencies
  <2>1. Init => done \subseteq Nodes /\ \A b \in Nodes : rounds[b] = None
    BY InitInvariant DEF Init, IInv, TypeOK
  <2>. QED
    BY <2>1 DEF RoundsFollowDependencies, Paths
<1>2. IInv /\ IInv' /\ RoundsFollowDependencies /\ [Next]_vars => RoundsFollowDependencies'
  <2> SUFFICES ASSUME IInv, IInv', RoundsFollowDependencies, [Next]_vars,
                      NEW b \in Paths(done)', NEW c \in Paths(done)',
                      rounds'[b] # None, rounds'[c] # None, Stage(b)' < Stage(c)',
                      <<c, b>> \in links'
               PROVE  rounds'[c] < rounds'[b]
    BY DEF RoundsFollowDependencies
  <2>1. TypeOK /\ Linked /\ TypeOK'
    BY DEF IInv
  <2>2. /\ b \in Nodes /\ c \in Nodes /\ b \in done' /\ c \in done'
        /\ rounds'[b] \in Int /\ rounds'[c] \in Int
    BY <2>1 DEF TypeOK, Paths, Rounds, None
  <2>3. prompt' = prompt /\ Stage(b)' = Stage(b) /\ Stage(c)' = Stage(c)
    BY StepKeepsPrompt DEF Stage
  <2>4. CASE done' = done
    <3>1. b \in Paths(done) /\ c \in Paths(done)
      BY <2>2, <2>3, <2>4 DEF Paths
    <3>2. rounds'[b] = rounds[b] /\ rounds'[c] = rounds[c] /\ <<c, b>> \in links
      <4>1. b \notin pending /\ c \notin pending
        BY <2>1, <2>2, <2>4 DEF TypeOK
      <4>2. CASE Plan(Planned)
        <5>1. rounds'[b] = rounds[b] /\ rounds'[c] = rounds[c]
          BY <2>1, <2>2, <4>1, <4>2, PlannedType DEF Plan, Paths
        <5>. QED
          BY <2>1, <2>2, <5>1, OldLinks DEF TypeOK
      <4>3. CASE ~Plan(Planned)
        BY <4>3, StepPlans
      <4>. QED
        BY <4>2, <4>3
    <3>. QED
      BY <2>3, <3>1, <3>2 DEF RoundsFollowDependencies
  <2>5. CASE done' # done
    <3>1. PICK n \in Available : Complete(n) /\ Plan(Planned)
      BY <2>1, <2>5, StepCompletes
    <3>2. /\ n \in pending /\ done' = done \union {n} /\ pending' = pending \ {n}
          /\ links' = links /\ rounds' = Planned
      BY <3>1 DEF Complete, Available, Plan
    <3>3. \A m \in done : rounds'[m] = rounds[m]
      BY <2>1, <3>2, PlannedType DEF TypeOK, Paths
    <3>4. CASE b \in done
      <4>1. c \in done
        BY <2>1, <3>2, <3>4 DEF Linked
      <4>. QED
        BY <2>2, <2>3, <3>2, <3>3, <3>4, <4>1 DEF RoundsFollowDependencies, Paths
    <3>5. CASE b \notin done
      <4>1. b = n /\ b \in Paths(pending)
        BY <2>2, <2>3, <3>2, <3>5 DEF Paths
      <4>2. c \in done
        <5>1. c \notin pending
          BY <2>2, <3>1, <3>2, <4>1 DEF Available, Blocking, Inputs, BlockingLinks
        <5>. QED
          BY <2>1, <3>2, <5>1 DEF Linked
      <4>3. AtMost(Phase(Planned, c), Phase(Planned, b))
        <5>1. rounds[c] # None
          BY <3>3, <4>2
        <5>2. Planned[c] = rounds[c] /\ AtMost(Phase(rounds, c), Floor)
          BY <4>2, <5>1, DoneBeforeFloor
        <5>3. AtMost(Floor, Phase(Planned, b))
          BY <2>1, <4>1, PendingAfterFloor DEF IInv
        <5>4. Phase(rounds, c) \in Phases /\ Floor \in Phases /\ Phase(Planned, b) \in Phases
          BY <2>1, <2>2, PhaseType, FloorType, PlannedType DEF TypeOK
        <5>. QED
          BY <5>2, <5>3, <5>4, PhaseOrder DEF Phase
      <4>4. Stage(b) \in Int /\ Stage(c) \in Int /\ Stage(b) < Stage(c)
        BY <2>1, <2>2, <2>3, StageType DEF Rounds, None
      <4>. QED
        BY <2>2, <3>2, <4>3, <4>4 DEF AtMost, Before, Phase
    <3>. QED
      BY <3>4, <3>5
  <2>. QED
    BY <2>4, <2>5
<1>. QED
  BY <1>1, <1>2, Invariant, PTL DEF Spec

\* The phase that is worked on is that of a pending path.
LEMMA ActivePath ==
  ASSUME IInv, Paths(pending) # {}
  PROVE  Targets(Planned) # {}
<1>. DEFINE S == Paths(pending)
            h(b) == Phase(Planned, b)
            R == {l \in S \X S : Before(h(l[2]), h(l[1]))}
<1>1. TypeOK /\ Linked
  BY DEF IInv
<1>2. S \in SUBSET Nodes /\ IsFiniteSet(S)
  BY <1>1, PromptsAssumption, FS_Subset DEF Paths, TypeOK
<1>3. \A b \in S : h(b) \in Phases
  BY <1>1, <1>2, PhaseType, PlannedType
<1>4. \A a, c \in S : <<a, c>> \in R <=> Before(h(c), h(a))
  OBVIOUS
<1>. HIDE DEF h, R
<1>5. PICK b \in S : \A c \in S : <<b, c>> \notin R
  <2>1. \A a \in S : <<a, a>> \notin R
    BY <1>3, <1>4, BeforeOrder
  <2>2. \A a, c, d \in S : <<a, c>> \in R /\ <<c, d>> \in R => <<a, d>> \in R
    BY <1>3, <1>4, BeforeOrder
  <2>. HIDE DEF S
  <2>. QED
    BY <1>2, <2>1, <2>2, Topmost DEF S
<1>6. \A c \in S : AtMost(h(b), h(c))
  BY <1>3, <1>4, <1>5, BeforeOrder
<1>7. Active(Planned) \in {Phase(Planned, c) : c \in S}
  BY <1>5, <1>6 DEF Active, Earliest, h
<1>. QED
  BY <1>7 DEF Targets

\* The order never leaves the executor without a candidate, but for a node whose
\* asynchronous work goes on.
LEMMA CandidateExists ==
  ASSUME IInv, Paths(pending) # {}, blocked = {}
  PROVE  Candidates(Planned) # {}
<1>1. TypeOK /\ Linked
  BY DEF IInv
<1>. DEFINE T == Targets(Planned)
            S == Ancestors(T) \intersect pending
<1>2. T # {} /\ T \in SUBSET pending /\ T \in SUBSET Nodes
  BY <1>1, ActivePath DEF Targets, Paths, TypeOK
<1>. HIDE DEF T
<1>3. S # {}
  BY <1>2, ClosureHolds DEF Ancestors
<1>4. Ranked(BlockingLinks)
  BY <1>1, LinksRanked DEF Ranked, BlockingLinks
<1>5. \A x \in pending, y \in S : <<x, y>> \in links => x \in S
  <2> SUFFICES ASSUME NEW x \in pending, NEW y \in S, <<x, y>> \in links PROVE x \in Ancestors(T)
    OBVIOUS
  <2>1. x \in Nodes /\ <<x, y>> \in BlockingLinks
    BY <1>1 DEF TypeOK, BlockingLinks
  <2>. QED
    BY <1>2, <1>4, <2>1, ClosureClosed DEF Ancestors
<1>6. PICK n \in S : Blocking({n}) = {}
  <2>. HIDE DEF S
  <2>. QED
    BY <1>1, <1>3, <1>5, OneUnblocked DEF S
<1>7. n \in Available \intersect Ancestors(Targets(Planned))
  BY <1>6 DEF Available, T
<1>. QED
  BY <1>7 DEF Candidates

\* While a phase has work to do, nothing starts but what leads to its paths or to
\* the discovery of hidden ones.  Where the wrappers fall back to any node that is
\* ready, either a candidate exists, or all of these nodes have been started.
THEOREM NothingElseStarts == Spec => OnlyRequiredStarts
<1>1. ASSUME IInv, [Next]_vars
      PROVE  [\A n \in Nodes : Starts(n) /\ Paths(pending) # {} =>
               n \in Ancestors(Targets(rounds') \union Discovery(rounds'))]_vars
  <2> SUFFICES ASSUME Next, NEW n \in Nodes, Starts(n), Paths(pending) # {}
               PROVE  n \in Ancestors(Targets(rounds') \union Discovery(rounds'))
    BY <1>1
  <2>1. TypeOK /\ Linked
    BY <1>1 DEF IInv
  <2>2. \A m : Execute(m) => m = n
    BY DEF Execute, Ask, Launch, Complete, Starts
  <2>3. n \in Chosen(Candidates(Planned)) /\ rounds' = Planned /\ Candidates(Planned) # {}
    <3>1. CASE Pick
      <4>1. /\ n \in Chosen(Candidates(Planned)) /\ rounds' = Planned
            /\ Proceeds(Candidates(Planned))
        BY <2>2, <3>1 DEF Pick, Plan
      <4>. QED
        BY <1>1, <4>1, CandidateExists DEF Proceeds
    <3>2. CASE NativePick
      <4>1. n \in Chosen(Candidates(Planned)) /\ rounds' = Planned /\ at = "native"
        BY <2>2, <3>2 DEF NativePick, Plan
      <4>2. n \notin Available
        BY <1>1, <4>1 DEF IInv, Waiting, Starts
      <4>. QED
        BY <4>1, <4>2 DEF Chosen
    <3>3. CASE Wait \/ Wake \/ NativeWait \/ NativeWake
      BY <3>3 DEF Wait, Wake, NativeWait, NativeWake, listVars, Starts
    <3>4. CASE \E m \in Nodes : Unblock(m)
      BY <3>4 DEF Unblock, Starts
    <3>. QED
      BY <3>1, <3>2, <3>3, <3>4 DEF Next
  <2>4. n \in Candidates(Planned)
    BY <2>3 DEF Chosen
  <2>5. n \in Ancestors(Targets(Planned)) \/ n \in Ancestors(Discovery(Planned))
    BY <2>4 DEF Candidates
  <2>6. Targets(Planned) \in SUBSET Nodes /\ Discovery(Planned) \in SUBSET Nodes
    BY <2>1 DEF Targets, Discovery, Paths, TypeOK
  <2>7. Targets(Planned) \union Discovery(Planned) \in SUBSET Nodes
    BY <2>6
  <2>. QED
    BY <2>3, <2>5, <2>6, <2>7, ClosureGrows DEF Ancestors
<1>. QED
  BY <1>1, Invariant, PTL DEF Spec, OnlyRequiredStarts

\* No prompt gets stuck: while nodes are pending, one is ready or asynchronous work
\* goes on; a wait that no event has ended yet is for a node that will set one;
\* and if no such work goes on, the planner allows a node.
NeverStuck ==
  /\ pending # {} => Available # {} \/ blocked # {}
  /\ at # "loop" /\ ~event => blocked # {}
  /\ Paths(pending) # {} /\ blocked = {} => Candidates(Planned) # {}

THEOREM WaitsAreAnswered == Spec => []NeverStuck
<1>1. IInv => NeverStuck
  BY WorkLeft, CandidateExists DEF IInv, Waiting, NeverStuck
<1>. QED
  BY <1>1, Invariant, PTL

\* What the planner computes exists in every state: the latest phase that has
\* completed, and an assignment of phases that none of its lower bounds undercut.
PlannerSolves == Recorded(Floor) /\ Solved(Assignment)

THEOREM PhasesAreAssigned == Spec => []PlannerSolves
<1>1. IInv => PlannerSolves
  BY FloorRecorded, LinksRanked, AssignmentSolved DEF IInv, PlannerSolves
<1>. QED
  BY <1>1, Invariant, PTL
=============================================================================
