---------------------------- MODULE StageBarrier -----------------------------
(***************************************************************************)
(* The execution order of one prompt under runtime/stage_barrier.py: the   *)
(* planner that labels stage paths with phases (round, stage), and the two *)
(* wrappers around ComfyUI's ExecutionList that restrict which ready node  *)
(* runs next and wait while only unrelated work is ready.                  *)
(*                                                                         *)
(* ComfyUI's part is modelled as the wrappers use it: the pending nodes,   *)
(* the links that block them, nodes that ask for lazy inputs or expand     *)
(* into a subgraph when they run, and asynchronous nodes, which stay       *)
(* pending under an external block.  Which of the candidates it picks is   *)
(* left open.                                                              *)
(***************************************************************************)
EXTENDS Integers, FiniteSets

CONSTANTS
  Nodes,    \* identities of nodes
  Prompts   \* the prompts considered, without cycles

None == -1
Rounds == Nat \union {None}

\* stage: the label of a stage path, None for other nodes.  Links are pairs
\* <<source, target>>: strong inputs, lazy inputs, and dynamic ones, which exist
\* once the target has expanded.  cached: outputs kept from earlier prompts.
PromptRecords ==
  [stage: [Nodes -> Nat \union {None}], strong: SUBSET (Nodes \X Nodes),
   lazy: SUBSET (Nodes \X Nodes), dynamic: SUBSET (Nodes \X Nodes),
   outputs: SUBSET Nodes, async: SUBSET Nodes, cached: SUBSET Nodes]

\* "Without cycles": the nodes can be numbered such that links lead upwards.
ASSUME PromptsAssumption ==
  /\ IsFiniteSet(Nodes)
  /\ Prompts \subseteq PromptRecords
  /\ \A p \in Prompts : \E rank \in [Nodes -> 1..Cardinality(Nodes)] :
       \A l \in p.strong \union p.lazy \union p.dynamic : rank[l[1]] < rank[l[2]]

VARIABLES
  prompt,    \* the prompt that runs
  pending,   \* execution_list.pendingNodes
  done,      \* nodes whose output is cached
  links,     \* execution_list.blocking, with the links that no longer block
  blocked,   \* nodes under an external block
  finished,  \* asynchronous nodes whose work is done
  at,        \* "loop", "waiting" (in the wrapper) or "native" (in ComfyUI's wait)
  event,     \* execution_list.unblockedEvent
  rounds,    \* BarrierPlanner._phases: the round; the stage is the node's label
  visible,   \* BarrierPlanner._visible_barriers
  floor      \* BarrierPlanner._floor

listVars == <<pending, done, links, blocked, finished>>
planner == <<rounds, visible, floor>>
vars == <<prompt, listVars, at, event, planner>>

-----------------------------------------------------------------------------
(* ComfyUI's graph.                                                         *)

Inputs(nodes, kind) == {s \in Nodes : \E n \in nodes : <<s, n>> \in kind}

\* nodes and everything upstream of them.
Closure(nodes, kind) ==
  LET more[found \in SUBSET Nodes] == found \union Inputs(found, kind)
      reach[i \in Nat] == IF i = 0 THEN nodes ELSE more[reach[i - 1]]
  IN Nodes \intersect reach[Cardinality(Nodes)]

\* add_node: nodes, and what they need strongly, as far as it is not cached.
Needed(nodes, cached) ==
  Closure(nodes, {l \in prompt.strong : l[1] \notin cached}) \ cached

BlockingLinks == {l \in links : l[1] \in pending}
Blocking(nodes) == Inputs(nodes, BlockingLinks)
Available == {n \in pending \ blocked : Blocking({n}) = {}}

\* _ancestors
Ancestors(nodes) == Closure(nodes, BlockingLinks)

-----------------------------------------------------------------------------
(* The planner.  A phase is a pair <<round, stage>>.                        *)

Before(p, q) == p[1] < q[1] \/ (p[1] = q[1] /\ p[2] < q[2])
AtMost(p, q) == p = q \/ Before(p, q)
Earliest(phases) == CHOOSE p \in phases : \A q \in phases : AtMost(p, q)

NoPhase == <<None, None>>
Stage(n) == prompt.stage[n]
Paths(nodes) == {n \in nodes : Stage(n) # None}
Phase(r, n) == <<r[n], Stage(n)>>

MutDrop(stage, from) == 0
Drop(stage, from) == IF stage < from THEN 1 ELSE 0

\* _record_completed: the latest phase of a path that has completed.
Completed == {Phase(rounds, n) : n \in {m \in visible \ pending : rounds[m] # None}}
Recorded(passed) ==
  /\ passed \in Completed \union {floor}
  /\ \A p \in Completed \union {floor} : AtMost(p, passed)
Floor == CHOOSE passed \in Completed \union {floor} : Recorded(passed)

\* _minimum_round
MutMinimumRound(stage) == 0
MinimumRound(stage) ==
  LET passed == Floor
  IN IF passed = NoPhase THEN 0 ELSE passed[1] + Drop(stage, passed[2])

\* _nearest_barrier_predecessors
Nearest(b) ==
  Paths(Closure(Blocking({b}), {l \in BlockingLinks : Stage(l[2]) = None}))

\* _assign_phases: in topological order, none of the lower bounds is undercut.
Bounds(r, b) ==
  {MinimumRound(Stage(b)), rounds[b]} \union
  {r[s] + Drop(Stage(b), Stage(s)) : s \in Nearest(b)}
Latest(numbers) == CHOOSE i \in numbers : \A j \in numbers : j <= i
Assignment ==
  LET r[b \in Nodes] == IF b \in Paths(pending) THEN Latest(Bounds(r, b)) ELSE rounds[b]
  IN [b \in Nodes |-> r[b]]

\* A path is new, or its phase has passed.
MutOutdated == \A b \in Paths(pending) : rounds[b] = None
Outdated ==
  \E b \in Paths(pending) : rounds[b] = None \/ rounds[b] < MinimumRound(Stage(b))

Planned == IF Outdated THEN Assignment ELSE rounds

\* _direct_hidden_stage_inputs: stages of inputs that are not pending.
Hidden(n) ==
  {Stage(s) : s \in Paths(Inputs({n}, prompt.strong \union prompt.lazy) \ pending)}
HiddenPhase(n) == Earliest({<<MinimumRound(i), i>> : i \in Hidden(n)})

Active(r) == Earliest({Phase(r, b) : b \in Paths(pending)})

\* The nodes that may reveal a hidden path of an early phase.
Discovery(r) ==
  LET reveals == [n \in {m \in pending : Hidden(m) # {}} |-> HiddenPhase(n)]
      found == {n \in DOMAIN reveals :
                  Paths(pending) = {} \/ AtMost(reveals[n], Active(r))}
  IN {n \in found : \A m \in found : AtMost(reveals[n], reveals[m])}

Targets(r) == {b \in Paths(pending) : Phase(r, b) = Active(r)}

\* BarrierPlanner.candidates without the fallback.
Candidates(r) ==
  LET discover == Available \intersect Ancestors(Discovery(r))
  IN IF discover # {} THEN discover
     ELSE IF Paths(pending) = {} THEN Available
     ELSE Available \intersect Ancestors(Targets(r))

\* What a call of candidates() changes.
Plan(r) ==
  /\ rounds' = r
  /\ visible' = Paths(pending)
  /\ floor' = Floor

-----------------------------------------------------------------------------
TypeOK ==
  /\ prompt \in PromptRecords
  /\ pending \subseteq Nodes /\ done \subseteq Nodes /\ pending \intersect done = {}
  /\ links \subseteq Nodes \X Nodes
  /\ blocked \subseteq pending /\ finished \subseteq Nodes
  /\ at \in {"loop", "waiting", "native"} /\ event \in BOOLEAN
  /\ rounds \in [Nodes -> Rounds]
  /\ visible \subseteq Nodes /\ \A b \in visible : rounds[b] # None
  /\ floor \in Rounds \X Rounds

Init ==
  /\ prompt \in Prompts
  /\ done = prompt.cached
  /\ pending = Needed(prompt.outputs \ prompt.cached, prompt.cached)
  /\ links = {l \in prompt.strong : l[2] \in pending}
  /\ blocked = {} /\ finished = {}
  /\ at = "loop" /\ event = FALSE
  /\ rounds = [n \in Nodes |-> None] /\ visible = {} /\ floor = NoPhase

-----------------------------------------------------------------------------
(* A picked node runs.                                                      *)

\* It asks for lazy inputs, or expands, and stays pending.
Demands(n) ==
  LET grown == {l \in prompt.dynamic \ links : l[2] = n}
      lazy == {l \in prompt.lazy \ links : l[2] = n /\ l[1] \notin done}
  IN (SUBSET lazy \ {{}}) \union (IF grown = {} THEN {} ELSE {grown})

Ask(n) ==
  \E asked \in Demands(n) :
    LET new == Needed({l[1] : l \in asked} \ done, done) \ pending
    IN /\ pending' = pending \union new
       /\ links' = links \union asked \union {l \in prompt.strong : l[2] \in new}
  /\ UNCHANGED <<done, blocked, finished>>

Launch(n) ==
  /\ n \in prompt.async \ finished
  /\ blocked' = blocked \union {n}
  /\ UNCHANGED <<pending, done, links, finished>>

Complete(n) ==
  /\ n \notin prompt.async \ finished
  /\ {l \in prompt.dynamic \ links : l[2] = n} = {}
  /\ pending' = pending \ {n} /\ done' = done \union {n}
  /\ UNCHANGED <<links, blocked, finished>>

Execute(n) == Ask(n) \/ Launch(n) \/ Complete(n)

\* stage_aware_pick_node, with the fallback.
Chosen(allowed) == IF allowed # {} THEN allowed ELSE Available

\* _wait_for_active_barrier_phase returns.
MutProceeds(allowed) == TRUE
Proceeds(allowed) == allowed # {} \/ blocked = {}

-----------------------------------------------------------------------------
(* stage_aware_stage_node_execution and the loop around it.                 *)

Pick ==
  /\ at = "loop" /\ Available # {}
  /\ \E r \in {Planned} : \E allowed \in {Candidates(r)} :
       /\ Proceeds(allowed)
       /\ \E n \in Chosen(allowed) : Execute(n)
       /\ Plan(r)
  /\ UNCHANGED <<prompt, at, event>>

\* Only unrelated work is ready.
Wait ==
  /\ at = "loop" /\ Available # {}
  /\ \E r \in {Planned} : ~Proceeds(Candidates(r)) /\ Plan(r)
  /\ at' = "waiting"
  /\ UNCHANGED <<prompt, listVars, event>>

MutWake ==
  /\ at = "waiting" /\ event
  /\ at' = "loop"
  /\ UNCHANGED <<prompt, listVars, event, planner>>

Wake ==
  /\ at = "waiting" /\ event
  /\ at' = "loop" /\ event' = FALSE
  /\ UNCHANGED <<prompt, listVars, planner>>

\* Nothing is ready: ComfyUI's own wait, from which it picks directly.
NativeWait ==
  /\ at = "loop" /\ Available = {} /\ blocked # {}
  /\ at' = "native"
  /\ UNCHANGED <<prompt, listVars, event, planner>>

NativeWake ==
  /\ at = "native" /\ event /\ Available = {}
  /\ event' = FALSE
  /\ UNCHANGED <<prompt, listVars, at, planner>>

NativePick ==
  /\ at = "native" /\ event
  /\ \E r \in {Planned} :
       /\ \E n \in Chosen(Candidates(r)) : Execute(n)
       /\ Plan(r)
  /\ at' = "loop" /\ event' = FALSE
  /\ UNCHANGED prompt

\* An asynchronous node ends.  To await an event that is set gives nobody a turn.
Unblock(n) ==
  /\ n \in blocked
  /\ ~(at # "loop" /\ event)
  /\ blocked' = blocked \ {n} /\ finished' = finished \union {n}
  /\ event' = TRUE
  /\ UNCHANGED <<prompt, pending, done, links, at, planner>>

Next ==
  \/ Pick \/ Wait \/ Wake \/ NativeWait \/ NativeWake \/ NativePick
  \/ \E n \in Nodes : Unblock(n)

Spec == Init /\ [][Next]_vars

\* The loop goes on and asynchronous nodes end.
FairSpec == Spec /\ WF_vars(Next) /\ \A n \in Nodes : WF_vars(Unblock(n))

-----------------------------------------------------------------------------
(* Properties.                                                              *)

Starts(n) == /\ n \in pending \ (blocked \union finished)
             /\ n \notin pending' \/ n \in blocked'

\* A passed phase is never reopened: whatever lazy inputs and expansions reveal,
\* stage paths complete in the order of the phases they end up with.
PhasesInOrder ==
  [][\A b \in Paths(pending \ pending') : \A c \in done :
       rounds'[c] # None => AtMost(Phase(rounds', c), Phase(rounds', b))]_vars

\* A dependency of a higher label always belongs to an earlier round.
RoundsFollowDependencies ==
  \A b, c \in Paths(done) :
    rounds[b] # None /\ rounds[c] # None /\ Stage(b) < Stage(c) /\ <<c, b>> \in links
      => rounds[c] < rounds[b]

\* While a phase has work to do, also if that work is asynchronous, nothing
\* starts but what leads to its stage paths or to the discovery of hidden ones.
OnlyRequiredStarts ==
  [][\A n \in Nodes : Starts(n) /\ Paths(pending) # {} =>
       n \in Ancestors(Targets(rounds') \union Discovery(rounds'))]_vars

\* The order never keeps a prompt from finishing: no wait is left unanswered.
PromptFinishes == <>(pending = {})

\* "Barriers with the same inferred (round, stage) rendezvous before downstream
\* work is released": what follows a stage path starts only when the phase is
\* over, unless the rest of the phase needs it.
Rendezvous ==
  [][\A n \in Nodes, c \in Paths(done) :
       LET peers == {b \in Paths(pending) : Phase(rounds', b) = Phase(rounds', c)}
       IN Starts(n) /\ <<c, n>> \in links /\ peers # {} => n \in Ancestors(peers)]_vars
=============================================================================
