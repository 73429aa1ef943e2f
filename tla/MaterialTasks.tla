--------------------------- MODULE MaterialTasks ----------------------------
(***************************************************************************)
(* Canvas operations: the class MaterialTasks of workspace/execution.py    *)
(* with what tasks.py, cache.py and store.py do for it, in one directory.  *)
(*                                                                         *)
(* An operation generates a list of materials, one after the other.  Each  *)
(* is an _execute task: it compiles a prompt, submits it to ComfyUI's      *)
(* queue and polls.  A prompt that reads a material still to be refreshed  *)
(* ends "waiting" for it; the task then waits for the task that generates  *)
(* the material, or starts one itself, and submits its prompt again.       *)
(* Operations share the running task of a material if they were asked of   *)
(* the same revision of the canvas, and otherwise wait for it to end.      *)
(*                                                                         *)
(* The tasks run on one event loop: an action is what happens between two  *)
(* awaits.  ComfyUI's worker and the users act in between, and tasks woken *)
(* by one future run in any order.                                         *)
(***************************************************************************)
EXTENDS Naturals, Sequences, FiniteSets

CONSTANTS
  Ops,          \* identities of operations
  Mats,         \* materials of the directory ("targets")
  NoMat,        \* no material
  Free,         \* self.lock has no owner
  Plan,         \* the targets of an operation that is not shared
  Needs,        \* revision -> <<m, d>>: the prompt of m reads d, to be refreshed
  MaxTasks,     \* bound: executions
  MaxEdits,     \* bound: revisions of the canvas
  MaxEvents     \* bound: interventions of people, failures, crashes

ASSUME TasksAssumption ==
  /\ MaxTasks \in Nat /\ MaxEdits \in Nat /\ MaxEvents \in Nat
  /\ NoMat \notin Mats
  /\ Free \notin Ops \union Nat
  /\ Ops \intersect Nat = {}
  /\ Plan \in [Ops -> Seq(Mats)]
  /\ Needs \in [0..MaxEdits -> SUBSET (Mats \X Mats)]

VARIABLES
  ops,         \* rows of the table "operations", the records of self.active
  task,       \* the _execute tasks with their rows of the table "runs"
  frame,      \* what an operation or a task awaits inside _material or _wait
  materials,  \* self.materials; material_revisions[m] is the task's own rev
  waits,      \* self.waits
  lock,       \* the owner of self.lock
  canvas,     \* the revision of canvas.json
  selection,  \* the content revision of each material's selection
  manual,     \* history variable: the last revision of it a person made
  events      \* counter MaxEvents limits

vars == <<ops, task, frame, materials, waits, lock, canvas, selection, manual, events>>
disk == <<canvas, selection, manual>>

-----------------------------------------------------------------------------
(* Values.                                                                  *)

Tasks == 1..MaxTasks
NoTask == 0
SomeTask == 0..MaxTasks
Revisions == 0..MaxEdits
Final == {"success", "failed", "interrupted", "cancelled", "selection_changed"}

\* idle; snapshot: start() has the lock; queued: _operation is created; run:
\* inside its loop; done; lost: the server was restarted.
OpPlaces == {"idle", "snapshot", "queued", "run", "done", "lost"}
OpRows == {"none", "queued", "running"} \union Final

\* compile, submit (waiting for the lock), validate (holding it), native
\* (polling), snapshot (taking one for a dependency), depend (waiting for a
\* material, or about to call _material for it), done, lost.
TaskPlaces == {"free", "compile", "submit", "validate", "native", "snapshot", "depend",
               "done", "lost"}
Outcomes == {"none", "success", "failed", "interrupted"}
RunRows == Outcomes \union {"prepared", "queued", "running", "waiting"}

\* ComfyUI's side of a submitted prompt.  "stopping" is running with the
\* interrupt requested, "over" in the history, "removed" in none of them.
Items == {"none", "queued", "running", "stopping", "over", "removed"}

OpRecords ==
  [at: OpPlaces, row: OpRows, rev: Revisions, shown: [Mats -> Nat],
   cancel: BOOLEAN, interrupt: BOOLEAN, step: Nat, generated: SUBSET Mats,
   pending: [Mats -> SomeTask], old: SUBSET Tasks]

\* root: the operation whose "generated" set the task shares; sources:
\* pending_sources; resumed: readers told to read what is selected now; base:
\* the selection the prompt was compiled from; shown: the one first seen.
TaskRecords ==
  [at: TaskPlaces, target: Mats \union {NoMat}, rev: Revisions, base: Nat, shown: Nat,
   ancestors: SUBSET Mats, root: Ops \union {Free}, sources: [Mats -> SomeTask],
   resumed: SUBSET Mats, dependency: Mats \union {NoMat}, row: RunRows,
   selected: BOOLEAN, item: Items, outcome: Outcomes]

\* own: created here; share: the same revision; previous: another revision;
\* wait: in _wait; none: nothing is awaited, but a snapshot may be held.
Frames ==
  [on: SomeTask, how: {"none", "own", "share", "previous", "wait"},
   rev: Revisions, base: Nat, shown: Nat]

NoSources == [m \in Mats |-> NoTask]
NewOp == [at |-> "idle", row |-> "none", rev |-> 0, shown |-> [m \in Mats |-> 0],
          cancel |-> FALSE, interrupt |-> FALSE, step |-> 0, generated |-> {},
          pending |-> NoSources, old |-> {}]
FreeTask == [at |-> "free", target |-> NoMat, rev |-> 0, base |-> 0, shown |-> 0,
             ancestors |-> {}, root |-> Free, sources |-> NoSources, resumed |-> {},
             dependency |-> NoMat, row |-> "none", selected |-> FALSE,
             item |-> "none", outcome |-> "none"]
NoFrame == [on |-> NoTask, how |-> "none", rev |-> 0, base |-> 0, shown |-> 0]

TypeOK ==
  /\ ops \in [Ops -> OpRecords]
  /\ task \in [Tasks -> TaskRecords]
  /\ frame \in [Ops \union Tasks -> Frames]
  /\ materials \in [Mats -> SomeTask]
  /\ waits \in [Mats -> Mats \union {NoMat}]
  /\ lock \in Ops \union Tasks \union {Free}
  /\ canvas \in Revisions
  /\ selection \in [Mats -> Nat] /\ manual \in [Mats -> Nat]
  /\ events \in 0..MaxEvents

Init ==
  /\ ops = [o \in Ops |-> NewOp]
  /\ task = [t \in Tasks |-> FreeTask]
  /\ frame = [c \in Ops \union Tasks |-> NoFrame]
  /\ materials = NoSources
  /\ waits = [m \in Mats |-> NoMat]
  /\ lock = Free
  /\ canvas = 0
  /\ selection = [m \in Mats |-> 0] /\ manual = [m \in Mats |-> 0]
  /\ events = 0

-----------------------------------------------------------------------------
(* What the code looks at.                                                  *)

Active(o) == ops[o].at \in {"queued", "run"}
Live(t) == task[t].at \notin {"free", "done", "lost"}
Ended(t) == task[t].at = "done"
Awaits(c) == frame[c].how # "none"
ReadBy(t) == {d \in Mats : <<task[t].target, d>> \in Needs[task[t].rev]}
Generated(t) == ops[task[t].root].generated

\* _check_interrupted
Interrupted == \E o \in Ops : Active(o) /\ ops[o].interrupt

\* The task of m if it runs for this revision.
Running(m, rev) ==
  IF materials[m] # NoTask /\ task[materials[m]].rev = rev THEN materials[m] ELSE NoTask

\* What _wait meets when it follows self.waits from m.
Chain(m) ==
  LET from[n \in Nat] ==
        IF n = 0 THEN {m}
        ELSE from[n - 1] \union ({waits[x] : x \in from[n - 1] \ {NoMat}} \ {NoMat})
  IN from[Cardinality(Mats)]

Event == events < MaxEvents /\ events' = events + 1

-----------------------------------------------------------------------------
(* _material, from a caller's snapshot of revision rev to its next await.    *)
(* owned is self.materials after what the caller did before in this step.    *)

Create(c, owned, m, rev, base, shown, ancestors, root, sources) ==
  \E t \in Tasks :
    /\ task[t].at = "free" /\ \A u \in 1..(t - 1) : task[u].at # "free"
    /\ task' = [task EXCEPT ![t] =
         [FreeTask EXCEPT !.at = "compile", !.target = m, !.rev = rev, !.base = base,
            !.shown = shown, !.ancestors = ancestors \union {m}, !.root = root,
            !.sources = sources]]
    /\ materials' = [owned EXCEPT ![m] = t]
    /\ frame' = [frame EXCEPT ![c] =
         [on |-> t, how |-> "own", rev |-> rev, base |-> base, shown |-> shown]]

MutJoin(c, owned, m, rev, base, shown) ==
  /\ frame' = [frame EXCEPT ![c] =
       [on |-> owned[m], rev |-> rev, base |-> base, shown |-> shown, how |-> "share"]]
  /\ materials' = owned
  /\ UNCHANGED task

Join(c, owned, m, rev, base, shown) ==
  /\ frame' = [frame EXCEPT ![c] =
       [on |-> owned[m], rev |-> rev, base |-> base, shown |-> shown,
        how |-> IF task[owned[m]].rev = rev THEN "share" ELSE "previous"]]
  /\ materials' = owned
  /\ UNCHANGED task

MutMaterial(c, owned, m, rev, base, shown, ancestors, root, sources) ==
  IF Running(m, rev) = NoTask
  THEN Create(c, owned, m, rev, base, shown, ancestors, root, sources)
  ELSE Join(c, owned, m, rev, base, shown)

Material(c, owned, m, rev, base, shown, ancestors, root, sources) ==
  IF owned[m] = NoTask
  THEN Create(c, owned, m, rev, base, shown, ancestors, root, sources)
  ELSE Join(c, owned, m, rev, base, shown)

\* The task of the other revision has succeeded.  If its result was selected and
\* nothing came after it, the snapshot takes it over.
MutAdopted(c, m) == selection[m]
Adopted(c, m) ==
  LET p == task[frame[c].on]
  IN IF p.selected /\ selection[m] = p.base + 1 THEN selection[m] ELSE frame[c].base

\* Then it is the caller's own turn, unless somebody else was first.
Again(c, m, ancestors, root, sources) ==
  LET f == frame[c]
  IN IF materials[m] \in {f.on, NoTask}
     THEN Create(c, materials, m, f.rev, Adopted(c, m), f.shown, ancestors, root, sources)
     ELSE Join(c, materials, m, f.rev, Adopted(c, m), f.shown)

\* self.materials after the finally clause of the caller that created the task.
MutUnregistered(c, m) ==
  IF /\ frame[c].how = "own" /\ materials[m] = frame[c].on
     /\ task[frame[c].on].outcome = "success"
  THEN [materials EXCEPT ![m] = NoTask] ELSE materials
Unregistered(c, m) ==
  IF frame[c].how = "own" /\ materials[m] = frame[c].on
  THEN [materials EXCEPT ![m] = NoTask] ELSE materials

-----------------------------------------------------------------------------
(* Operations.                                                              *)

\* start() with the lock: the snapshot is taken in a thread.
StartSnapshot(o) ==
  /\ ops[o].at = "idle" /\ lock = Free
  /\ lock' = o
  /\ ops' = [ops EXCEPT ![o].at = "snapshot", ![o].rev = canvas, ![o].shown = selection]
  /\ UNCHANGED <<task, frame, materials, waits, disk, events>>

\* The request names the targets of an operation that runs for this revision: that
\* one is returned, and this identity is not used.
StartShared(o) ==
  /\ ops[o].at = "snapshot"
  /\ \E p \in Ops : Active(p) /\ ops[p].rev = ops[o].rev
  /\ ops' = [ops EXCEPT ![o] = [NewOp EXCEPT !.at = "done"]]
  /\ lock' = Free
  /\ UNCHANGED <<task, frame, materials, waits, disk, events>>

StartQueued(o) ==
  /\ ops[o].at = "snapshot"
  /\ ~ \E p \in Ops : Active(p) /\ Plan[p] = Plan[o] /\ ops[p].rev = ops[o].rev
  /\ ops' = [ops EXCEPT ![o].at = "queued", ![o].row = "queued",
              ![o].pending = [m \in Mats |-> Running(m, ops[o].rev)],
              ![o].old = {t \in Tasks : Ended(t) /\ materials[task[t].target] # t}]
  /\ lock' = Free
  /\ UNCHANGED <<task, frame, materials, waits, disk, events>>

\* The end of _operation: the verdict, and the record leaves self.active.
Finish(o, status, owned) ==
  /\ ops' = [ops EXCEPT ![o].at = "done", ![o].row = status]
  /\ frame' = [frame EXCEPT ![o] = NoFrame]
  /\ materials' = owned
  /\ UNCHANGED task

\* The loop with n targets completed.
Advance(o, n, owned) ==
  \/ n = Len(Plan[o]) /\ Finish(o, "success", owned)
  \/ n < Len(Plan[o]) /\ ops[o].cancel /\ Finish(o, "cancelled", owned)
  \/ /\ n < Len(Plan[o]) /\ ~ops[o].cancel
     /\ ops' = [ops EXCEPT ![o].at = "run", ![o].row = "running", ![o].step = n]
     /\ LET m == Plan[o][n + 1]
        IN Material(o, owned, m, ops[o].rev, ops[o].shown[m], ops[o].shown[m], {}, o,
                    ops[o].pending)

OpBegin(o) ==
  /\ ops[o].at = "queued"
  /\ Advance(o, 0, materials)
  /\ UNCHANGED <<waits, lock, disk, events>>

\* The awaited task has ended.
OpResume(o) ==
  LET f == frame[o]
      m == Plan[o][ops[o].step + 1]
      u == task[f.on]
  IN /\ ops[o].at = "run" /\ Ended(f.on)
     /\ \/ /\ f.how = "previous" /\ u.outcome = "success"
           /\ Again(o, m, {}, o, ops[o].pending)
           /\ UNCHANGED ops
        \/ /\ f.how # "previous" /\ u.outcome = "success" /\ u.selected
           /\ Advance(o, ops[o].step + 1, Unregistered(o, m))
        \/ /\ f.how # "previous" /\ u.outcome = "success" /\ ~u.selected
           /\ Finish(o, "selection_changed", Unregistered(o, m))
        \/ u.outcome # "success" /\ Finish(o, u.outcome, Unregistered(o, m))
     /\ UNCHANGED <<waits, lock, disk, events>>

-----------------------------------------------------------------------------
(* _execute.                                                                *)

\* run_state never overwrites a success; before begin_run there is no row.
MutEndedAs(t, outcome) ==
  [task EXCEPT ![t].at = "done", ![t].outcome = task[t].row, ![t].item = "none",
     ![t].row = IF @ \in {"none", "success"} THEN @ ELSE outcome]
EndedAs(t, outcome) ==
  [task EXCEPT ![t].at = "done", ![t].outcome = outcome, ![t].item = "none",
     ![t].row = IF @ \in {"none", "success"} THEN @ ELSE outcome]

\* The readers that may read what is selected now.
MutFresh(t) == {d \in ReadBy(t) : d \in Generated(t) \/ Running(d, task[t].rev) # NoTask}
Fresh(t) == ReadBy(t) \intersect Generated(t)

\* compile_task in a thread, then the readers' states and pending sources.
Compile(t) ==
  /\ task[t].at = "compile"
  /\ \/ /\ task' = [task EXCEPT ![t].at = "submit", ![t].row = "prepared",
              ![t].resumed = Fresh(t),
              ![t].sources = [d \in Mats |->
                 IF /\ task[t].sources[d] = NoTask
                    /\ d \in ReadBy(t) \ (Generated(t) \union task[t].ancestors)
                 THEN Running(d, task[t].rev) ELSE task[t].sources[d]]]
        /\ UNCHANGED events
     \/ Event /\ task' = EndedAs(t, "failed")
  /\ UNCHANGED <<ops, frame, materials, waits, lock, disk>>

\* _submit takes the lock; _enqueue starts the validation.
SubmitBegin(t) ==
  /\ task[t].at = "submit" /\ lock = Free
  /\ IF Interrupted
     THEN task' = EndedAs(t, "interrupted") /\ UNCHANGED lock
     ELSE task' = [task EXCEPT ![t].at = "validate"] /\ lock' = t
  /\ UNCHANGED <<ops, frame, materials, waits, disk, events>>

\* The prompt is valid and queued, unless an interrupt came meanwhile.
MutSubmitEnd(t) ==
  /\ task[t].at = "validate"
  /\ lock' = Free
  /\ task' = [task EXCEPT ![t].at = "native", ![t].row = "queued", ![t].item = "queued"]
  /\ UNCHANGED <<ops, frame, materials, waits, disk, events>>

SubmitEnd(t) ==
  /\ task[t].at = "validate"
  /\ lock' = Free
  /\ \/ /\ task' = IF Interrupted THEN EndedAs(t, "interrupted")
                   ELSE [task EXCEPT ![t].at = "native", ![t].row = "queued",
                           ![t].item = "queued"]
        /\ UNCHANGED events
     \/ Event /\ task' = EndedAs(t, "failed")
  /\ UNCHANGED <<ops, frame, materials, waits, disk>>

\* The poll finds the prompt in the history with its material published ...
PollSuccess(t) ==
  /\ task[t].at = "native" /\ task[t].item = "over" /\ task[t].row = "success"
  /\ task' = EndedAs(t, "success")
  /\ ops' = [ops EXCEPT ![task[t].root].generated = @ \union {task[t].target}]
  /\ UNCHANGED <<frame, materials, waits, lock, disk, events>>

\* ... or failed, or nowhere, ...
MutPollFailure(t) ==
  /\ task[t].at = "native" /\ task[t].item = "over"
  /\ task[t].row \in {"failed", "interrupted"}
  /\ task' = EndedAs(t, task[t].row)
  /\ UNCHANGED <<ops, frame, materials, waits, lock, disk, events>>

PollFailure(t) ==
  /\ task[t].at = "native"
  /\ \/ /\ task[t].item = "over" /\ task[t].row \in {"failed", "interrupted"}
        /\ task' = EndedAs(t, task[t].row)
     \/ /\ task[t].item = "removed"
        /\ task' = EndedAs(t, "interrupted")
  /\ UNCHANGED <<ops, frame, materials, waits, lock, disk, events>>

\* ... or waiting for a material.  Its running task is awaited in _wait, which
\* refuses to close a circle; with none, the material is generated from here.
PollWaiting(t) ==
  LET d == task[t].dependency
      p == IF task[t].sources[d] # NoTask THEN task[t].sources[d]
           ELSE Running(d, task[t].rev)
  IN /\ task[t].at = "native" /\ task[t].item = "over" /\ task[t].row = "waiting"
     /\ \/ /\ \/ d \in Generated(t)
              \/ p # NoTask /\ task[t].target \in Chain(d)
           /\ task' = EndedAs(t, "failed")
           /\ UNCHANGED <<frame, waits>>
        \/ /\ d \notin Generated(t) /\ p # NoTask /\ task[t].target \notin Chain(d)
           /\ task' = [task EXCEPT ![t].at = "depend", ![t].item = "none"]
           /\ frame' = [frame EXCEPT ![t] = [NoFrame EXCEPT !.on = p, !.how = "wait"]]
           /\ waits' = IF Ended(p) THEN waits ELSE [waits EXCEPT ![task[t].target] = d]
        \/ /\ d \notin Generated(t) /\ p = NoTask
           /\ task' = [task EXCEPT ![t].at = "snapshot", ![t].item = "none"]
           /\ UNCHANGED <<frame, waits>>
     /\ UNCHANGED <<ops, materials, lock, disk, events>>

\* A thread takes a snapshot of the canvas as it is now.
DependSnapshot(t) ==
  LET d == task[t].dependency
  IN /\ task[t].at = "snapshot"
     /\ task' = [task EXCEPT ![t].at = "depend"]
     /\ frame' = [frame EXCEPT ![t] = [NoFrame EXCEPT !.rev = canvas,
                    !.base = selection[d], !.shown = selection[d]]]
     /\ UNCHANGED <<ops, materials, waits, lock, disk, events>>

\* _material with that snapshot, whatever has happened since.
Depend(t) ==
  LET d == task[t].dependency
  IN /\ task[t].at = "depend" /\ ~Awaits(t)
     /\ IF d \in task[t].ancestors
        THEN task' = EndedAs(t, "failed") /\ UNCHANGED <<frame, materials>>
        ELSE Material(t, materials, d, frame[t].rev, frame[t].base, frame[t].shown,
                      task[t].ancestors, task[t].root, NoSources)
     /\ UNCHANGED <<ops, waits, lock, disk, events>>

DependResume(t) ==
  LET f == frame[t]
      d == task[t].dependency
      u == task[f.on]
      resumed == [task EXCEPT ![t].at = "submit", ![t].resumed = @ \union {d}]
  IN /\ task[t].at = "depend" /\ Awaits(t) /\ Ended(f.on)
     /\ \/ /\ f.how = "previous" /\ u.outcome = "success"
           /\ Again(t, d, task[t].ancestors, task[t].root, NoSources)
           /\ UNCHANGED ops
        \/ /\ f.how # "previous" \/ u.outcome # "success"
           /\ IF u.outcome = "success"
              THEN /\ task' = resumed
                   /\ ops' = [ops EXCEPT ![task[t].root].generated = @ \union {d}]
              ELSE task' = EndedAs(t, u.outcome) /\ UNCHANGED ops
           /\ materials' = Unregistered(t, d)
           /\ frame' = [frame EXCEPT ![t] = NoFrame]
     /\ waits' = IF f.how = "wait" THEN [waits EXCEPT ![task[t].target] = NoMat] ELSE waits
     /\ UNCHANGED <<lock, disk, events>>

-----------------------------------------------------------------------------
(* ComfyUI's worker.  The order of its queue is left open: a prompt hook may *)
(* number a prompt as it likes.                                              *)

OnWorker(t) == task[t].item \in {"running", "stopping"}

WorkerStart(t) ==
  /\ task[t].item = "queued" /\ \A u \in Tasks : ~OnWorker(u)
  /\ task' = [task EXCEPT ![t].item = "running", ![t].row = "running"]
  /\ UNCHANGED <<ops, frame, materials, waits, lock, disk, events>>

\* A reader that the graph really evaluates and that is not to read yet, or
\* finds nothing selected: wait_for_material.
WorkerBlocks(t) ==
  /\ OnWorker(t) /\ task[t].row \in {"running", "waiting"}
  /\ \E d \in ReadBy(t) :
       /\ \/ d \notin task[t].resumed /\ UNCHANGED events
          \/ d \in task[t].resumed /\ Event
       /\ task' = [task EXCEPT ![t].row = "waiting", ![t].dependency = d]
  /\ UNCHANGED <<ops, frame, materials, waits, lock, disk>>

\* The material is saved; it is selected if nothing else was since the compile.
WorkerPublishes(t) ==
  LET m == task[t].target
      selects == selection[m] = task[t].base
  IN /\ OnWorker(t) /\ task[t].row = "running"
     /\ task' = [task EXCEPT ![t].row = "success", ![t].selected = selects]
     /\ selection' = [selection EXCEPT ![m] = IF selects THEN @ + 1 ELSE @]
     /\ UNCHANGED <<ops, frame, materials, waits, lock, canvas, manual, events>>

\* The prompt moves to the history.  Only a row still "running" gets a verdict.
WorkerEnds(t) ==
  /\ OnWorker(t)
  /\ \/ /\ task[t].row # "running"
        /\ task' = [task EXCEPT ![t].item = "over"]
        /\ UNCHANGED events
     \/ /\ task[t].row = "running" /\ task[t].item = "stopping"
        /\ task' = [task EXCEPT ![t].item = "over", ![t].row = "interrupted"]
        /\ UNCHANGED events
     \/ /\ task[t].row = "running" /\ Event
        /\ task' = [task EXCEPT ![t].item = "over", ![t].row = "failed"]
  /\ UNCHANGED <<ops, frame, materials, waits, lock, disk>>

-----------------------------------------------------------------------------
(* Requests and accidents.                                                  *)

Cancel(o) ==
  /\ Active(o) /\ ~ops[o].cancel /\ Event
  /\ ops' = [ops EXCEPT ![o].cancel = TRUE]
  /\ UNCHANGED <<task, frame, materials, waits, lock, disk>>

\* interrupt() clears the directory from the native queue, whoever queued it.
Interrupt(o) ==
  /\ Active(o) /\ ~ops[o].interrupt /\ Event
  /\ ops' = [ops EXCEPT ![o].cancel = TRUE, ![o].interrupt = TRUE]
  /\ task' = [t \in Tasks |-> [task[t] EXCEPT !.item =
       CASE @ = "queued" -> "removed" [] @ = "running" -> "stopping" [] OTHER -> @]]
  /\ UNCHANGED <<frame, materials, waits, lock, disk>>

\* In ComfyUI's own interface: a prompt is deleted, the running one interrupted,
\* the history cleared.
NativeRemove(t) ==
  /\ task[t].item \in {"queued", "running", "over"} /\ Event
  /\ task' = [task EXCEPT ![t].item = IF @ = "running" THEN "stopping" ELSE "removed"]
  /\ UNCHANGED <<ops, frame, materials, waits, lock, disk>>

\* status(), which cancel, wait, list and a repeated start end with.
MutStatus(o) ==
  /\ ops[o].row \in {"queued", "running"}
  /\ ops' = [ops EXCEPT ![o].row = "interrupted"]
  /\ UNCHANGED <<task, frame, materials, waits, lock, disk, events>>

Status(o) ==
  /\ ops[o].row \in {"queued", "running"} /\ ~Active(o)
  /\ ops' = [ops EXCEPT ![o].row = "interrupted"]
  /\ UNCHANGED <<task, frame, materials, waits, lock, disk, events>>

Edit ==
  /\ canvas < MaxEdits
  /\ canvas' = canvas + 1
  /\ UNCHANGED <<ops, task, frame, materials, waits, lock, selection, manual, events>>

Pick(m) ==
  /\ Event
  /\ selection' = [selection EXCEPT ![m] = @ + 1]
  /\ manual' = [manual EXCEPT ![m] = selection[m] + 1]
  /\ UNCHANGED <<ops, task, frame, materials, waits, lock, canvas>>

\* The process dies: the rows and the files stay.
Restart ==
  /\ Event
  /\ ops' = [o \in Ops |->
       IF Active(o) THEN [ops[o] EXCEPT !.at = "lost"]
       ELSE IF ops[o].at = "snapshot" THEN NewOp ELSE ops[o]]
  /\ task' = [t \in Tasks |->
       IF Live(t) THEN [task[t] EXCEPT !.at = "lost", !.item = "none"] ELSE task[t]]
  /\ frame' = [c \in Ops \union Tasks |-> NoFrame]
  /\ materials' = NoSources
  /\ waits' = [m \in Mats |-> NoMat]
  /\ lock' = Free
  /\ UNCHANGED disk

-----------------------------------------------------------------------------
Start(o) == StartShared(o) \/ StartQueued(o)
OpStep(o) == OpBegin(o) \/ OpResume(o)
Execute(t) ==
  \/ Compile(t) \/ SubmitBegin(t) \/ SubmitEnd(t) \/ PollSuccess(t) \/ PollFailure(t)
  \/ PollWaiting(t) \/ DependSnapshot(t) \/ Depend(t) \/ DependResume(t)
LoopStep == \/ \E o \in Ops : Start(o) \/ OpStep(o)
            \/ \E t \in Tasks : Execute(t)
WorkerStep == \E t \in Tasks : WorkerStart(t) \/ WorkerPublishes(t) \/ WorkerEnds(t)

Request(o) == StartSnapshot(o) \/ Cancel(o) \/ Interrupt(o) \/ Status(o)

Next ==
  \/ LoopStep \/ WorkerStep
  \/ \E t \in Tasks : WorkerBlocks(t) \/ NativeRemove(t)
  \/ \E o \in Ops : Request(o)
  \/ \E m \in Mats : Pick(m)
  \/ Edit \/ Restart

Spec == Init /\ [][Next]_vars

\* The loop and its threads go on, and so does the worker.  No more is needed: no
\* step of theirs but a reader that blocks again can be repeated.
Fairness == WF_vars(LoopStep) /\ WF_vars(WorkerStep)

FairSpec == Spec /\ Fairness

-----------------------------------------------------------------------------
(* Properties.                                                              *)

\* "Concurrent callers share a material execution": a material is never being
\* generated twice at the same time, for whatever operations and revisions.
OneAtATime ==
  \A t, u \in Tasks : Live(t) /\ Live(u) /\ task[t].target = task[u].target => t = u

\* An operation reports success only if each of its targets was generated, for
\* the revision it was asked of, by a run that was selected.
SuccessIsEarned ==
  \A o \in Ops : ops[o].row = "success" =>
    \A i \in DOMAIN Plan[o] : \E t \in Tasks :
      /\ task[t].target = Plan[o][i] /\ task[t].rev = ops[o].rev
      /\ task[t].outcome = "success" /\ task[t].selected

\* A material that is to be refreshed is read only when an execution of it has
\* succeeded that was still going on, or began, after the operation was asked
\* for: never an old selection because the upstream failed or was too slow.
ReadsRefreshed ==
  [][\A t \in Tasks : task[t].row # "success" /\ task'[t].row = "success" =>
       \A d \in task[t].resumed : \E u \in Tasks \ ops[task[t].root].old :
         task[u].target = d /\ task[u].outcome = "success"]_vars

\* A selection made by hand after the operation or the dependency was started is
\* never replaced by its result, also when the operation adopted the result of
\* an older revision it had to wait for.
ManualChoiceKept ==
  [][\A t \in Tasks : LET m == task[t].target IN
       ~task[t].selected /\ task'[t].selected /\ selection[m] = manual[m] =>
         manual[m] <= task[t].shown]_vars

\* Once an operation is interrupted, and as long as it has not ended, nothing of
\* the directory enters ComfyUI's queue: not even a prompt whose validation had
\* begun before.
InterruptHolds ==
  [][Interrupted => \A t \in Tasks : task'[t].item = "queued" => task[t].item = "queued"]_vars

\* What an operation was reported to have ended with never changes.
OutcomeStays == [][\A o \in Ops : ops[o].row \in Final => ops'[o].row = ops[o].row]_vars

\* When no operation is left, nothing of the directory is: no task, no entry
\* that would make the next operation wait, no prompt in the queue.
NothingLeft ==
  (\A o \in Ops : ~Active(o)) =>
    /\ \A t \in Tasks : ~Live(t) /\ task[t].item = "none"
    /\ \A m \in Mats : materials[m] = NoTask /\ waits[m] = NoMat

\* Every operation ends, if the materials do not depend on each other in a circle.
OperationsEnd == \A o \in Ops : Active(o) ~> ~Active(o)

\* No tasks await each other in a circle.
Awaited(t) == {u \in Tasks : Awaits(t) /\ u = frame[t].on}
NoCircle ==
  \A t \in Tasks :
    LET reach[n \in 0..MaxTasks] ==
          IF n = 0 THEN Awaited(t)
          ELSE reach[n - 1] \union UNION {Awaited(u) : u \in reach[n - 1]}
    IN t \notin reach[MaxTasks]
=============================================================================
