------------------------ MODULE MaterialReads_proofs -------------------------
(***************************************************************************)
(* For any operations, materials, dependencies and revisions: a prompt     *)
(* reads a material to be refreshed only after an execution of it that was *)
(* still going on, or began, when the operation was asked for has          *)
(* succeeded; and no result replaces a selection made by hand meanwhile.   *)
(* Unless materials depend on each other, no tasks await each other and    *)
(* somebody can always go on.                                              *)
(*                                                                         *)
(* RInv follows the executions an operation may count on from the registry *)
(* through the pending sources and the awaited tasks into the set of what  *)
(* it generated.  Choices follows the selection a prompt was compiled from *)
(* through _material, where the result of another revision is adopted.     *)
(* WInv says that a task awaits what its prompt reads, and that who is     *)
(* awaited, has the lock or has a prompt is still there to go on.          *)
(***************************************************************************)
EXTENDS MaterialTasks_proofs

\* The operation has left start().
Begun(o) == ops[o].at \notin {"idle", "snapshot"}

\* Material d was generated by an execution that had not ended when o began.
Refreshed(o, d) ==
  \E u \in Tasks \ ops[o].old : task[u].target = d /\ task[u].outcome = "success"

\* u, if it is a task, is an execution of d that had not ended when o began.
Recent(o, u, d) ==
  u # NoTask => /\ u \in Tasks \ ops[o].old
                /\ task[u].target = d /\ task[u].at # "free"

OperationReads(o) ==
  /\ Begun(o) =>
       /\ \A u \in ops[o].old : Ended(u)
       /\ \A d \in ops[o].generated : Refreshed(o, d)
       /\ \A d \in Mats : Recent(o, ops[o].pending[d], d)
       /\ \A d \in Mats : materials[d] \notin ops[o].old
  /\ ~Begun(o) => ops[o].generated = {}

TaskReads(t) ==
  /\ task[t].at = "free" => task[t].resumed = {}
  /\ task[t].at # "free" =>
       /\ task[t].root \in Ops /\ Begun(task[t].root)
       /\ \A d \in task[t].resumed : Refreshed(task[t].root, d)
       /\ \A d \in Mats : Recent(task[t].root, task[t].sources[d], d)
  /\ Awaits(t) => Recent(task[t].root, frame[t].on, task[t].dependency)

RInv == (\A o \in Ops : OperationReads(o)) /\ (\A t \in Tasks : TaskReads(t))

-----------------------------------------------------------------------------
(* What a step leaves of the executions and of the operations.              *)

\* t goes on with what it was created with; its outcome stays.
Runs(t) ==
  /\ task'[t].target = task[t].target /\ task'[t].root = task[t].root
  /\ task'[t].base = task[t].base /\ task'[t].shown = task[t].shown
  /\ task'[t].at # "free"
  /\ Ended(t) => task'[t].at = "done" /\ task'[t].outcome = task[t].outcome

\* ... and with what it has read of others.
Keeps(t) ==
  /\ Runs(t)
  /\ task'[t].resumed = task[t].resumed /\ task'[t].sources = task[t].sources
  /\ task'[t].dependency = task[t].dependency /\ task'[t].selected = task[t].selected

Created(t) == task[t].at # "free"

LEMMA SameKeeps ==
  ASSUME NEW t \in Tasks, Created(t), task'[t] = task[t]
  PROVE  Keeps(t)
BY DEF Created, Keeps, Runs, Ended

LEMMA EndedKeeps ==
  ASSUME TypeOK, NEW t \in Tasks, Live(t), NEW outcome, task' = EndedAs(t, outcome)
  PROVE  Keeps(t) /\ \A u \in Tasks \ {t} : task'[u] = task[u]
<1>1. task \in [Tasks -> TaskRecords] /\ task[t] \in TaskRecords
  BY DEF TypeOK
<1>. QED
  BY <1>1 DEF EndedAs, Live, Keeps, Runs, Ended, TaskRecords

\* t moves, and nobody else.
Alone(t) == Created(t) /\ \A u \in Tasks \ {t} : task'[u] = task[u]

\* Steps of t that leave alone what it has read.
LEMMA PlainKeeps ==
  ASSUME IInv, NEW t \in Tasks,
         \/ SubmitBegin(t) \/ SubmitEnd(t) \/ PollSuccess(t) \/ PollFailure(t) \/ PollWaiting(t)
         \/ WorkerStart(t) \/ WorkerEnds(t) \/ NativeRemove(t)
  PROVE  Alone(t) /\ Keeps(t)
<1>1. TypeOK /\ task \in [Tasks -> TaskRecords] /\ task[t] \in TaskRecords
  BY DEF IInv, TypeOK
<1>2. CASE SubmitBegin(t)
  <2>1. Live(t) /\ Created(t) /\ ~Ended(t)
    BY <1>2 DEF SubmitBegin, Live, Created, Ended
  <2>2. CASE task' = EndedAs(t, "interrupted")
    BY <1>1, <2>1, <2>2, EndedKeeps DEF Alone
  <2>3. CASE task' = [task EXCEPT ![t].at = "validate"]
    BY <1>1, <2>1, <2>3 DEF Alone, Keeps, Runs, TaskRecords
  <2>. QED
    BY <1>2, <2>2, <2>3 DEF SubmitBegin
<1>3. CASE SubmitEnd(t)
  <2>1. Live(t) /\ Created(t) /\ ~Ended(t)
    BY <1>3 DEF SubmitEnd, Live, Created, Ended
  <2>2. CASE task' = EndedAs(t, "interrupted") \/ task' = EndedAs(t, "failed")
    BY <1>1, <2>1, <2>2, EndedKeeps DEF Alone
  <2>3. CASE task' = [task EXCEPT ![t].at = "native", ![t].row = "queued", ![t].item = "queued"]
    BY <1>1, <2>1, <2>3 DEF Alone, Keeps, Runs, TaskRecords
  <2>. QED
    BY <1>3, <2>2, <2>3 DEF SubmitEnd
<1>4. CASE PollSuccess(t) \/ PollFailure(t)
  <2>1. Live(t) /\ Created(t)
    BY <1>4 DEF PollSuccess, PollFailure, Live, Created
  <2>2. \E outcome : task' = EndedAs(t, outcome)
    BY <1>4 DEF PollSuccess, PollFailure
  <2>. QED
    BY <1>1, <2>1, <2>2, EndedKeeps DEF Alone
<1>5. CASE PollWaiting(t)
  <2>1. Live(t) /\ Created(t) /\ ~Ended(t)
    BY <1>5 DEF PollWaiting, Live, Created, Ended
  <2>2. CASE task' = EndedAs(t, "failed")
    BY <1>1, <2>1, <2>2, EndedKeeps DEF Alone
  <2>3. CASE \E at \in {"snapshot", "depend"} :
               task' = [task EXCEPT ![t].at = at, ![t].item = "none"]
    BY <1>1, <2>1, <2>3 DEF Alone, Keeps, Runs, TaskRecords
  <2>. QED
    BY <1>5, <2>2, <2>3 DEF PollWaiting
<1>6. CASE WorkerStart(t) \/ WorkerEnds(t) \/ NativeRemove(t)
  <2>1. task[t].item # "none"
    BY <1>6 DEF WorkerStart, WorkerEnds, NativeRemove, OnWorker
  <2>2. Created(t) /\ ~Ended(t)
    BY <2>1 DEF IInv, TaskState, Created, Ended
  <2>3. \E item, row : task' = [task EXCEPT ![t].item = item, ![t].row = row]
                       \/ task' = [task EXCEPT ![t].item = item]
    BY <1>6 DEF WorkerStart, WorkerEnds, NativeRemove
  <2>. QED
    BY <1>1, <2>2, <2>3 DEF Alone, Keeps, Runs, Created, TaskRecords
<1>. QED
  BY <1>2, <1>3, <1>4, <1>5, <1>6

LEMMA CompileRuns ==
  ASSUME IInv, NEW t \in Tasks, Compile(t)
  PROVE  /\ Alone(t) /\ Runs(t) /\ ~Awaits(t)
         /\ task'[t].dependency = task[t].dependency /\ task'[t].selected = task[t].selected
         /\ task'[t].resumed = task[t].resumed \/ task'[t].resumed = Fresh(t)
         /\ \A d \in Mats : task'[t].sources[d] \in {task[t].sources[d], Running(d, task[t].rev)}
<1>1. TypeOK /\ task \in [Tasks -> TaskRecords] /\ task[t] \in TaskRecords
  BY DEF IInv, TypeOK
<1>2. Live(t) /\ Created(t) /\ ~Ended(t) /\ ~Awaits(t)
  BY NotAwaiting DEF Compile, Live, Created, Ended, IInv
<1>3. CASE task' = EndedAs(t, "failed")
  BY <1>1, <1>2, <1>3, EndedKeeps DEF Alone, Keeps
<1>4. CASE task' # EndedAs(t, "failed")
  <2>. DEFINE sources == [d \in Mats |->
                 IF /\ task[t].sources[d] = NoTask
                    /\ d \in ReadBy(t) \ (Generated(t) \union task[t].ancestors)
                 THEN Running(d, task[t].rev) ELSE task[t].sources[d]]
  <2>1. task' = [task EXCEPT ![t].at = "submit", ![t].row = "prepared",
                   ![t].resumed = Fresh(t), ![t].sources = sources]
    BY <1>4 DEF Compile
  <2>2. \A d \in Mats : sources[d] \in {task[t].sources[d], Running(d, task[t].rev)}
    OBVIOUS
  <2>. HIDE DEF sources
  <2>. QED
    BY <1>1, <1>2, <2>1, <2>2 DEF Alone, Runs, TaskRecords
<1>. QED
  BY <1>3, <1>4

LEMMA WorkerRuns ==
  ASSUME IInv, NEW t \in Tasks, WorkerBlocks(t) \/ WorkerPublishes(t)
  PROVE  /\ Alone(t) /\ Runs(t) /\ ~Awaits(t)
         /\ task'[t].resumed = task[t].resumed /\ task'[t].sources = task[t].sources
<1>1. task \in [Tasks -> TaskRecords] /\ task[t] \in TaskRecords
  BY DEF IInv, TypeOK
<1>2. task[t].at = "native"
  BY DEF WorkerBlocks, WorkerPublishes, OnWorker, IInv, TaskState
<1>3. Created(t) /\ ~Ended(t) /\ ~Awaits(t)
  BY <1>2, NotAwaiting DEF Created, Ended, IInv
<1>4. \E row, x : \/ task' = [task EXCEPT ![t].row = row, ![t].dependency = x]
                  \/ task' = [task EXCEPT ![t].row = row, ![t].selected = x]
  BY DEF WorkerBlocks, WorkerPublishes
<1>. QED
  BY <1>1, <1>3, <1>4 DEF Alone, Runs, Created, TaskRecords

LEMMA RequestRuns ==
  ASSUME IInv, NEW o \in Ops, Cancel(o) \/ Interrupt(o) \/ Status(o), NEW t \in Tasks, Created(t)
  PROVE  Keeps(t)
<1>1. task \in [Tasks -> TaskRecords] /\ task[t] \in TaskRecords
  BY DEF IInv, TypeOK
<1>2. CASE Cancel(o) \/ Status(o)
  BY <1>2, SameKeeps DEF Cancel, Status
<1>3. CASE Interrupt(o)
  <2>1. PICK item : task'[t] = [task[t] EXCEPT !.item = item]
    BY <1>3 DEF Interrupt
  <2>. QED
    BY <1>1, <2>1 DEF Keeps, Runs, Created, Ended, TaskRecords
<1>. QED
  BY <1>2, <1>3

LEMMA RestartRuns ==
  ASSUME IInv, Restart, NEW t \in Tasks, Created(t)
  PROVE  Keeps(t)
<1>1. task \in [Tasks -> TaskRecords] /\ task[t] \in TaskRecords
  BY DEF IInv, TypeOK
<1>2. CASE Live(t)
  <2>1. task'[t] = [task[t] EXCEPT !.at = "lost", !.item = "none"]
    BY <1>2 DEF Restart
  <2>. QED
    BY <1>1, <1>2, <2>1 DEF Keeps, Runs, Ended, Live, TaskRecords
<1>3. CASE ~Live(t)
  BY <1>3, SameKeeps DEF Restart
<1>. QED
  BY <1>2, <1>3

-----------------------------------------------------------------------------
(* What a call of _material hands on.                                       *)

\* The prompt to be compiled gets the caller's selection, root and sources ...
Opens(c, t, m, base, shown, root, sources) ==
  /\ ~Created(t) /\ \A u \in Tasks \ {t} : task'[u] = task[u]
  /\ task'[t].target = m /\ task'[t].base = base /\ task'[t].shown = shown
  /\ task'[t].root = root /\ task'[t].sources = sources /\ task'[t].resumed = {}
  /\ task'[t].at = "compile" /\ task'[t].selected = FALSE /\ task'[t].row = "none"
  /\ frame'[c].how = "own" /\ frame'[c].on = t

\* ... or the caller awaits the registered one.
Joins(c, owned, m) ==
  /\ owned[m] # NoTask /\ UNCHANGED task
  /\ frame'[c].how \in {"share", "previous"} /\ frame'[c].on = owned[m]

Opened(c, owned, m, base, shown, root, sources) ==
  /\ \A d \in Callers \ {c} : frame'[d] = frame[d]
  /\ frame'[c].base = base /\ frame'[c].shown = shown
  /\ \/ \E t \in Tasks : /\ Opens(c, t, m, base, shown, root, sources)
                         /\ materials' = [owned EXCEPT ![m] = t]
     \/ Joins(c, owned, m) /\ materials' = owned

LEMMA CreateOpens ==
  ASSUME TypeOK, NEW c \in Callers, NEW owned, NEW m, NEW rev, NEW base, NEW shown,
         NEW ancestors, NEW root, NEW sources,
         Create(c, owned, m, rev, base, shown, ancestors, root, sources)
  PROVE  Opened(c, owned, m, base, shown, root, sources)
<1>1. PICK t \in Tasks :
        /\ task[t].at = "free"
        /\ task' = [task EXCEPT ![t] =
             [FreeTask EXCEPT !.at = "compile", !.target = m, !.rev = rev, !.base = base,
                !.shown = shown, !.ancestors = ancestors \union {m}, !.root = root,
                !.sources = sources]]
        /\ materials' = [owned EXCEPT ![m] = t]
        /\ frame' = [frame EXCEPT ![c] =
             [on |-> t, how |-> "own", rev |-> rev, base |-> base, shown |-> shown]]
  BY DEF Create
<1>2. frame \in [Callers -> Frames] /\ task \in [Tasks -> TaskRecords]
  BY DEF TypeOK, Callers
<1>3. /\ \A d \in Callers \ {c} : frame'[d] = frame[d]
      /\ frame'[c].base = base /\ frame'[c].shown = shown
      /\ frame'[c].how = "own" /\ frame'[c].on = t
  BY <1>1, <1>2
<1>4. task'[t] = [FreeTask EXCEPT !.at = "compile", !.target = m, !.rev = rev, !.base = base,
                !.shown = shown, !.ancestors = ancestors \union {m}, !.root = root,
                !.sources = sources]
  BY <1>1, <1>2
<1>5. Opens(c, t, m, base, shown, root, sources)
  BY <1>1, <1>2, <1>3, <1>4 DEF Opens, Created, FreeTask
<1>. QED
  BY <1>1, <1>3, <1>5 DEF Opened

LEMMA JoinOpens ==
  ASSUME TypeOK, NEW c \in Callers, NEW owned, NEW m, NEW rev, NEW base, NEW shown,
         NEW root, NEW sources, owned[m] # NoTask, Join(c, owned, m, rev, base, shown)
  PROVE  Opened(c, owned, m, base, shown, root, sources)
<1>1. frame \in [Callers -> Frames]
  BY DEF TypeOK, Callers
<1>2. /\ \A d \in Callers \ {c} : frame'[d] = frame[d]
      /\ frame'[c].base = base /\ frame'[c].shown = shown
      /\ frame'[c].how \in {"share", "previous"} /\ frame'[c].on = owned[m]
  BY <1>1 DEF Join
<1>. QED
  BY <1>2 DEF Join, Opened, Joins

LEMMA MaterialOpens ==
  ASSUME TypeOK, NEW c \in Callers, NEW owned, NEW m, NEW rev, NEW base, NEW shown,
         NEW ancestors, NEW root, NEW sources,
         Material(c, owned, m, rev, base, shown, ancestors, root, sources)
  PROVE  Opened(c, owned, m, base, shown, root, sources)
BY CreateOpens, JoinOpens DEF Material

LEMMA AgainOpens ==
  ASSUME TypeOK, NEW c \in Callers, NEW m, NEW ancestors, NEW root, NEW sources,
         Again(c, m, ancestors, root, sources)
  PROVE  Opened(c, materials, m, Adopted(c, m), frame[c].shown, root, sources)
<1>1. CASE materials[m] \in {frame[c].on, NoTask}
  BY <1>1, CreateOpens DEF Again
<1>2. CASE materials[m] \notin {frame[c].on, NoTask}
  BY <1>2, JoinOpens DEF Again
<1>. QED
  BY <1>1, <1>2

\* An operation goes on with its next target, or ends.
LEMMA AdvanceOpens ==
  ASSUME TypeOK, NEW o \in Ops, NEW n, NEW owned, Advance(o, n, owned)
  PROVE  \/ /\ ops'[o].at = "run" /\ ops'[o].step = n
            /\ LET m == Plan[o][n + 1]
               IN Opened(o, owned, m, ops[o].shown[m], ops[o].shown[m], o, ops[o].pending)
         \/ \E status : Finish(o, status, owned)
<1>1. ops \in [Ops -> OpRecords]
  BY DEF TypeOK
<1>2. CASE \E status : Finish(o, status, owned)
  BY <1>2
<1>3. CASE ~ \E status : Finish(o, status, owned)
  <2>. DEFINE m == Plan[o][n + 1]
  <2>1. /\ ops' = [ops EXCEPT ![o].at = "run", ![o].row = "running", ![o].step = n]
        /\ Material(o, owned, m, ops[o].rev, ops[o].shown[m], ops[o].shown[m], {}, o,
                    ops[o].pending)
    BY <1>3 DEF Advance
  <2>2. ops'[o].at = "run" /\ ops'[o].step = n
    BY <1>1, <2>1 DEF OpRecords
  <2>3. Opened(o, owned, m, ops[o].shown[m], ops[o].shown[m], o, ops[o].pending)
    BY <2>1, MaterialOpens DEF Callers
  <2>. QED
    BY <2>2, <2>3
<1>. QED
  BY <1>2, <1>3

\* A step of operation o in its loop: the call, or the end.
OpOpens(o) ==
  \E owned \in [Mats -> SomeTask] :
    /\ \A m \in Mats : owned[m] \in {materials[m], NoTask}
    /\ \/ /\ frame[o].how \in {"own", "share", "previous"} /\ UNCHANGED ops
          /\ ops[o].at = "run" /\ Ended(frame[o].on)
          /\ owned = materials
          /\ LET m == Plan[o][ops[o].step + 1]
             IN Opened(o, owned, m, Adopted(o, m), frame[o].shown, o, ops[o].pending)
       \/ /\ ops'[o].at = "run"
          /\ ops'[o].step + 1 \in DOMAIN Plan[o]
          /\ LET m == Plan[o][ops'[o].step + 1]
             IN Opened(o, owned, m, ops[o].shown[m], ops[o].shown[m], o, ops[o].pending)
       \/ /\ UNCHANGED task /\ materials' = owned /\ frame'[o] = NoFrame
          /\ \A d \in Callers \ {o} : frame'[d] = frame[d]

\* The other fields of the operations stay.
OpMoves(o) ==
  \A p \in Ops :
    /\ p # o => ops'[p] = ops[p]
    /\ ops'[p].old = ops[p].old /\ ops'[p].pending = ops[p].pending
    /\ ops'[p].generated = ops[p].generated
    /\ (Begun(p) /\ Begun(p)') \/ ops'[p] = ops[p]

LEMMA AdvanceMoves ==
  ASSUME TypeOK, NEW o \in Ops, Begun(o), NEW n, NEW owned, Advance(o, n, owned)
  PROVE  OpMoves(o)
<1>1. ops \in [Ops -> OpRecords]
  BY DEF TypeOK
<1>2. \E at \in {"run", "done"} : \E row, step :
        \/ ops' = [ops EXCEPT ![o].at = at, ![o].row = row]
        \/ ops' = [ops EXCEPT ![o].at = at, ![o].row = row, ![o].step = step]
  BY DEF Advance, Finish
<1>. QED
  BY <1>1, <1>2 DEF OpMoves, Begun, OpRecords

LEMMA FinishMoves ==
  ASSUME TypeOK, NEW o \in Ops, Begun(o), NEW status, NEW owned, Finish(o, status, owned)
  PROVE  OpMoves(o) /\ UNCHANGED task /\ materials' = owned /\ frame'[o] = NoFrame
         /\ \A d \in Callers \ {o} : frame'[d] = frame[d]
<1>1. ops \in [Ops -> OpRecords] /\ frame \in [Callers -> Frames]
  BY DEF TypeOK, Callers
<1>. QED
  BY <1>1 DEF Finish, OpMoves, Begun, OpRecords, Callers

LEMMA OpStepOpens ==
  ASSUME IInv, NEW o \in Ops, OpStep(o)
  PROVE  OpMoves(o) /\ OpOpens(o) /\ UNCHANGED disk /\ Begun(o)
<1>1. TypeOK /\ Begun(o)
  BY DEF IInv, OpStep, OpBegin, OpResume, Begun
<1>2. ASSUME NEW n \in Nat, NEW owned \in [Mats -> SomeTask], Advance(o, n, owned),
             \A m \in Mats : owned[m] \in {materials[m], NoTask}
      PROVE  OpMoves(o) /\ OpOpens(o)
  <2>1. OpMoves(o)
    BY <1>1, <1>2, AdvanceMoves
  <2>2. CASE \E status : Finish(o, status, owned)
    BY <1>1, <1>2, <2>2, FinishMoves DEF OpOpens
  <2>3. CASE ~ \E status : Finish(o, status, owned)
    <3>1. /\ ops'[o].at = "run" /\ ops'[o].step = n
          /\ LET m == Plan[o][n + 1]
             IN Opened(o, owned, m, ops[o].shown[m], ops[o].shown[m], o, ops[o].pending)
      BY <1>1, <1>2, <2>3, AdvanceOpens
    <3>2. n + 1 \in DOMAIN Plan[o]
      <4>1. n < Len(Plan[o]) /\ Plan[o] \in Seq(Mats)
        BY <1>2, <2>3, TasksAssumption DEF Advance
      <4>. QED
        BY <4>1
    <3>. QED
      BY <1>2, <2>1, <3>1, <3>2 DEF OpOpens
  <2>. QED
    BY <2>1, <2>2, <2>3
<1>3. materials \in [Mats -> SomeTask] /\ \A m \in Mats : materials[m] \in {materials[m], NoTask}
  BY <1>1 DEF TypeOK
<1>4. CASE OpBegin(o)
  <2>1. Advance(o, 0, materials) /\ UNCHANGED disk
    BY <1>4 DEF OpBegin
  <2>. QED
    BY <1>1, <1>2, <1>3, <2>1
<1>5. CASE OpResume(o)
  <2>. DEFINE m == Plan[o][ops[o].step + 1]
  <2>1. ops[o].at = "run" /\ Ended(frame[o].on) /\ UNCHANGED disk
    BY <1>5 DEF OpResume
  <2>2. ops[o].step \in Nat /\ ops[o].step + 1 \in Nat
        /\ frame[o].how \in {"own", "share", "previous"}
    BY <2>1, ResumedType DEF IInv, Earned, Present
  <2>3. /\ Unregistered(o, m) \in [Mats -> SomeTask]
        /\ \A x \in Mats : Unregistered(o, m)[x] \in {materials[x], NoTask}
    BY <1>1, <1>3, UnregisteredType DEF Unregistered
  <2>4. CASE /\ frame[o].how = "previous" /\ Again(o, m, {}, o, ops[o].pending)
             /\ UNCHANGED ops
    <3>1. Opened(o, materials, m, Adopted(o, m), frame[o].shown, o, ops[o].pending)
      BY <1>1, <2>4, AgainOpens DEF Callers
    <3>2. OpOpens(o)
      BY <1>3, <2>1, <2>2, <2>4, <3>1 DEF OpOpens
    <3>3. OpMoves(o)
      BY <2>4 DEF OpMoves
    <3>. QED
      BY <1>1, <2>1, <3>2, <3>3
  <2>5. CASE Advance(o, ops[o].step + 1, Unregistered(o, m))
    BY <1>1, <1>2, <2>1, <2>2, <2>3, <2>5
  <2>6. CASE \E status : Finish(o, status, Unregistered(o, m))
    <3>1. /\ OpMoves(o) /\ UNCHANGED task /\ frame'[o] = NoFrame
          /\ materials' = Unregistered(o, m) /\ \A d \in Callers \ {o} : frame'[d] = frame[d]
      BY <1>1, <2>6, FinishMoves
    <3>2. OpOpens(o)
      BY ZenonT(60), <2>3, <3>1 DEF OpOpens
    <3>. QED
      BY <1>1, <2>1, <3>1, <3>2
  <2>. QED
    BY <1>5, <2>4, <2>5, <2>6 DEF OpResume
<1>. QED
  BY <1>4, <1>5 DEF OpStep

-----------------------------------------------------------------------------
(* What is recent stays so, and what was refreshed too.                     *)

\* Executions go on, an operation that has begun knows the same old ones, and
\* only new executions are registered.
Steady ==
  /\ \A t \in Tasks : Created(t) => Runs(t)
  /\ \A o \in Ops : Begun(o) => /\ Begun(o)' /\ ops'[o].old = ops[o].old
                                /\ ops'[o].pending = ops[o].pending
  /\ \A m \in Mats : \/ materials'[m] \in {materials[m], NoTask}
                     \/ \E u \in Tasks : ~Created(u) /\ materials'[m] = u

LEMMA RefreshedStays ==
  ASSUME IInv, Steady, NEW o \in Ops, Begun(o), NEW d, Refreshed(o, d)
  PROVE  Refreshed(o, d)'
<1>1. PICK u \in Tasks \ ops[o].old : task[u].target = d /\ task[u].outcome = "success"
  BY DEF Refreshed
<1>2. Ended(u) /\ Created(u)
  BY <1>1 DEF IInv, TaskState, Ended, Created
<1>3. task'[u].target = d /\ task'[u].outcome = "success" /\ ops'[o].old = ops[o].old
  BY <1>1, <1>2 DEF Steady, Runs
<1>. QED
  BY <1>1, <1>3 DEF Refreshed

LEMMA RecentStays ==
  ASSUME Steady, NEW o \in Ops, Begun(o), NEW u, NEW d, Recent(o, u, d)
  PROVE  u # NoTask => /\ u \in Tasks \ ops'[o].old
                       /\ task'[u].target = d /\ task'[u].at # "free"
BY DEF Recent, Steady, Created, Runs

\* What is registered now is recent for everybody.
LEMMA RegisteredRecent ==
  ASSUME IInv, RInv, NEW o \in Ops, Begun(o), NEW d \in Mats
  PROVE  Recent(o, materials[d], d)
<1>1. materials[d] \in SomeTask /\ materials[d] \notin ops[o].old
  BY DEF IInv, TypeOK, RInv, OperationReads
<1>. QED
  BY <1>1 DEF Recent, IInv, Registry, SomeTask, Tasks, NoTask

LEMMA RunningRecent ==
  ASSUME IInv, RInv, NEW o \in Ops, Begun(o), NEW d \in Mats, NEW rev
  PROVE  Recent(o, Running(d, rev), d)
BY RegisteredRecent DEF Running, Recent

LEMMA OperationReadsStay ==
  ASSUME IInv, RInv, Steady, NEW o \in Ops, Begun(o),
         \A d \in ops'[o].generated : Refreshed(o, d)'
  PROVE  OperationReads(o)'
<1>1. ops[o].old \subseteq Tasks /\ ops'[o].old = ops[o].old /\ Begun(o)'
      /\ ops'[o].pending = ops[o].pending
  BY DEF IInv, TypeOK, OpRecords, Steady
<1>2. \A u \in ops[o].old : Ended(u) /\ task'[u].at = "done"
  BY <1>1 DEF RInv, OperationReads, Steady, Runs, Created, Ended
<1>3. ASSUME NEW d \in Mats
      PROVE  Recent(o, ops[o].pending[d], d)' /\ materials'[d] \notin ops[o].old
  <2>1. Recent(o, ops[o].pending[d], d) /\ materials[d] \notin ops[o].old
    BY DEF RInv, OperationReads
  <2>2. Recent(o, ops[o].pending[d], d)'
    BY <1>1, <2>1, RecentStays DEF Recent
  <2>3. materials'[d] \notin ops[o].old
    BY <1>1, <1>2, <2>1, Constants DEF Steady, Created, Ended
  <2>. QED
    BY <2>2, <2>3
<1>. QED
  BY <1>1, <1>2, <1>3 DEF OperationReads, Ended, Recent

\* The operations that do not begin, in a step that generates nothing new.
LEMMA OperationsReadStay ==
  ASSUME IInv, RInv, Steady, NEW o \in Ops, ops'[o].generated \subseteq ops[o].generated,
         Begun(o)' => Begun(o)
  PROVE  OperationReads(o)'
<1>1. CASE Begun(o)
  <2>1. \A d \in ops[o].generated : Refreshed(o, d)
    BY <1>1 DEF RInv, OperationReads
  <2>. QED
    BY <1>1, <2>1, RefreshedStays, OperationReadsStay
<1>2. CASE ~Begun(o)
  BY <1>2 DEF RInv, OperationReads
<1>. QED
  BY <1>1, <1>2

\* An execution that takes in only what is recent or refreshed.
LEMMA TaskReadsStay ==
  ASSUME IInv, RInv, Steady, NEW t \in Tasks, Created(t), NEW o \in Ops, o = task[t].root,
         \A d \in task'[t].resumed :
           d \in task[t].resumed \/ Refreshed(o, d) \/ Refreshed(o, d)',
         \A d \in Mats : Recent(o, task'[t].sources[d], d),
         frame'[t].how # "none" => Recent(o, frame[t].on, task[t].dependency)'
  PROVE  TaskReads(t)'
<1>1. Begun(o) /\ task'[t].root = o /\ Begun(o)' /\ task'[t].at # "free"
  BY DEF RInv, TaskReads, Created, Steady, Runs
<1>2. \A d \in task'[t].resumed : Refreshed(o, d)'
  <2>1. \A d \in task[t].resumed : Refreshed(o, d)
    BY DEF RInv, TaskReads, Created
  <2>2. \A d : Refreshed(o, d) => Refreshed(o, d)'
    BY <1>1, RefreshedStays
  <2>. QED
    BY <2>1, <2>2
<1>3. \A d \in Mats : Recent(o, task[t].sources[d], d)'
  BY <1>1, RecentStays DEF Recent
<1>4. /\ task'[t].root \in Ops /\ Begun(task[t].root)'
      /\ \A d \in task'[t].resumed : Refreshed(task[t].root, d)'
  BY <1>1, <1>2 DEF Refreshed, Begun
<1>5. /\ \A d \in Mats : Recent(task[t].root, task[t].sources[d], d)'
      /\ Awaits(t)' => Recent(task[t].root, frame[t].on, task[t].dependency)'
  BY <1>1, <1>3 DEF Awaits, Recent
<1>. QED
  BY <1>1, <1>4, <1>5 DEF TaskReads

LEMMA QuietReads ==
  ASSUME IInv, RInv, Steady, NEW t \in Tasks, frame'[t] \in {frame[t], NoFrame},
         Created(t) => Keeps(t),
         ~Created(t) => task'[t].at = "free" /\ task'[t].resumed = task[t].resumed
  PROVE  TaskReads(t)'
<1>1. CASE ~Created(t)
  <2>1. frame'[t].how = "none"
    BY <1>1 DEF IInv, Calls, Awaits, Created, NoFrame
  <2>. QED
    BY <1>1, <2>1 DEF RInv, TaskReads, Awaits, Created
<1>2. CASE Created(t)
  <2>1. PICK o \in Ops :
          /\ o = task[t].root /\ Begun(o)
          /\ \A d \in Mats : Recent(o, task[t].sources[d], d)
          /\ Awaits(t) => Recent(o, frame[t].on, task[t].dependency)
    BY <1>2 DEF RInv, TaskReads, Created
  <2>2. task'[t].resumed = task[t].resumed /\ task'[t].sources = task[t].sources
        /\ task'[t].dependency = task[t].dependency
    BY <1>2 DEF Keeps
  <2>3. frame'[t].how # "none" => Recent(o, frame[t].on, task[t].dependency)'
    <3>. SUFFICES ASSUME frame'[t].how # "none"
         PROVE Recent(o, frame[t].on, task[t].dependency)'
      OBVIOUS
    <3>1. frame'[t] = frame[t] /\ Awaits(t)
      BY DEF NoFrame, Awaits
    <3>. QED
      BY <2>1, <2>2, <3>1, RecentStays DEF Recent
  <2>. QED
    BY <1>2, <2>1, <2>2, <2>3, TaskReadsStay
<1>. QED
  BY <1>1, <1>2

-----------------------------------------------------------------------------
(* The invariant, step by step.                                             *)

\* The operations keep their sources and what they knew to be old.
OpsSteady ==
  \A o \in Ops : Begun(o) => /\ Begun(o)' /\ ops'[o].old = ops[o].old
                             /\ ops'[o].pending = ops[o].pending

LEMMA AloneSteady ==
  ASSUME IInv, OpsSteady, NEW t \in Tasks, Alone(t), Runs(t),
         \A m \in Mats : materials'[m] \in {materials[m], NoTask}
  PROVE  Steady
<1>1. \A u \in Tasks : Created(u) => Runs(u)
  BY SameKeeps DEF Alone, Keeps
<1>. QED
  BY <1>1 DEF Steady, OpsSteady

LEMMA OpenedSteady ==
  ASSUME IInv, OpsSteady, NEW c \in Callers, NEW owned \in [Mats -> SomeTask], NEW m \in Mats,
         NEW base, NEW shown, NEW root, NEW sources,
         Opened(c, owned, m, base, shown, root, sources),
         \A x \in Mats : owned[x] \in {materials[x], NoTask}
  PROVE  Steady
<1>1. CASE Joins(c, owned, m) /\ materials' = owned
  BY <1>1, SameKeeps DEF Joins, Keeps, Steady, OpsSteady
<1>2. ASSUME NEW t \in Tasks, Opens(c, t, m, base, shown, root, sources),
             materials' = [owned EXCEPT ![m] = t]
      PROVE  Steady
  <2>1. \A u \in Tasks : Created(u) => Runs(u)
    BY <1>2, SameKeeps DEF Opens, Keeps
  <2>2. \A x \in Mats : materials'[x] \in {materials[x], NoTask} \/ materials'[x] = t
    BY <1>2
  <2>3. ~Created(t)
    BY <1>2 DEF Opens
  <2>. QED
    BY <2>1, <2>2, <2>3 DEF Steady, OpsSteady
<1>. QED
  BY <1>1, <1>2 DEF Opened

LEMMA OpenedReads ==
  ASSUME IInv, RInv, Steady, NEW c \in Callers, NEW owned \in [Mats -> SomeTask], NEW m \in Mats,
         NEW base, NEW shown, NEW o \in Ops, Begun(o), NEW sources,
         Opened(c, owned, m, base, shown, o, sources),
         \A x \in Mats : owned[x] \in {materials[x], NoTask},
         \A d \in Mats : Recent(o, sources[d], d),
         c \in Tasks => Created(c) /\ task[c].root = o /\ task[c].dependency = m
  PROVE  \A t \in Tasks : TaskReads(t)'
<1>. SUFFICES ASSUME NEW t \in Tasks PROVE TaskReads(t)'
  OBVIOUS
<1>1. Begun(o)' /\ ops'[o].old = ops[o].old
  BY DEF Steady
<1>2. Recent(o, frame[c].on, m)'
  <2>1. CASE Joins(c, owned, m)
    <3>1. Recent(o, owned[m], m)
      BY RegisteredRecent DEF Recent
    <3>2. frame'[c].on = owned[m]
      BY <2>1 DEF Joins
    <3>. QED
      BY <3>1, <3>2, RecentStays DEF Recent
  <2>2. ASSUME NEW u \in Tasks, Opens(c, u, m, base, shown, o, sources)
        PROVE  Recent(o, frame[c].on, m)'
    <3>1. u \notin ops[o].old
      BY <2>2 DEF Opens, Created, RInv, OperationReads, Ended
    <3>. QED
      BY <1>1, <2>2, <3>1 DEF Opens, Recent
  <2>. QED
    BY <2>1, <2>2 DEF Opened
<1>3. CASE t = c
  <2>1. task'[t] = task[t]
    BY <1>3 DEF Opened, Opens, Joins
  <2>2. \A d \in Mats : Recent(o, task'[t].sources[d], d)
    BY <1>3, <2>1 DEF RInv, TaskReads, Created
  <2>. QED
    BY <1>2, <1>3, <2>1, <2>2, TaskReadsStay
<1>4. CASE t # c /\ task'[t] = task[t]
  <2>1. frame'[t] = frame[t]
    BY <1>4 DEF Opened, Callers
  <2>. QED
    BY <1>4, <2>1, SameKeeps, QuietReads DEF Created
<1>5. CASE t # c /\ task'[t] # task[t]
  <2>1. Opens(c, t, m, base, shown, o, sources)
    BY <1>5 DEF Opened, Opens, Joins
  <2>2. frame'[t].how = "none"
    BY <1>5, <2>1 DEF Opened, Opens, Callers, IInv, Calls, Awaits, Created
  <2>3. \A d \in Mats : Recent(o, task[t].sources[d], d)'
    <3>1. task'[t].sources = sources
      BY <2>1 DEF Opens
    <3>2. ASSUME NEW d \in Mats
          PROVE  LET u == sources[d] IN
                   u # NoTask => /\ u \in Tasks \ ops'[o].old
                                 /\ task'[u].target = d /\ task'[u].at # "free"
      BY RecentStays
    <3>. QED
      BY <3>1, <3>2 DEF Recent
  <2>. QED
    BY <1>1, <2>1, <2>2, <2>3 DEF Opens, TaskReads, Awaits
<1>. QED
  BY <1>3, <1>4, <1>5

LEMMA StartReads ==
  ASSUME IInv, RInv, NEW o \in Ops, StartSnapshot(o) \/ StartShared(o) \/ StartQueued(o)
  PROVE  Steady /\ RInv'
<1>1. ops \in [Ops -> OpRecords] /\ materials \in [Mats -> SomeTask]
  BY DEF IInv, TypeOK
<1>2. UNCHANGED <<task, frame, materials>> /\ ~Begun(o) /\ \A p \in Ops \ {o} : ops'[p] = ops[p]
  BY <1>1 DEF StartSnapshot, StartShared, StartQueued, Begun
<1>3. OpsSteady
  BY <1>2 DEF OpsSteady, Begun
<1>4. Steady
  BY <1>2, <1>3, SameKeeps DEF Steady, OpsSteady, Keeps
<1>5. \A t \in Tasks : TaskReads(t)'
  BY <1>2, <1>4, SameKeeps, QuietReads DEF Created
<1>6. ASSUME NEW p \in Ops \ {o} PROVE OperationReads(p)'
  BY <1>2, <1>4, OperationsReadStay DEF Begun
<1>7. OperationReads(o)'
  <2>1. CASE StartSnapshot(o)
    <3>1. ops'[o].generated = ops[o].generated /\ ~Begun(o)'
      BY <1>1, <2>1 DEF StartSnapshot, OpRecords, Begun
    <3>. QED
      BY <1>4, <3>1, OperationsReadStay
  <2>2. CASE StartShared(o)
    <3>1. ops'[o] = [NewOp EXCEPT !.at = "done"]
      BY <1>1, <2>2 DEF StartShared
    <3>. QED
      BY <3>1 DEF NewOp, OperationReads, Recent, NoSources
  <2>3. CASE StartQueued(o)
    <3>1. /\ ops'[o].old = {t \in Tasks : Ended(t) /\ materials[task[t].target] # t}
          /\ ops'[o].pending = [m \in Mats |-> Running(m, ops[o].rev)]
          /\ ops'[o].generated = {}
      <4>. DEFINE old == {t \in Tasks : Ended(t) /\ materials[task[t].target] # t}
                  pending == [m \in Mats |-> Running(m, ops[o].rev)]
      <4>1. ops' = [ops EXCEPT ![o].at = "queued", ![o].row = "queued",
                      ![o].pending = pending, ![o].old = old]
        BY <2>3 DEF StartQueued
      <4>2. ops[o].generated = {}
        BY <1>2 DEF RInv, OperationReads
      <4>. HIDE DEF old, pending
      <4>3. ops'[o].old = old /\ ops'[o].pending = pending /\ ops'[o].generated = {}
        BY <1>1, <4>1, <4>2 DEF OpRecords
      <4>. QED
        BY <4>3 DEF old, pending
    <3>2. \A d \in Mats : materials[d] \notin ops'[o].old
      BY <3>1, Constants DEF IInv, Registry
    <3>3. ASSUME NEW d \in Mats, NEW u, u = Running(d, ops[o].rev), u # NoTask
          PROVE  u \in Tasks \ ops'[o].old /\ task[u].target = d /\ task[u].at # "free"
      <4>1. u = materials[d]
        BY <3>3 DEF Running
      <4>2. u \in Tasks /\ task[u].target = d /\ task[u].at # "free"
        BY <1>1, <3>3, <4>1 DEF IInv, Registry, SomeTask, Tasks, NoTask
      <4>. QED
        BY <3>2, <4>1, <4>2
    <3>4. \A d \in Mats : Recent(o, ops[o].pending[d], d)'
      BY <1>2, <3>1, <3>3 DEF Recent
    <3>5. \A u \in ops'[o].old : Ended(u)'
      BY <1>2, <3>1 DEF Ended
    <3>. QED
      BY <1>2, <3>1, <3>2, <3>4, <3>5 DEF OperationReads
  <2>. QED
    BY <2>1, <2>2, <2>3
<1>. QED
  BY <1>4, <1>5, <1>6, <1>7 DEF RInv

LEMMA OpStepReads ==
  ASSUME IInv, RInv, NEW o \in Ops, OpStep(o)
  PROVE  Steady /\ RInv'
<1>1. OpMoves(o) /\ OpOpens(o) /\ Begun(o)
  BY OpStepOpens
<1>2. OpsSteady
  BY <1>1 DEF OpMoves, OpsSteady, Begun
<1>3. PICK owned \in [Mats -> SomeTask] :
        /\ \A m \in Mats : owned[m] \in {materials[m], NoTask}
        /\ \/ \E m \in Mats : \E base, shown : Opened(o, owned, m, base, shown, o, ops[o].pending)
           \/ /\ UNCHANGED task /\ materials' = owned /\ frame'[o] = NoFrame
              /\ \A d \in Callers \ {o} : frame'[d] = frame[d]
  <2>1. ops[o].at = "run" /\ Ended(frame[o].on) => Plan[o][ops[o].step + 1] \in Mats
    BY ResumedType
  <2>2. \A n \in DOMAIN Plan[o] : Plan[o][n] \in Mats
    BY TasksAssumption
  <2>. QED
    BY <1>1, <2>1, <2>2 DEF OpOpens
<1>4. Steady
  <2>1. CASE \E m \in Mats : \E base, shown : Opened(o, owned, m, base, shown, o, ops[o].pending)
    BY <1>2, <1>3, <2>1, OpenedSteady DEF Callers
  <2>2. CASE UNCHANGED task /\ materials' = owned
    BY <1>2, <1>3, <2>2, SameKeeps DEF Steady, OpsSteady, Keeps
  <2>. QED
    BY <1>3, <2>1, <2>2
<1>5. \A p \in Ops : OperationReads(p)'
  <2>1. \A p \in Ops : ops'[p].generated = ops[p].generated /\ (Begun(p)' => Begun(p))
    BY <1>1 DEF OpMoves, Begun
  <2>. QED
    BY <1>4, <2>1, OperationsReadStay
<1>6. \A t \in Tasks : TaskReads(t)'
  <2>1. CASE \E m \in Mats : \E base, shown : Opened(o, owned, m, base, shown, o, ops[o].pending)
    <3>1. \A d \in Mats : Recent(o, ops[o].pending[d], d)
      BY <1>1 DEF RInv, OperationReads
    <3>2. o \in Callers /\ o \notin Tasks
      BY Constants DEF Callers
    <3>. QED
      BY <1>1, <1>3, <1>4, <2>1, <3>1, <3>2, OpenedReads
  <2>2. CASE UNCHANGED task /\ \A d \in Callers \ {o} : frame'[d] = frame[d]
    <3>1. \A t \in Tasks : frame'[t] = frame[t]
      BY <2>2, Constants DEF Callers
    <3>. QED
      BY <1>4, <2>2, <3>1, SameKeeps, QuietReads DEF Created
  <2>. QED
    BY <1>3, <2>1, <2>2
<1>. QED
  BY <1>4, <1>5, <1>6 DEF RInv

LEMMA PlainReads ==
  ASSUME IInv, RInv, NEW t \in Tasks,
         \/ SubmitBegin(t) \/ SubmitEnd(t) \/ PollSuccess(t) \/ PollFailure(t) \/ PollWaiting(t)
         \/ WorkerStart(t) \/ WorkerEnds(t) \/ NativeRemove(t)
  PROVE  Steady /\ RInv'
<1>1. ops \in [Ops -> OpRecords] /\ task \in [Tasks -> TaskRecords]
      /\ frame \in [Callers -> Frames]
  BY DEF IInv, TypeOK, Callers
<1>2. Alone(t) /\ Keeps(t) /\ UNCHANGED materials
  BY PlainKeeps
  DEF SubmitBegin, SubmitEnd, PollSuccess, PollFailure, PollWaiting, WorkerStart, WorkerEnds,
      NativeRemove
<1>3. \A p \in Ops : /\ ops'[p].at = ops[p].at /\ ops'[p].old = ops[p].old
                     /\ ops'[p].pending = ops[p].pending
  <2>1. CASE PollSuccess(t)
    BY <1>1, <2>1 DEF PollSuccess, OpRecords
  <2>2. CASE ~PollSuccess(t)
    BY <2>2
    DEF SubmitBegin, SubmitEnd, PollFailure, PollWaiting, WorkerStart, WorkerEnds, NativeRemove
  <2>. QED
    BY <2>1, <2>2
<1>4. Steady
  <2>1. OpsSteady
    BY <1>3 DEF OpsSteady, Begun
  <2>. QED
    BY <1>2, <2>1, AloneSteady DEF Keeps
<1>5. ASSUME NEW p \in Ops PROVE OperationReads(p)'
  <2>1. CASE ~PollSuccess(t) \/ p # task[t].root
    <3>1. ops'[p].generated = ops[p].generated
      BY <1>1, <2>1
      DEF SubmitBegin, SubmitEnd, PollSuccess, PollFailure, PollWaiting, WorkerStart,
          WorkerEnds, NativeRemove
    <3>. QED
      BY <1>3, <1>4, <3>1, OperationsReadStay DEF Begun
  <2>2. CASE PollSuccess(t) /\ p = task[t].root
    <3>1. Created(t) /\ ~Ended(t)
      BY <2>2 DEF PollSuccess, Created, Ended
    <3>2. Begun(p) /\ t \notin ops[p].old
      BY <2>2, <3>1 DEF RInv, TaskReads, OperationReads, Created
    <3>3. task'[t].outcome = "success" /\ task'[t].target = task[t].target
      BY <1>1, <1>2, <2>2 DEF PollSuccess, EndedAs, Keeps, Runs
    <3>4. ops'[p].generated = ops[p].generated \union {task[t].target}
      BY <1>1, <2>2 DEF PollSuccess, OpRecords
    <3>5. Refreshed(p, task[t].target)'
      BY <1>3, <3>2, <3>3 DEF Refreshed
    <3>6. \A d \in ops[p].generated : Refreshed(p, d)'
      BY <1>4, <3>2, RefreshedStays DEF RInv, OperationReads
    <3>7. \A d \in ops'[p].generated : Refreshed(p, d)'
      <4>1. \E u \in Tasks \ ops'[p].old : task'[u].target = task[t].target
                                          /\ task'[u].outcome = "success"
        BY <1>3, <3>2, <3>3
      <4>. QED
        BY <3>4, <3>6, <4>1 DEF Refreshed
    <3>. QED
      BY <1>4, <3>2, <3>7, OperationReadsStay
  <2>. QED
    BY <2>1, <2>2
<1>6. ASSUME NEW u \in Tasks, u # t \/ UNCHANGED frame PROVE TaskReads(u)'
  <2>1. frame'[u] = frame[u]
    BY <1>1, <1>6
    DEF SubmitBegin, SubmitEnd, PollSuccess, PollFailure, PollWaiting, WorkerStart, WorkerEnds,
        NativeRemove, Callers
  <2>2. /\ Created(u) => Keeps(u)
        /\ ~Created(u) => task'[u].at = "free" /\ task'[u].resumed = task[u].resumed
    BY <1>2, SameKeeps DEF Alone, Created
  <2>. QED
    BY <1>4, <2>1, <2>2, QuietReads
<1>7. CASE PollWaiting(t)
  <2>. SUFFICES TaskReads(t)'
    BY <1>4, <1>5, <1>6 DEF RInv
  <2>1. PICK o \in Ops : o = task[t].root /\ Begun(o)
          /\ \A d \in Mats : Recent(o, task[t].sources[d], d)
    BY <1>2 DEF RInv, TaskReads, Alone, Created
  <2>. DEFINE d == task[t].dependency
              p == IF task[t].sources[d] # NoTask THEN task[t].sources[d]
                   ELSE Running(d, task[t].rev)
  <2>2. d \in Mats
    BY <1>7 DEF PollWaiting, IInv, TaskState, Depending
  <2>3. Recent(o, p, d)
    BY <2>1, <2>2, RunningRecent
  <2>4. \/ frame' = [frame EXCEPT ![t] = [NoFrame EXCEPT !.on = p, !.how = "wait"]]
        \/ UNCHANGED frame
    BY <1>7 DEF PollWaiting
  <2>5. CASE UNCHANGED frame
    BY <1>6, <2>5
  <2>6. CASE frame' = [frame EXCEPT ![t] = [NoFrame EXCEPT !.on = p, !.how = "wait"]]
    <3>1. frame'[t].on = p
      BY <1>1, <2>6 DEF NoFrame, Callers
    <3>2. task'[t].dependency = d /\ task'[t].resumed = task[t].resumed
          /\ task'[t].sources = task[t].sources
      BY <1>2 DEF Keeps
    <3>3. Recent(o, frame[t].on, task[t].dependency)'
      <4>. HIDE DEF p, d
      <4>. QED
        BY <1>4, <2>1, <2>3, <3>1, <3>2, RecentStays DEF Recent
    <3>. QED
      BY <1>2, <1>4, <2>1, <3>2, <3>3, TaskReadsStay DEF Alone
  <2>. QED
    BY <2>4, <2>5, <2>6
<1>8. CASE ~PollWaiting(t)
  <2>1. UNCHANGED frame
    BY <1>8
    DEF SubmitBegin, SubmitEnd, PollSuccess, PollFailure, WorkerStart, WorkerEnds, NativeRemove
  <2>. QED
    BY <1>4, <1>5, <1>6, <2>1 DEF RInv
<1>. QED
  BY <1>7, <1>8

LEMMA CompileReads ==
  ASSUME IInv, RInv, NEW t \in Tasks, Compile(t)
  PROVE  Steady /\ RInv'
<1>1. UNCHANGED <<ops, frame, materials>>
  BY DEF Compile
<1>2. /\ Alone(t) /\ Runs(t) /\ ~Awaits(t)
      /\ task'[t].resumed = task[t].resumed \/ task'[t].resumed = Fresh(t)
      /\ \A d \in Mats : task'[t].sources[d] \in {task[t].sources[d], Running(d, task[t].rev)}
  BY CompileRuns
<1>3. Steady
  BY <1>1, <1>2, AloneSteady DEF OpsSteady, Begun
<1>4. \A p \in Ops : OperationReads(p)'
  BY <1>1, <1>3, OperationsReadStay DEF Begun
<1>5. ASSUME NEW u \in Tasks \ {t} PROVE TaskReads(u)'
  BY <1>1, <1>2, <1>3, SameKeeps, QuietReads DEF Alone, Created
<1>6. TaskReads(t)'
  <2>1. PICK o \in Ops : o = task[t].root /\ Begun(o)
          /\ \A d \in Mats : Recent(o, task[t].sources[d], d)
    BY <1>2 DEF RInv, TaskReads, Alone, Created
  <2>2. \A d \in Fresh(t) : Refreshed(o, d)
    BY <2>1 DEF Fresh, Generated, RInv, OperationReads
  <2>3. \A d \in Mats : Recent(o, task'[t].sources[d], d)
    <3>1. \A d \in Mats : Recent(o, Running(d, task[t].rev), d)
      BY <2>1, RunningRecent
    <3>. QED
      BY <1>2, <2>1, <3>1
  <2>4. ~(frame'[t].how # "none")
    BY <1>1, <1>2 DEF Awaits
  <2>5. Created(t) /\ \A d \in task'[t].resumed : d \in task[t].resumed \/ Refreshed(o, d)
    BY <1>2, <2>2 DEF Alone
  <2>. QED
    BY <1>3, <2>1, <2>3, <2>4, <2>5, TaskReadsStay
<1>. QED
  BY <1>3, <1>4, <1>5, <1>6 DEF RInv

LEMMA WorkerReads ==
  ASSUME IInv, RInv, NEW t \in Tasks, WorkerBlocks(t) \/ WorkerPublishes(t)
  PROVE  Steady /\ RInv'
<1>1. UNCHANGED <<ops, frame, materials>>
  BY DEF WorkerBlocks, WorkerPublishes
<1>2. /\ Alone(t) /\ Runs(t) /\ ~Awaits(t)
      /\ task'[t].resumed = task[t].resumed /\ task'[t].sources = task[t].sources
  BY WorkerRuns
<1>3. Steady
  BY <1>1, <1>2, AloneSteady DEF OpsSteady, Begun
<1>4. \A p \in Ops : OperationReads(p)'
  BY <1>1, <1>3, OperationsReadStay DEF Begun
<1>5. ASSUME NEW u \in Tasks \ {t} PROVE TaskReads(u)'
  BY <1>1, <1>2, <1>3, SameKeeps, QuietReads DEF Alone, Created
<1>6. TaskReads(t)'
  <2>1. PICK o \in Ops : o = task[t].root /\ Created(t)
          /\ \A d \in Mats : Recent(o, task[t].sources[d], d)
    BY <1>2 DEF RInv, TaskReads, Alone, Created
  <2>2. ~(frame'[t].how # "none")
    BY <1>1, <1>2 DEF Awaits
  <2>. QED
    BY <1>2, <1>3, <2>1, <2>2, TaskReadsStay
<1>. QED
  BY <1>3, <1>4, <1>5, <1>6 DEF RInv

LEMMA RequestPrompts ==
  ASSUME NEW o \in Ops, Cancel(o) \/ Interrupt(o) \/ Status(o), NEW t \in Tasks
  PROVE  task'[t] = task[t] \/ \E item : task'[t] = [task[t] EXCEPT !.item = item]
<1>1. CASE Cancel(o)
  BY <1>1 DEF Cancel
<1>2. CASE Interrupt(o)
  BY <1>2 DEF Interrupt
<1>3. CASE Status(o)
  BY <1>3 DEF Status
<1>. QED
  BY <1>1, <1>2, <1>3

LEMMA RequestMarks ==
  ASSUME IInv, NEW o \in Ops, Cancel(o) \/ Interrupt(o) \/ Status(o), NEW p \in Ops
  PROVE  /\ ops'[p].at = ops[p].at /\ ops'[p].old = ops[p].old
         /\ ops'[p].pending = ops[p].pending /\ ops'[p].generated = ops[p].generated
         /\ ops'[p].step = ops[p].step
<1>1. ops \in [Ops -> OpRecords]
  BY DEF IInv, TypeOK
<1>2. CASE Cancel(o)
  <2>1. ops' = [ops EXCEPT ![o].cancel = TRUE]
    BY <1>2 DEF Cancel
  <2>. QED
    BY <1>1, <2>1 DEF OpRecords
<1>3. CASE Interrupt(o)
  <2>1. ops' = [ops EXCEPT ![o].cancel = TRUE, ![o].interrupt = TRUE]
    BY <1>3 DEF Interrupt
  <2>. QED
    BY <1>1, <2>1 DEF OpRecords
<1>4. CASE Status(o)
  <2>1. ops' = [ops EXCEPT ![o].row = "interrupted"]
    BY <1>4 DEF Status
  <2>. QED
    BY <1>1, <2>1 DEF OpRecords
<1>. QED
  BY <1>2, <1>3, <1>4

LEMMA RequestReads ==
  ASSUME IInv, RInv, NEW o \in Ops, Cancel(o) \/ Interrupt(o) \/ Status(o)
  PROVE  Steady /\ RInv'
<1>1. ops \in [Ops -> OpRecords]
  BY DEF IInv, TypeOK
<1>2. UNCHANGED <<frame, materials>>
  BY DEF Cancel, Interrupt, Status
<1>3. \A p \in Ops : /\ ops'[p].at = ops[p].at /\ ops'[p].old = ops[p].old
                     /\ ops'[p].pending = ops[p].pending
                     /\ ops'[p].generated = ops[p].generated
  BY RequestMarks
<1>4. \A t \in Tasks :
        /\ Created(t) => Keeps(t)
        /\ ~Created(t) => task'[t].at = "free" /\ task'[t].resumed = task[t].resumed
  <2>1. \A t \in Tasks :
          task'[t] = task[t] \/ \E item : task'[t] = [task[t] EXCEPT !.item = item]
    BY RequestPrompts
  <2>2. \A t \in Tasks : task[t] \in TaskRecords
    BY DEF IInv, TypeOK
  <2>3. \A t \in Tasks : task'[t].at = task[t].at /\ task'[t].resumed = task[t].resumed
    BY <2>1, <2>2 DEF TaskRecords
  <2>. QED
    BY <2>3, RequestRuns DEF Created
<1>5. Steady
  BY <1>2, <1>3, <1>4 DEF Steady, Begun, Keeps
<1>6. \A p \in Ops : OperationReads(p)'
  BY <1>3, <1>5, OperationsReadStay DEF Begun
<1>7. \A t \in Tasks : TaskReads(t)'
  BY <1>2, <1>4, <1>5, QuietReads
<1>. QED
  BY <1>5, <1>6, <1>7 DEF RInv

LEMMA RestartReads ==
  ASSUME IInv, RInv, Restart
  PROVE  Steady /\ RInv'
<1>1. ops \in [Ops -> OpRecords]
  BY DEF IInv, TypeOK
<1>2. (\A c \in Callers : frame'[c] = NoFrame) /\ materials' = NoSources
  BY DEF Restart, Callers
<1>3. ASSUME NEW p \in Ops
      PROVE  /\ Begun(p) => /\ Begun(p)' /\ ops'[p].old = ops[p].old
                            /\ ops'[p].pending = ops[p].pending
             /\ ops'[p].generated \subseteq ops[p].generated
             /\ Begun(p)' => Begun(p)
  <2>1. CASE Active(p)
    <3>1. ops'[p] = [ops[p] EXCEPT !.at = "lost"]
      BY <2>1 DEF Restart
    <3>. QED
      BY <1>1, <2>1, <3>1 DEF Begun, Active, OpRecords
  <2>2. CASE ops[p].at = "snapshot"
    BY <2>2 DEF Restart, Begun, Active, NewOp
  <2>3. CASE ~Active(p) /\ ops[p].at # "snapshot"
    BY <2>3 DEF Restart, Begun
  <2>. QED
    BY <2>1, <2>2, <2>3
<1>4. \A t \in Tasks : Created(t) => Keeps(t)
  BY RestartRuns
<1>5. Steady
  BY <1>2, <1>3, <1>4 DEF Steady, Keeps, NoSources
<1>6. \A p \in Ops : OperationReads(p)'
  BY <1>3, <1>5, OperationsReadStay
<1>7. \A t \in Tasks :
        ~Created(t) => task'[t].at = "free" /\ task'[t].resumed = task[t].resumed
  BY DEF Restart, Live, Created
<1>8. \A t \in Tasks : TaskReads(t)'
  BY <1>2, <1>4, <1>5, <1>7, QuietReads DEF Callers
<1>. QED
  BY <1>5, <1>6, <1>8 DEF RInv

\* The steps of a task that waits for a material.
Depends(t) == DependSnapshot(t) \/ Depend(t) \/ DependResume(t)

\* _wait_for_material: the task goes on, calls _material or ends.
LEMMA DependOpens ==
  ASSUME IInv, NEW t \in Tasks, Depends(t)
  PROVE  /\ task[t].dependency \in Mats /\ Created(t) /\ UNCHANGED disk
         /\ \/ /\ UNCHANGED ops
               /\ LET d == task[t].dependency
                  IN \/ /\ Depend(t) /\ frame[t].how = "none"
                        /\ Opened(t, materials, d, frame[t].base, frame[t].shown,
                                  task[t].root, NoSources)
                     \/ /\ frame[t].how = "previous" /\ Ended(frame[t].on) /\ Awaits(t)
                        /\ Opened(t, materials, d, Adopted(t, d), frame[t].shown,
                                  task[t].root, NoSources)
            \/ /\ Alone(t) /\ Runs(t) /\ \A c \in Callers \ {t} : frame'[c] = frame[c]
               /\ frame'[t] = frame[t] \/ frame'[t].base = frame'[t].shown
               /\ frame'[t].how = "none"
               /\ task'[t].sources = task[t].sources /\ task'[t].selected = task[t].selected
               /\ materials' \in {materials, Unregistered(t, task[t].dependency)}
               /\ \/ UNCHANGED ops /\ task'[t].resumed = task[t].resumed
                  \/ /\ Awaits(t) /\ task[frame[t].on].outcome = "success"
                     /\ ops' = [ops EXCEPT ![task[t].root].generated =
                                  @ \union {task[t].dependency}]
                     /\ task'[t].resumed = task[t].resumed \union {task[t].dependency}
<1>. DEFINE d == task[t].dependency
<1>1. TypeOK /\ task \in [Tasks -> TaskRecords] /\ task[t] \in TaskRecords
      /\ frame \in [Callers -> Frames] /\ t \in Callers
  BY DEF IInv, TypeOK, Callers
<1>2. Live(t) /\ Created(t) /\ ~Ended(t) /\ task[t].at \in {"snapshot", "depend"}
  BY DEF Depends, DependSnapshot, Depend, DependResume, Live, Created, Ended
<1>3. d \in Mats /\ UNCHANGED disk
  BY <1>2 DEF IInv, TaskState, Depending, Depends, DependSnapshot, Depend, DependResume
<1>4. ASSUME NEW outcome, task' = EndedAs(t, outcome)
      PROVE  Alone(t) /\ Keeps(t)
  BY <1>1, <1>2, <1>4, EndedKeeps DEF Alone
<1>5. CASE Depend(t)
  <2>1. CASE task' = EndedAs(t, "failed") /\ UNCHANGED <<frame, materials>>
    BY <1>2, <1>3, <1>4, <1>5, <2>1 DEF Depend, Awaits, Keeps
  <2>2. CASE Material(t, materials, d, frame[t].rev, frame[t].base, frame[t].shown,
                      task[t].ancestors, task[t].root, NoSources)
    <3>1. Opened(t, materials, d, frame[t].base, frame[t].shown, task[t].root, NoSources)
      BY <1>1, <2>2, MaterialOpens
    <3>. QED
      BY <1>2, <1>3, <1>5, <3>1 DEF Depend, Awaits
  <2>. QED
    BY <1>5, <2>1, <2>2 DEF Depend
<1>6. CASE DependResume(t)
  <2>1. Awaits(t) /\ Ended(frame[t].on)
    BY <1>6 DEF DependResume
  <2>2. CASE /\ frame[t].how = "previous"
             /\ Again(t, d, task[t].ancestors, task[t].root, NoSources) /\ UNCHANGED ops
    <3>1. Opened(t, materials, d, Adopted(t, d), frame[t].shown, task[t].root, NoSources)
      BY <1>1, <2>2, AgainOpens
    <3>. QED
      BY <1>2, <1>3, <2>1, <2>2, <3>1
  <2>3. CASE /\ materials' = Unregistered(t, d) /\ frame' = [frame EXCEPT ![t] = NoFrame]
             /\ \/ \E outcome : task' = EndedAs(t, outcome) /\ UNCHANGED ops
                \/ /\ task[frame[t].on].outcome = "success"
                   /\ task' = [task EXCEPT ![t].at = "submit", ![t].resumed = @ \union {d}]
                   /\ ops' = [ops EXCEPT ![task[t].root].generated = @ \union {d}]
    <3>1. /\ frame'[t].how = "none" /\ frame'[t].base = frame'[t].shown
          /\ \A c \in Callers \ {t} : frame'[c] = frame[c]
      BY <1>1, <2>3 DEF NoFrame
    <3>2. CASE \E outcome : task' = EndedAs(t, outcome) /\ UNCHANGED ops
      BY <1>2, <1>3, <1>4, <2>3, <3>1, <3>2 DEF Keeps
    <3>3. CASE /\ task[frame[t].on].outcome = "success"
               /\ task' = [task EXCEPT ![t].at = "submit", ![t].resumed = @ \union {d}]
               /\ ops' = [ops EXCEPT ![task[t].root].generated = @ \union {d}]
      <4>1. /\ Alone(t) /\ Runs(t) /\ task'[t].sources = task[t].sources
            /\ task'[t].selected = task[t].selected
            /\ task'[t].resumed = task[t].resumed \union {d}
        <5>. HIDE DEF d
        <5>. QED
          BY <1>1, <1>2, <3>3 DEF Alone, Runs, Created, TaskRecords
      <4>. QED
        BY <1>2, <1>3, <2>1, <2>3, <3>1, <3>3, <4>1
    <3>. QED
      BY <2>3, <3>2, <3>3
  <2>. QED
    BY <1>6, <2>2, <2>3 DEF DependResume
<1>7. CASE DependSnapshot(t)
  <2>1. task' = [task EXCEPT ![t].at = "depend"] /\ UNCHANGED <<ops, materials>>
    BY <1>7 DEF DependSnapshot
  <2>2. /\ Alone(t) /\ Runs(t) /\ task'[t].sources = task[t].sources
        /\ task'[t].selected = task[t].selected /\ task'[t].resumed = task[t].resumed
    BY <1>1, <1>2, <2>1 DEF Alone, Runs, Created, TaskRecords
  <2>3. /\ frame'[t].how = "none" /\ frame'[t].base = frame'[t].shown
        /\ \A c \in Callers \ {t} : frame'[c] = frame[c]
    BY <1>1, <1>7 DEF DependSnapshot, NoFrame
  <2>. QED
    BY <1>2, <1>3, <2>1, <2>2, <2>3
<1>. QED
  BY <1>5, <1>6, <1>7 DEF Depends

LEMMA DependReads ==
  ASSUME IInv, RInv, NEW t \in Tasks, Depends(t)
  PROVE  Steady /\ RInv'
<1>. DEFINE d == task[t].dependency
<1>1. ops \in [Ops -> OpRecords] /\ task \in [Tasks -> TaskRecords]
      /\ frame \in [Callers -> Frames] /\ materials \in [Mats -> SomeTask]
      /\ TypeOK /\ d \in Mats /\ Created(t)
  BY DependOpens DEF IInv, TypeOK, Callers
<1>2. PICK o \in Ops :
        /\ o = task[t].root /\ Begun(o)
        /\ \A x \in Mats : Recent(o, task[t].sources[x], x)
        /\ Awaits(t) => Recent(o, frame[t].on, d)
  BY <1>1 DEF RInv, TaskReads, Created
<1>3. CASE /\ UNCHANGED ops
           /\ \E base, shown : Opened(t, materials, d, base, shown, o, NoSources)
  <2>1. Steady
    BY <1>1, <1>3, OpenedSteady DEF OpsSteady, Callers, Begun
  <2>2. \A p \in Ops : OperationReads(p)'
    BY <1>3, <2>1, OperationsReadStay DEF Begun
  <2>3. \A x \in Mats : Recent(o, NoSources[x], x)
    BY DEF Recent, NoSources
  <2>4. \A u \in Tasks : TaskReads(u)'
    BY <1>1, <1>2, <1>3, <2>1, <2>3, OpenedReads DEF Callers
  <2>. QED
    BY <2>1, <2>2, <2>4 DEF RInv
<1>4. CASE /\ Alone(t) /\ Runs(t) /\ \A c \in Callers \ {t} : frame'[c] = frame[c]
           /\ frame'[t].how = "none"
           /\ task'[t].sources = task[t].sources
           /\ materials' \in {materials, Unregistered(t, d)}
           /\ \/ UNCHANGED ops /\ task'[t].resumed = task[t].resumed
              \/ /\ Awaits(t) /\ task[frame[t].on].outcome = "success"
                 /\ ops' = [ops EXCEPT ![o].generated = @ \union {d}]
                 /\ task'[t].resumed = task[t].resumed \union {d}
  <2>1. \A p \in Ops : /\ ops'[p].at = ops[p].at /\ ops'[p].old = ops[p].old
                       /\ ops'[p].pending = ops[p].pending
                       /\ p # o => ops'[p].generated = ops[p].generated
    BY <1>1, <1>4 DEF OpRecords
  <2>2. Steady
    <3>1. OpsSteady
      BY <2>1 DEF OpsSteady, Begun
    <3>2. \A m \in Mats : materials'[m] \in {materials[m], NoTask}
      BY <1>1, <1>4 DEF Unregistered
    <3>. QED
      BY <1>4, <3>1, <3>2, AloneSteady
  <2>3. Awaits(t) /\ task[frame[t].on].outcome = "success" => Refreshed(o, d)
    <3>1. Awaits(t) => frame[t].on \in Tasks
      BY <1>1 DEF IInv, Calls, Callers
    <3>. QED
      BY <1>2, <3>1, Constants DEF Recent, Refreshed
  <2>4. ASSUME NEW p \in Ops PROVE OperationReads(p)'
    <3>1. CASE ops'[p].generated = ops[p].generated
      BY <2>1, <2>2, <3>1, OperationsReadStay DEF Begun
    <3>2. CASE ops'[p].generated # ops[p].generated
      <4>1. p = o /\ ops'[o].generated = ops[o].generated \union {d} /\ Refreshed(o, d)
        BY <1>1, <1>4, <2>1, <2>3, <3>2 DEF OpRecords
      <4>2. \A x \in ops[o].generated : Refreshed(o, x)
        BY <1>2 DEF RInv, OperationReads
      <4>3. \A x \in ops'[o].generated : Refreshed(o, x)
        BY <4>1, <4>2
      <4>4. \A x : Refreshed(o, x) => Refreshed(o, x)'
        BY <1>2, <2>2, RefreshedStays
      <4>. QED
        BY <1>2, <2>2, <4>1, <4>3, <4>4, OperationReadsStay
    <3>. QED
      BY <3>1, <3>2
  <2>5. ASSUME NEW u \in Tasks \ {t} PROVE TaskReads(u)'
    <3>1. task'[u] = task[u] /\ frame'[u] = frame[u]
      BY <1>1, <1>4 DEF Alone, Callers
    <3>. QED
      BY <2>2, <3>1, SameKeeps, QuietReads DEF Created
  <2>6. TaskReads(t)'
    <3>1. \A x \in task'[t].resumed : x \in task[t].resumed \/ Refreshed(o, x)
      BY <1>4, <2>3
    <3>2. \A x \in Mats : Recent(o, task'[t].sources[x], x)
      BY <1>2, <1>4
    <3>. QED
      BY <1>1, <1>2, <1>4, <2>2, <3>1, <3>2, TaskReadsStay
  <2>. QED
    BY <2>2, <2>4, <2>5, <2>6 DEF RInv
<1>. QED
  BY <1>2, <1>3, <1>4, DependOpens

LEMMA IdleReads ==
  ASSUME IInv, RInv, UNCHANGED <<ops, task, frame, materials>>
  PROVE  Steady /\ RInv'
<1>1. Steady
  BY SameKeeps DEF Steady, Keeps, Begun
<1>2. \A p \in Ops : OperationReads(p)'
  BY <1>1, OperationsReadStay DEF Begun
<1>3. \A t \in Tasks : TaskReads(t)'
  BY <1>1, SameKeeps, QuietReads DEF Created
<1>. QED
  BY <1>1, <1>2, <1>3 DEF RInv

LEMMA ReadsStep ==
  ASSUME IInv, RInv, [Next]_vars
  PROVE  Steady /\ RInv'
<1>1. CASE UNCHANGED vars \/ Edit \/ \E m \in Mats : Pick(m)
  BY <1>1, IdleReads DEF vars, Edit, Pick
<1>2. ASSUME NEW t \in Tasks, Execute(t) PROVE Steady /\ RInv'
  BY <1>2, CompileReads, PlainReads, DependReads DEF Execute, Depends
<1>3. ASSUME NEW o \in Ops, Start(o) \/ OpStep(o) \/ Request(o) PROVE Steady /\ RInv'
  BY <1>3, StartReads, OpStepReads, RequestReads DEF Start, Request
<1>4. ASSUME NEW t \in Tasks,
             WorkerStart(t) \/ WorkerBlocks(t) \/ WorkerPublishes(t) \/ WorkerEnds(t)
             \/ NativeRemove(t)
      PROVE  Steady /\ RInv'
  BY <1>4, PlainReads, WorkerReads
<1>5. CASE Restart
  BY <1>5, RestartReads
<1>. QED
  BY <1>1, <1>2, <1>3, <1>4, <1>5 DEF Next, LoopStep, WorkerStep

LEMMA ReadsInit == ASSUME Init PROVE RInv
<1>1. \A o \in Ops : ops[o] = NewOp
  BY DEF Init
<1>2. \A t \in Tasks :
        task[t].at = "free" /\ task[t].resumed = {} /\ frame[t].how = "none"
  BY DEF Init, FreeTask, NoFrame
<1>. QED
  BY <1>1, <1>2 DEF RInv, OperationReads, TaskReads, Begun, NewOp, Awaits

LEMMA ReadsInvariant == Spec => [](IInv /\ RInv)
<1>1. Init => IInv /\ RInv
  BY InitInvariant, ReadsInit
<1>2. IInv /\ RInv /\ [Next]_vars => IInv' /\ RInv'
  BY StepInvariant, ReadsStep
<1>. QED
  BY <1>1, <1>2, PTL DEF Spec

\* Whatever depends on what, and however the executions of several operations and
\* revisions are shared, awaited and restarted: when a prompt succeeds, each
\* material it was told to read is the result of an execution that had not ended
\* before its operation was asked for.
THEOREM ReadsAreRefreshed == Spec => ReadsRefreshed
<1>. DEFINE Read(t) ==
       task[t].row # "success" /\ task'[t].row = "success" =>
         \A d \in task[t].resumed : \E u \in Tasks \ ops[task[t].root].old :
           task[u].target = d /\ task[u].outcome = "success"
<1>1. ASSUME IInv, RInv, [Next]_vars, NEW t \in Tasks PROVE Read(t)
  <2>1. CASE Created(t)
    <3>1. \A d \in task[t].resumed : Refreshed(task[t].root, d)
      BY <1>1, <2>1 DEF RInv, TaskReads, Created
    <3>. QED
      BY <3>1 DEF Refreshed
  <2>2. CASE ~Created(t)
    BY <1>1, <2>2 DEF RInv, TaskReads, Created
  <2>. QED
    BY <2>1, <2>2
<1>2. IInv /\ RInv /\ [Next]_vars => [\A t \in Tasks : Read(t)]_vars
  BY <1>1
<1>. QED
  BY <1>2, ReadsInvariant, PTL DEF Spec, ReadsRefreshed

-----------------------------------------------------------------------------
(* Selections made by hand.                                                 *)

\* The selection "base" of m, unless it is one that the asker had seen, is neither
\* ahead of what is selected nor made by hand.
BaseKept(m, base, shown) ==
  base <= shown \/ (base <= selection[m] /\ base # manual[m])

\* The material c is in _material for.
Goal(c) == IF c \in Ops THEN Plan[c][ops[c].step + 1] ELSE task[c].dependency

\* What a task was compiled from, and what it selected.
TaskChoice(t) ==
  Created(t) =>
    /\ BaseKept(task[t].target, task[t].base, task[t].shown)
    /\ task[t].selected => /\ task[t].base + 1 <= selection[task[t].target]
                           /\ task[t].base + 1 # manual[task[t].target]

CallChoice(c) ==
  /\ frame[c].how \notin {"none", "wait"} =>
       BaseKept(Goal(c), frame[c].base, frame[c].shown)
  /\ frame[c].how = "none" => frame[c].base = frame[c].shown

\* c is in no call of _material; a snapshot it holds shows what it is based on.
Rests(c) ==
  \/ frame[c].how = "wait"
  \/ frame[c].how = "none" /\ frame[c].base = frame[c].shown

Choices ==
  /\ \A m \in Mats : manual[m] <= selection[m]
  /\ \A t \in Tasks : TaskChoice(t)
  /\ \A c \in Callers : CallChoice(c)

\* Selections only grow; what a person selects is new.
Grows ==
  \A m \in Mats :
    \/ selection'[m] = selection[m] /\ manual'[m] = manual[m]
    \/ /\ selection'[m] = selection[m] + 1
       /\ manual'[m] \in {manual[m], selection[m] + 1}

LEMMA BaseStays ==
  ASSUME TypeOK, Choices, Grows, NEW m \in Mats, NEW base \in Nat, NEW shown,
         BaseKept(m, base, shown)
  PROVE  BaseKept(m, base, shown)'
<1>1. selection[m] \in Nat /\ manual[m] \in Nat
  BY DEF TypeOK
<1>. QED
  BY <1>1 DEF BaseKept, Grows

LEMMA TaskChoiceStays ==
  ASSUME IInv, Choices, Grows, NEW t \in Tasks,
         Created(t) => Runs(t) /\ (task'[t].selected => task[t].selected),
         ~Created(t) => task'[t].at = "free"
  PROVE  TaskChoice(t)'
<1>1. CASE ~Created(t)
  BY <1>1 DEF TaskChoice, Created
<1>2. CASE Created(t)
  <2>1. task[t] \in TaskRecords /\ TypeOK /\ task[t].target \in Mats
    BY <1>2 DEF IInv, TypeOK, TaskState, Created
  <2>2. PICK m \in Mats, base \in Nat, shown \in Nat :
          m = task[t].target /\ base = task[t].base /\ shown = task[t].shown
    BY <2>1 DEF TaskRecords
  <2>3. task'[t].target = m /\ task'[t].base = base /\ task'[t].shown = shown
    BY <1>2, <2>2 DEF Runs
  <2>4. BaseKept(m, base, shown)'
    BY <1>2, <2>1, <2>2, BaseStays DEF Choices, TaskChoice
  <2>5. task'[t].selected => base + 1 <= selection'[m] /\ base + 1 # manual'[m]
    <3>1. task'[t].selected => base + 1 <= selection[m] /\ base + 1 # manual[m]
      BY <1>2, <2>2 DEF Choices, TaskChoice
    <3>2. selection[m] \in Nat /\ manual[m] \in Nat
      BY <2>1 DEF TypeOK
    <3>. QED
      BY <3>1, <3>2 DEF Grows
  <2>. QED
    BY <2>3, <2>4, <2>5 DEF TaskChoice, BaseKept
<1>. QED
  BY <1>1, <1>2

LEMMA GoalType ==
  ASSUME IInv, NEW c \in Callers, Awaits(c)
  PROVE  Goal(c) \in Mats
<1>1. CASE c \in Ops
  <2>1. ops[c].step + 1 \in DOMAIN Plan[c]
    BY <1>1 DEF IInv, Calls, Earned, Present
  <2>. QED
    BY <1>1, <2>1, TasksAssumption DEF Goal
<1>2. CASE c \notin Ops
  BY <1>2 DEF Goal, Callers, IInv, Calls, TaskState, Depending
<1>. QED
  BY <1>1, <1>2

LEMMA CallChoiceStays ==
  ASSUME IInv, Choices, Grows, NEW c \in Callers,
         \/ Rests(c)'
         \/ frame'[c] = frame[c] /\ (Awaits(c) => Goal(c)' = Goal(c))
  PROVE  CallChoice(c)'
<1>1. CASE Rests(c)'
  BY <1>1 DEF CallChoice, Rests
<1>3. CASE frame[c].how \in {"none", "wait"} /\ frame'[c] = frame[c]
  BY <1>3 DEF CallChoice, Choices
<1>2. CASE frame[c].how \notin {"none", "wait"} /\ frame'[c] = frame[c] /\ Goal(c)' = Goal(c)
  <2>1. Goal(c) \in Mats /\ TypeOK
    BY <1>2, GoalType DEF Awaits, IInv
  <2>2. PICK m \in Mats, base \in Nat, shown \in Nat :
          m = Goal(c) /\ base = frame[c].base /\ shown = frame[c].shown
    BY <2>1 DEF TypeOK, Callers, Frames
  <2>3. BaseKept(m, base, shown)'
    BY <1>2, <2>1, <2>2, BaseStays DEF Choices, CallChoice
  <2>. QED
    BY <1>2, <2>2, <2>3 DEF CallChoice, BaseKept
<1>. QED
  BY <1>1, <1>2, <1>3 DEF Awaits

LEMMA GrowsChoices ==
  ASSUME IInv, Choices, Grows
  PROVE  \A m \in Mats : manual'[m] <= selection'[m]
<1>1. \A m \in Mats : selection[m] \in Nat /\ manual[m] \in Nat
  BY DEF IInv, TypeOK
<1>. QED
  BY <1>1 DEF Choices, Grows

\* A step that creates no execution and begins no call.
LEMMA ChoicesStay ==
  ASSUME IInv, Choices, Grows,
         \A t \in Tasks : /\ Created(t) => Runs(t) /\ (task'[t].selected => task[t].selected)
                          /\ ~Created(t) => task'[t].at = "free",
         \A c \in Callers : \/ Rests(c)'
                            \/ frame'[c] = frame[c] /\ (Awaits(c) => Goal(c)' = Goal(c))
  PROVE  Choices'
BY TaskChoiceStays, CallChoiceStays, GrowsChoices DEF Choices

\* A call of _material with a base that keeps what was made by hand.
LEMMA OpenedChoices ==
  ASSUME IInv, Choices, UNCHANGED disk, NEW c \in Callers, NEW owned, NEW m \in Mats,
         NEW base \in Nat, NEW shown \in Nat, NEW root, NEW sources,
         Opened(c, owned, m, base, shown, root, sources), BaseKept(m, base, shown),
         Goal(c)' = m, \A d \in Callers \ {c} : Awaits(d) => Goal(d)' = Goal(d)
  PROVE  Choices'
<1>1. Grows /\ UNCHANGED <<selection, manual>>
  BY DEF Grows, disk
<1>2. ASSUME NEW t \in Tasks PROVE TaskChoice(t)'
  <2>1. CASE task'[t] = task[t]
    <3>1. Created(t) => Runs(t)
      BY <2>1, SameKeeps DEF Keeps
    <3>. QED
      BY <1>1, <2>1, <3>1, TaskChoiceStays DEF Created
  <2>2. CASE task'[t] # task[t]
    <3>1. Opens(c, t, m, base, shown, root, sources)
      BY <2>2 DEF Opened, Opens, Joins
    <3>2. task'[t].target = m /\ task'[t].base = base /\ task'[t].shown = shown
          /\ ~task'[t].selected
      BY <3>1 DEF Opens
    <3>. QED
      BY <1>1, <3>2 DEF TaskChoice, BaseKept
  <2>. QED
    BY <2>1, <2>2
<1>3. CallChoice(c)'
  <2>1. frame'[c].base = base /\ frame'[c].shown = shown /\ frame'[c].how # "none"
    BY DEF Opened, Opens, Joins
  <2>. QED
    BY <1>1, <2>1 DEF CallChoice, BaseKept
<1>4. ASSUME NEW d \in Callers \ {c} PROVE CallChoice(d)'
  <2>1. frame'[d] = frame[d]
    BY DEF Opened
  <2>. QED
    BY <1>1, <2>1, CallChoiceStays
<1>. QED
  BY <1>1, <1>2, <1>3, <1>4, GrowsChoices DEF Choices

\* The result that is adopted was selected, and not by hand.
LEMMA AdoptedKept ==
  ASSUME IInv, RInv, Choices, NEW c \in Callers, frame[c].how \notin {"none", "wait"}
  PROVE  /\ Goal(c) \in Mats /\ Adopted(c, Goal(c)) \in Nat /\ frame[c].shown \in Nat
         /\ BaseKept(Goal(c), Adopted(c, Goal(c)), frame[c].shown)
<1>. DEFINE m == Goal(c)
            p == frame[c].on
<1>1. m \in Mats /\ p \in Tasks /\ Created(p)
  BY GoalType DEF Awaits, IInv, Calls, Created
<1>2. task[p].target = m
  <2>1. CASE c \in Ops
    <3>1. ops[c].at = "run"
      BY <2>1 DEF IInv, Calls, Awaits
    <3>. QED
      BY <2>1, <3>1 DEF Goal, IInv, Earned, Present
  <2>2. CASE c \notin Ops
    <3>1. Recent(task[c].root, p, task[c].dependency)
      BY <2>2 DEF RInv, TaskReads, Awaits, Callers
    <3>. QED
      BY <1>1, <2>2, <3>1, Constants DEF Recent, Goal
  <2>. QED
    BY <2>1, <2>2
<1>3. selection[m] \in Nat /\ manual[m] \in Nat /\ task[p].base \in Nat
      /\ frame[c].base \in Nat /\ frame[c].shown \in Nat
  BY <1>1 DEF IInv, TypeOK, TaskRecords, Frames, Callers
<1>4. BaseKept(m, frame[c].base, frame[c].shown)
  BY DEF Choices, CallChoice
<1>5. task[p].selected => task[p].base + 1 # manual[m]
  BY <1>1, <1>2 DEF Choices, TaskChoice
<1>. HIDE DEF m
<1>6. Adopted(c, m) \in Nat /\ BaseKept(m, Adopted(c, m), frame[c].shown)
  BY <1>3, <1>4, <1>5 DEF Adopted, BaseKept
<1>. QED
  BY <1>1, <1>3, <1>6 DEF m

LEMMA IdleChoices ==
  ASSUME IInv, Choices, Grows, UNCHANGED <<task, frame>>,
         \A o \in Ops : Awaits(o) => ops'[o].step = ops[o].step
  PROVE  Choices'
<1>1. \A c \in Callers : Awaits(c) => Goal(c)' = Goal(c)
  BY DEF Goal
<1>2. \A t \in Tasks : Created(t) => Runs(t)
  BY SameKeeps DEF Keeps
<1>. QED
  BY <1>1, <1>2, ChoicesStay DEF Created

LEMMA StartChoices ==
  ASSUME IInv, Choices, NEW o \in Ops, StartSnapshot(o) \/ StartShared(o) \/ StartQueued(o)
  PROVE  Choices'
<1>1. ops \in [Ops -> OpRecords]
  BY DEF IInv, TypeOK
<1>2. UNCHANGED <<task, frame, disk>> /\ ops[o].at # "run" /\ \A p \in Ops \ {o} : ops'[p] = ops[p]
  BY <1>1 DEF StartSnapshot, StartShared, StartQueued
<1>3. ~Awaits(o) /\ Grows
  BY <1>2 DEF IInv, Calls, disk, Grows
<1>. QED
  BY <1>2, <1>3, IdleChoices

LEMMA OpStepChoices ==
  ASSUME IInv, RInv, Choices, NEW o \in Ops, OpStep(o)
  PROVE  Choices'
<1>1. OpMoves(o) /\ OpOpens(o) /\ UNCHANGED disk /\ Begun(o) /\ o \in Callers
  BY OpStepOpens DEF Callers
<1>2. \A c \in Callers \ {o} : Awaits(c) /\ (c \in Ops \/ task'[c] = task[c]) => Goal(c)' = Goal(c)
  BY <1>1 DEF OpMoves, Goal
<1>3. ops[o].shown \in [Mats -> Nat]
  BY DEF IInv, TypeOK, OpRecords
<1>4. ASSUME NEW owned, NEW m \in Mats, NEW base \in Nat, NEW shown \in Nat,
             Opened(o, owned, m, base, shown, o, ops[o].pending),
             BaseKept(m, base, shown), Goal(o)' = m
      PROVE  Choices'
  <2>1. \A c \in Tasks : Awaits(c) => task'[c] = task[c]
    BY <1>4 DEF Opened, Opens, Joins, IInv, Calls, Created
  <2>2. \A c \in Callers \ {o} : Awaits(c) => Goal(c)' = Goal(c)
    BY <1>2, <2>1 DEF Callers
  <2>. QED
    BY <1>1, <1>4, <2>2, OpenedChoices
<1>5. CASE /\ frame[o].how \in {"own", "share", "previous"} /\ UNCHANGED ops
           /\ ops[o].at = "run"
           /\ LET m == Plan[o][ops[o].step + 1]
              IN Opened(o, materials, m, Adopted(o, m), frame[o].shown, o, ops[o].pending)
  <2>1. Goal(o) = Plan[o][ops[o].step + 1] /\ Goal(o)' = Goal(o)
    BY <1>5 DEF Goal
  <2>2. /\ Goal(o) \in Mats /\ Adopted(o, Goal(o)) \in Nat /\ frame[o].shown \in Nat
        /\ BaseKept(Goal(o), Adopted(o, Goal(o)), frame[o].shown)
    BY <1>1, <1>5, AdoptedKept
  <2>3. PICK m \in Mats, base \in Nat, shown \in Nat :
          m = Goal(o) /\ base = Adopted(o, Goal(o)) /\ shown = frame[o].shown
    BY <2>2
  <2>. QED
    BY <1>4, <1>5, <2>1, <2>2, <2>3
<1>6. ASSUME NEW owned, ops'[o].at = "run", ops'[o].step + 1 \in DOMAIN Plan[o],
             LET m == Plan[o][ops'[o].step + 1]
             IN Opened(o, owned, m, ops[o].shown[m], ops[o].shown[m], o, ops[o].pending)
      PROVE  Choices'
  <2>0. Goal(o)' = Plan[o][ops'[o].step + 1] /\ Plan[o][ops'[o].step + 1] \in Mats
    <3>1. Plan[o] \in Seq(Mats)
      BY TasksAssumption
    <3>2. Goal(o)' = Plan[o][ops'[o].step + 1]
      BY <1>6 DEF Goal
    <3>. QED
      BY <1>6, <3>1, <3>2
  <2>1. PICK m \in Mats : m = Plan[o][ops'[o].step + 1] /\ Goal(o)' = m
    BY <2>0
  <2>2. PICK base \in Nat : base = ops[o].shown[m]
    BY <1>3
  <2>3. BaseKept(m, base, base)
    BY DEF BaseKept
  <2>. QED
    BY <1>4, <1>6, <2>1, <2>2, <2>3
<1>7. CASE UNCHANGED task /\ frame'[o] = NoFrame /\ \A c \in Callers \ {o} : frame'[c] = frame[c]
  <2>1. Grows /\ \A t \in Tasks : Created(t) => Runs(t)
    BY <1>1, <1>7, SameKeeps DEF Grows, disk, Keeps
  <2>2. \A c \in Callers : \/ Rests(c)'
                           \/ frame'[c] = frame[c] /\ (Awaits(c) => Goal(c)' = Goal(c))
    BY <1>2, <1>7 DEF NoFrame, Rests
  <2>. QED
    BY <1>7, <2>1, <2>2, ChoicesStay DEF Created
<1>. QED
  BY <1>1, <1>5, <1>6, <1>7 DEF OpOpens

\* Steps of t that begin and end no call of it but to _wait.
LEMMA AloneChoices ==
  ASSUME IInv, Choices, Grows, NEW t \in Tasks, Alone(t), Runs(t),
         task'[t].selected => task[t].selected,
         \A o \in Ops : ops'[o].step = ops[o].step,
         \A c \in Callers \ {t} : frame'[c] = frame[c],
         Rests(t)' \/ frame'[t] = frame[t],
         task'[t].dependency = task[t].dependency \/ frame'[t].how = "none"
  PROVE  Choices'
<1>1. \A u \in Tasks : /\ Created(u) => Runs(u) /\ (task'[u].selected => task[u].selected)
                       /\ ~Created(u) => task'[u].at = "free"
  BY SameKeeps DEF Alone, Created, Keeps
<1>2. \A c \in Callers \ {t} : Goal(c)' = Goal(c)
  BY DEF Goal, Callers, Alone
<1>3. task'[t].dependency = task[t].dependency => Goal(t)' = Goal(t)
  BY Constants DEF Goal
<1>. QED
  BY <1>1, <1>2, <1>3, ChoicesStay DEF Awaits

LEMMA PlainChoices ==
  ASSUME IInv, Choices, NEW t \in Tasks,
         \/ SubmitBegin(t) \/ SubmitEnd(t) \/ PollSuccess(t) \/ PollFailure(t) \/ PollWaiting(t)
         \/ WorkerStart(t) \/ WorkerEnds(t) \/ NativeRemove(t)
  PROVE  Choices'
<1>1. ops \in [Ops -> OpRecords] /\ frame \in [Callers -> Frames]
  BY DEF IInv, TypeOK, Callers
<1>2. Alone(t) /\ Keeps(t)
  BY PlainKeeps
<1>3. UNCHANGED disk
  BY DEF SubmitBegin, SubmitEnd, PollSuccess, PollFailure, PollWaiting, WorkerStart, WorkerEnds,
      NativeRemove, disk
<1>4. \A o \in Ops : ops'[o].step = ops[o].step
  <2>1. CASE PollSuccess(t)
    BY <1>1, <2>1 DEF PollSuccess, OpRecords
  <2>2. CASE ~PollSuccess(t)
    BY <2>2
    DEF SubmitBegin, SubmitEnd, PollFailure, PollWaiting, WorkerStart, WorkerEnds, NativeRemove
  <2>. QED
    BY <2>1, <2>2
<1>5. /\ \A c \in Callers \ {t} : frame'[c] = frame[c]
      /\ frame'[t].how = "wait" \/ frame'[t] = frame[t]
  <2>1. CASE PollWaiting(t)
    <3>1. PICK p : \/ frame' = [frame EXCEPT ![t] = [NoFrame EXCEPT !.on = p, !.how = "wait"]]
                   \/ UNCHANGED frame
      BY <2>1 DEF PollWaiting
    <3>. QED
      BY <1>1, <3>1 DEF NoFrame, Callers
  <2>2. CASE ~PollWaiting(t)
    BY <2>2
    DEF SubmitBegin, SubmitEnd, PollSuccess, PollFailure, WorkerStart, WorkerEnds, NativeRemove
  <2>. QED
    BY <2>1, <2>2
<1>6. Grows
  BY <1>3 DEF Grows, disk
<1>. QED
  BY <1>2, <1>4, <1>5, <1>6, AloneChoices DEF Keeps, Rests

LEMMA BlocksSelects ==
  ASSUME IInv, NEW t \in Tasks, WorkerBlocks(t)
  PROVE  task'[t].selected = task[t].selected
<1>1. task \in [Tasks -> TaskRecords] /\ task[t] \in TaskRecords
  BY DEF IInv, TypeOK
<1>2. PICK d : task' = [task EXCEPT ![t].row = "waiting", ![t].dependency = d]
  BY DEF WorkerBlocks
<1>. QED
  BY <1>1, <1>2 DEF TaskRecords

LEMMA CompileChoices ==
  ASSUME IInv, Choices, NEW t \in Tasks, Compile(t) \/ WorkerBlocks(t)
  PROVE  Choices'
<1>1. UNCHANGED <<ops, frame, disk>>
  BY DEF Compile, WorkerBlocks
<1>2. Alone(t) /\ Runs(t) /\ ~Awaits(t)
  BY CompileRuns, WorkerRuns
<1>3. task'[t].selected = task[t].selected
  BY CompileRuns, BlocksSelects
<1>4. frame'[t].how = "none"
  BY <1>1, <1>2 DEF Awaits
<1>5. Grows
  BY <1>1 DEF Grows, disk
<1>. QED
  BY <1>1, <1>2, <1>3, <1>4, <1>5, AloneChoices

LEMMA PublishChoices ==
  ASSUME IInv, Choices, NEW t \in Tasks, WorkerPublishes(t)
  PROVE  Choices'
<1>1. task \in [Tasks -> TaskRecords] /\ task[t] \in TaskRecords /\ TypeOK
      /\ UNCHANGED <<ops, frame, manual>>
  BY DEF IInv, TypeOK, WorkerPublishes
<1>2. Alone(t) /\ Runs(t) /\ ~Awaits(t)
  BY WorkerRuns
<1>3. PICK m \in Mats, base \in Nat : m = task[t].target /\ base = task[t].base
  BY <1>1, <1>2 DEF Alone, Created, IInv, TaskState, TaskRecords
<1>4. /\ \A x \in Mats \ {m} : selection'[x] = selection[x]
      /\ selection[m] \in Nat /\ manual[m] \in Nat
      /\ selection'[m] = IF selection[m] = base THEN selection[m] + 1 ELSE selection[m]
      /\ task'[t].selected <=> selection[m] = base
  BY <1>1, <1>3 DEF WorkerPublishes, TypeOK, TaskRecords
<1>5. Grows
  BY <1>1, <1>4 DEF Grows
<1>6. ASSUME NEW u \in Tasks \ {t} PROVE TaskChoice(u)'
  <2>1. task'[u] = task[u]
    BY <1>2 DEF Alone
  <2>. QED
    BY <1>5, <2>1, SameKeeps, TaskChoiceStays DEF Keeps, Created
<1>7. TaskChoice(t)'
  <2>1. PICK shown \in Nat : shown = task[t].shown /\ BaseKept(m, base, shown)
    BY <1>1, <1>2, <1>3 DEF Choices, TaskChoice, Alone, TaskRecords
  <2>2. BaseKept(m, base, shown)'
    BY <1>1, <1>5, <2>1, BaseStays
  <2>3. task'[t].target = m /\ task'[t].base = base /\ task'[t].shown = shown
    BY <1>2, <1>3, <2>1 DEF Runs
  <2>4. manual[m] <= selection[m]
    BY DEF Choices
  <2>5. task'[t].selected => base + 1 <= selection'[m] /\ base + 1 # manual'[m]
    BY <1>1, <1>4, <2>4
  <2>. QED
    BY <2>2, <2>3, <2>5 DEF TaskChoice, BaseKept
<1>8. ASSUME NEW c \in Callers PROVE CallChoice(c)'
  <2>1. Awaits(c) => Goal(c)' = Goal(c)
    BY <1>1, <1>2 DEF Goal, Alone, Callers
  <2>. QED
    BY <1>1, <1>5, <2>1, CallChoiceStays
<1>. QED
  BY <1>5, <1>6, <1>7, <1>8, GrowsChoices DEF Choices

LEMMA DependChoices ==
  ASSUME IInv, RInv, Choices, NEW t \in Tasks, Depends(t)
  PROVE  Choices'
<1>. DEFINE d == task[t].dependency
<1>1. ops \in [Ops -> OpRecords] /\ frame \in [Callers -> Frames] /\ selection \in [Mats -> Nat]
      /\ d \in Mats /\ t \in Callers /\ t \notin Ops /\ Created(t) /\ UNCHANGED disk
  BY DependOpens, Constants DEF IInv, TypeOK, Callers
<1>2. Goal(t) = d
  BY <1>1 DEF Goal
<1>3. ASSUME NEW base \in Nat, NEW shown \in Nat, UNCHANGED ops,
             Opened(t, materials, d, base, shown, task[t].root, NoSources),
             BaseKept(d, base, shown)
      PROVE  Choices'
  <2>1. \A c \in Tasks : Awaits(c) \/ c = t => task'[c] = task[c]
    BY <1>1, <1>3 DEF Opened, Opens, Joins, IInv, Calls, Created
  <2>2. Goal(t)' = d /\ \A c \in Callers \ {t} : Awaits(c) => Goal(c)' = Goal(c)
    BY <1>1, <1>3, <2>1 DEF Goal, Callers
  <2>3. PICK m \in Mats : m = d
    BY <1>1
  <2>. HIDE DEF d
  <2>. QED
    BY <1>1, <1>3, <2>2, <2>3, OpenedChoices
<1>4. CASE /\ UNCHANGED ops
           /\ frame[t].how = "none"
           /\ Opened(t, materials, d, frame[t].base, frame[t].shown, task[t].root, NoSources)
  <2>1. frame[t].base = frame[t].shown /\ frame[t].base \in Nat
    BY <1>1, <1>4 DEF Choices, CallChoice, Frames
  <2>2. BaseKept(d, frame[t].base, frame[t].shown)
    BY <2>1 DEF BaseKept
  <2>. QED
    BY <1>3, <1>4, <2>1, <2>2
<1>5. CASE /\ UNCHANGED ops /\ frame[t].how = "previous"
           /\ Opened(t, materials, d, Adopted(t, d), frame[t].shown, task[t].root, NoSources)
  <2>1. Adopted(t, d) \in Nat /\ frame[t].shown \in Nat
        /\ BaseKept(d, Adopted(t, d), frame[t].shown)
    BY <1>1, <1>2, <1>5, AdoptedKept
  <2>. QED
    BY <1>3, <1>5, <2>1
<1>6. CASE /\ Alone(t) /\ Runs(t) /\ \A c \in Callers \ {t} : frame'[c] = frame[c]
           /\ frame'[t] = frame[t] \/ frame'[t].base = frame'[t].shown
           /\ frame'[t].how = "none" /\ task'[t].selected = task[t].selected
           /\ \/ UNCHANGED ops
              \/ ops' = [ops EXCEPT ![task[t].root].generated = @ \union {d}]
  <2>1. \A o \in Ops : ops'[o].step = ops[o].step
    BY <1>1, <1>6 DEF OpRecords
  <2>2. Grows
    BY <1>1 DEF Grows, disk
  <2>3. Rests(t)' \/ frame'[t] = frame[t]
    BY <1>6 DEF Rests
  <2>. QED
    BY <1>6, <2>1, <2>2, <2>3, AloneChoices
<1>. QED
  BY <1>4, <1>5, <1>6, DependOpens

LEMMA RequestChoices ==
  ASSUME IInv, Choices, Restart \/ \E o \in Ops : Cancel(o) \/ Interrupt(o) \/ Status(o)
  PROVE  Choices'
<1>1. ops \in [Ops -> OpRecords] /\ \A t \in Tasks : task[t] \in TaskRecords
  BY DEF IInv, TypeOK
<1>2. Grows
  BY DEF Restart, Cancel, Interrupt, Status, disk, Grows
<1>3. \A t \in Tasks : Created(t) => Keeps(t)
  BY RestartRuns, RequestRuns
<1>4. CASE Restart
  <2>1. \A t \in Tasks : ~Created(t) => task'[t].at = "free"
    BY <1>4 DEF Restart, Live, Created
  <2>2. \A c \in Callers : Rests(c)'
    BY <1>4 DEF Restart, Callers, NoFrame, Rests
  <2>. QED
    BY <1>2, <1>3, <2>1, <2>2, ChoicesStay DEF Keeps
<1>5. ASSUME NEW o \in Ops, Cancel(o) \/ Interrupt(o) \/ Status(o) PROVE Choices'
  <2>1. \A t \in Tasks :
          task'[t] = task[t] \/ \E item : task'[t] = [task[t] EXCEPT !.item = item]
    BY <1>5, RequestPrompts
  <2>2. \A t \in Tasks : ~Created(t) => task'[t].at = "free"
    BY <1>1, <2>1 DEF TaskRecords, Created
  <2>3. \A p \in Ops : ops'[p].step = ops[p].step
    BY <1>5, RequestMarks
  <2>4. \A c \in Callers : frame'[c] = frame[c] /\ (Awaits(c) => Goal(c)' = Goal(c))
    <3>1. UNCHANGED frame
      BY <1>5 DEF Cancel, Interrupt, Status
    <3>2. \A t \in Tasks : Awaits(t) => task'[t].dependency = task[t].dependency
      BY <1>3 DEF IInv, Calls, Created, Keeps
    <3>. QED
      BY <2>3, <3>1, <3>2 DEF Goal, Callers
  <2>. QED
    BY <1>2, <1>3, <2>2, <2>4, ChoicesStay DEF Keeps
<1>. QED
  BY <1>4, <1>5

LEMMA ChoicesStep ==
  ASSUME IInv, RInv, Choices, [Next]_vars
  PROVE  Choices'
<1>1. CASE UNCHANGED vars \/ Edit \/ \E m \in Mats : Pick(m)
  <2>1. selection \in [Mats -> Nat] /\ manual \in [Mats -> Nat]
    BY DEF IInv, TypeOK
  <2>2. Grows
    BY <1>1, <2>1 DEF vars, Edit, Pick, Grows
  <2>. QED
    BY <1>1, <2>2, IdleChoices DEF vars, Edit, Pick
<1>2. ASSUME NEW t \in Tasks, Execute(t) PROVE Choices'
  BY <1>2, CompileChoices, PlainChoices, DependChoices DEF Execute, Depends
<1>3. ASSUME NEW o \in Ops, Start(o) \/ OpStep(o) \/ Request(o) PROVE Choices'
  BY <1>3, StartChoices, OpStepChoices, RequestChoices DEF Start, Request
<1>4. ASSUME NEW t \in Tasks,
             WorkerStart(t) \/ WorkerBlocks(t) \/ WorkerPublishes(t) \/ WorkerEnds(t)
             \/ NativeRemove(t)
      PROVE  Choices'
  BY <1>4, PlainChoices, CompileChoices, PublishChoices
<1>5. CASE Restart
  BY <1>5, RequestChoices
<1>. QED
  BY <1>1, <1>2, <1>3, <1>4, <1>5 DEF Next, LoopStep, WorkerStep

LEMMA ChoicesInvariant == Spec => [](IInv /\ RInv /\ Choices)
<1>1. Init => IInv /\ RInv
  BY InitInvariant, ReadsInit
<1>2. ASSUME Init PROVE Choices
  <2>1. /\ \A m \in Mats : manual[m] = 0 /\ selection[m] = 0
        /\ \A t \in Tasks : task[t].at = "free"
        /\ \A c \in Callers : frame[c].how = "none" /\ frame[c].base = frame[c].shown
    BY <1>2 DEF Init, FreeTask, NoFrame, Callers
  <2>. QED
    BY <2>1 DEF Choices, TaskChoice, CallChoice, Created
<1>3. IInv /\ RInv /\ Choices /\ [Next]_vars => IInv' /\ RInv' /\ Choices'
  BY StepInvariant, ReadsStep, ChoicesStep
<1>. QED
  BY <1>1, <1>2, <1>3, PTL DEF Spec

\* Only publishing a material selects it.
LEMMA SelectedNow ==
  ASSUME IInv, [Next]_vars, NEW t \in Tasks, ~task[t].selected, task'[t].selected
  PROVE  WorkerPublishes(t)
<1>1. UNCHANGED task => FALSE
  OBVIOUS
<1>2. ASSUME NEW u \in Tasks, Alone(u), task'[u].selected = task[u].selected PROVE FALSE
  BY <1>2 DEF Alone
<1>3. ASSUME NEW c, NEW owned, NEW m, NEW base, NEW shown, NEW root, NEW sources,
             Opened(c, owned, m, base, shown, root, sources)
      PROVE  FALSE
  BY <1>3 DEF Opened, Opens, Joins
<1>4. ASSUME task'[t] = task[t] \/ \E at, item : \/ task'[t] = [task[t] EXCEPT !.item = item]
                                                 \/ task'[t] = [task[t] EXCEPT !.at = at, !.item = item]
      PROVE  FALSE
  <2>1. task[t] \in TaskRecords
    BY DEF IInv, TypeOK
  <2>. QED
    BY <1>4, <2>1 DEF TaskRecords
<1>5. CASE UNCHANGED vars \/ Edit \/ \E m \in Mats : Pick(m)
  BY <1>1, <1>5 DEF vars, Edit, Pick
<1>6. ASSUME NEW u \in Tasks, Execute(u) PROVE FALSE
  <2>1. CASE Compile(u)
    BY <1>2, <2>1, CompileRuns
  <2>2. CASE Depends(u)
    BY <1>2, <1>3, <2>2, DependOpens
  <2>. QED
    BY <1>2, <1>6, <2>1, <2>2, PlainKeeps DEF Execute, Keeps, Depends
<1>7. ASSUME NEW o \in Ops, Start(o) \/ OpStep(o) \/ Request(o) PROVE FALSE
  <2>1. CASE OpStep(o)
    BY <1>1, <1>3, <2>1, OpStepOpens DEF OpOpens
  <2>2. CASE StartSnapshot(o) \/ Start(o) \/ Cancel(o) \/ Status(o)
    BY <1>1, <2>2 DEF StartSnapshot, Start, StartShared, StartQueued, Cancel, Status
  <2>3. CASE Interrupt(o)
    BY <1>4, <2>3 DEF Interrupt
  <2>. QED
    BY <1>7, <2>1, <2>2, <2>3 DEF Request
<1>8. ASSUME NEW u \in Tasks, WorkerStart(u) \/ WorkerBlocks(u) \/ WorkerEnds(u) \/ NativeRemove(u)
      PROVE  FALSE
  BY <1>2, <1>8, PlainKeeps, WorkerRuns, BlocksSelects DEF Keeps
<1>9. ASSUME NEW u \in Tasks \ {t}, WorkerPublishes(u) PROVE FALSE
  BY <1>9, WorkerRuns DEF Alone
<1>10. CASE Restart
  BY <1>4, <1>10 DEF Restart
<1>. QED
  BY <1>5, <1>6, <1>7, <1>8, <1>9, <1>10 DEF Next, LoopStep, WorkerStep

\* Whatever a person selects after an operation or a dependency was asked for stays
\* selected when its result comes, however often the result of an older revision
\* was adopted on the way.
THEOREM ManualChoiceIsKept == Spec => ManualChoiceKept
<1>. DEFINE Stays(t) ==
       LET m == task[t].target
       IN ~task[t].selected /\ task'[t].selected /\ selection[m] = manual[m] =>
            manual[m] <= task[t].shown
<1>1. ASSUME IInv, Choices, [Next]_vars, NEW t \in Tasks PROVE Stays(t)
  <2>. SUFFICES ASSUME ~task[t].selected, task'[t].selected,
                       selection[task[t].target] = manual[task[t].target]
       PROVE  manual[task[t].target] <= task[t].shown
    OBVIOUS
  <2>1. WorkerPublishes(t)
    BY <1>1, SelectedNow
  <2>2. selection[task[t].target] = task[t].base
    BY <1>1, <2>1 DEF WorkerPublishes, IInv, TypeOK, TaskRecords
  <2>3. BaseKept(task[t].target, task[t].base, task[t].shown)
    BY <1>1, <2>1, WorkerRuns DEF Choices, TaskChoice, Alone
  <2>. QED
    BY <2>2, <2>3 DEF BaseKept
<1>2. IInv /\ Choices /\ [Next]_vars => [\A t \in Tasks : Stays(t)]_vars
  BY <1>1
<1>. QED
  BY <1>2, ChoicesInvariant, PTL DEF Spec, ManualChoiceKept


-----------------------------------------------------------------------------
(* Who waits for whom.                                                      *)

\* A task asks for a material its prompt reads; its prompt is somewhere in ComfyUI
\* while it polls, and has a row the poll can deal with when it is over.
Fits(t) ==
  /\ Depending(task[t]) => task[t].dependency \in ReadBy(t)
  /\ task[t].at = "native" => task[t].item # "none"
  /\ OnWorker(t) => task[t].row \in {"running", "waiting", "success"}
  /\ task[t].item = "over" => task[t].row \in {"waiting", "success", "failed", "interrupted"}

\* The lock is held by somebody who is about to release it.
Locks ==
  /\ lock \in Ops => ops[lock].at = "snapshot"
  /\ lock \in Tasks => task[lock].at = "validate"

\* Nobody is to wait for a task that died with an earlier process.
Died(u) == u # NoTask /\ task[u].at = "lost"
NoneDied ==
  /\ \A o \in Ops : Active(o) => \A d \in Mats : ~Died(ops[o].pending[d])
  /\ \A t \in Tasks : Live(t) => \A d \in Mats : ~Died(task[t].sources[d])
  /\ \A t \in Tasks : Awaits(t) => ~Died(frame[t].on)

WInv == (\A t \in Tasks : Fits(t)) /\ Locks /\ NoneDied

\* The process goes on: who is alive has not died.
Survives(t) == Created(t) /\ ~Died(t) => task'[t].at # "lost"

LEMMA SameFits ==
  ASSUME NEW t \in Tasks, Fits(t), task'[t] = task[t]
  PROVE  Fits(t)' /\ Survives(t)
BY Constants DEF Fits, Depending, OnWorker, ReadBy, Survives, Died

LEMMA EndedFits ==
  ASSUME IInv, NEW t \in Tasks, NEW outcome \in Outcomes, task' = EndedAs(t, outcome)
  PROVE  Fits(t)' /\ Survives(t)
<1>1. task \in [Tasks -> TaskRecords] /\ task[t] \in TaskRecords
  BY DEF IInv, TypeOK
<1>2. /\ task'[t].at = "done" /\ task'[t].item = "none"
      /\ task'[t].row \in {"none", "success", outcome}
  BY <1>1 DEF EndedAs, TaskRecords
<1>. QED
  BY <1>2 DEF Fits, Depending, OnWorker, Survives, Outcomes

\* A step of t leaves others alone.
LEMMA AloneFits ==
  ASSUME NEW t \in Tasks, \A u \in Tasks : Fits(u), Alone(t), Fits(t)' /\ Survives(t)
  PROVE  \A u \in Tasks : Fits(u)' /\ Survives(u)
BY SameFits DEF Alone

LEMMA PlainFits ==
  ASSUME IInv, NEW t \in Tasks, Fits(t),
         \/ SubmitBegin(t) \/ SubmitEnd(t) \/ PollSuccess(t) \/ PollFailure(t) \/ PollWaiting(t)
         \/ WorkerStart(t) \/ WorkerEnds(t) \/ NativeRemove(t)
  PROVE  Fits(t)' /\ Survives(t)
<1>1. task \in [Tasks -> TaskRecords] /\ task[t] \in TaskRecords
  BY DEF IInv, TypeOK
<1>2. CASE \E outcome \in Outcomes : task' = EndedAs(t, outcome)
  BY <1>2, EndedFits
<1>3. CASE SubmitBegin(t)
  <2>1. CASE task' = [task EXCEPT ![t].at = "validate"]
    BY <1>1, <1>3, <2>1 DEF SubmitBegin, Fits, Depending, OnWorker, ReadBy, Survives, TaskRecords
  <2>. QED
    BY <1>2, <1>3, <2>1 DEF SubmitBegin, Outcomes
<1>4. CASE SubmitEnd(t)
  <2>1. CASE task' = [task EXCEPT ![t].at = "native", ![t].row = "queued", ![t].item = "queued"]
    BY <1>1, <2>1 DEF Fits, Depending, OnWorker, ReadBy, Survives, TaskRecords
  <2>. QED
    BY <1>2, <1>4, <2>1 DEF SubmitEnd, Outcomes
<1>5. CASE PollSuccess(t) \/ PollFailure(t)
  BY <1>2, <1>5 DEF PollSuccess, PollFailure, Outcomes
<1>6. CASE PollWaiting(t)
  <2>1. CASE \E at \in {"snapshot", "depend"} :
               task' = [task EXCEPT ![t].at = at, ![t].item = "none"]
    <3>1. task[t].row = "waiting"
      BY <1>6 DEF PollWaiting
    <3>. QED
      BY <1>1, <2>1, <3>1 DEF Fits, Depending, OnWorker, ReadBy, Survives, TaskRecords
  <2>. QED
    BY <1>2, <1>6, <2>1 DEF PollWaiting, Outcomes
<1>7. CASE WorkerStart(t)
  <2>1. task' = [task EXCEPT ![t].item = "running", ![t].row = "running"] /\ task[t].at = "native"
    BY <1>7 DEF WorkerStart, IInv, TaskState
  <2>. QED
    BY <1>1, <2>1 DEF Fits, Depending, OnWorker, ReadBy, Survives, TaskRecords
<1>8. CASE WorkerEnds(t)
  <2>1. OnWorker(t) /\ task[t].at = "native"
    BY <1>8 DEF WorkerEnds, OnWorker, IInv, TaskState
  <2>2. CASE task' = [task EXCEPT ![t].item = "over"] /\ task[t].row # "running"
    BY <1>1, <2>1, <2>2 DEF Fits, Depending, OnWorker, ReadBy, Survives, TaskRecords
  <2>3. CASE \E row \in {"interrupted", "failed"} :
               task' = [task EXCEPT ![t].item = "over", ![t].row = row]
    BY <1>1, <2>1, <2>3 DEF Fits, Depending, OnWorker, ReadBy, Survives, TaskRecords
  <2>. QED
    BY <1>8, <2>2, <2>3 DEF WorkerEnds
<1>9. CASE NativeRemove(t)
  <2>1. PICK item \in {"stopping", "removed"} :
          /\ task' = [task EXCEPT ![t].item = item]
          /\ item = "stopping" => task[t].item = "running"
    BY <1>9 DEF NativeRemove
  <2>2. task[t].at = "native"
    BY <1>9 DEF NativeRemove, IInv, TaskState
  <2>. QED
    BY <1>1, <2>1, <2>2 DEF Fits, Depending, OnWorker, ReadBy, Survives, TaskRecords
<1>. QED
  BY <1>3, <1>4, <1>5, <1>6, <1>7, <1>8, <1>9

LEMMA CompileFits ==
  ASSUME IInv, NEW t \in Tasks, Compile(t)
  PROVE  Fits(t)' /\ Survives(t)
<1>1. task \in [Tasks -> TaskRecords] /\ task[t] \in TaskRecords
  BY DEF IInv, TypeOK
<1>2. CASE task' = EndedAs(t, "failed")
  BY <1>2, EndedFits DEF Outcomes
<1>3. CASE task' # EndedAs(t, "failed")
  <2>1. PICK resumed, sources :
          task' = [task EXCEPT ![t].at = "submit", ![t].row = "prepared",
                     ![t].resumed = resumed, ![t].sources = sources]
    BY <1>3 DEF Compile
  <2>2. task[t].at = "compile" /\ task[t].item = "none"
    BY DEF Compile, IInv, TaskState
  <2>. QED
    BY <1>1, <2>1, <2>2 DEF Fits, Depending, OnWorker, Survives, TaskRecords
<1>. QED
  BY <1>2, <1>3

LEMMA WorkerFits ==
  ASSUME IInv, NEW t \in Tasks, Fits(t), WorkerBlocks(t) \/ WorkerPublishes(t)
  PROVE  Fits(t)' /\ Survives(t)
<1>1. task \in [Tasks -> TaskRecords] /\ task[t] \in TaskRecords
  BY DEF IInv, TypeOK
<1>2. task[t].at = "native" /\ OnWorker(t)
  BY DEF WorkerBlocks, WorkerPublishes, OnWorker, IInv, TaskState
<1>3. CASE WorkerBlocks(t)
  <2>1. PICK d \in ReadBy(t) : task' = [task EXCEPT ![t].row = "waiting", ![t].dependency = d]
    BY <1>3 DEF WorkerBlocks
  <2>. QED
    BY <1>1, <1>2, <2>1 DEF Fits, Depending, OnWorker, ReadBy, Survives, TaskRecords
<1>4. CASE WorkerPublishes(t)
  <2>1. PICK selects : task' = [task EXCEPT ![t].row = "success", ![t].selected = selects]
    BY <1>4 DEF WorkerPublishes
  <2>. QED
    BY <1>1, <1>2, <2>1 DEF Fits, Depending, OnWorker, ReadBy, Survives, TaskRecords
<1>. QED
  BY <1>3, <1>4

LEMMA OpenedFits ==
  ASSUME IInv, TaskState', \A t \in Tasks : Fits(t), NEW c, NEW owned, NEW m,
         NEW base, NEW shown, NEW root, NEW sources,
         Opened(c, owned, m, base, shown, root, sources)
  PROVE  \A t \in Tasks : Fits(t)' /\ Survives(t)
<1>. TAKE t \in Tasks
<1>1. CASE task'[t] = task[t]
  BY <1>1, SameFits
<1>2. CASE task'[t] # task[t]
  <2>1. task'[t].at = "compile" /\ task'[t].row = "none"
    BY <1>2 DEF Opened, Opens, Joins
  <2>2. task'[t].item = "none"
    BY <2>1 DEF TaskState
  <2>. QED
    BY <2>1, <2>2 DEF Fits, Depending, OnWorker, Survives
<1>. QED
  BY <1>1, <1>2

LEMMA DependFits ==
  ASSUME IInv, TaskState', \A u \in Tasks : Fits(u), NEW t \in Tasks,
         Depends(t)
  PROVE  \A u \in Tasks : Fits(u)' /\ Survives(u)
<1>1. TypeOK /\ task \in [Tasks -> TaskRecords] /\ task[t] \in TaskRecords /\ t \in Callers
  BY DEF IInv, TypeOK, Callers
<1>2. task[t].at \in {"snapshot", "depend"} /\ Created(t) /\ task[t].item = "none"
  BY DEF Depends, DependSnapshot, Depend, DependResume, Created, IInv, TaskState
<1>3. ASSUME NEW outcome \in Outcomes, task' = EndedAs(t, outcome)
      PROVE  \A u \in Tasks : Fits(u)' /\ Survives(u)
  <2>1. Alone(t)
    BY <1>1, <1>2, <1>3 DEF Alone, EndedAs
  <2>. QED
    BY <1>3, <2>1, EndedFits, AloneFits
<1>4. CASE task' = [task EXCEPT ![t].at = "submit", ![t].resumed = @ \union {task[t].dependency}]
  <2>1. Alone(t)
    BY <1>1, <1>2, <1>4 DEF Alone
  <2>2. Fits(t)' /\ Survives(t)
    BY <1>1, <1>2, <1>4 DEF Fits, Depending, OnWorker, ReadBy, Survives, TaskRecords
  <2>. QED
    BY <2>1, <2>2, AloneFits
<1>5. CASE Depend(t)
  BY <1>1, <1>3, <1>5, MaterialOpens, OpenedFits DEF Depend, Outcomes
<1>6. CASE DependResume(t)
  <2>1. task[frame[t].on].outcome \in Outcomes
    BY <1>1, <1>6 DEF DependResume, IInv, Calls, TypeOK, TaskRecords
  <2>. QED
    BY <1>1, <1>3, <1>4, <1>6, <2>1, AgainOpens, OpenedFits DEF DependResume
<1>7. CASE DependSnapshot(t)
  <2>1. task' = [task EXCEPT ![t].at = "depend"] /\ task[t].at = "snapshot"
    BY <1>7 DEF DependSnapshot
  <2>2. Alone(t) /\ Fits(t)' /\ Survives(t)
    BY <1>1, <1>2, <2>1
    DEF Alone, Fits, Depending, OnWorker, ReadBy, Survives, TaskRecords
  <2>. QED
    BY <2>2, AloneFits
<1>. QED
  BY <1>5, <1>6, <1>7 DEF Depends

LEMMA RequestFits ==
  ASSUME IInv, NEW o \in Ops, Interrupt(o), NEW t \in Tasks, Fits(t)
  PROVE  Fits(t)' /\ Survives(t)
<1>1. task[t] \in TaskRecords
  BY DEF IInv, TypeOK
<1>2. PICK item : /\ task'[t] = [task[t] EXCEPT !.item = item]
                  /\ \/ task[t].item = "queued" /\ item = "removed"
                     \/ task[t].item = "running" /\ item = "stopping"
                     \/ task[t].item \notin {"queued", "running"} /\ item = task[t].item
  <2>. DEFINE item == CASE task[t].item = "queued" -> "removed"
                        [] task[t].item = "running" -> "stopping" [] OTHER -> task[t].item
  <2>1. task'[t] = [task[t] EXCEPT !.item = item]
    BY DEF Interrupt
  <2>. QED
    BY <2>1
<1>. QED
  BY <1>1, <1>2, Constants
  DEF Fits, Depending, OnWorker, ReadBy, Survives, Died, Created, TaskRecords

LEMMA RestartFits ==
  ASSUME IInv, Restart, NEW t \in Tasks, Fits(t)
  PROVE  Fits(t)'
<1>1. task[t] \in TaskRecords
  BY DEF IInv, TypeOK
<1>2. CASE Live(t)
  <2>1. task'[t] = [task[t] EXCEPT !.at = "lost", !.item = "none"]
    BY <1>2 DEF Restart
  <2>. QED
    BY <1>1, <2>1 DEF Fits, Depending, OnWorker, ReadBy, TaskRecords
<1>3. CASE ~Live(t)
  <2>1. task'[t] = task[t]
    BY <1>3 DEF Restart
  <2>. QED
    BY <2>1, SameFits
<1>. QED
  BY <1>2, <1>3

LEMMA FitsStep ==
  ASSUME IInv, IInv', \A t \in Tasks : Fits(t), [Next]_vars
  PROVE  \A t \in Tasks : Fits(t)' /\ (Survives(t) \/ Restart)
<1>1. CASE UNCHANGED task
  BY <1>1, SameFits
<1>2. CASE Restart
  BY <1>2, RestartFits
<1>3. ASSUME NEW o \in Ops, Start(o) \/ OpStep(o) \/ Request(o)
      PROVE  \A t \in Tasks : Fits(t)' /\ Survives(t)
  <2>1. CASE OpStep(o)
    <3>1. OpOpens(o)
      BY <2>1, OpStepOpens
    <3>2. CASE UNCHANGED task
      BY <3>2, SameFits
    <3>3. CASE task' # task
      <4>1. \E owned, m, base, shown : Opened(o, owned, m, base, shown, o, ops[o].pending)
        BY <3>1, <3>3 DEF OpOpens
      <4>. QED
        BY <4>1, OpenedFits DEF IInv
    <3>. QED
      BY <3>2, <3>3
  <2>2. CASE Interrupt(o)
    BY <2>2, RequestFits
  <2>3. CASE UNCHANGED task
    BY <2>3, SameFits
  <2>. QED
    BY <1>3, <2>1, <2>2, <2>3
    DEF Start, Request, StartSnapshot, StartShared, StartQueued, Cancel, Status
<1>4. ASSUME NEW t \in Tasks,
             \/ Execute(t) \/ WorkerStart(t) \/ WorkerBlocks(t) \/ WorkerPublishes(t)
             \/ WorkerEnds(t) \/ NativeRemove(t)
      PROVE  \A u \in Tasks : Fits(u)' /\ Survives(u)
  <2>1. CASE Depends(t)
    BY <2>1, DependFits DEF IInv
  <2>2. CASE Compile(t)
    BY <2>2, CompileFits, CompileRuns, AloneFits
  <2>3. CASE WorkerBlocks(t) \/ WorkerPublishes(t)
    BY <2>3, WorkerFits, WorkerRuns, AloneFits
  <2>4. CASE \/ SubmitBegin(t) \/ SubmitEnd(t) \/ PollSuccess(t) \/ PollFailure(t)
             \/ PollWaiting(t) \/ WorkerStart(t) \/ WorkerEnds(t) \/ NativeRemove(t)
    BY <2>4, PlainFits, PlainKeeps, AloneFits
  <2>. QED
    BY <1>4, <2>1, <2>2, <2>3, <2>4 DEF Execute, Depends
<1>5. CASE UNCHANGED vars \/ Edit \/ \E m \in Mats : Pick(m)
  BY <1>1, <1>5 DEF vars, Edit, Pick
<1>. QED
  BY <1>2, <1>3, <1>4, <1>5 DEF Next, LoopStep, WorkerStep

LEMMA LocksStep ==
  ASSUME IInv, Locks, [Next]_vars
  PROVE  Locks'
<1>1. /\ task \in [Tasks -> TaskRecords] /\ ops \in [Ops -> OpRecords]
      /\ lock \in Ops \union Tasks \union {Free}
  BY DEF IInv, TypeOK
<1>2. CASE lock' = Free
  BY <1>2, Constants DEF Locks
<1>3. CASE /\ lock' = lock /\ (lock \in Ops => ops'[lock].at = ops[lock].at)
           /\ (lock \in Tasks => task'[lock].at = task[lock].at)
  BY <1>3 DEF Locks
<1>4. ASSUME NEW o \in Ops, Start(o) \/ OpStep(o) \/ Request(o) PROVE Locks'
  <2>1. CASE StartSnapshot(o)
    BY <1>1, <2>1, Constants DEF StartSnapshot, Locks, OpRecords
  <2>2. CASE StartShared(o) \/ StartQueued(o)
    BY <1>2, <2>2 DEF StartShared, StartQueued
  <2>3. CASE OpStep(o)
    <3>1. OpMoves(o) /\ OpOpens(o) /\ lock' = lock
      BY <2>3, OpStepOpens DEF OpStep, OpBegin, OpResume
    <3>2. ops[o].at # "snapshot"
      BY <2>3 DEF OpStep, OpBegin, OpResume
    <3>3. lock \in Ops => lock # o /\ ops'[lock] = ops[lock]
      BY <3>1, <3>2 DEF Locks, OpMoves
    <3>4. lock \in Tasks => task'[lock] = task[lock]
      BY <3>1 DEF Locks, OpOpens, Opened, Opens, Joins, Created
    <3>. QED
      BY <1>3, <3>1, <3>3, <3>4
  <2>4. CASE Cancel(o) \/ Status(o)
    <3>1. UNCHANGED <<task, lock>>
      BY <2>4 DEF Cancel, Status
    <3>2. \A p \in Ops : ops'[p].at = ops[p].at
      <4>1. CASE ops' = [ops EXCEPT ![o].cancel = TRUE]
        BY <1>1, <4>1 DEF OpRecords
      <4>2. CASE ops' = [ops EXCEPT ![o].row = "interrupted"]
        BY <1>1, <4>2 DEF OpRecords
      <4>. QED
        BY <2>4, <4>1, <4>2 DEF Cancel, Status
    <3>. QED
      BY <1>3, <3>1, <3>2
  <2>5. CASE Interrupt(o)
    <3>1. \A p \in Ops : ops'[p].at = ops[p].at
      BY <1>1, <2>5 DEF Interrupt, OpRecords
    <3>2. \A t \in Tasks : task'[t].at = task[t].at
      <4>. TAKE t \in Tasks
      <4>1. PICK item : task'[t] = [task[t] EXCEPT !.item = item]
        BY <2>5 DEF Interrupt
      <4>. QED
        BY <1>1, <4>1 DEF TaskRecords
    <3>. QED
      BY <1>3, <2>5, <3>1, <3>2 DEF Interrupt
  <2>. QED
    BY <1>4, <2>1, <2>2, <2>3, <2>4, <2>5 DEF Start, Request
<1>5. ASSUME NEW t \in Tasks, Alone(t), task[t].at # "validate", UNCHANGED lock,
             \A o \in Ops : ops'[o].at = ops[o].at
      PROVE  Locks'
  BY <1>3, <1>5 DEF Alone, Locks
<1>6. ASSUME NEW t \in Tasks,
             \/ Execute(t) \/ WorkerStart(t) \/ WorkerBlocks(t) \/ WorkerPublishes(t)
             \/ WorkerEnds(t) \/ NativeRemove(t)
      PROVE  Locks'
  <2>1. CASE SubmitEnd(t)
    BY <1>2, <2>1 DEF SubmitEnd
  <2>2. CASE SubmitBegin(t)
    <3>1. CASE lock' = t /\ task' = [task EXCEPT ![t].at = "validate"]
      BY <1>1, <3>1, Constants DEF Locks, TaskRecords
    <3>2. CASE UNCHANGED lock
      BY <1>2, <2>2, <3>2 DEF SubmitBegin
    <3>. QED
      BY <2>2, <3>1, <3>2 DEF SubmitBegin
  <2>3. CASE \/ PollSuccess(t) \/ PollFailure(t) \/ PollWaiting(t)
             \/ WorkerStart(t) \/ WorkerEnds(t) \/ NativeRemove(t)
    <3>1. Alone(t) /\ task[t].at # "validate" /\ UNCHANGED lock
      BY <2>3, PlainKeeps
      DEF PollSuccess, PollFailure, PollWaiting, WorkerStart, WorkerEnds, NativeRemove,
          OnWorker, IInv, TaskState
    <3>2. \A o \in Ops : ops'[o].at = ops[o].at
      <4>1. UNCHANGED ops \/ \E x, g : ops' = [ops EXCEPT ![x].generated = g]
        BY <2>3
        DEF PollSuccess, PollFailure, PollWaiting, WorkerStart, WorkerEnds, NativeRemove
      <4>. QED
        BY <1>1, <4>1 DEF OpRecords
    <3>. QED
      BY <1>5, <3>1, <3>2
  <2>4. CASE Compile(t)
    BY <1>5, <2>4, CompileRuns DEF Compile
  <2>5. CASE WorkerBlocks(t) \/ WorkerPublishes(t)
    BY <1>5, <2>5, WorkerRuns DEF WorkerBlocks, WorkerPublishes, OnWorker, IInv, TaskState
  <2>6. CASE Depends(t)
    <3>1. lock' = lock /\ task[t].at # "validate"
      BY <2>6 DEF Depends, DependSnapshot, Depend, DependResume
    <3>2. \A o \in Ops : ops'[o].at = ops[o].at
      <4>1. UNCHANGED ops \/ \E x, g : ops' = [ops EXCEPT ![x].generated = g]
        BY <2>6 DEF Depends, DependSnapshot, Depend, DependResume
      <4>. QED
        BY <1>1, <4>1 DEF OpRecords
    <3>3. ASSUME lock \in Tasks PROVE task'[lock] = task[lock]
      <4>1. lock # t /\ Created(lock)
        BY <3>1, <3>3 DEF Locks, Created
      <4>2. \/ \E owned, m, base, shown, root, sources :
                  Opened(t, owned, m, base, shown, root, sources)
            \/ Alone(t)
        BY <2>6, DependOpens
      <4>3. CASE Alone(t)
        BY <3>3, <4>1, <4>3 DEF Alone
      <4>. QED
        BY <3>3, <4>1, <4>2, <4>3 DEF Opened, Opens, Joins
    <3>. QED
      BY <1>3, <3>1, <3>2, <3>3
  <2>. QED
    BY <1>6, <2>1, <2>2, <2>3, <2>4, <2>5, <2>6 DEF Execute, Depends
<1>7. CASE UNCHANGED vars \/ Edit \/ \E m \in Mats : Pick(m)
  BY <1>3, <1>7 DEF vars, Edit, Pick
<1>8. CASE Restart
  BY <1>2, <1>8 DEF Restart
<1>. QED
  BY <1>4, <1>6, <1>7, <1>8 DEF Next, LoopStep, WorkerStep

\* u is registered now, or nobody.
Listed(u) == u = NoTask \/ \E m \in Mats : u = materials[m]

\* What an operation, a task and a wait can count on after a step was there before it.
PendingFrom(o) ==
  Active(o)' =>
    \/ \A d \in Mats : Listed(ops'[o].pending[d])
    \/ Active(o) /\ ops'[o].pending = ops[o].pending

SourcesFrom(t) ==
  Live(t)' =>
    \/ task'[t].sources = NoSources
    \/ \E o \in Ops : Active(o) /\ task'[t].sources = ops[o].pending
    \/ /\ Live(t)
       /\ \A d \in Mats : \/ Listed(task'[t].sources[d])
                          \/ task'[t].sources[d] = task[t].sources[d]

WaitFrom(t) ==
  \/ frame'[t] = frame[t]
  \/ frame'[t].how # "wait"
  \/ Listed(frame'[t].on)
  \/ Live(t) /\ \E d \in Mats : frame'[t].on = task[t].sources[d]

\* u, if it is a task, is dead after the step.
Dies(u) == u # NoTask /\ task'[u].at = "lost"

LEMMA ListedLives ==
  ASSUME IInv, \A t \in Tasks : Survives(t), NEW u, Listed(u)
  PROVE  ~Dies(u)
<1>1. CASE u = NoTask
  BY <1>1 DEF Dies
<1>2. CASE u # NoTask
  <2>1. PICK m \in Mats : u = materials[m]
    BY <1>2 DEF Listed
  <2>2. u \in Tasks /\ task[u].at \notin {"free", "lost"}
    BY <1>2, <2>1 DEF IInv, TypeOK, Registry, SomeTask, Tasks, NoTask
  <2>. QED
    BY <2>2 DEF Survives, Created, Died, Dies
<1>. QED
  BY <1>1, <1>2

LEMMA RecentLives ==
  ASSUME \A t \in Tasks : Survives(t), NEW o, NEW u, NEW d, Recent(o, u, d), ~Died(u)
  PROVE  ~Dies(u)
BY DEF Recent, Survives, Created, Died, Dies

\* In the life of a process nobody dies.
LEMMA NoneDies ==
  ASSUME IInv, IInv', RInv, NoneDied, \A t \in Tasks : Survives(t),
         \A o \in Ops : PendingFrom(o), \A t \in Tasks : SourcesFrom(t) /\ WaitFrom(t)
  PROVE  NoneDied'
<1>1. ASSUME NEW o \in Ops, Active(o), NEW d \in Mats
      PROVE  ~Dies(ops[o].pending[d])
  <2>1. Recent(o, ops[o].pending[d], d)
    BY <1>1 DEF RInv, OperationReads, Begun, Active
  <2>. QED
    BY <1>1, <2>1, RecentLives DEF NoneDied
<1>2. ASSUME NEW t \in Tasks, Live(t), NEW d \in Mats
      PROVE  ~Dies(task[t].sources[d])
  <2>1. Recent(task[t].root, task[t].sources[d], d)
    BY <1>2 DEF RInv, TaskReads, Live
  <2>. QED
    BY <1>2, <2>1, RecentLives DEF NoneDied
<1>3. ASSUME NEW o \in Ops, Active(o)', NEW d \in Mats
      PROVE  ~Dies(ops'[o].pending[d])
  <2>1. CASE Listed(ops'[o].pending[d])
    BY <2>1, ListedLives
  <2>2. CASE Active(o) /\ ops'[o].pending = ops[o].pending
    BY <1>1, <2>2
  <2>. QED
    BY <1>3, <2>1, <2>2 DEF PendingFrom
<1>4. ASSUME NEW t \in Tasks, Live(t)', NEW d \in Mats
      PROVE  ~Dies(task'[t].sources[d])
  <2>1. CASE task'[t].sources = NoSources
    BY <2>1 DEF NoSources, Dies
  <2>2. CASE \E o \in Ops : Active(o) /\ task'[t].sources = ops[o].pending
    BY <1>1, <2>2
  <2>3. CASE Listed(task'[t].sources[d])
    BY <2>3, ListedLives
  <2>4. CASE Live(t) /\ task'[t].sources[d] = task[t].sources[d]
    BY <1>2, <2>4
  <2>. QED
    BY <1>4, <2>1, <2>2, <2>3, <2>4 DEF SourcesFrom
<1>5. ASSUME NEW t \in Tasks, Awaits(t)'
      PROVE  ~Dies(frame'[t].on)
  <2>1. CASE frame'[t] = frame[t]
    <3>1. Awaits(t)
      BY <1>5, <2>1 DEF Awaits
    <3>2. Recent(task[t].root, frame[t].on, task[t].dependency) /\ ~Died(frame[t].on)
      BY <3>1 DEF RInv, TaskReads, NoneDied
    <3>. QED
      BY <2>1, <3>2, RecentLives
  <2>2. CASE frame'[t].how # "wait"
    BY <1>5, <2>2 DEF IInv, Calls, Callers, Dies
  <2>3. CASE Listed(frame'[t].on)
    BY <2>3, ListedLives
  <2>4. CASE Live(t) /\ \E d \in Mats : frame'[t].on = task[t].sources[d]
    BY <1>2, <2>4
  <2>. QED
    BY <2>1, <2>2, <2>3, <2>4 DEF WaitFrom
<1>. QED
  BY <1>3, <1>4, <1>5 DEF NoneDied, Died, Dies

LEMMA SameFrom ==
  ASSUME NEW t \in Tasks, task'[t] = task[t], frame'[t] = frame[t]
  PROVE  SourcesFrom(t) /\ WaitFrom(t)
BY DEF SourcesFrom, WaitFrom, Live

LEMMA RunningListed ==
  ASSUME NEW m \in Mats, NEW rev
  PROVE  Listed(Running(m, rev))
BY DEF Listed, Running

LEMMA OpenedFrom ==
  ASSUME IInv, NEW c \in Callers, NEW owned, NEW m, NEW base, NEW shown, NEW root, NEW sources,
         Opened(c, owned, m, base, shown, root, sources),
         sources = NoSources \/ \E o \in Ops : Active(o) /\ sources = ops[o].pending
  PROVE  \A t \in Tasks : SourcesFrom(t) /\ WaitFrom(t)
<1>. TAKE t \in Tasks
<1>1. WaitFrom(t)
  BY DEF Opened, Opens, Joins, WaitFrom, Callers
<1>2. CASE task'[t] = task[t]
  BY <1>1, <1>2 DEF SourcesFrom, Live
<1>3. CASE task'[t] # task[t]
  <2>1. task'[t].sources = sources
    BY <1>3 DEF Opened, Opens, Joins
  <2>. QED
    BY <1>1, <2>1 DEF SourcesFrom
<1>. QED
  BY <1>2, <1>3

LEMMA AloneFrom ==
  ASSUME NEW t \in Tasks, Alone(t), SourcesFrom(t) /\ WaitFrom(t),
         \A u \in Tasks \ {t} : frame'[u] = frame[u]
  PROVE  \A u \in Tasks : SourcesFrom(u) /\ WaitFrom(u)
BY SameFrom DEF Alone

\* Operations of which a step changes neither the place nor the pending sources.
LEMMA StillFrom ==
  ASSUME \A o \in Ops : ops'[o].at = ops[o].at /\ ops'[o].pending = ops[o].pending
  PROVE  \A o \in Ops : PendingFrom(o)
BY DEF PendingFrom, Active

LEMMA GeneratedFrom ==
  ASSUME TypeOK, UNCHANGED ops \/ \E o, g : ops' = [ops EXCEPT ![o].generated = g]
  PROVE  \A o \in Ops : PendingFrom(o)
<1>1. ops \in [Ops -> OpRecords]
  BY DEF TypeOK
<1>2. \A o \in Ops : ops'[o].at = ops[o].at /\ ops'[o].pending = ops[o].pending
  BY <1>1 DEF OpRecords
<1>. QED
  BY <1>2, StillFrom

LEMMA OperationFrom ==
  ASSUME IInv, NEW o \in Ops, Start(o) \/ OpStep(o) \/ Request(o)
  PROVE  /\ \A p \in Ops : PendingFrom(p)
         /\ \A t \in Tasks : SourcesFrom(t) /\ WaitFrom(t)
<1>1. ops \in [Ops -> OpRecords] /\ task \in [Tasks -> TaskRecords] /\ TypeOK
  BY DEF IInv, TypeOK
<1>2. CASE StartSnapshot(o) \/ StartShared(o)
  <2>1. \A t \in Tasks : SourcesFrom(t) /\ WaitFrom(t)
    BY <1>2, SameFrom DEF StartSnapshot, StartShared
  <2>2. \A p \in Ops \ {o} : ops'[p] = ops[p]
    BY <1>1, <1>2 DEF StartSnapshot, StartShared
  <2>3. ops'[o].at \in {"snapshot", "done"}
    BY <1>1, <1>2 DEF StartSnapshot, StartShared, NewOp, OpRecords
  <2>. QED
    BY <2>1, <2>2, <2>3 DEF PendingFrom, Active
<1>3. CASE StartQueued(o)
  <2>1. \A t \in Tasks : SourcesFrom(t) /\ WaitFrom(t)
    BY <1>3, SameFrom DEF StartQueued
  <2>2. \A p \in Ops \ {o} : ops'[p] = ops[p]
    BY <1>1, <1>3 DEF StartQueued
  <2>3. ops'[o].pending = [m \in Mats |-> Running(m, ops[o].rev)]
    <3>. DEFINE pending == [m \in Mats |-> Running(m, ops[o].rev)]
    <3>1. PICK old : ops' = [ops EXCEPT ![o].at = "queued", ![o].row = "queued",
                               ![o].pending = pending, ![o].old = old]
      BY <1>3 DEF StartQueued
    <3>. HIDE DEF pending
    <3>2. ops'[o].pending = pending
      BY <1>1, <3>1 DEF OpRecords
    <3>. QED
      BY <3>2 DEF pending
  <2>. QED
    BY <2>1, <2>2, <2>3, RunningListed DEF PendingFrom, Active
<1>4. CASE OpStep(o)
  <2>1. OpMoves(o) /\ OpOpens(o) /\ Active(o)
    BY <1>4, OpStepOpens DEF OpStep, OpBegin, OpResume, Active
  <2>2. \A p \in Ops : PendingFrom(p)
    BY <2>1 DEF OpMoves, PendingFrom, Active
  <2>3. CASE \E owned, m, base, shown : Opened(o, owned, m, base, shown, o, ops[o].pending)
    BY <2>1, <2>2, <2>3, OpenedFrom DEF Callers
  <2>4. CASE UNCHANGED task /\ \A d \in Callers \ {o} : frame'[d] = frame[d]
    BY <2>2, <2>4, SameFrom, Constants DEF Callers
  <2>. QED
    BY <2>1, <2>3, <2>4 DEF OpOpens
<1>5. CASE Cancel(o) \/ Status(o)
  <2>1. \A t \in Tasks : SourcesFrom(t) /\ WaitFrom(t)
    BY <1>5, SameFrom DEF Cancel, Status
  <2>2. \A p \in Ops : ops'[p].at = ops[p].at /\ ops'[p].pending = ops[p].pending
    <3>1. CASE ops' = [ops EXCEPT ![o].cancel = TRUE]
      BY <1>1, <3>1 DEF OpRecords
    <3>2. CASE ops' = [ops EXCEPT ![o].row = "interrupted"]
      BY <1>1, <3>2 DEF OpRecords
    <3>. QED
      BY <1>5, <3>1, <3>2 DEF Cancel, Status
  <2>. QED
    BY <2>1, <2>2, StillFrom
<1>6. CASE Interrupt(o)
  <2>1. \A p \in Ops : ops'[p].at = ops[p].at /\ ops'[p].pending = ops[p].pending
    BY <1>1, <1>6 DEF Interrupt, OpRecords
  <2>2. ASSUME NEW t \in Tasks PROVE SourcesFrom(t) /\ WaitFrom(t)
    <3>1. PICK item : task'[t] = [task[t] EXCEPT !.item = item]
      BY <1>6 DEF Interrupt
    <3>2. task'[t].at = task[t].at /\ task'[t].sources = task[t].sources
      BY <1>1, <3>1 DEF TaskRecords
    <3>. QED
      BY <1>6, <3>2 DEF Interrupt, SourcesFrom, WaitFrom, Live
  <2>. QED
    BY <2>1, <2>2, StillFrom
<1>. QED
  BY <1>2, <1>3, <1>4, <1>5, <1>6 DEF Start, Request

LEMMA ExecutionFrom ==
  ASSUME IInv, NEW t \in Tasks,
         \/ Execute(t) \/ WorkerStart(t) \/ WorkerBlocks(t) \/ WorkerPublishes(t)
         \/ WorkerEnds(t) \/ NativeRemove(t)
  PROVE  /\ \A o \in Ops : PendingFrom(o)
         /\ \A u \in Tasks : SourcesFrom(u) /\ WaitFrom(u)
<1>1. /\ TypeOK /\ t \in Callers /\ frame \in [Callers -> Frames]
      /\ task \in [Tasks -> TaskRecords] /\ task[t] \in TaskRecords
  BY DEF IInv, TypeOK, Callers
<1>2. \A o \in Ops : PendingFrom(o)
  <2>1. UNCHANGED ops \/ \E o, g : ops' = [ops EXCEPT ![o].generated = g]
    BY DEF Execute, Compile, SubmitBegin, SubmitEnd, PollSuccess, PollFailure, PollWaiting,
           DependSnapshot, Depend, DependResume, WorkerStart, WorkerBlocks, WorkerPublishes,
           WorkerEnds, NativeRemove
  <2>. QED
    BY <1>1, <2>1, GeneratedFrom
<1>3. CASE Compile(t)
  <2>1. Alone(t) /\ \A d \in Mats : task'[t].sources[d] \in {task[t].sources[d], Running(d, task[t].rev)}
    BY <1>3, CompileRuns
  <2>2. SourcesFrom(t)
    BY <1>3, <2>1, RunningListed DEF SourcesFrom, Compile, Live
  <2>. QED
    BY <1>2, <1>3, <2>1, <2>2, AloneFrom DEF Compile, WaitFrom
<1>4. CASE WorkerBlocks(t) \/ WorkerPublishes(t)
  <2>1. Alone(t) /\ task'[t].sources = task[t].sources /\ Live(t)
    BY <1>4, WorkerRuns DEF WorkerBlocks, WorkerPublishes, OnWorker, IInv, TaskState, Live
  <2>. QED
    BY <1>2, <1>4, <2>1, AloneFrom DEF SourcesFrom, WaitFrom, WorkerBlocks, WorkerPublishes
<1>5. CASE \/ SubmitBegin(t) \/ SubmitEnd(t) \/ PollSuccess(t) \/ PollFailure(t)
           \/ PollWaiting(t) \/ WorkerStart(t) \/ WorkerEnds(t) \/ NativeRemove(t)
  <2>1. Alone(t) /\ task'[t].sources = task[t].sources
    BY <1>5, PlainKeeps DEF Keeps
  <2>2. Live(t)
    BY <1>5 DEF SubmitBegin, SubmitEnd, PollSuccess, PollFailure, PollWaiting, WorkerStart,
           WorkerEnds, NativeRemove, OnWorker, IInv, TaskState, Live
  <2>3. SourcesFrom(t)
    BY <2>1, <2>2 DEF SourcesFrom
  <2>4. CASE UNCHANGED frame
    BY <1>2, <2>1, <2>3, <2>4, AloneFrom DEF WaitFrom
  <2>5. CASE PollWaiting(t) /\ ~UNCHANGED frame
    <3>. DEFINE d == task[t].dependency
                p == IF task[t].sources[d] # NoTask THEN task[t].sources[d]
                     ELSE Running(d, task[t].rev)
    <3>1. d \in Mats /\ frame' = [frame EXCEPT ![t] = [NoFrame EXCEPT !.on = p, !.how = "wait"]]
      BY <2>5 DEF PollWaiting, IInv, TaskState, Depending
    <3>2. Listed(p) \/ p = task[t].sources[d]
      BY <3>1, RunningListed
    <3>. HIDE DEF p
    <3>3. frame'[t].on = p /\ \A u \in Tasks \ {t} : frame'[u] = frame[u]
      BY <1>1, <3>1 DEF NoFrame, Callers
    <3>4. WaitFrom(t)
      BY <2>2, <3>1, <3>2, <3>3 DEF WaitFrom
    <3>. QED
      BY <1>2, <2>1, <2>3, <3>3, <3>4, AloneFrom
  <2>. QED
    BY <1>5, <2>4, <2>5
    DEF SubmitBegin, SubmitEnd, PollSuccess, PollFailure, WorkerStart, WorkerEnds, NativeRemove
<1>6. CASE Depends(t)
  <2>1. CASE \E owned, m, base, shown : Opened(t, owned, m, base, shown, task[t].root, NoSources)
    BY <1>1, <1>2, <2>1, OpenedFrom
  <2>2. CASE /\ Alone(t) /\ \A c \in Callers \ {t} : frame'[c] = frame[c]
             /\ frame'[t].how = "none" /\ task'[t].sources = task[t].sources
    <3>1. Live(t)
      BY <1>6 DEF Depends, DependSnapshot, Depend, DependResume, Live
    <3>2. SourcesFrom(t) /\ WaitFrom(t)
      BY <2>2, <3>1 DEF SourcesFrom, WaitFrom
    <3>3. \A u \in Tasks \ {t} : frame'[u] = frame[u]
      BY <1>1, <2>2 DEF Callers
    <3>. QED
      BY <1>2, <2>2, <3>2, <3>3, AloneFrom
  <2>. QED
    BY <1>6, <2>1, <2>2, DependOpens
<1>. QED
  BY <1>3, <1>4, <1>5, <1>6 DEF Execute, Depends

LEMMA WaitsStep ==
  ASSUME IInv, IInv', RInv, WInv, [Next]_vars
  PROVE  WInv'
<1>1. (\A t \in Tasks : Fits(t)') /\ Locks'
  BY FitsStep, LocksStep DEF WInv
<1>2. CASE Restart
  <2>1. ASSUME NEW o \in Ops PROVE ~Active(o)'
    <3>1. ops[o] \in OpRecords
      BY DEF IInv, TypeOK
    <3>2. CASE Active(o)
      <4>1. ops'[o] = [ops[o] EXCEPT !.at = "lost"]
        BY <1>2, <3>2 DEF Restart
      <4>. QED
        BY <3>1, <4>1 DEF Active, OpRecords
    <3>3. CASE ~Active(o)
      BY <1>2, <3>3 DEF Restart, Active, NewOp
    <3>. QED
      BY <3>2, <3>3
  <2>2. ASSUME NEW t \in Tasks PROVE ~Live(t)' /\ ~Awaits(t)'
    <3>1. task[t] \in TaskRecords
      BY DEF IInv, TypeOK
    <3>2. CASE Live(t)
      <4>1. task'[t] = [task[t] EXCEPT !.at = "lost", !.item = "none"]
        BY <1>2, <3>2 DEF Restart
      <4>2. task'[t].at = "lost"
        BY <3>1, <4>1 DEF TaskRecords
      <4>. QED
        BY <1>2, <4>2 DEF Restart, NoFrame, Live, Awaits
    <3>3. CASE ~Live(t)
      BY <1>2, <3>3 DEF Restart, NoFrame, Live, Awaits
    <3>. QED
      BY <3>2, <3>3
  <2>. QED
    BY <1>1, <2>1, <2>2 DEF WInv, NoneDied
<1>3. CASE ~Restart
  <2>1. \A t \in Tasks : Survives(t)
    BY <1>3, FitsStep DEF WInv
  <2>2. CASE UNCHANGED <<ops, task, frame>>
    <3>1. (\A o \in Ops : PendingFrom(o)) /\ \A t \in Tasks : SourcesFrom(t) /\ WaitFrom(t)
      BY <2>2, StillFrom, SameFrom
    <3>. QED
      BY <1>1, <2>1, <3>1, NoneDies DEF WInv
  <2>3. ASSUME NEW o \in Ops, Start(o) \/ OpStep(o) \/ Request(o) PROVE NoneDied'
    BY <2>1, <2>3, OperationFrom, NoneDies DEF WInv
  <2>4. ASSUME NEW t \in Tasks,
               \/ Execute(t) \/ WorkerStart(t) \/ WorkerBlocks(t) \/ WorkerPublishes(t)
               \/ WorkerEnds(t) \/ NativeRemove(t)
        PROVE  NoneDied'
    BY <2>1, <2>4, ExecutionFrom, NoneDies DEF WInv
  <2>5. CASE UNCHANGED vars \/ Edit \/ \E m \in Mats : Pick(m)
    BY <2>2, <2>5 DEF vars, Edit, Pick
  <2>. QED
    BY <1>1, <1>3, <2>3, <2>4, <2>5 DEF WInv, Next, LoopStep, WorkerStep
<1>. QED
  BY <1>2, <1>3

LEMMA WaitsInvariant == Spec => [](IInv /\ RInv /\ WInv)
<1>1. ASSUME Init PROVE WInv
  <2>1. \A o \in Ops : ~Active(o)
    BY <1>1 DEF Init, NewOp, Active
  <2>2. \A t \in Tasks : task[t] = FreeTask /\ ~Awaits(t)
    BY <1>1 DEF Init, NoFrame, Awaits
  <2>3. \A t \in Tasks : Fits(t) /\ ~Live(t)
    BY <2>2 DEF Fits, Depending, OnWorker, Live, FreeTask
  <2>4. Locks
    BY <1>1, Constants DEF Init, Locks
  <2>. QED
    BY <2>1, <2>2, <2>3, <2>4 DEF WInv, NoneDied
<1>2. IInv /\ RInv /\ WInv /\ [Next]_vars => WInv'
  BY WaitsStep, StepInvariant
<1>. QED
  BY <1>1, <1>2, ReadsInvariant, PTL DEF Spec

\* The materials can be numbered so that the prompt of each, in all revisions of the
\* canvas, reads only materials with smaller numbers.
Layered ==
  \E rank \in [Mats -> Nat] :
    \A r \in Revisions : \A p \in Needs[r] : rank[p[2]] < rank[p[1]]

\* Who awaits a task asks for what its prompt reads.
LEMMA AwaitsBelow ==
  ASSUME IInv, RInv, WInv, NEW rank \in [Mats -> Nat],
         \A r \in Revisions : \A p \in Needs[r] : rank[p[2]] < rank[p[1]],
         NEW t \in Tasks, Awaits(t)
  PROVE  /\ frame[t].on \in Tasks /\ task[t].target \in Mats
         /\ task[frame[t].on].target \in Mats
         /\ rank[task[frame[t].on].target] < rank[task[t].target]
         /\ task[frame[t].on].at \notin {"free", "lost"}
<1>1. task[t].at = "depend" /\ frame[t].on \in Tasks /\ task[t].rev \in Revisions
  BY DEF IInv, Calls, Callers, TypeOK, TaskRecords
<1>2. task[t].dependency \in ReadBy(t) /\ task[t].target \in Mats
  BY <1>1 DEF WInv, Fits, IInv, TaskState, Depending
<1>3. task[frame[t].on].target = task[t].dependency /\ task[frame[t].on].at \notin {"free", "lost"}
  BY <1>1, Constants DEF RInv, TaskReads, Recent, WInv, NoneDied, Died
<1>4. <<task[t].target, task[t].dependency>> \in Needs[task[t].rev]
  BY <1>2 DEF ReadBy
<1>5. rank[task[t].dependency] < rank[task[t].target]
  BY <1>1, <1>4
<1>. QED
  BY <1>1, <1>2, <1>3, <1>5 DEF ReadBy

\* f is what "more" makes of A step by step.
Iterated(f, A, more, N) == f[0] = A /\ \A i \in 1..N : f[i] = more[f[i - 1]]

LEMMA Iterates ==
  ASSUME NEW A \in SUBSET Tasks, NEW more \in [SUBSET Tasks -> SUBSET Tasks], NEW N \in Nat
  PROVE  \E f \in [0..N -> SUBSET Tasks] : Iterated(f, A, more, N)
<1>. DEFINE Upto(n) == \E f \in [0..n -> SUBSET Tasks] : Iterated(f, A, more, n)
            S == {n \in Nat : ~Upto(n)}
<1>1. Upto(0)
  <2>. DEFINE f == [i \in 0..0 |-> A]
  <2>1. f \in [0..0 -> SUBSET Tasks] /\ f[0] = A
    OBVIOUS
  <2>2. 1..0 = {}
    OBVIOUS
  <2>. HIDE DEF f
  <2>3. Iterated(f, A, more, 0)
    BY <2>1, <2>2 DEF Iterated
  <2>. QED
    BY <2>1, <2>3
<1>2. ASSUME NEW n \in Nat, Upto(n) PROVE Upto(n + 1)
  <2>1. PICK f \in [0..n -> SUBSET Tasks] : f[0] = A /\ \A i \in 1..n : f[i] = more[f[i - 1]]
    BY <1>2 DEF Iterated
  <2>. DEFINE g == [i \in 0..(n + 1) |-> IF i = n + 1 THEN more[f[n]] ELSE f[i]]
  <2>2. g \in [0..(n + 1) -> SUBSET Tasks]
    BY <2>1
  <2>3. g[0] = A
    BY <2>1
  <2>4. ASSUME NEW i \in 1..(n + 1) PROVE g[i] = more[g[i - 1]]
    <3>1. i - 1 \in 0..(n + 1) /\ i - 1 # n + 1 /\ g[i - 1] = f[i - 1]
      OBVIOUS
    <3>2. CASE i = n + 1
      BY <3>1, <3>2
    <3>3. CASE i # n + 1
      <4>1. i \in 1..n /\ g[i] = f[i]
        BY <3>3
      <4>. QED
        BY <2>1, <3>1, <4>1
    <3>. QED
      BY <3>2, <3>3
  <2>. HIDE DEF g
  <2>5. Iterated(g, A, more, n + 1)
    BY <2>3, <2>4 DEF Iterated
  <2>. QED
    BY <2>2, <2>5
<1>. HIDE DEF Upto
<1>3. S = {}
  <2>. SUFFICES ASSUME S # {} PROVE FALSE
    OBVIOUS
  <2>1. PICK s \in S : \A r \in S : ~(r < s)
    BY Smallest
  <2>2. s \in Nat /\ s # 0 /\ ~Upto(s)
    BY <1>1
  <2>3. s - 1 \in Nat /\ s - 1 < s
    BY <2>2
  <2>4. Upto(s - 1)
    BY <2>1, <2>3
  <2>5. s = (s - 1) + 1
    BY <2>2
  <2>. QED
    BY <1>2, <2>2, <2>3, <2>4, <2>5
<1>. QED
  BY <1>3 DEF Upto

\* Whom a task awaits in up to n + 1 steps.
Reach(t) ==
  CHOOSE f : f = [n \in 0..MaxTasks |->
                    IF n = 0 THEN Awaited(t)
                    ELSE f[n - 1] \union UNION {Awaited(u) : u \in f[n - 1]}]

LEMMA ReachIs ==
  ASSUME NEW t \in Tasks, NEW n \in 0..MaxTasks
  PROVE  Reach(t)[n] = IF n = 0 THEN Awaited(t)
                       ELSE Reach(t)[n - 1] \union UNION {Awaited(u) : u \in Reach(t)[n - 1]}
<1>. DEFINE Links(f) == [i \in 0..MaxTasks |->
                          IF i = 0 THEN Awaited(t)
                          ELSE f[i - 1] \union UNION {Awaited(u) : u \in f[i - 1]}]
            more == [S \in SUBSET Tasks |-> S \union UNION {Awaited(u) : u \in S}]
<1>1. MaxTasks \in Nat
  BY TasksAssumption
<1>2. Awaited(t) \in SUBSET Tasks /\ more \in [SUBSET Tasks -> SUBSET Tasks]
  BY DEF Awaited
<1>3. \E f : f = Links(f)
  <2>. HIDE DEF more
  <2>0. PICK f \in [0..MaxTasks -> SUBSET Tasks] : Iterated(f, Awaited(t), more, MaxTasks)
    BY <1>1, <1>2, Iterates
  <2>1. f[0] = Awaited(t) /\ \A i \in 1..MaxTasks : f[i] = more[f[i - 1]]
    BY <2>0 DEF Iterated
  <2>2. ASSUME NEW i \in 0..MaxTasks
        PROVE  f[i] = IF i = 0 THEN Awaited(t)
                      ELSE f[i - 1] \union UNION {Awaited(u) : u \in f[i - 1]}
    <3>1. CASE i = 0
      BY <2>1, <3>1
    <3>2. CASE i # 0
      <4>1. i \in 1..MaxTasks /\ i - 1 \in 0..MaxTasks
        BY <1>1, <3>2
      <4>2. f[i] = more[f[i - 1]] /\ f[i - 1] \in SUBSET Tasks
        BY <2>1, <4>1
      <4>. QED
        BY <3>2, <4>2 DEF more
    <3>. QED
      BY <3>1, <3>2
  <2>3. f = [i \in 0..MaxTasks |-> f[i]]
    BY <2>1
  <2>4. f = Links(f)
    BY <2>2, <2>3
  <2>. QED
    BY ONLY <2>4
<1>4. Reach(t) = Links(Reach(t))
  BY <1>3 DEF Reach
<1>. DEFINE r == Reach(t)
<1>5. r = Links(r)
  BY <1>4
<1>. HIDE DEF r
<1>6. r[n] = IF n = 0 THEN Awaited(t)
             ELSE r[n - 1] \union UNION {Awaited(u) : u \in r[n - 1]}
  BY <1>5
<1>. QED
  BY <1>6 DEF r

\* If the materials are layered, tasks never await each other in a circle, whatever
\* the operations, their revisions and the order of events: a task and the one it
\* awaits, found through its pending sources, through the registry of another
\* revision or after an adoption, always generate materials of falling rank.
THEOREM LayersAvoidCircles == Layered => (Spec => []NoCircle)
<1>. SUFFICES ASSUME Layered PROVE Spec => []NoCircle
  OBVIOUS
<1>1. ASSUME IInv, RInv, WInv PROVE NoCircle
  <2>. PICK rank \in [Mats -> Nat] :
         \A r \in Revisions : \A p \in Needs[r] : rank[p[2]] < rank[p[1]]
    BY DEF Layered
  <2>. DEFINE Below(t, S) ==
                \A u \in S : /\ u \in Tasks /\ task[u].target \in Mats /\ task[t].target \in Mats
                             /\ rank[task[u].target] < rank[task[t].target]
  <2>1. ASSUME NEW t \in Tasks
        PROVE  Below(t, Awaited(t))
    BY <1>1, AwaitsBelow DEF Awaited
  <2>2. ASSUME NEW t \in Tasks, NEW S, Below(t, S)
        PROVE  Below(t, S \union UNION {Awaited(u) : u \in S})
    <3>1. ASSUME NEW u \in S, NEW v \in Awaited(u)
          PROVE  /\ v \in Tasks /\ task[v].target \in Mats /\ task[t].target \in Mats
                 /\ rank[task[v].target] < rank[task[t].target]
      <4>1. /\ rank[task[u].target] < rank[task[t].target]
            /\ u \in Tasks /\ task[u].target \in Mats /\ task[t].target \in Mats
        BY <2>2
      <4>2. v \in Tasks /\ task[v].target \in Mats
            /\ rank[task[v].target] < rank[task[u].target]
        BY <2>1, <4>1
      <4>3. /\ rank[task[u].target] \in Nat /\ rank[task[v].target] \in Nat
            /\ rank[task[t].target] \in Nat
        BY <4>1, <4>2
      <4>. QED
        BY <4>1, <4>2, <4>3
    <3>. QED
      BY <2>2, <3>1
  <2>3. ASSUME NEW t \in Tasks PROVE t \notin Reach(t)[MaxTasks]
    <3>. DEFINE Good(n) == Below(t, Reach(t)[n])
                S == {n \in 0..MaxTasks : ~Good(n)}
    <3>1. MaxTasks \in Nat /\ 0 \in 0..MaxTasks /\ MaxTasks \in 0..MaxTasks
      BY TasksAssumption
    <3>2. Good(0)
      <4>1. Reach(t)[0] = Awaited(t)
        BY <3>1, ReachIs
      <4>. QED
        BY <2>1, <4>1
    <3>3. ASSUME NEW n \in 1..MaxTasks, Good(n - 1) PROVE Good(n)
      <4>1. n \in 0..MaxTasks /\ n # 0
        BY <3>1
      <4>2. Reach(t)[n] = Reach(t)[n - 1] \union UNION {Awaited(u) : u \in Reach(t)[n - 1]}
        BY <4>1, ReachIs
      <4>. HIDE DEF Below
      <4>. QED
        BY <2>2, <3>3, <4>2
    <3>. HIDE DEF Good
    <3>4. S = {}
      <4>. SUFFICES ASSUME S # {} PROVE FALSE
        OBVIOUS
      <4>1. S \in SUBSET Nat
        OBVIOUS
      <4>2. PICK s \in S : \A r \in S : ~(r < s)
        BY <4>1, Smallest
      <4>3. s \in 1..MaxTasks /\ s - 1 \in 0..MaxTasks /\ s - 1 < s
        BY <3>1, <3>2, <4>2
      <4>. QED
        BY <3>3, <4>2, <4>3
    <3>5. Good(MaxTasks)
      BY <3>1, <3>4
    <3>6. Below(t, Reach(t)[MaxTasks])
      BY <3>5 DEF Good
    <3>7. task[t].target \in Mats => rank[task[t].target] \in Nat
      OBVIOUS
    <3>. QED
      BY <3>6, <3>7
  <2>. QED
    BY <2>3 DEF NoCircle, Reach
<1>. QED
  BY <1>1, WaitsInvariant, PTL

-----------------------------------------------------------------------------
(* Somebody goes on.                                                        *)

\* A caller or a task of the event loop whose next step depends on nobody: a thread
\* that returns, a lock that is free, an awaited task that has ended, a prompt whose
\* verdict the poll finds.
LoopGoesOn ==
  \/ \E o \in Ops : \/ ops[o].at \in {"snapshot", "queued"}
                    \/ ops[o].at = "run" /\ Ended(frame[o].on)
  \/ \E t \in Tasks :
       \/ task[t].at \in {"compile", "validate", "snapshot"}
       \/ task[t].at = "submit" /\ lock = Free
       \/ /\ task[t].at = "native"
          /\ \/ task[t].item = "removed"
             \/ /\ task[t].item = "over"
                /\ task[t].row \in {"waiting", "success", "failed", "interrupted"}
       \/ task[t].at = "depend" /\ (Awaits(t) => Ended(frame[t].on))

\* ComfyUI's worker executes a prompt, or can take one.
WorkerGoesOn ==
  \E t \in Tasks :
    \/ OnWorker(t)
    \/ task[t].item = "queued" /\ \A u \in Tasks : ~OnWorker(u)

NobodyStuck == (\E o \in Ops : Active(o)) => LoopGoesOn \/ WorkerGoesOn

\* If the materials are layered, there is no deadlock: as long as an operation is
\* active, somebody in the process or ComfyUI's worker has a step to take that waits
\* for nobody.  The running task whose material has the lowest rank, at the latest,
\* is such a one or waits for one.
THEOREM LayersGoOn == Layered => (Spec => []NobodyStuck)
<1>. SUFFICES ASSUME Layered PROVE Spec => []NobodyStuck
  OBVIOUS
<1>1. ASSUME IInv, RInv, WInv, NEW o \in Ops, Active(o), ~LoopGoesOn, ~WorkerGoesOn
      PROVE  FALSE
  <2>. PICK rank \in [Mats -> Nat] :
         \A r \in Revisions : \A p \in Needs[r] : rank[p[2]] < rank[p[1]]
    BY DEF Layered
  <2>. DEFINE L == {rank[task[t].target] : t \in {u \in Tasks : Live(u)}}
  <2>1. \A t \in Tasks : Live(t) => task[t].target \in Mats
    BY <1>1 DEF IInv, TaskState, Live
  <2>2. L \in SUBSET Nat
    BY <2>1
  <2>3. L # {}
    <3>1. ops[o].at = "run" /\ ~Ended(frame[o].on)
      BY <1>1 DEF Active, LoopGoesOn
    <3>2. frame[o].on \in Tasks /\ task[frame[o].on].at \notin {"free", "lost"}
      BY <1>1, <3>1 DEF IInv, Calls, Earned, Present, Callers
    <3>. QED
      BY <3>1, <3>2 DEF Live, Ended
  <2>4. PICK t \in Tasks : Live(t) /\ \A r \in L : ~(r < rank[task[t].target])
    BY <2>2, <2>3, Smallest
  <2>5. task[t].at # "submit"
    <3>1. lock \in Ops \union Tasks \union {Free}
      BY <1>1 DEF IInv, TypeOK
    <3>. QED
      BY <1>1, <3>1 DEF WInv, Locks, LoopGoesOn
  <2>6. task[t].at # "native"
    <3>1. task[t].item \in Items
      BY <1>1 DEF IInv, TypeOK, TaskRecords
    <3>. QED
      BY <1>1, <3>1 DEF WInv, Fits, LoopGoesOn, WorkerGoesOn, OnWorker, Items
  <2>7. task[t].at # "depend"
    <3>. SUFFICES ASSUME task[t].at = "depend" PROVE FALSE
      OBVIOUS
    <3>1. Awaits(t) /\ ~Ended(frame[t].on)
      BY <1>1 DEF LoopGoesOn
    <3>2. /\ frame[t].on \in Tasks
          /\ rank[task[frame[t].on].target] < rank[task[t].target]
          /\ task[frame[t].on].at \notin {"free", "lost"}
      BY <1>1, <3>1, AwaitsBelow
    <3>3. Live(frame[t].on)
      BY <3>1, <3>2 DEF Live, Ended
    <3>. QED
      BY <2>4, <3>2, <3>3
  <2>8. task[t].at \notin {"compile", "validate", "snapshot"}
    BY <1>1 DEF LoopGoesOn
  <2>9. task[t].at \in TaskPlaces
    BY <1>1 DEF IInv, TypeOK, TaskRecords
  <2>. QED
    BY <2>4, <2>5, <2>6, <2>7, <2>8, <2>9 DEF Live, TaskPlaces
<1>2. IInv /\ RInv /\ WInv => NobodyStuck
  BY <1>1 DEF NobodyStuck
<1>. QED
  BY <1>2, WaitsInvariant, PTL
=============================================================================
