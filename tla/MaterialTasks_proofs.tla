------------------------ MODULE MaterialTasks_proofs -------------------------
(***************************************************************************)
(* For any operations, materials, dependencies and revisions: the task     *)
(* service is well typed, runs one execution of a material at a time,      *)
(* reports success and final outcomes truthfully, honours interrupts, and  *)
(* leaves nothing behind.                                                  *)
(*                                                                         *)
(* The invariant says who awaits what (Calls), that every running task is  *)
(* the one registered for its material (Registry), that whatever is        *)
(* registered is in the hands of a caller older than it (Owned), and what  *)
(* an operation has achieved so far (Earned).                              *)
(***************************************************************************)
EXTENDS MaterialTasks, WellFoundedInduction, TLAPS

Callers == Ops \union Tasks

\* A task that waits, or is about to, for the material its prompt asked for.
Depending(record) == record.row = "waiting" \/ record.at \in {"snapshot", "depend"}

\* A task that was created has a target; one that ended has an outcome; only a
\* task that polls has a prompt in ComfyUI.
TaskState ==
  \A t \in Tasks :
    /\ task[t].at # "free" =>
         /\ task[t].target \in Mats
         /\ \A u \in 1..(t - 1) : task[u].at # "free"
    /\ task[t].at = "done" <=> task[t].outcome # "none"
    /\ task[t].item # "none" => task[t].at = "native"
    /\ Depending(task[t]) => task[t].dependency \in Mats

Rows ==
  \A o \in Ops :
    /\ ops[o].at \in {"idle", "snapshot"} => ops[o].row = "none"
    /\ ops[o].at \in {"queued", "run"} => ops[o].row \in {"queued", "running"}

\* Whoever awaits is at the place where it awaits, and what it awaits exists.
Calls ==
  /\ \A o \in Ops : ops[o].at = "run" <=> Awaits(o)
  /\ \A t \in Tasks : Awaits(t) => task[t].at = "depend"
  /\ \A c \in Callers : Awaits(c) =>
       /\ frame[c].on \in Tasks
       /\ frame[c].how # "wait" => task[frame[c].on].at \notin {"free", "lost"}

Registry ==
  /\ \A t \in Tasks : Live(t) => materials[task[t].target] = t
  /\ \A m \in Mats : materials[m] # NoTask =>
       task[materials[m]].target = m /\ task[materials[m]].at \notin {"free", "lost"}

Owns(c, t) == frame[c].how = "own" /\ frame[c].on = t

Owned ==
  /\ \A m \in Mats : materials[m] # NoTask => \E c \in Callers : Owns(c, materials[m])
  /\ \A c \in Tasks, t \in Tasks : Owns(c, t) => c < t /\ task[t].target = task[c].dependency
  /\ \A m \in Mats : waits[m] # NoMat =>
       \E t \in Tasks : frame[t].how = "wait" /\ task[t].target = m

\* Material m was generated at revision rev and selected.
Achieved(m, rev) ==
  \E t \in Tasks : /\ task[t].target = m /\ task[t].rev = rev
                   /\ task[t].outcome = "success" /\ task[t].selected

\* What is behind an operation, what it reported, and what it awaits.
Past(o) == ops[o].at = "run" => \A i \in 1..ops[o].step : Achieved(Plan[o][i], ops[o].rev)
Verdict(o) ==
  ops[o].row = "success" => \A i \in DOMAIN Plan[o] : Achieved(Plan[o][i], ops[o].rev)
Present(o) ==
  ops[o].at = "run" =>
    /\ ops[o].step + 1 \in DOMAIN Plan[o]
    /\ frame[o].rev = ops[o].rev
    /\ frame[o].how \in {"own", "share", "previous"}
    /\ task[frame[o].on].target = Plan[o][ops[o].step + 1]
    /\ frame[o].how # "previous" => task[frame[o].on].rev = ops[o].rev

Earned == \A o \in Ops : Past(o) /\ Verdict(o) /\ Present(o)

IInv == TypeOK /\ TaskState /\ Rows /\ Calls /\ Registry /\ Owned /\ Earned

-----------------------------------------------------------------------------
(* Types.                                                                   *)

LEMMA Constants ==
  /\ Free \notin Ops /\ Free \notin Tasks /\ Ops \intersect Tasks = {}
  /\ NoTask \notin Tasks /\ Tasks \subseteq SomeTask /\ NoTask \in SomeTask
  /\ Tasks \subseteq Nat
  /\ NoFrame \in Frames
  /\ NewOp \in OpRecords /\ FreeTask \in TaskRecords /\ NoSources \in [Mats -> SomeTask]
BY TasksAssumption
DEF Tasks, NoTask, SomeTask, NoFrame, Frames, NewOp, OpRecords, FreeTask, TaskRecords,
    NoSources, Revisions, OpPlaces, OpRows, Final, TaskPlaces, RunRows, Outcomes, Items

LEMMA InitType == ASSUME Init PROVE TypeOK
<1>1. 0 \in Revisions /\ 0 \in 0..MaxEvents
  BY TasksAssumption DEF Revisions
<1>. QED
  BY Constants, <1>1 DEF Init, TypeOK

LEMMA EndedRecord ==
  ASSUME NEW r \in TaskRecords, NEW row \in RunRows, NEW outcome \in Outcomes
  PROVE  [r EXCEPT !.at = "done", !.outcome = outcome, !.item = "none", !.row = row]
           \in TaskRecords
BY DEF TaskRecords, TaskPlaces, Items

\* EndedAs keeps the types.
LEMMA EndedType ==
  ASSUME TypeOK, NEW t \in Tasks, NEW outcome \in Outcomes
  PROVE  EndedAs(t, outcome) \in [Tasks -> TaskRecords]
<1>. DEFINE row == IF task[t].row \in {"none", "success"} THEN task[t].row ELSE outcome
<1>1. task[t] \in TaskRecords /\ row \in RunRows
  BY DEF TypeOK, TaskRecords, RunRows, Outcomes
<1>2. [task[t] EXCEPT !.at = "done", !.outcome = outcome, !.item = "none", !.row = row]
        \in TaskRecords
  BY <1>1, EndedRecord
<1>3. EndedAs(t, outcome) = [task EXCEPT ![t] =
        [task[t] EXCEPT !.at = "done", !.outcome = outcome, !.item = "none", !.row = row]]
  BY DEF EndedAs
<1>. QED
  BY <1>2, <1>3 DEF TypeOK

-----------------------------------------------------------------------------
(* A call of _material.                                                     *)

\* c calls it for m, with the entries "owned", and a task is created ...
NewTask(c, owned, m, rev) ==
  \E t \in Tasks :
    /\ task[t].at = "free" /\ \A u \in 1..(t - 1) : task[u].at # "free"
    /\ task' \in [Tasks -> TaskRecords] /\ \A u \in Tasks \ {t} : task'[u] = task[u]
    /\ task'[t].at = "compile" /\ task'[t].target = m /\ task'[t].rev = rev
    /\ task'[t].item = "none" /\ task'[t].outcome = "none" /\ task'[t].row = "none"
    /\ materials' = [owned EXCEPT ![m] = t]
    /\ frame'[c].how = "own" /\ frame'[c].on = t

\* ... or the registered one is awaited.
OldTask(c, owned, m, rev) ==
  /\ owned[m] # NoTask /\ UNCHANGED task /\ materials' = owned
  /\ frame'[c].how \in {"share", "previous"} /\ frame'[c].on = owned[m]
  /\ frame'[c].how = "share" => task[owned[m]].rev = rev

Called(c, owned, m, rev) ==
  /\ frame' \in [Callers -> Frames] /\ frame'[c].rev = rev
  /\ \A d \in Callers \ {c} : frame'[d] = frame[d]
  /\ \/ NewTask(c, owned, m, rev) /\ (owned[m] = NoTask \/ Ended(owned[m]))
     \/ OldTask(c, owned, m, rev)

\* What self.materials may be when c calls or returns: without entries of c, and
\* with all of running tasks.
Kept(c, owned) ==
  /\ owned \in [Mats -> SomeTask]
  /\ \A m \in Mats : /\ owned[m] \in {materials[m], NoTask}
                     /\ owned[m] = materials[m] \/ Ended(materials[m])
                     /\ owned[m] # NoTask => ~Owns(c, owned[m])

LEMMA CreateEffect ==
  ASSUME TypeOK, NEW c \in Callers, NEW owned \in [Mats -> SomeTask], NEW m \in Mats,
         NEW rev \in Revisions, NEW base \in Nat, NEW shown \in Nat,
         NEW ancestors \in SUBSET Mats, NEW root \in Ops \union {Free},
         NEW sources \in [Mats -> SomeTask],
         Create(c, owned, m, rev, base, shown, ancestors, root, sources)
  PROVE  /\ frame' \in [Callers -> Frames] /\ frame'[c].rev = rev
         /\ \A d \in Callers \ {c} : frame'[d] = frame[d]
         /\ NewTask(c, owned, m, rev)
<1>1. PICK t \in Tasks :
        /\ task[t].at = "free" /\ \A u \in 1..(t - 1) : task[u].at # "free"
        /\ task' = [task EXCEPT ![t] =
             [FreeTask EXCEPT !.at = "compile", !.target = m, !.rev = rev, !.base = base,
                !.shown = shown, !.ancestors = ancestors \union {m}, !.root = root,
                !.sources = sources]]
        /\ materials' = [owned EXCEPT ![m] = t]
        /\ frame' = [frame EXCEPT ![c] =
             [on |-> t, how |-> "own", rev |-> rev, base |-> base, shown |-> shown]]
  BY DEF Create
<1>2. frame \in [Callers -> Frames] /\ task \in [Tasks -> TaskRecords]
  BY DEF TypeOK, Callers
<1>3. [on |-> t, how |-> "own", rev |-> rev, base |-> base, shown |-> shown] \in Frames
  BY Constants DEF Frames
<1>4. [FreeTask EXCEPT !.at = "compile", !.target = m, !.rev = rev, !.base = base,
                !.shown = shown, !.ancestors = ancestors \union {m}, !.root = root,
                !.sources = sources] \in TaskRecords
  BY Constants DEF FreeTask, TaskRecords, TaskPlaces
<1>5. task'[t].at = "compile" /\ task'[t].target = m /\ task'[t].rev = rev
      /\ task'[t].item = "none" /\ task'[t].outcome = "none" /\ task'[t].row = "none"
  BY <1>1, <1>2 DEF FreeTask
<1>6. frame' \in [Callers -> Frames] /\ frame'[c].rev = rev
      /\ frame'[c].how = "own" /\ frame'[c].on = t
      /\ \A d \in Callers \ {c} : frame'[d] = frame[d]
  BY <1>1, <1>2, <1>3
<1>7. task' \in [Tasks -> TaskRecords] /\ \A u \in Tasks \ {t} : task'[u] = task[u]
  BY <1>1, <1>2, <1>4
<1>. QED
  BY <1>1, <1>5, <1>6, <1>7 DEF NewTask

LEMMA JoinEffect ==
  ASSUME TypeOK, NEW c \in Callers, NEW owned \in [Mats -> SomeTask], NEW m \in Mats,
         NEW rev \in Revisions, NEW base \in Nat, NEW shown \in Nat,
         owned[m] # NoTask, Join(c, owned, m, rev, base, shown)
  PROVE  /\ frame' \in [Callers -> Frames] /\ frame'[c].rev = rev
         /\ \A d \in Callers \ {c} : frame'[d] = frame[d]
         /\ OldTask(c, owned, m, rev)
<1>1. frame \in [Callers -> Frames] /\ owned[m] \in SomeTask
  BY DEF TypeOK, Callers
<1>2. \A how \in {"share", "previous"} :
        [on |-> owned[m], rev |-> rev, base |-> base, shown |-> shown, how |-> how] \in Frames
  BY <1>1 DEF Frames
<1>. QED
  BY <1>1, <1>2 DEF Join, OldTask

LEMMA MaterialCalls ==
  ASSUME TypeOK, NEW c \in Callers, NEW owned \in [Mats -> SomeTask], NEW m \in Mats,
         NEW rev \in Revisions, NEW base \in Nat, NEW shown \in Nat,
         NEW ancestors \in SUBSET Mats, NEW root \in Ops \union {Free},
         NEW sources \in [Mats -> SomeTask],
         Material(c, owned, m, rev, base, shown, ancestors, root, sources)
  PROVE  Called(c, owned, m, rev)
<1>1. CASE owned[m] = NoTask
  <2>1. Create(c, owned, m, rev, base, shown, ancestors, root, sources)
    BY <1>1 DEF Material
  <2>. QED
    BY <1>1, <2>1, CreateEffect DEF Called
<1>2. CASE owned[m] # NoTask
  BY <1>2, JoinEffect DEF Material, Called
<1>. QED
  BY <1>1, <1>2

LEMMA AgainCalls ==
  ASSUME TypeOK, NEW c \in Callers, NEW m \in Mats, NEW ancestors \in SUBSET Mats,
         NEW root \in Ops \union {Free}, NEW sources \in [Mats -> SomeTask],
         Ended(frame[c].on), Again(c, m, ancestors, root, sources)
  PROVE  Called(c, materials, m, frame[c].rev)
<1>1. frame[c].rev \in Revisions /\ frame[c].shown \in Nat /\ Adopted(c, m) \in Nat
      /\ materials \in [Mats -> SomeTask]
  BY DEF TypeOK, Callers, Frames, Adopted
<1>2. CASE materials[m] \in {frame[c].on, NoTask}
  BY <1>1, <1>2, CreateEffect DEF Again, Called
<1>3. CASE materials[m] \notin {frame[c].on, NoTask}
  BY <1>1, <1>3, JoinEffect DEF Again, Called
<1>. QED
  BY <1>2, <1>3

LEMMA CalledType ==
  ASSUME TypeOK, NEW c \in Callers, NEW owned \in [Mats -> SomeTask], NEW m \in Mats,
         NEW rev, Called(c, owned, m, rev)
  PROVE  /\ task' \in [Tasks -> TaskRecords]
         /\ frame' \in [Callers -> Frames] /\ materials' \in [Mats -> SomeTask]
<1>1. CASE NewTask(c, owned, m, rev)
  <2>1. PICK t \in Tasks : materials' = [owned EXCEPT ![m] = t]
    BY <1>1 DEF NewTask
  <2>2. materials' \in [Mats -> SomeTask]
    BY <2>1, Constants
  <2>. QED
    BY <1>1, <2>2 DEF Called, NewTask
<1>2. CASE OldTask(c, owned, m, rev)
  BY <1>2 DEF Called, OldTask, TypeOK
<1>. QED
  BY <1>1, <1>2 DEF Called

-----------------------------------------------------------------------------
(* The types, step by step.                                                 *)

LEMMA FinishType ==
  ASSUME TypeOK, NEW o \in Ops, NEW status \in Final, NEW owned \in [Mats -> SomeTask],
         Finish(o, status, owned)
  PROVE  /\ ops' \in [Ops -> OpRecords] /\ task' \in [Tasks -> TaskRecords]
         /\ frame' \in [Callers -> Frames] /\ materials' \in [Mats -> SomeTask]
<1>. ops \in [Ops -> OpRecords] /\ ops[o] \in OpRecords
  BY DEF TypeOK
<1>1. ops' \in [Ops -> OpRecords]
  BY DEF Finish, OpRecords, OpPlaces, OpRows
<1>. QED
  BY <1>1, Constants DEF Finish, TypeOK, Callers

LEMMA AdvanceType ==
  ASSUME TypeOK, NEW o \in Ops, NEW n \in Nat, NEW owned \in [Mats -> SomeTask],
         Advance(o, n, owned)
  PROVE  /\ ops' \in [Ops -> OpRecords] /\ task' \in [Tasks -> TaskRecords]
         /\ frame' \in [Callers -> Frames] /\ materials' \in [Mats -> SomeTask]
<1>1. CASE Finish(o, "success", owned) \/ Finish(o, "cancelled", owned)
  BY <1>1, FinishType DEF Final
<1>2. CASE /\ n < Len(Plan[o])
           /\ ops' = [ops EXCEPT ![o].at = "run", ![o].row = "running", ![o].step = n]
           /\ Material(o, owned, Plan[o][n + 1], ops[o].rev, ops[o].shown[Plan[o][n + 1]],
                       ops[o].shown[Plan[o][n + 1]], {}, o, ops[o].pending)
  <2>1. Plan[o][n + 1] \in Mats
    BY <1>2, TasksAssumption
  <2>2. ops[o] \in OpRecords /\ ops[o].rev \in Revisions /\ ops[o].pending \in [Mats -> SomeTask]
        /\ ops[o].shown[Plan[o][n + 1]] \in Nat
    BY <2>1 DEF TypeOK, OpRecords
  <2>3. ops' \in [Ops -> OpRecords]
    <3>1. ops \in [Ops -> OpRecords]
      BY DEF TypeOK
    <3>. QED
      BY <1>2, <2>2, <3>1 DEF OpRecords, OpPlaces, OpRows
  <2>4. Called(o, owned, Plan[o][n + 1], ops[o].rev)
    BY <1>2, <2>1, <2>2, MaterialCalls DEF Callers
  <2>. QED
    BY <2>1, <2>3, <2>4, CalledType DEF Callers
<1>. QED
  BY <1>1, <1>2 DEF Advance

LEMMA UnregisteredType ==
  ASSUME TypeOK, NEW c, NEW m
  PROVE  Unregistered(c, m) \in [Mats -> SomeTask]
BY Constants DEF Unregistered, TypeOK

LEMMA RunningType ==
  ASSUME TypeOK, NEW m \in Mats, NEW rev
  PROVE  Running(m, rev) \in SomeTask
BY Constants DEF Running, TypeOK

\* The target of an operation that awaits, and the outcome of what it awaits.
LEMMA ResumedType ==
  ASSUME IInv, NEW o \in Ops, ops[o].at = "run", Ended(frame[o].on)
  PROVE  /\ ops[o].step \in Nat /\ ops[o].step + 1 \in DOMAIN Plan[o]
         /\ Plan[o][ops[o].step + 1] \in Mats
         /\ frame[o].on \in Tasks /\ task[frame[o].on].outcome \in Outcomes \ {"none"}
         /\ Awaits(o)
<1>1. Awaits(o) /\ frame[o].on \in Tasks
  BY DEF IInv, Calls, Callers
<1>2. task[frame[o].on].outcome \in Outcomes \ {"none"}
  BY <1>1 DEF IInv, TaskState, Ended, TypeOK, TaskRecords
<1>3. ops[o].step \in Nat /\ ops[o].step + 1 \in DOMAIN Plan[o]
  BY DEF IInv, Earned, Present, TypeOK, OpRecords
<1>. QED
  BY <1>1, <1>2, <1>3, TasksAssumption

LEMMA OperationTypes ==
  ASSUME IInv, NEW o \in Ops,
         StartSnapshot(o) \/ StartShared(o) \/ StartQueued(o) \/ OpBegin(o) \/ OpResume(o)
  PROVE  TypeOK'
<1>1. TypeOK /\ ops \in [Ops -> OpRecords] /\ ops[o] \in OpRecords
  BY DEF IInv, TypeOK
<1>2. CASE StartSnapshot(o)
  <2>1. ops' \in [Ops -> OpRecords]
    BY <1>1, <1>2 DEF StartSnapshot, TypeOK, OpRecords, OpPlaces
  <2>. QED
    BY <1>1, <1>2, <2>1 DEF StartSnapshot, TypeOK, disk
<1>3. CASE StartShared(o)
  <2>1. ops' \in [Ops -> OpRecords]
    BY <1>1, <1>3, Constants DEF StartShared, OpRecords, OpPlaces
  <2>. QED
    BY <1>1, <1>3, <2>1 DEF StartShared, TypeOK, disk
<1>4. CASE StartQueued(o)
  <2>1. [m \in Mats |-> Running(m, ops[o].rev)] \in [Mats -> SomeTask]
    BY <1>1, RunningType
  <2>2. {t \in Tasks : Ended(t) /\ materials[task[t].target] # t} \in SUBSET Tasks
    OBVIOUS
  <2>3. ops' \in [Ops -> OpRecords]
    BY <1>1, <1>4, <2>1, <2>2 DEF StartQueued, OpRecords, OpPlaces, OpRows
  <2>. QED
    BY <1>1, <1>4, <2>3 DEF StartQueued, TypeOK, disk
<1>5. CASE OpBegin(o)
  <2>1. materials \in [Mats -> SomeTask] /\ Advance(o, 0, materials)
    BY <1>1, <1>5 DEF OpBegin, TypeOK
  <2>2. UNCHANGED <<waits, lock, disk, events>>
    BY <1>5 DEF OpBegin
  <2>. QED
    BY <1>1, <2>1, <2>2, AdvanceType DEF TypeOK, Callers, disk
<1>6. CASE OpResume(o)
  <2>. DEFINE m == Plan[o][ops[o].step + 1]
              u == task[frame[o].on]
  <2>1. UNCHANGED <<waits, lock, disk, events>> /\ ops[o].at = "run" /\ Ended(frame[o].on)
    BY <1>6 DEF OpResume
  <2>2. m \in Mats /\ ops[o].step + 1 \in Nat /\ u.outcome \in Outcomes \ {"none"}
        /\ Unregistered(o, m) \in [Mats -> SomeTask]
    BY <1>1, <2>1, ResumedType, UnregisteredType
  <2>3. \/ Again(o, m, {}, o, ops[o].pending) /\ UNCHANGED ops
        \/ Advance(o, ops[o].step + 1, Unregistered(o, m))
        \/ Finish(o, "selection_changed", Unregistered(o, m))
        \/ u.outcome # "success" /\ Finish(o, u.outcome, Unregistered(o, m))
    BY <1>6 DEF OpResume
  <2>4. /\ ops' \in [Ops -> OpRecords] /\ task' \in [Tasks -> TaskRecords]
        /\ frame' \in [Callers -> Frames] /\ materials' \in [Mats -> SomeTask]
    <3>1. CASE Again(o, m, {}, o, ops[o].pending) /\ UNCHANGED ops
      <4>1. ops[o].pending \in [Mats -> SomeTask] /\ o \in Callers
        BY <1>1 DEF OpRecords, Callers
      <4>2. Called(o, materials, m, frame[o].rev)
        BY <1>1, <2>1, <2>2, <3>1, <4>1, AgainCalls
      <4>. QED
        BY <1>1, <2>2, <3>1, <4>1, <4>2, CalledType DEF TypeOK
    <3>2. CASE Advance(o, ops[o].step + 1, Unregistered(o, m))
      BY <1>1, <2>2, <3>2, AdvanceType
    <3>3. CASE Finish(o, "selection_changed", Unregistered(o, m))
      BY <1>1, <2>2, <3>3, FinishType DEF Final
    <3>4. CASE u.outcome # "success" /\ Finish(o, u.outcome, Unregistered(o, m))
      <4>1. u.outcome \in Final
        BY <2>2, <3>4 DEF Outcomes, Final
      <4>. QED
        BY <1>1, <2>2, <3>4, <4>1, FinishType
    <3>. QED
      BY <2>3, <3>1, <3>2, <3>3, <3>4
  <2>. QED
    BY <1>1, <2>1, <2>4 DEF TypeOK, Callers, disk
<1>. QED
  BY <1>2, <1>3, <1>4, <1>5, <1>6

LEMMA ExecutionTypes ==
  ASSUME IInv, NEW t \in Tasks,
         \/ Compile(t) \/ SubmitBegin(t) \/ SubmitEnd(t) \/ PollSuccess(t) \/ PollFailure(t)
         \/ PollWaiting(t)
  PROVE  TypeOK'
<1>. TypeOK /\ task \in [Tasks -> TaskRecords] /\ task[t] \in TaskRecords
  BY DEF IInv, TypeOK
<1>. \A outcome \in Outcomes : EndedAs(t, outcome) \in [Tasks -> TaskRecords]
  BY EndedType
<1>. {"success", "failed", "interrupted"} \subseteq Outcomes
  BY DEF Outcomes
<1>. events \in 0..MaxEvents /\ (Event => events' \in 0..MaxEvents)
  BY TasksAssumption DEF TypeOK, Event
<1>1. CASE Compile(t)
  <2>. DEFINE sources == [d \in Mats |->
                 IF /\ task[t].sources[d] = NoTask
                    /\ d \in ReadBy(t) \ (Generated(t) \union task[t].ancestors)
                 THEN Running(d, task[t].rev) ELSE task[t].sources[d]]
  <2>1. sources \in [Mats -> SomeTask]
    BY RunningType DEF TaskRecords
  <2>2. Fresh(t) \in SUBSET Mats
    BY DEF Fresh, ReadBy
  <2>3. [task EXCEPT ![t].at = "submit", ![t].row = "prepared",
              ![t].resumed = Fresh(t), ![t].sources = sources] \in [Tasks -> TaskRecords]
    <3>1. "submit" \in TaskPlaces /\ "prepared" \in RunRows
      BY DEF TaskPlaces, RunRows
    <3>2. \A at \in TaskPlaces, row \in RunRows, resumed \in SUBSET Mats,
             pending \in [Mats -> SomeTask] :
            [task[t] EXCEPT !.at = at, !.row = row, !.resumed = resumed, !.sources = pending]
              \in TaskRecords
      BY DEF TaskRecords
    <3>. HIDE DEF sources
    <3>. DEFINE record == [task[t] EXCEPT !.at = "submit", !.row = "prepared",
                                          !.resumed = Fresh(t), !.sources = sources]
    <3>3. record \in TaskRecords
      BY <2>1, <2>2, <3>1, <3>2
    <3>4. [task EXCEPT ![t].at = "submit", ![t].row = "prepared", ![t].resumed = Fresh(t),
                       ![t].sources = sources]
            = [task EXCEPT ![t] = record]
      OBVIOUS
    <3>. HIDE DEF record
    <3>5. [task EXCEPT ![t] = record] \in [Tasks -> TaskRecords]
      BY <3>3
    <3>. QED
      BY <3>4, <3>5
  <2>4. task' \in [Tasks -> TaskRecords]
    <3>1. CASE task' = [task EXCEPT ![t].at = "submit", ![t].row = "prepared",
                                    ![t].resumed = Fresh(t), ![t].sources = sources]
      BY <2>3, <3>1
    <3>2. CASE task' = EndedAs(t, "failed")
      BY <3>2, EndedType DEF Outcomes
    <3>. QED
      BY <1>1, <3>1, <3>2, Zenon DEF Compile
  <2>. QED
    BY <1>1, <2>4 DEF Compile, TypeOK, disk
<1>2. CASE SubmitBegin(t)
  <2>1. [task EXCEPT ![t].at = "validate"] \in [Tasks -> TaskRecords]
    BY DEF TaskRecords, TaskPlaces
  <2>. QED
    BY <1>2, <2>1 DEF SubmitBegin, TypeOK, disk
<1>3. CASE SubmitEnd(t)
  <2>1. [task EXCEPT ![t].at = "native", ![t].row = "queued", ![t].item = "queued"]
          \in [Tasks -> TaskRecords]
    <3>1. "native" \in TaskPlaces /\ "queued" \in RunRows /\ "queued" \in Items
      BY DEF TaskPlaces, RunRows, Items
    <3>. QED
      BY <3>1 DEF TaskRecords
  <2>2. task' \in [Tasks -> TaskRecords]
    BY <1>3, <2>1 DEF SubmitEnd
  <2>. QED
    BY <1>3, <2>2 DEF SubmitEnd, TypeOK, disk
<1>4. CASE PollSuccess(t)
  <2>1. task[t].target \in Mats
    BY <1>4 DEF PollSuccess, IInv, TaskState
  <2>2. ops' \in [Ops -> OpRecords]
    <3>1. ops \in [Ops -> OpRecords]
      BY DEF TypeOK
    <3>2. PICK o, m : m \in Mats /\ ops' = [ops EXCEPT ![o].generated = @ \union {m}]
      BY <1>4, <2>1 DEF PollSuccess
    <3>3. \A r \in OpRecords : [r EXCEPT !.generated = @ \union {m}] \in OpRecords
      BY <3>2 DEF OpRecords
    <3>4. CASE o \in Ops
      BY <3>1, <3>2, <3>3, <3>4
    <3>5. CASE o \notin Ops
      BY <3>1, <3>2, <3>5
    <3>. QED
      BY <3>4, <3>5
  <2>. QED
    BY <1>4, <2>2 DEF PollSuccess, TypeOK, disk
<1>5. CASE PollFailure(t)
  <2>1. task' \in [Tasks -> TaskRecords]
    BY <1>5 DEF PollFailure
  <2>. QED
    BY <1>5, <2>1 DEF PollFailure, TypeOK, disk
<1>6. CASE PollWaiting(t)
  <2>. DEFINE d == task[t].dependency
              p == IF task[t].sources[d] # NoTask THEN task[t].sources[d]
                   ELSE Running(d, task[t].rev)
  <2>1. d \in Mats /\ task[t].target \in Mats
    BY <1>6 DEF PollWaiting, IInv, TaskState, Depending
  <2>2. p \in SomeTask
    BY <2>1, RunningType DEF TaskRecords
  <2>3. \A at \in {"snapshot", "depend"} :
          [task EXCEPT ![t].at = at, ![t].item = "none"] \in [Tasks -> TaskRecords]
    <3>1. \A at \in TaskPlaces, item \in Items :
            [task[t] EXCEPT !.at = at, !.item = item] \in TaskRecords
      BY DEF TaskRecords
    <3>2. {"snapshot", "depend"} \subseteq TaskPlaces /\ "none" \in Items
      BY DEF TaskPlaces, Items
    <3>. QED
      BY <3>1, <3>2
  <2>4. task' \in [Tasks -> TaskRecords]
    BY <1>6, <2>3 DEF PollWaiting
  <2>5. frame' \in [Callers -> Frames]
    <3>1. [NoFrame EXCEPT !.on = p, !.how = "wait"] \in Frames /\ frame \in [Callers -> Frames]
      BY <2>2, Constants DEF Frames, NoFrame, TypeOK, Callers
    <3>. QED
      BY <1>6, <3>1 DEF PollWaiting
  <2>6. waits' \in [Mats -> Mats \union {NoMat}]
    BY <1>6, <2>1 DEF PollWaiting, TypeOK
  <2>. QED
    BY <1>6, <2>4, <2>5, <2>6 DEF PollWaiting, TypeOK, disk, Callers
<1>. QED
  BY <1>1, <1>2, <1>3, <1>4, <1>5, <1>6

LEMMA DependTypes ==
  ASSUME IInv, NEW t \in Tasks, DependSnapshot(t) \/ Depend(t) \/ DependResume(t)
  PROVE  TypeOK'
<1>. DEFINE d == task[t].dependency
            u == task[frame[t].on]
<1>. TypeOK /\ task \in [Tasks -> TaskRecords] /\ task[t] \in TaskRecords
  BY DEF IInv, TypeOK
<1>. \A outcome \in Outcomes : EndedAs(t, outcome) \in [Tasks -> TaskRecords]
  BY EndedType
<1>1. d \in Mats /\ task[t].target \in Mats /\ t \in Callers
  BY DEF DependSnapshot, Depend, DependResume, IInv, TaskState, Depending, Callers
<1>2. /\ task[t].ancestors \in SUBSET Mats /\ task[t].root \in Ops \union {Free}
      /\ NoSources \in [Mats -> SomeTask]
  BY Constants DEF TaskRecords
<1>3. CASE Depend(t)
  <2>1. UNCHANGED <<ops, waits, lock, disk, events>>
    BY <1>3 DEF Depend
  <2>2. CASE d \in task[t].ancestors
    BY <1>3, <2>1, <2>2 DEF Depend, TypeOK, Outcomes, disk
  <2>3. CASE d \notin task[t].ancestors
    <3>1. Material(t, materials, d, frame[t].rev, frame[t].base, frame[t].shown,
                   task[t].ancestors, task[t].root, NoSources)
      BY <1>3, <2>3 DEF Depend
    <3>2. /\ materials \in [Mats -> SomeTask] /\ frame[t].rev \in Revisions
          /\ frame[t].base \in Nat /\ frame[t].shown \in Nat
      BY <1>1 DEF TypeOK, Callers, Frames
    <3>3. Called(t, materials, d, frame[t].rev)
      BY <1>1, <1>2, <3>1, <3>2, MaterialCalls
    <3>. QED
      BY <1>1, <2>1, <3>2, <3>3, CalledType DEF TypeOK, Callers, disk
  <2>. QED
    BY <2>2, <2>3
<1>5. CASE DependSnapshot(t)
  <2>1. [task EXCEPT ![t].at = "depend"] \in [Tasks -> TaskRecords]
    BY DEF TaskRecords, TaskPlaces
  <2>2. canvas \in Revisions /\ selection[d] \in Nat /\ frame \in [Callers -> Frames]
    BY <1>1 DEF TypeOK, Callers
  <2>3. frame' \in [Callers -> Frames]
    BY <1>5, <2>2, Constants DEF DependSnapshot, NoFrame, Frames
  <2>. QED
    BY <1>5, <2>1, <2>3 DEF DependSnapshot, TypeOK, Callers, disk
<1>4. CASE DependResume(t)
  <2>1. UNCHANGED <<lock, disk, events>> /\ Awaits(t) /\ Ended(frame[t].on)
        /\ waits' \in [Mats -> Mats \union {NoMat}]
    BY <1>4 DEF DependResume, TypeOK
  <2>2. CASE Again(t, d, task[t].ancestors, task[t].root, NoSources) /\ UNCHANGED ops
    <3>1. Called(t, materials, d, frame[t].rev)
      BY <1>1, <1>2, <2>1, <2>2, AgainCalls
    <3>. QED
      BY <1>1, <2>1, <2>2, <3>1, CalledType DEF TypeOK, Callers, disk
  <2>3. CASE ~(Again(t, d, task[t].ancestors, task[t].root, NoSources) /\ UNCHANGED ops)
    <3>1. /\ IF u.outcome = "success"
             THEN /\ task' = [task EXCEPT ![t].at = "submit", ![t].resumed = @ \union {d}]
                  /\ ops' = [ops EXCEPT ![task[t].root].generated = @ \union {d}]
             ELSE task' = EndedAs(t, u.outcome) /\ UNCHANGED ops
          /\ materials' = Unregistered(t, d)
          /\ frame' = [frame EXCEPT ![t] = NoFrame]
      BY <1>4, <2>3 DEF DependResume
    <3>2. frame[t].on \in Tasks /\ u.outcome \in Outcomes
      BY <2>1 DEF IInv, Calls, Callers, TypeOK, TaskRecords
    <3>3. [task EXCEPT ![t].at = "submit", ![t].resumed = @ \union {d}]
            \in [Tasks -> TaskRecords]
      <4>1. "submit" \in TaskPlaces
        BY DEF TaskPlaces
      <4>2. \A at \in TaskPlaces, resumed \in SUBSET Mats :
              [task[t] EXCEPT !.at = at, !.resumed = resumed] \in TaskRecords
        BY DEF TaskRecords
      <4>3. task[t].resumed \union {d} \in SUBSET Mats
        BY <1>1 DEF TaskRecords
      <4>. QED
        BY <4>1, <4>2, <4>3
    <3>4. [ops EXCEPT ![task[t].root].generated = @ \union {d}] \in [Ops -> OpRecords]
      <4>1. ops \in [Ops -> OpRecords]
        BY DEF TypeOK
      <4>. QED
        BY ZenonT(60), <1>1, <4>1 DEF OpRecords
    <3>5. task' \in [Tasks -> TaskRecords] /\ ops' \in [Ops -> OpRecords]
      BY ZenonT(60), <3>1, <3>2, <3>3, <3>4 DEF TypeOK
    <3>6. frame' \in [Callers -> Frames] /\ materials' \in [Mats -> SomeTask]
      BY <3>1, UnregisteredType, Constants DEF TypeOK, Callers
    <3>. QED
      BY <2>1, <3>5, <3>6 DEF TypeOK, Callers, disk
  <2>. QED
    BY <2>2, <2>3
<1>. QED
  BY <1>3, <1>4, <1>5

LEMMA WorkerTypes ==
  ASSUME TypeOK, NEW t \in Tasks,
         WorkerStart(t) \/ WorkerBlocks(t) \/ WorkerPublishes(t) \/ WorkerEnds(t) \/ NativeRemove(t)
  PROVE  TypeOK'
<1>. task \in [Tasks -> TaskRecords] /\ task[t] \in TaskRecords
  BY DEF TypeOK
<1>. events \in 0..MaxEvents /\ (Event => events' \in 0..MaxEvents)
  BY TasksAssumption DEF TypeOK, Event
<1>1. CASE WorkerStart(t)
  <2>1. "running" \in RunRows /\ "running" \in Items
    BY DEF RunRows, Items
  <2>2. task' \in [Tasks -> TaskRecords]
    BY <1>1, <2>1 DEF WorkerStart, TaskRecords
  <2>. QED
    BY <1>1, <2>2 DEF WorkerStart, TypeOK, disk
<1>2. CASE WorkerBlocks(t)
  <2>1. "waiting" \in RunRows /\ ReadBy(t) \subseteq Mats
    BY DEF RunRows, ReadBy
  <2>2. task' \in [Tasks -> TaskRecords]
    <3>1. PICK d \in ReadBy(t) :
            task' = [task EXCEPT ![t].row = "waiting", ![t].dependency = d]
      BY <1>2 DEF WorkerBlocks
    <3>. QED
      BY <2>1, <3>1 DEF TaskRecords
  <2>. QED
    BY <1>2, <2>2 DEF WorkerBlocks, TypeOK, disk
<1>3. CASE WorkerPublishes(t)
  <2>1. "success" \in RunRows
    BY DEF RunRows, Outcomes
  <2>2. task' \in [Tasks -> TaskRecords]
    BY <1>3, <2>1 DEF WorkerPublishes, TaskRecords
  <2>3. selection' \in [Mats -> Nat]
    <3>1. selection \in [Mats -> Nat]
      BY DEF TypeOK
    <3>2. \/ selection' = [selection EXCEPT ![task[t].target] = @ + 1]
          \/ selection' = [selection EXCEPT ![task[t].target] = @]
      BY <1>3 DEF WorkerPublishes
    <3>. QED
      BY <3>1, <3>2
  <2>. QED
    BY <1>3, <2>2, <2>3 DEF WorkerPublishes, TypeOK
<1>4. CASE WorkerEnds(t)
  <2>1. "over" \in Items /\ "interrupted" \in RunRows /\ "failed" \in RunRows
    BY DEF Items, RunRows, Outcomes
  <2>2. task' \in [Tasks -> TaskRecords]
    <3>1. [task EXCEPT ![t].item = "over"] \in [Tasks -> TaskRecords]
      BY <2>1 DEF TaskRecords
    <3>2. \A row \in RunRows :
            [task EXCEPT ![t].item = "over", ![t].row = row] \in [Tasks -> TaskRecords]
      BY <2>1 DEF TaskRecords
    <3>. QED
      BY <1>4, <2>1, <3>1, <3>2 DEF WorkerEnds
  <2>. QED
    BY <1>4, <2>2 DEF WorkerEnds, TypeOK, disk
<1>5. CASE NativeRemove(t)
  <2>1. "stopping" \in Items /\ "removed" \in Items
    BY DEF Items
  <2>2. task' \in [Tasks -> TaskRecords]
    BY <1>5, <2>1 DEF NativeRemove, TaskRecords
  <2>. QED
    BY <1>5, <2>2 DEF NativeRemove, TypeOK, disk
<1>. QED
  BY <1>1, <1>2, <1>3, <1>4, <1>5

LEMMA RequestTypes ==
  ASSUME TypeOK, NEW o \in Ops, Cancel(o) \/ Interrupt(o) \/ Status(o)
  PROVE  TypeOK'
<1>. ops \in [Ops -> OpRecords] /\ task \in [Tasks -> TaskRecords]
  BY DEF TypeOK
<1>. events \in 0..MaxEvents /\ (Event => events' \in 0..MaxEvents)
  BY TasksAssumption DEF TypeOK, Event
<1>1. CASE Cancel(o)
  <2>1. ops' \in [Ops -> OpRecords]
    BY ZenonT(60), <1>1 DEF Cancel, OpRecords
  <2>. QED
    BY <1>1, <2>1 DEF Cancel, TypeOK, disk
<1>2. CASE Interrupt(o)
  <2>1. ops' \in [Ops -> OpRecords]
    BY <1>2 DEF Interrupt, OpRecords
  <2>2. \A t \in Tasks : task'[t] \in TaskRecords
    <3>. TAKE t \in Tasks
    <3>1. \A item \in Items : [task[t] EXCEPT !.item = item] \in TaskRecords
      BY ZenonT(60) DEF TaskRecords
    <3>2. task[t].item \in Items /\ "removed" \in Items /\ "stopping" \in Items
      BY DEF TaskRecords, Items
    <3>3. PICK item \in Items : task'[t] = [task[t] EXCEPT !.item = item]
      BY <1>2, <3>2 DEF Interrupt
    <3>. QED
      BY <3>1, <3>3
  <2>3. task' \in [Tasks -> TaskRecords]
    BY <1>2, <2>2 DEF Interrupt
  <2>. QED
    BY <1>2, <2>1, <2>3 DEF Interrupt, TypeOK, disk
<1>3. CASE Status(o)
  <2>1. ops' \in [Ops -> OpRecords]
    <3>1. "interrupted" \in OpRows
      BY DEF OpRows, Final
    <3>2. [ops EXCEPT ![o].row = "interrupted"] \in [Ops -> OpRecords]
      BY ZenonT(60), <3>1 DEF OpRecords
    <3>. QED
      BY <1>3, <3>2 DEF Status
  <2>. QED
    BY <1>3, <2>1 DEF Status, TypeOK, disk
<1>. QED
  BY <1>1, <1>2, <1>3

LEMMA WorldTypes ==
  ASSUME TypeOK, Edit \/ Restart \/ \E m \in Mats : Pick(m)
  PROVE  TypeOK'
<1>. events \in 0..MaxEvents /\ (Event => events' \in 0..MaxEvents)
  BY TasksAssumption DEF TypeOK, Event
<1>1. CASE Edit
  BY <1>1, TasksAssumption DEF Edit, TypeOK, Revisions
<1>2. CASE \E m \in Mats : Pick(m)
  BY <1>2 DEF Pick, TypeOK
<1>3. CASE Restart
  <2>. ops \in [Ops -> OpRecords] /\ task \in [Tasks -> TaskRecords]
    BY DEF TypeOK
  <2>1. \A o \in Ops : [ops[o] EXCEPT !.at = "lost"] \in OpRecords
    <3>1. "lost" \in OpPlaces
      BY DEF OpPlaces
    <3>. QED
      BY <3>1 DEF OpRecords
  <2>2. \A t \in Tasks : [task[t] EXCEPT !.at = "lost", !.item = "none"] \in TaskRecords
    <3>1. "lost" \in TaskPlaces /\ "none" \in Items
      BY DEF TaskPlaces, Items
    <3>. QED
      BY ZenonT(60), <3>1 DEF TaskRecords
  <2>3. ops' \in [Ops -> OpRecords] /\ task' \in [Tasks -> TaskRecords]
    BY <1>3, <2>1, <2>2, Constants DEF Restart
  <2>. QED
    BY <1>3, <2>3, Constants DEF Restart, TypeOK, disk
<1>. QED
  BY <1>1, <1>2, <1>3

LEMMA TypeStep == ASSUME IInv, [Next]_vars PROVE TypeOK'
<1>1. TypeOK
  BY DEF IInv
<1>2. CASE UNCHANGED vars
  BY <1>1, <1>2 DEF vars, TypeOK
<1>3. CASE Next
  BY <1>1, <1>3, OperationTypes, ExecutionTypes, DependTypes, WorkerTypes, RequestTypes, WorldTypes
  DEF Next, LoopStep, Start, OpStep, Execute, WorkerStep, Request
<1>. QED
  BY <1>2, <1>3

-----------------------------------------------------------------------------
(* Steps that move tasks, but start and end no call.                        *)

\* t runs on, or ends, with what TaskState says of it.
Moved(t) ==
  /\ Live(t)
  /\ task'[t].target = task[t].target /\ task'[t].rev = task[t].rev
  /\ task'[t].at \notin {"free", "lost"}
  /\ task'[t].at = "done" <=> task'[t].outcome # "none"
  /\ task'[t].item # "none" => task'[t].at = "native"
  /\ Depending(task'[t]) => task'[t].dependency \in Mats

\* The operations are as far as they were.
OpStays(o) ==
  /\ ops'[o].at = ops[o].at /\ ops'[o].row = ops[o].row
  /\ ops'[o].rev = ops[o].rev /\ ops'[o].step = ops[o].step
OpsStay == \A o \in Ops : OpStays(o)

MayMove == \A t \in Tasks : task[t].at # "free" => task'[t] = task[t] \/ Moved(t)
TasksStay == \A t \in Tasks : task'[t] = task[t] \/ (Moved(t) /\ ~Awaits(t))

LEMMA AchievedStays ==
  ASSUME TaskState, MayMove, NEW m, NEW rev, Achieved(m, rev)
  PROVE  Achieved(m, rev)'
BY DEF Achieved, MayMove, Moved, Live, TaskState

LEMMA TaskStateStays ==
  ASSUME TaskState, \A t \in Tasks : task'[t] = task[t] \/ Moved(t)
  PROVE  TaskState'
<1>. SUFFICES ASSUME NEW t \in Tasks
     PROVE /\ task'[t].at # "free" =>
              /\ task'[t].target \in Mats
              /\ \A u \in 1..(t - 1) : task'[u].at # "free"
           /\ task'[t].at = "done" <=> task'[t].outcome # "none"
           /\ task'[t].item # "none" => task'[t].at = "native"
           /\ Depending(task'[t]) => task'[t].dependency \in Mats
  BY DEF TaskState
<1>1. \A u \in Tasks : task'[u].at = "free" <=> task[u].at = "free"
  BY DEF Moved, Live
<1>2. 1..(t - 1) \subseteq Tasks
  BY TasksAssumption DEF Tasks
<1>3. task'[t].at # "free" => task'[t].target \in Mats
  BY DEF Moved, Live, TaskState
<1>4. task'[t].at # "free" => \A u \in 1..(t - 1) : task'[u].at # "free"
  BY <1>1, <1>2 DEF TaskState
<1>. QED
  BY <1>3, <1>4 DEF Moved, TaskState

LEMMA TasksKeep ==
  ASSUME IInv, TypeOK', TasksStay, OpsStay, UNCHANGED <<frame, materials, waits>>
  PROVE  IInv'
<1>. TypeOK /\ TaskState /\ Rows /\ Calls /\ Registry /\ Owned /\ Earned
  BY DEF IInv
<1>. MayMove
  BY DEF MayMove, TasksStay
<1>1. TaskState'
  BY TaskStateStays DEF TasksStay
<1>2. Rows'
  BY DEF Rows, OpsStay, OpStays
<1>3. \A c : Awaits(c)' = Awaits(c)
  BY DEF Awaits
<1>4. Calls'
  <2>1. \A t \in Tasks : Awaits(t) => task'[t].at = "depend"
    BY DEF Calls, TasksStay, Moved
  <2>2. \A c \in Callers : Awaits(c) =>
          /\ frame[c].on \in Tasks
          /\ frame[c].how # "wait" => task'[frame[c].on].at \notin {"free", "lost"}
    BY DEF Calls, TasksStay, Moved
  <2>. QED
    BY <1>3, <2>1, <2>2 DEF Calls, OpsStay, OpStays
<1>5. Registry'
  <2>1. \A t \in Tasks : Live(t)' => materials[task'[t].target] = t
    BY DEF Registry, TasksStay, Moved, Live
  <2>2. \A m \in Mats : materials[m] # NoTask =>
          task'[materials[m]].target = m /\ task'[materials[m]].at \notin {"free", "lost"}
    <3>. SUFFICES ASSUME NEW m \in Mats, materials[m] # NoTask
         PROVE task'[materials[m]].target = m /\ task'[materials[m]].at \notin {"free", "lost"}
      OBVIOUS
    <3>1. materials[m] \in Tasks
      BY DEF TypeOK, SomeTask, Tasks, NoTask
    <3>. QED
      BY <3>1 DEF Registry, TasksStay, Moved
  <2>. QED
    BY <2>1, <2>2 DEF Registry
<1>6. Owned'
  <2>1. \A c \in Tasks, t \in Tasks : Owns(c, t) =>
          c < t /\ task'[t].target = task'[c].dependency
    BY DEF Owned, Owns, Awaits, TasksStay, Moved
  <2>2. \A m \in Mats : waits[m] # NoMat =>
          \E t \in Tasks : frame[t].how = "wait" /\ task'[t].target = m
    BY DEF Owned, TasksStay, Moved
  <2>. QED
    BY <2>1, <2>2 DEF Owned, Owns
<1>7. ASSUME NEW o \in Ops PROVE Past(o)' /\ Verdict(o)' /\ Present(o)'
  <2>1. ops[o].at = "run" => frame[o].on \in Tasks
    BY DEF Calls, Callers
  <2>2. ops'[o].at = ops[o].at /\ ops'[o].row = ops[o].row
        /\ ops'[o].rev = ops[o].rev /\ ops'[o].step = ops[o].step
    BY DEF OpsStay, OpStays
  <2>3. Past(o)'
    BY <2>2, AchievedStays DEF Past, Earned
  <2>4. Verdict(o)'
    BY <2>2, AchievedStays DEF Verdict, Earned
  <2>5. Present(o)'
    BY ZenonT(60), <2>1, <2>2 DEF Present, Earned, TasksStay, Moved
  <2>. QED
    BY <2>3, <2>4, <2>5
<1>8. Earned'
  BY <1>7 DEF Earned
<1>. QED
  BY <1>1, <1>2, <1>4, <1>5, <1>6, <1>8 DEF IInv

\* A task that is not at "depend" awaits nobody.
LEMMA NotAwaiting ==
  ASSUME Calls, NEW t \in Tasks, task[t].at # "depend"
  PROVE  ~Awaits(t)
BY DEF Calls

LEMMA EndedMoved ==
  ASSUME IInv, NEW t \in Tasks, Live(t), NEW outcome \in Outcomes \ {"none"},
         task' = EndedAs(t, outcome)
  PROVE  Moved(t) /\ \A u \in Tasks \ {t} : task'[u] = task[u]
<1>1. task \in [Tasks -> TaskRecords] /\ task[t] \in TaskRecords
  BY DEF IInv, TypeOK
<1>2. \A u \in Tasks \ {t} : task'[u] = task[u]
  BY <1>1 DEF EndedAs
<1>3. /\ task'[t].at = "done" /\ task'[t].outcome = outcome /\ task'[t].item = "none"
      /\ task'[t].target = task[t].target /\ task'[t].rev = task[t].rev
      /\ task'[t].row # "waiting"
  BY <1>1 DEF EndedAs, TaskRecords, Outcomes
<1>. QED
  BY <1>2, <1>3 DEF Moved, Depending

LEMMA EndedMoves ==
  ASSUME IInv, NEW t \in Tasks, Live(t), ~Awaits(t), NEW outcome \in Outcomes \ {"none"},
         task' = EndedAs(t, outcome)
  PROVE  TasksStay
BY EndedMoved DEF TasksStay

LEMMA ExecutionMoves ==
  ASSUME IInv, NEW t \in Tasks,
         Compile(t) \/ SubmitBegin(t) \/ SubmitEnd(t) \/ PollSuccess(t) \/ PollFailure(t)
  PROVE  TasksStay /\ OpsStay /\ UNCHANGED <<frame, materials, waits>>
<1>1. task \in [Tasks -> TaskRecords] /\ task[t] \in TaskRecords
  BY DEF IInv, TypeOK
<1>2. Live(t) /\ ~Awaits(t)
  BY NotAwaiting DEF IInv, Live, Compile, SubmitBegin, SubmitEnd, PollSuccess, PollFailure
<1>3. task[t].outcome = "none"
  BY <1>2 DEF IInv, TaskState, Live
<1>4. \A outcome \in {"success", "failed", "interrupted"} :
        task' = EndedAs(t, outcome) => TasksStay
  BY <1>2, EndedMoves DEF Outcomes
<1>5. CASE Compile(t)
  <2>1. CASE task' = EndedAs(t, "failed")
    BY <1>4, <1>5, <2>1 DEF Compile, OpsStay, OpStays
  <2>2. CASE task' # EndedAs(t, "failed")
    <3>1. /\ \A u \in Tasks \ {t} : task'[u] = task[u]
          /\ task'[t].at = "submit" /\ task'[t].row = "prepared"
          /\ task'[t].target = task[t].target /\ task'[t].rev = task[t].rev
          /\ task'[t].item = task[t].item /\ task'[t].outcome = task[t].outcome
      <4>1. PICK sources : task' = [task EXCEPT ![t].at = "submit", ![t].row = "prepared",
                                      ![t].resumed = Fresh(t), ![t].sources = sources]
        BY <1>5, <2>2 DEF Compile
      <4>. QED
        BY <1>1, <4>1
    <3>2. task[t].item = "none"
      BY <1>5 DEF Compile, IInv, TaskState
    <3>. QED
      BY <1>2, <1>3, <1>5, <3>1, <3>2
      DEF Compile, TasksStay, Moved, OpsStay, OpStays, Depending
  <2>. QED
    BY <2>1, <2>2
<1>6. CASE SubmitBegin(t)
  <2>1. CASE task' = EndedAs(t, "interrupted")
    BY <1>4, <1>6, <2>1 DEF SubmitBegin, OpsStay, OpStays
  <2>2. CASE task' # EndedAs(t, "interrupted")
    <3>1. task' = [task EXCEPT ![t].at = "validate"]
      BY <1>6, <2>2 DEF SubmitBegin
    <3>2. task[t].item = "none" /\ (task[t].row = "waiting" => task[t].dependency \in Mats)
      BY <1>6 DEF SubmitBegin, IInv, TaskState, Depending
    <3>. QED
      BY <1>1, <1>2, <1>3, <1>6, <3>1, <3>2
      DEF SubmitBegin, TasksStay, Moved, OpsStay, OpStays, Depending
  <2>. QED
    BY <2>1, <2>2
<1>7. CASE SubmitEnd(t)
  <2>1. CASE task' \in {EndedAs(t, "interrupted"), EndedAs(t, "failed")}
    BY <1>4, <1>7, <2>1 DEF SubmitEnd, OpsStay, OpStays
  <2>2. CASE task' \notin {EndedAs(t, "interrupted"), EndedAs(t, "failed")}
    <3>1. task' = [task EXCEPT ![t].at = "native", ![t].row = "queued", ![t].item = "queued"]
      BY <1>7, <2>2 DEF SubmitEnd
    <3>. QED
      BY <1>1, <1>2, <1>3, <1>7, <3>1 DEF SubmitEnd, TasksStay, Moved, OpsStay, OpStays, Depending
  <2>. QED
    BY <2>1, <2>2
<1>8. CASE PollSuccess(t)
  <2>1. ops \in [Ops -> OpRecords]
    BY DEF IInv, TypeOK
  <2>2. OpsStay
    BY <1>8, <2>1 DEF PollSuccess, OpsStay, OpStays, OpRecords
  <2>. QED
    BY <1>4, <1>8, <2>2 DEF PollSuccess
<1>9. CASE PollFailure(t)
  BY <1>4, <1>9 DEF PollFailure, OpsStay, OpStays
<1>. QED
  BY <1>5, <1>6, <1>7, <1>8, <1>9

LEMMA WorkerMoves ==
  ASSUME IInv, NEW t \in Tasks,
         WorkerStart(t) \/ WorkerBlocks(t) \/ WorkerPublishes(t) \/ WorkerEnds(t) \/ NativeRemove(t)
  PROVE  TasksStay /\ OpsStay /\ UNCHANGED <<frame, materials, waits>>
<1>1. task \in [Tasks -> TaskRecords] /\ task[t] \in TaskRecords
  BY DEF IInv, TypeOK
<1>2. task[t].item # "none"
  BY DEF WorkerStart, WorkerBlocks, WorkerPublishes, WorkerEnds, NativeRemove, OnWorker
<1>3. task[t].at = "native" /\ task[t].outcome = "none" /\ Live(t) /\ ~Awaits(t)
      /\ (task[t].row = "waiting" => task[t].dependency \in Mats)
  BY <1>2, NotAwaiting DEF IInv, TaskState, Live, Depending
<1>4. UNCHANGED <<ops, frame, materials, waits>>
  BY DEF WorkerStart, WorkerBlocks, WorkerPublishes, WorkerEnds, NativeRemove
<1>5. /\ \A u \in Tasks \ {t} : task'[u] = task[u]
      /\ task'[t].at = task[t].at /\ task'[t].outcome = task[t].outcome
      /\ task'[t].target = task[t].target /\ task'[t].rev = task[t].rev
      /\ task'[t].row = "waiting" => task'[t].dependency \in Mats
  <2>1. CASE WorkerStart(t)
    BY <1>1, <2>1 DEF WorkerStart
  <2>2. CASE WorkerBlocks(t)
    <3>1. PICK d \in Mats : task' = [task EXCEPT ![t].row = "waiting", ![t].dependency = d]
      BY <2>2 DEF WorkerBlocks, ReadBy
    <3>. QED
      BY <1>1, <3>1
  <2>3. CASE WorkerPublishes(t)
    <3>1. PICK s : task' = [task EXCEPT ![t].row = "success", ![t].selected = s]
      BY <2>3 DEF WorkerPublishes
    <3>. QED
      BY <1>1, <3>1
  <2>4. CASE WorkerEnds(t)
    <3>1. \/ task' = [task EXCEPT ![t].item = "over"]
          \/ task' = [task EXCEPT ![t].item = "over", ![t].row = "interrupted"]
          \/ task' = [task EXCEPT ![t].item = "over", ![t].row = "failed"]
      BY <2>4 DEF WorkerEnds
    <3>2. CASE task' = [task EXCEPT ![t].item = "over"]
      BY <1>1, <1>3, <3>2
    <3>3. CASE task' = [task EXCEPT ![t].item = "over", ![t].row = "interrupted"]
      BY <1>1, <3>3
    <3>4. CASE task' = [task EXCEPT ![t].item = "over", ![t].row = "failed"]
      BY <1>1, <3>4
    <3>. QED
      BY <3>1, <3>2, <3>3, <3>4
  <2>5. CASE NativeRemove(t)
    <3>1. PICK item : task' = [task EXCEPT ![t].item = item]
      BY <2>5 DEF NativeRemove
    <3>. QED
      BY <1>1, <1>3, <3>1
  <2>. QED
    BY <2>1, <2>2, <2>3, <2>4, <2>5
<1>. QED
  BY <1>3, <1>4, <1>5 DEF TasksStay, Moved, OpsStay, OpStays, Depending

LEMMA RequestMoves ==
  ASSUME IInv, NEW o \in Ops, Cancel(o) \/ Interrupt(o)
  PROVE  TasksStay /\ OpsStay /\ UNCHANGED <<frame, materials, waits>>
<1>1. task \in [Tasks -> TaskRecords] /\ ops \in [Ops -> OpRecords]
  BY DEF IInv, TypeOK
<1>2. OpsStay /\ UNCHANGED <<frame, materials, waits>>
  BY <1>1 DEF Cancel, Interrupt, OpsStay, OpStays, OpRecords
<1>3. CASE Cancel(o)
  BY <1>2, <1>3 DEF Cancel, TasksStay
<1>4. CASE Interrupt(o)
  <2>. SUFFICES ASSUME NEW t \in Tasks PROVE task'[t] = task[t] \/ (Moved(t) /\ ~Awaits(t))
    BY <1>2 DEF TasksStay
  <2>1. CASE task[t].item \in {"queued", "running"}
    <3>1. PICK item : task'[t] = [task[t] EXCEPT !.item = item]
      BY <1>4, <2>1 DEF Interrupt
    <3>2. task[t].at = "native" /\ task[t].outcome = "none" /\ Live(t) /\ ~Awaits(t)
          /\ (task[t].row = "waiting" => task[t].dependency \in Mats)
      BY <2>1, NotAwaiting DEF IInv, TaskState, Live, Depending
    <3>. QED
      BY <1>1, <3>1, <3>2 DEF Moved, TaskRecords, Depending
  <2>2. CASE task[t].item \notin {"queued", "running"}
    <3>1. task'[t] = [task[t] EXCEPT !.item = task[t].item]
      BY <1>4, <2>2 DEF Interrupt
    <3>. QED
      BY <1>1, <3>1 DEF TaskRecords
  <2>. QED
    BY <2>1, <2>2
<1>. QED
  BY <1>3, <1>4

-----------------------------------------------------------------------------
(* Steps that end a call.                                                   *)

\* What self.materials is when the call for m returns to c.
LEMMA UnregisteredKept ==
  ASSUME IInv, NEW c \in Callers, NEW m \in Mats, Ended(frame[c].on),
         frame[c].how = "own" => task[frame[c].on].target = m
  PROVE  Kept(c, Unregistered(c, m))
<1>1. Unregistered(c, m) \in [Mats -> SomeTask] /\ materials \in [Mats -> SomeTask]
  BY UnregisteredType DEF IInv, TypeOK
<1>2. ASSUME NEW x \in Mats, Owns(c, materials[x]), materials[x] # NoTask
      PROVE  x = m
  BY <1>2 DEF Owns, IInv, Registry
<1>3. ASSUME NEW x \in Mats
      PROVE  /\ Unregistered(c, m)[x] \in {materials[x], NoTask}
             /\ Unregistered(c, m)[x] = materials[x] \/ Ended(materials[x])
             /\ Unregistered(c, m)[x] # NoTask => ~Owns(c, Unregistered(c, m)[x])
  BY <1>1, <1>2 DEF Unregistered, Owns
<1>. QED
  BY <1>1, <1>3 DEF Kept

\* A caller that owns nothing finds the entries as they are.
LEMMA MaterialsKept ==
  ASSUME TypeOK, NEW c \in Callers, frame[c].how # "own"
  PROVE  Kept(c, materials)
BY DEF Kept, Owns, TypeOK

\* In a step of c no other task that was created changes, and nobody else's call.
OnlyMoves(c) ==
  /\ \A t \in Tasks : task[t].at # "free" => task'[t] = task[t] \/ (t = c /\ Moved(t))
  /\ \A d \in Callers \ {c} : frame'[d] = frame[d]

\* The call of c returns, if there was one, and c goes on.
LEMMA HoldKeeps ==
  ASSUME IInv, NEW c \in Callers, NEW owned, Kept(c, owned), materials' = owned,
         NEW held \in Frames, held.how = "none", frame' = [frame EXCEPT ![c] = held],
         \A t \in Tasks : task'[t] = task[t] \/ (t = c /\ Moved(t)),
         frame[c].how = "wait" => c \in Tasks,
         waits' = IF frame[c].how = "wait" THEN [waits EXCEPT ![task[c].target] = NoMat]
                  ELSE waits
  PROVE  TaskState' /\ Registry' /\ Owned' /\ OnlyMoves(c) /\ ~Awaits(c)'
<1>. /\ TaskState /\ Registry /\ Owned /\ frame \in [Callers -> Frames]
     /\ materials \in [Mats -> SomeTask] /\ waits \in [Mats -> Mats \union {NoMat}]
  BY DEF IInv, TypeOK, Callers
<1>1. TaskState'
  BY TaskStateStays
<1>2. /\ frame'[c].how = "none" /\ \A d \in Callers \ {c} : frame'[d] = frame[d]
  OBVIOUS
<1>3. Registry'
  <2>1. ASSUME NEW t \in Tasks, Live(t)' PROVE materials'[task'[t].target] = t
    <3>1. Live(t) /\ task'[t].target = task[t].target /\ task[t].target \in Mats
      BY <2>1 DEF Live, Moved, TaskState
    <3>2. materials[task[t].target] = t /\ ~Ended(t)
      BY <3>1 DEF Registry, Live, Ended
    <3>. QED
      BY <3>1, <3>2 DEF Kept
  <2>2. ASSUME NEW m \in Mats, materials'[m] # NoTask
        PROVE  /\ task'[materials'[m]].target = m
               /\ task'[materials'[m]].at \notin {"free", "lost"}
    <3>1. materials'[m] = materials[m] /\ materials[m] \in Tasks
      BY <2>2 DEF Kept, SomeTask, Tasks, NoTask
    <3>. QED
      BY <2>2, <3>1 DEF Registry, Moved
  <2>. QED
    BY <2>1, <2>2 DEF Registry
<1>4. Owned'
  <2>1. ASSUME NEW m \in Mats, materials'[m] # NoTask
        PROVE  \E d \in Callers : Owns(d, materials[m])'
    <3>1. materials'[m] = materials[m] /\ ~Owns(c, materials[m])
      BY <2>1 DEF Kept
    <3>2. PICK d \in Callers : Owns(d, materials[m])
      BY <2>1, <3>1 DEF Owned
    <3>. QED
      BY <1>2, <3>1, <3>2 DEF Owns
  <2>2. ASSUME NEW d \in Tasks, NEW t \in Tasks, Owns(d, t)'
        PROVE  d < t /\ task'[t].target = task'[d].dependency
    <3>1. d # c /\ Owns(d, t)
      BY <1>2, <2>2 DEF Owns, Callers
    <3>2. task'[d] = task[d] /\ task'[t].target = task[t].target
      BY <3>1 DEF Moved
    <3>. QED
      BY <3>1, <3>2 DEF Owned
  <2>3. ASSUME NEW m \in Mats, waits'[m] # NoMat
        PROVE  \E t \in Tasks : frame'[t].how = "wait" /\ task'[t].target = m
    <3>1. waits[m] # NoMat /\ (frame[c].how = "wait" => m # task[c].target)
      <4>1. CASE frame[c].how = "wait"
        BY <2>3, <4>1
      <4>2. CASE frame[c].how # "wait"
        BY <2>3, <4>2
      <4>. QED
        BY <4>1, <4>2
    <3>2. PICK t \in Tasks : frame[t].how = "wait" /\ task[t].target = m
      BY <3>1 DEF Owned
    <3>3. t # c
      BY <3>1, <3>2
    <3>. QED
      BY <1>2, <3>2, <3>3 DEF Callers
  <2>. QED
    BY <2>1, <2>2, <2>3 DEF Owned, Owns
<1>5. OnlyMoves(c) /\ ~Awaits(c)'
  BY <1>2 DEF OnlyMoves, Awaits
<1>. QED
  BY <1>1, <1>3, <1>4, <1>5

LEMMA ReturnKeeps ==
  ASSUME IInv, NEW c \in Callers, NEW owned, Kept(c, owned), materials' = owned,
         frame' = [frame EXCEPT ![c] = NoFrame],
         \A t \in Tasks : task'[t] = task[t] \/ (t = c /\ Moved(t)),
         frame[c].how = "wait" => c \in Tasks,
         waits' = IF frame[c].how = "wait" THEN [waits EXCEPT ![task[c].target] = NoMat]
                  ELSE waits
  PROVE  TaskState' /\ Registry' /\ Owned' /\ OnlyMoves(c) /\ ~Awaits(c)'
<1>1. NoFrame \in Frames /\ NoFrame.how = "none"
  BY Constants DEF NoFrame
<1>. QED
  BY <1>1, HoldKeeps

-----------------------------------------------------------------------------
(* Steps that call _material.                                               *)

\* What c awaits after its call for m at rev.
Awaiting(c, m, rev) ==
  /\ Awaits(c) /\ frame[c].rev = rev /\ frame[c].how \in {"own", "share", "previous"}
  /\ frame[c].on \in Tasks /\ task[frame[c].on].at \notin {"free", "lost"}
  /\ task[frame[c].on].target = m
  /\ frame[c].how # "previous" => task[frame[c].on].rev = rev

LEMMA JoinKeeps ==
  ASSUME IInv, NEW c \in Callers, NEW owned, Kept(c, owned), NEW m \in Mats, NEW rev,
         frame' \in [Callers -> Frames], frame'[c].rev = rev,
         \A d \in Callers \ {c} : frame'[d] = frame[d],
         OldTask(c, owned, m, rev), UNCHANGED waits, frame[c].how # "wait"
  PROVE  TaskState' /\ Registry' /\ Owned' /\ OnlyMoves(c) /\ Awaiting(c, m, rev)'
<1>. /\ TaskState /\ Registry /\ Owned /\ materials \in [Mats -> SomeTask]
     /\ task' = task /\ materials' = owned
     /\ frame'[c].how \in {"share", "previous"} /\ frame'[c].on = owned[m]
  BY DEF IInv, TypeOK, OldTask
<1>1. TaskState' /\ OnlyMoves(c)
  BY DEF TaskState, OnlyMoves
<1>2. \A x \in Mats : owned[x] # NoTask => owned[x] = materials[x] /\ owned[x] \in Tasks
  BY DEF Kept, SomeTask, Tasks, NoTask
<1>3. Registry'
  <2>1. ASSUME NEW t \in Tasks, Live(t) PROVE owned[task[t].target] = t
    BY <2>1 DEF Registry, Live, Ended, Kept, TaskState
  <2>. QED
    BY <1>2, <2>1 DEF Registry, Live
<1>4. Owned'
  <2>1. ASSUME NEW x \in Mats, owned[x] # NoTask
        PROVE  \E d \in Callers : Owns(d, owned[x])'
    <3>1. PICK d \in Callers : Owns(d, owned[x])
      BY <1>2, <2>1 DEF Owned
    <3>. QED
      BY <2>1, <3>1 DEF Owns, Kept
  <2>2. \A d \in Tasks, t \in Tasks : Owns(d, t)' => Owns(d, t)
    BY DEF Owns, Callers
  <2>3. \A t \in Tasks : frame[t].how = "wait" => frame'[t].how = "wait"
    BY DEF Callers
  <2>. QED
    BY <2>1, <2>2, <2>3 DEF Owned, Owns
<1>5. Awaiting(c, m, rev)'
  <2>1. owned[m] # NoTask /\ (frame'[c].how = "share" => task[owned[m]].rev = rev)
    BY DEF OldTask
  <2>. QED
    BY <1>2, <2>1 DEF Awaiting, Awaits, Registry
<1>. QED
  BY <1>1, <1>3, <1>4, <1>5

LEMMA CreateKeeps ==
  ASSUME IInv, NEW c \in Callers, NEW owned, Kept(c, owned), NEW m \in Mats, NEW rev,
         frame' \in [Callers -> Frames], frame'[c].rev = rev,
         \A d \in Callers \ {c} : frame'[d] = frame[d],
         NewTask(c, owned, m, rev), owned[m] = NoTask \/ Ended(owned[m]),
         UNCHANGED waits, frame[c].how # "wait",
         c \in Tasks => task[c].at = "depend" /\ task[c].dependency = m
  PROVE  TaskState' /\ Registry' /\ Owned' /\ OnlyMoves(c) /\ Awaiting(c, m, rev)'
<1>. TaskState /\ Calls /\ Registry /\ Owned /\ materials \in [Mats -> SomeTask]
  BY DEF IInv, TypeOK
<1>1. PICK n \in Tasks :
        /\ task[n].at = "free" /\ \A u \in 1..(n - 1) : task[u].at # "free"
        /\ \A u \in Tasks \ {n} : task'[u] = task[u]
        /\ task'[n].at = "compile" /\ task'[n].target = m /\ task'[n].rev = rev
        /\ task'[n].item = "none" /\ task'[n].outcome = "none" /\ task'[n].row = "none"
        /\ materials' = [owned EXCEPT ![m] = n]
        /\ frame'[c].how = "own" /\ frame'[c].on = n
  BY DEF NewTask
<1>2. /\ materials'[m] = n /\ \A x \in Mats \ {m} : materials'[x] = owned[x]
      /\ \A x \in Mats : owned[x] # NoTask => owned[x] = materials[x] /\ owned[x] \in Tasks
  BY <1>1 DEF Kept, SomeTask, Tasks, NoTask
<1>3. OnlyMoves(c)
  BY <1>1 DEF OnlyMoves
<1>4. TaskState'
  <2>1. \A t \in Tasks : 1..(t - 1) \subseteq Tasks
    BY TasksAssumption DEF Tasks
  <2>2. \A t \in Tasks : task[t].at # "free" => task'[t].at # "free"
    BY <1>1
  <2>3. \A t \in Tasks : task'[t].at # "free" => \A u \in 1..(t - 1) : task'[u].at # "free"
    BY <1>1, <2>1, <2>2 DEF TaskState
  <2>. QED
    BY <1>1, <2>3 DEF TaskState, Depending
<1>5. Registry'
  <2>1. ASSUME NEW t \in Tasks, Live(t)' PROVE materials'[task'[t].target] = t
    <3>1. CASE t = n
      BY <1>1, <1>2, <3>1
    <3>2. CASE t # n
      <4>1. Live(t) /\ task'[t].target = task[t].target /\ task[t].target \in Mats
        BY <1>1, <2>1, <3>2 DEF Live, TaskState
      <4>2. materials[task[t].target] = t /\ ~Ended(t)
        BY <4>1 DEF Registry, Live, Ended
      <4>3. owned[task[t].target] = t
        BY <4>1, <4>2 DEF Kept
      <4>4. task[t].target # m
        BY <4>2, <4>3, Constants
      <4>. QED
        BY <1>2, <4>1, <4>3, <4>4
    <3>. QED
      BY <3>1, <3>2
  <2>2. ASSUME NEW x \in Mats, materials'[x] # NoTask
        PROVE  /\ task'[materials'[x]].target = x
               /\ task'[materials'[x]].at \notin {"free", "lost"}
    <3>1. CASE x = m
      BY <1>1, <1>2, <3>1
    <3>2. CASE x # m
      <4>1. /\ materials'[x] = materials[x] /\ materials[x] \in Tasks
            /\ task[materials[x]].target = x /\ task[materials[x]].at \notin {"free", "lost"}
        BY <1>2, <2>2, <3>2 DEF Registry
      <4>. QED
        BY <1>1, <4>1
    <3>. QED
      BY <3>1, <3>2
  <2>. QED
    BY <2>1, <2>2 DEF Registry
<1>6. Owned'
  <2>1. ASSUME NEW x \in Mats, materials'[x] # NoTask
        PROVE  \E d \in Callers : frame'[d].how = "own" /\ frame'[d].on = materials'[x]
    <3>1. CASE x = m
      BY <1>1, <1>2, <3>1
    <3>2. CASE x # m
      <4>1. materials'[x] = owned[x] /\ owned[x] = materials[x] /\ owned[x] # NoTask
        BY <1>2, <2>1, <3>2
      <4>2. PICK d \in Callers : Owns(d, owned[x])
        BY <4>1 DEF Owned
      <4>. QED
        BY <4>1, <4>2 DEF Owns, Kept
    <3>. QED
      BY <3>1, <3>2
  <2>2. ASSUME NEW d \in Tasks, NEW t \in Tasks, Owns(d, t)'
        PROVE  d < t /\ task'[t].target = task'[d].dependency
    <3>1. CASE d = c
      <4>1. t = n /\ task[c].at = "depend" /\ task[c].dependency = m /\ c # n
        BY <1>1, <2>2, <3>1 DEF Owns
      <4>2. ~(n \in 1..(c - 1))
        BY <1>1, <3>1, <4>1 DEF TaskState
      <4>3. c < n
        BY <3>1, <4>1, <4>2, TasksAssumption DEF Tasks
      <4>. QED
        BY <1>1, <3>1, <4>1, <4>3
    <3>2. CASE d # c
      <4>1. Owns(d, t) /\ Awaits(d)
        BY <2>2, <3>2 DEF Owns, Awaits, Callers
      <4>2. task[d].at = "depend" /\ task[t].at # "free"
        BY <4>1 DEF Calls, Owns, Callers
      <4>. QED
        BY <1>1, <4>1, <4>2 DEF Owned
    <3>. QED
      BY <3>1, <3>2
  <2>3. ASSUME NEW x \in Mats, waits[x] # NoMat
        PROVE  \E t \in Tasks : frame'[t].how = "wait" /\ task'[t].target = x
    <3>1. PICK t \in Tasks : frame[t].how = "wait" /\ task[t].target = x
      BY <2>3 DEF Owned
    <3>2. t # c /\ task[t].at = "depend"
      BY <3>1 DEF Calls, Awaits
    <3>. QED
      BY <1>1, <3>1, <3>2 DEF Callers
  <2>. QED
    BY <2>1, <2>2, <2>3 DEF Owned, Owns
<1>7. Awaiting(c, m, rev)'
  BY <1>1 DEF Awaiting, Awaits
<1>. QED
  BY <1>3, <1>4, <1>5, <1>6, <1>7

LEMMA CallKeeps ==
  ASSUME IInv, NEW c \in Callers, NEW owned, Kept(c, owned), NEW m \in Mats, NEW rev,
         Called(c, owned, m, rev), UNCHANGED waits, frame[c].how # "wait",
         c \in Tasks => task[c].at = "depend" /\ task[c].dependency = m
  PROVE  TaskState' /\ Registry' /\ Owned' /\ OnlyMoves(c) /\ Awaiting(c, m, rev)'
<1>1. CASE NewTask(c, owned, m, rev) /\ (owned[m] = NoTask \/ Ended(owned[m]))
  BY <1>1, CreateKeeps DEF Called
<1>2. CASE OldTask(c, owned, m, rev)
  BY <1>2, JoinKeeps DEF Called, OldTask
<1>. QED
  BY <1>1, <1>2 DEF Called

-----------------------------------------------------------------------------
(* The step of one caller keeps the invariant.                              *)

\* What the other operations achieved and await is as it was.
LEMMA EarnedStays ==
  ASSUME IInv, NEW c \in Callers, OnlyMoves(c), NEW o \in Ops, o # c, OpStays(o)
  PROVE  Past(o)' /\ Verdict(o)' /\ Present(o)'
<1>. TaskState /\ Past(o) /\ Verdict(o) /\ Present(o) /\ o \in Callers
  BY DEF IInv, Earned, Callers
<1>. MayMove
  BY DEF OnlyMoves, MayMove
<1>. ops'[o].at = ops[o].at /\ ops'[o].row = ops[o].row
     /\ ops'[o].rev = ops[o].rev /\ ops'[o].step = ops[o].step
  BY DEF OpStays
<1>1. Past(o)'
  BY AchievedStays DEF Past
<1>2. Verdict(o)'
  BY AchievedStays DEF Verdict
<1>3. Present(o)'
  <2>1. CASE ops[o].at = "run"
    <3>1. frame'[o] = frame[o] /\ frame[o].on \in Tasks /\ task[frame[o].on].at # "free"
      BY <2>1 DEF OnlyMoves, IInv, Calls, Present
    <3>2. /\ task'[frame[o].on].target = task[frame[o].on].target
          /\ task'[frame[o].on].rev = task[frame[o].on].rev
      BY <3>1 DEF OnlyMoves, Moved
    <3>. QED
      BY <3>1, <3>2 DEF Present
  <2>2. CASE ops[o].at # "run"
    BY <2>2 DEF Present
  <2>. QED
    BY <2>1, <2>2
<1>. QED
  BY <1>1, <1>2, <1>3

\* What the callers other than c await is as it was.
LEMMA CallsStay ==
  ASSUME IInv, NEW c \in Callers, OnlyMoves(c), NEW d \in Callers, d # c, Awaits(d)'
  PROVE  /\ Awaits(d) /\ (d \in Tasks => task'[d].at = "depend")
         /\ frame'[d].on \in Tasks
         /\ frame'[d].how # "wait" => task'[frame'[d].on].at \notin {"free", "lost"}
<1>1. frame'[d] = frame[d] /\ Awaits(d)
  BY DEF OnlyMoves, Awaits
<1>2. /\ frame[d].on \in Tasks /\ (d \in Tasks => task[d].at = "depend")
      /\ frame[d].how # "wait" => task[frame[d].on].at \notin {"free", "lost"}
  BY <1>1 DEF IInv, Calls
<1>. QED
  BY <1>1, <1>2 DEF OnlyMoves, Moved

LEMMA TaskKeeps ==
  ASSUME IInv, TypeOK', NEW c \in Tasks, OnlyMoves(c), TaskState', Registry', Owned', OpsStay,
         Awaits(c)' => /\ task'[c].at = "depend" /\ frame'[c].on \in Tasks
                       /\ frame'[c].how # "wait" =>
                            task'[frame'[c].on].at \notin {"free", "lost"}
  PROVE  IInv'
<1>. c \in Callers /\ c \notin Ops /\ \A o \in Ops : o \in Callers /\ o # c
  BY Constants DEF Callers
<1>1. Rows'
  BY DEF IInv, Rows, OpsStay, OpStays
<1>2. Calls'
  <2>1. \A o \in Ops : ops'[o].at = "run" <=> Awaits(o)'
    <3>1. \A o \in Ops : frame'[o] = frame[o] /\ ops'[o].at = ops[o].at
      BY DEF OnlyMoves, OpsStay, OpStays
    <3>. QED
      BY <3>1 DEF IInv, Calls, Awaits
  <2>2. \A t \in Tasks : Awaits(t)' => task'[t].at = "depend"
    BY CallsStay DEF Callers
  <2>3. \A d \in Callers : Awaits(d)' =>
          /\ frame'[d].on \in Tasks
          /\ frame'[d].how # "wait" => task'[frame'[d].on].at \notin {"free", "lost"}
    BY CallsStay
  <2>. QED
    BY <2>1, <2>2, <2>3 DEF Calls
<1>3. Earned'
  BY EarnedStays DEF Earned, OpsStay
<1>. QED
  BY <1>1, <1>2, <1>3 DEF IInv

LEMMA OpKeeps ==
  ASSUME IInv, TypeOK', NEW o \in Ops, OnlyMoves(o), TaskState', Registry', Owned',
         \A p \in Ops \ {o} : ops'[p] = ops[p],
         ops'[o].at \in {"idle", "snapshot"} => ops'[o].row = "none",
         ops'[o].at \in {"queued", "run"} => ops'[o].row \in {"queued", "running"},
         ops'[o].at = "run" <=> Awaits(o)',
         Awaits(o)' => /\ frame'[o].on \in Tasks
                       /\ frame'[o].how # "wait" =>
                            task'[frame'[o].on].at \notin {"free", "lost"},
         Past(o)', Verdict(o)', Present(o)'
  PROVE  IInv'
<1>. o \in Callers /\ \A t \in Tasks : t \in Callers /\ t # o
  BY Constants DEF Callers
<1>. \A p \in Ops \ {o} : OpStays(p)
  BY DEF OpStays
<1>1. Rows'
  BY DEF IInv, Rows
<1>2. Calls'
  <2>1. \A p \in Ops : ops'[p].at = "run" <=> Awaits(p)'
    <3>1. \A p \in Ops \ {o} : frame'[p] = frame[p]
      BY DEF OnlyMoves, Callers
    <3>. QED
      BY <3>1 DEF IInv, Calls, Awaits
  <2>2. \A t \in Tasks : Awaits(t)' => task'[t].at = "depend"
    BY CallsStay
  <2>3. \A d \in Callers : Awaits(d)' =>
          /\ frame'[d].on \in Tasks
          /\ frame'[d].how # "wait" => task'[frame'[d].on].at \notin {"free", "lost"}
    BY CallsStay
  <2>. QED
    BY <2>1, <2>2, <2>3 DEF Calls
<1>3. Earned'
  BY EarnedStays DEF Earned
<1>. QED
  BY <1>1, <1>2, <1>3 DEF IInv

\* A step of an operation that concerns no task and no call.
LEMMA OpOnlyKeeps ==
  ASSUME IInv, TypeOK', NEW o \in Ops, UNCHANGED <<task, frame, materials, waits>>,
         \A p \in Ops \ {o} : ops'[p] = ops[p], ops[o].at # "run", ops'[o].at # "run",
         ops'[o].at \in {"idle", "snapshot"} => ops'[o].row = "none",
         ops'[o].at = "queued" => ops'[o].row \in {"queued", "running"},
         ops'[o].row # "success"
  PROVE  IInv'
<1>1. TaskState' /\ Registry' /\ Owned' /\ OnlyMoves(o) /\ Awaits(o)' = Awaits(o)
  BY DEF IInv, TaskState, Registry, Owned, Owns, OnlyMoves, Awaits, Live
<1>2. ~Awaits(o)'
  BY <1>1 DEF IInv, Calls
<1>3. Past(o)' /\ Verdict(o)' /\ Present(o)'
  BY DEF Past, Verdict, Present
<1>. QED
  BY <1>1, <1>2, <1>3, OpKeeps

LEMMA StartKeeps ==
  ASSUME IInv, TypeOK', NEW o \in Ops,
         StartSnapshot(o) \/ StartShared(o) \/ StartQueued(o) \/ Status(o)
  PROVE  IInv'
<1>. ops \in [Ops -> OpRecords] /\ ops[o] \in OpRecords /\ Rows
  BY DEF IInv, TypeOK
<1>1. UNCHANGED <<task, frame, materials, waits>> /\ \A p \in Ops \ {o} : ops'[p] = ops[p]
  BY DEF StartSnapshot, StartShared, StartQueued, Status
<1>2. CASE StartSnapshot(o)
  <2>1. ops'[o].at = "snapshot" /\ ops'[o].row = ops[o].row /\ ops[o].row = "none"
        /\ ops[o].at = "idle"
    BY <1>2 DEF StartSnapshot, OpRecords, Rows
  <2>. QED
    BY <1>1, <2>1, OpOnlyKeeps
<1>3. CASE StartShared(o)
  <2>1. ops'[o].at = "done" /\ ops'[o].row = "none" /\ ops[o].at = "snapshot"
    BY <1>3 DEF StartShared, NewOp
  <2>. QED
    BY <1>1, <2>1, OpOnlyKeeps
<1>4. CASE StartQueued(o)
  <2>1. ops'[o].at = "queued" /\ ops'[o].row = "queued" /\ ops[o].at = "snapshot"
    BY <1>4 DEF StartQueued, OpRecords
  <2>. QED
    BY <1>1, <2>1, OpOnlyKeeps
<1>5. CASE Status(o)
  <2>1. /\ ops'[o].at = ops[o].at /\ ops'[o].row = "interrupted"
        /\ ops[o].at \notin {"idle", "snapshot", "queued", "run"}
    BY <1>5 DEF Status, OpRecords, Rows, Active
  <2>. QED
    BY <1>1, <2>1, OpOnlyKeeps
<1>. QED
  BY <1>2, <1>3, <1>4, <1>5

LEMMA FinishKeeps ==
  ASSUME IInv, TypeOK', NEW o \in Ops, NEW status \in Final, NEW owned, Kept(o, owned),
         Finish(o, status, owned), UNCHANGED waits, frame[o].how # "wait",
         status = "success" => \A i \in DOMAIN Plan[o] : Achieved(Plan[o][i], ops[o].rev)
  PROVE  IInv'
<1>. ops \in [Ops -> OpRecords] /\ ops[o] \in OpRecords /\ o \in Callers /\ TaskState
  BY DEF IInv, TypeOK, Callers
<1>1. /\ ops'[o].at = "done" /\ ops'[o].row = status /\ ops'[o].rev = ops[o].rev
      /\ \A p \in Ops \ {o} : ops'[p] = ops[p]
      /\ frame' = [frame EXCEPT ![o] = NoFrame] /\ materials' = owned /\ task' = task
  BY DEF Finish, OpRecords
<1>2. TaskState' /\ Registry' /\ Owned' /\ OnlyMoves(o) /\ ~Awaits(o)'
  BY <1>1, ReturnKeeps
<1>3. Past(o)' /\ Present(o)'
  BY <1>1 DEF Past, Present
<1>4. Verdict(o)'
  BY <1>1, <1>2, AchievedStays DEF Verdict, MayMove
<1>. QED
  BY <1>1, <1>2, <1>3, <1>4, OpKeeps

LEMMA AdvanceKeeps ==
  ASSUME IInv, TypeOK', NEW o \in Ops, NEW n \in Nat, NEW owned, Kept(o, owned),
         Advance(o, n, owned), UNCHANGED waits, frame[o].how # "wait",
         \A i \in 1..n : Achieved(Plan[o][i], ops[o].rev)
  PROVE  IInv'
<1>. ops \in [Ops -> OpRecords] /\ ops[o] \in OpRecords /\ o \in Callers /\ TaskState /\ TypeOK
  BY DEF IInv, TypeOK, Callers
<1>. Plan[o] \in Seq(Mats)
  BY TasksAssumption
<1>1. CASE n = Len(Plan[o]) /\ Finish(o, "success", owned)
  BY <1>1, FinishKeeps DEF Final
<1>2. CASE Finish(o, "cancelled", owned)
  BY <1>2, FinishKeeps DEF Final
<1>3. CASE /\ n < Len(Plan[o])
           /\ ops' = [ops EXCEPT ![o].at = "run", ![o].row = "running", ![o].step = n]
           /\ Material(o, owned, Plan[o][n + 1], ops[o].rev, ops[o].shown[Plan[o][n + 1]],
                       ops[o].shown[Plan[o][n + 1]], {}, o, ops[o].pending)
  <2>. DEFINE m == Plan[o][n + 1]
  <2>. PICK rev : rev = ops[o].rev
    OBVIOUS
  <2>1. m \in Mats /\ n + 1 \in DOMAIN Plan[o]
    BY <1>3
  <2>2. /\ ops[o].rev \in Revisions /\ ops[o].pending \in [Mats -> SomeTask]
        /\ ops[o].shown[m] \in Nat
    BY <2>1 DEF OpRecords
  <2>3. Called(o, owned, m, rev)
    <3>1. owned \in [Mats -> SomeTask]
      BY DEF Kept
    <3>. QED
      BY <1>3, <2>1, <2>2, <3>1, MaterialCalls
  <2>4. TaskState' /\ Registry' /\ Owned' /\ OnlyMoves(o) /\ Awaiting(o, m, rev)'
    BY <2>1, <2>3, Constants, CallKeeps
  <2>5. /\ ops'[o].at = "run" /\ ops'[o].row = "running" /\ ops'[o].step = n
        /\ ops'[o].rev = ops[o].rev /\ \A p \in Ops \ {o} : ops'[p] = ops[p]
    BY <1>3 DEF OpRecords
  <2>6. Past(o)'
    BY <2>4, <2>5, AchievedStays DEF Past, OnlyMoves, MayMove
  <2>7. Verdict(o)' /\ Present(o)'
    BY <2>1, <2>4, <2>5 DEF Verdict, Present, Awaiting
  <2>8. Awaits(o)' /\ frame'[o].on \in Tasks /\ task'[frame'[o].on].at \notin {"free", "lost"}
    BY <2>4 DEF Awaiting
  <2>. QED
    BY <2>4, <2>5, <2>6, <2>7, <2>8, OpKeeps
<1>. QED
  BY <1>1, <1>2, <1>3 DEF Advance

LEMMA OpBeginKeeps ==
  ASSUME IInv, TypeOK', NEW o \in Ops, OpBegin(o)
  PROVE  IInv'
<1>1. frame[o].how = "none"
  BY DEF IInv, Calls, OpBegin, Awaits
<1>2. Kept(o, materials)
  BY <1>1, MaterialsKept DEF IInv, Callers
<1>. QED
  BY <1>1, <1>2, AdvanceKeeps DEF OpBegin

LEMMA OpResumeKeeps ==
  ASSUME IInv, TypeOK', NEW o \in Ops, OpResume(o)
  PROVE  IInv'
<1>. DEFINE m == Plan[o][ops[o].step + 1]
<1>1. /\ ops[o].at = "run" /\ Ended(frame[o].on) /\ UNCHANGED waits
      /\ ops[o].step \in Nat /\ ops[o].step + 1 \in DOMAIN Plan[o] /\ m \in Mats
      /\ frame[o].on \in Tasks /\ task[frame[o].on].outcome \in Outcomes \ {"none"}
  BY ResumedType DEF OpResume
<1>2. /\ frame[o].rev = ops[o].rev /\ frame[o].how \in {"own", "share", "previous"}
      /\ task[frame[o].on].target = m
      /\ frame[o].how # "previous" => task[frame[o].on].rev = ops[o].rev
  BY <1>1 DEF IInv, Earned, Present
<1>3. Kept(o, Unregistered(o, m))
  BY <1>1, <1>2, UnregisteredKept DEF Callers
<1>4. CASE /\ frame[o].how = "previous"
           /\ Again(o, m, {}, o, ops[o].pending) /\ UNCHANGED ops
  <2>1. ops[o] \in OpRecords /\ ops[o].pending \in [Mats -> SomeTask] /\ TypeOK /\ TaskState
    BY DEF IInv, TypeOK, OpRecords
  <2>2. Called(o, materials, m, ops[o].rev)
    BY <1>1, <1>2, <1>4, <2>1, AgainCalls DEF Callers
  <2>3. Kept(o, materials)
    BY <1>4, <2>1, MaterialsKept DEF Callers
  <2>4. TaskState' /\ Registry' /\ Owned' /\ OnlyMoves(o) /\ Awaiting(o, m, ops[o].rev)'
    BY <1>1, <1>4, <2>2, <2>3, Constants, CallKeeps DEF Callers
  <2>5. Past(o)' /\ Verdict(o)' /\ Present(o)'
    <3>1. Past(o)'
      BY <1>1, <1>4, <2>1, <2>4, AchievedStays DEF Past, OnlyMoves, MayMove, IInv, Earned
    <3>2. Verdict(o)' /\ Present(o)'
      BY <1>1, <1>4, <2>4 DEF Verdict, Present, Awaiting, IInv, Rows
    <3>. QED
      BY <3>1, <3>2
  <2>6. Awaits(o)' /\ frame'[o].on \in Tasks /\ task'[frame'[o].on].at \notin {"free", "lost"}
    BY <2>4 DEF Awaiting
  <2>. QED
    BY <1>1, <1>4, <2>4, <2>5, <2>6, OpKeeps DEF IInv, Rows
<1>5. CASE /\ frame[o].how # "previous" /\ task[frame[o].on].outcome = "success"
           /\ task[frame[o].on].selected
           /\ Advance(o, ops[o].step + 1, Unregistered(o, m))
  <2>1. Achieved(m, ops[o].rev)
    BY <1>1, <1>2, <1>5 DEF Achieved
  <2>2. \A i \in 1..(ops[o].step + 1) : Achieved(Plan[o][i], ops[o].rev)
    <3>1. \A i \in 1..ops[o].step : Achieved(Plan[o][i], ops[o].rev)
      BY <1>1 DEF IInv, Earned, Past
    <3>2. \A i \in 1..(ops[o].step + 1) : i \in 1..ops[o].step \/ i = ops[o].step + 1
      BY <1>1
    <3>. QED
      BY <2>1, <3>1, <3>2
  <2>. QED
    BY <1>1, <1>2, <1>3, <1>5, <2>2, AdvanceKeeps
<1>6. CASE Finish(o, "selection_changed", Unregistered(o, m))
  BY <1>1, <1>2, <1>3, <1>6, FinishKeeps DEF Final
<1>7. CASE /\ task[frame[o].on].outcome # "success"
           /\ Finish(o, task[frame[o].on].outcome, Unregistered(o, m))
  <2>1. task[frame[o].on].outcome \in Final
    BY <1>1 DEF Outcomes, Final
  <2>. QED
    BY <1>1, <1>2, <1>3, <1>7, <2>1, FinishKeeps
<1>. QED
  BY <1>4, <1>5, <1>6, <1>7 DEF OpResume

-----------------------------------------------------------------------------
(* Tasks that wait for a material.                                          *)

LEMMA CalledStays ==
  ASSUME NEW c \in Tasks, task[c].at # "free", NEW owned, NEW m, NEW rev,
         Called(c, owned, m, rev)
  PROVE  task'[c] = task[c]
BY DEF Called, NewTask, OldTask

LEMMA WaitingStays ==
  ASSUME IInv, NEW t \in Tasks,
         PollWaiting(t) \/ DependSnapshot(t) \/ Depend(t) \/ DependResume(t)
  PROVE  OpsStay
<1>1. ops \in [Ops -> OpRecords]
  BY DEF IInv, TypeOK
<1>2. CASE UNCHANGED ops
  BY <1>2 DEF OpsStay, OpStays
<1>3. CASE ~ UNCHANGED ops
  <2>1. PICK o, generated : ops' = [ops EXCEPT ![o].generated = generated]
    BY <1>3 DEF PollWaiting, DependSnapshot, Depend, DependResume
  <2>. QED
    BY <1>1, <2>1 DEF OpsStay, OpStays, OpRecords
<1>. QED
  BY <1>2, <1>3

\* t, at "depend", calls _material for its dependency.
LEMMA DependCalls ==
  ASSUME IInv, TypeOK', NEW t \in Tasks, task[t].at = "depend", NEW rev,
         Called(t, materials, task[t].dependency, rev), UNCHANGED <<ops, waits>>,
         frame[t].how \notin {"own", "wait"}
  PROVE  IInv'
<1>. PICK m : m = task[t].dependency
  OBVIOUS
<1>1. m \in Mats /\ t \in Callers /\ Called(t, materials, m, rev) /\ TypeOK
  BY DEF IInv, TaskState, Callers, Depending
<1>2. Kept(t, materials)
  BY <1>1, MaterialsKept
<1>3. TaskState' /\ Registry' /\ Owned' /\ OnlyMoves(t) /\ Awaiting(t, m, rev)'
  BY <1>1, <1>2, CallKeeps
<1>4. task'[t].at = "depend"
  BY <1>1, CalledStays
<1>5. OpsStay
  BY DEF OpsStay, OpStays
<1>. QED
  BY <1>3, <1>4, <1>5, TaskKeeps DEF Awaiting

\* A snapshot that is held is no call.
LEMMA DependSnapshotKeeps ==
  ASSUME IInv, TypeOK', NEW t \in Tasks, DependSnapshot(t)
  PROVE  IInv'
<1>1. /\ task[t].at = "snapshot" /\ task[t].dependency \in Mats /\ Live(t) /\ ~Awaits(t)
      /\ UNCHANGED <<ops, materials, waits>> /\ t \in Callers /\ TypeOK
      /\ task[t] \in TaskRecords /\ task \in [Tasks -> TaskRecords]
      /\ materials \in [Mats -> SomeTask]
  BY NotAwaiting
  DEF DependSnapshot, IInv, TaskState, Depending, Live, TypeOK, Callers
<1>2. Moved(t) /\ \A x \in Tasks \ {t} : task'[x] = task[x]
  <2>1. task' = [task EXCEPT ![t].at = "depend"]
    BY DEF DependSnapshot
  <2>2. task[t].outcome = "none" /\ task[t].item = "none"
    BY <1>1 DEF IInv, TaskState
  <2>. QED
    BY <1>1, <2>1, <2>2 DEF Moved, TaskRecords
<1>3. PICK held \in Frames : held.how = "none" /\ frame' = [frame EXCEPT ![t] = held]
  <2>1. canvas \in Revisions /\ selection[task[t].dependency] \in Nat
    BY <1>1 DEF TypeOK
  <2>. QED
    BY <2>1, Constants DEF DependSnapshot, NoFrame, Frames
<1>4. Kept(t, materials)
  BY <1>1, MaterialsKept DEF Awaits
<1>5. TaskState' /\ Registry' /\ Owned' /\ OnlyMoves(t) /\ ~Awaits(t)'
  <2>1. frame[t].how # "wait"
    BY <1>1 DEF Awaits
  <2>. QED
    BY <1>1, <1>2, <1>3, <1>4, <2>1, HoldKeeps
<1>. QED
  BY <1>1, <1>5, TaskKeeps DEF OpsStay, OpStays

LEMMA DependKeeps ==
  ASSUME IInv, TypeOK', NEW t \in Tasks, Depend(t)
  PROVE  IInv'
<1>. DEFINE d == task[t].dependency
<1>1. task[t].at = "depend" /\ ~Awaits(t) /\ d \in Mats /\ Live(t)
      /\ UNCHANGED <<ops, waits>>
  BY DEF Depend, IInv, TaskState, Live, Depending
<1>2. CASE task' = EndedAs(t, "failed") /\ UNCHANGED <<frame, materials>>
  BY <1>1, <1>2, EndedMoves, TasksKeep DEF Outcomes, OpsStay, OpStays
<1>3. CASE Material(t, materials, d, frame[t].rev, frame[t].base, frame[t].shown,
                    task[t].ancestors, task[t].root, NoSources)
  <2>1. /\ TypeOK /\ t \in Callers /\ materials \in [Mats -> SomeTask]
        /\ frame[t].rev \in Revisions /\ frame[t].base \in Nat /\ frame[t].shown \in Nat
        /\ task[t].ancestors \in SUBSET Mats /\ task[t].root \in Ops \union {Free}
    BY <1>1 DEF IInv, TypeOK, TaskRecords, Callers, Frames
  <2>2. Called(t, materials, d, frame[t].rev)
    <3>. HIDE DEF d
    <3>. QED
      BY <1>1, <1>3, <2>1, Constants, MaterialCalls
  <2>3. frame[t].how = "none"
    BY <1>1 DEF Awaits
  <2>. QED
    BY <1>1, <2>2, <2>3, DependCalls
<1>. QED
  BY <1>2, <1>3 DEF Depend

LEMMA DependResumeKeeps ==
  ASSUME IInv, TypeOK', NEW t \in Tasks, DependResume(t)
  PROVE  IInv'
<1>. DEFINE d == task[t].dependency
            u == task[frame[t].on]
<1>1. /\ task[t].at = "depend" /\ Awaits(t) /\ Ended(frame[t].on) /\ d \in Mats /\ Live(t)
      /\ frame[t].on \in Tasks /\ t \in Callers /\ task[t].target \in Mats
      /\ task[t] \in TaskRecords /\ task \in [Tasks -> TaskRecords]
      /\ ops \in [Ops -> OpRecords] /\ TypeOK
  BY DEF DependResume, IInv, TaskState, Calls, Callers, Live, TypeOK, Depending
<1>2. waits' = IF frame[t].how = "wait" THEN [waits EXCEPT ![task[t].target] = NoMat]
               ELSE waits
  BY DEF DependResume
<1>3. CASE /\ frame[t].how = "previous" /\ UNCHANGED ops
           /\ Again(t, d, task[t].ancestors, task[t].root, NoSources)
  <2>1. task[t].ancestors \in SUBSET Mats /\ task[t].root \in Ops \union {Free}
    BY <1>1 DEF TaskRecords
  <2>2. Called(t, materials, d, frame[t].rev)
    <3>. HIDE DEF d
    <3>. QED
      BY <1>1, <1>3, <2>1, Constants, AgainCalls
  <2>. QED
    BY <1>1, <1>2, <1>3, <2>2, DependCalls
<1>4. CASE /\ IF u.outcome = "success"
              THEN /\ task' = [task EXCEPT ![t].at = "submit", ![t].resumed = @ \union {d}]
                   /\ ops' = [ops EXCEPT ![task[t].root].generated = @ \union {d}]
              ELSE task' = EndedAs(t, u.outcome) /\ UNCHANGED ops
           /\ materials' = Unregistered(t, d)
           /\ frame' = [frame EXCEPT ![t] = NoFrame]
  <2>1. OpsStay
    BY WaitingStays
  <2>2. Moved(t) /\ \A x \in Tasks \ {t} : task'[x] = task[x]
    <3>1. CASE u.outcome = "success"
      <4>1. PICK resumed :
              task' = [task EXCEPT ![t].at = "submit", ![t].resumed = resumed]
        BY <1>4, <3>1
      <4>2. task[t].outcome = "none" /\ task[t].item = "none"
        BY <1>1 DEF IInv, TaskState
      <4>. QED
        BY <1>1, <4>1, <4>2 DEF Moved, TaskRecords
    <3>2. CASE u.outcome # "success"
      <4>1. u.outcome \in Outcomes \ {"none"}
        BY <1>1 DEF IInv, TaskState, Ended, TaskRecords
      <4>. QED
        BY <1>1, <1>4, <3>2, <4>1, EndedMoved
    <3>. QED
      BY <3>1, <3>2
  <2>3. Kept(t, Unregistered(t, d))
    <3>1. frame[t].how = "own" => u.target = d
      BY <1>1 DEF IInv, Owned, Owns
    <3>. QED
      BY <1>1, <3>1, UnregisteredKept
  <2>4. TaskState' /\ Registry' /\ Owned' /\ OnlyMoves(t) /\ ~Awaits(t)'
    BY <1>1, <1>2, <1>4, <2>2, <2>3, ReturnKeeps
  <2>. QED
    BY <2>1, <2>4, TaskKeeps
<1>. QED
  BY <1>3, <1>4 DEF DependResume

LEMMA PollWaitingKeeps ==
  ASSUME IInv, TypeOK', NEW t \in Tasks, PollWaiting(t)
  PROVE  IInv'
<1>. DEFINE d == task[t].dependency
            p == IF task[t].sources[d] # NoTask THEN task[t].sources[d]
                 ELSE Running(d, task[t].rev)
<1>1. /\ task[t].at = "native" /\ task[t].row = "waiting" /\ d \in Mats /\ Live(t)
      /\ ~Awaits(t) /\ UNCHANGED <<ops, materials>> /\ t \in Callers /\ OpsStay
      /\ task[t].target \in Mats /\ task[t].outcome = "none"
      /\ task[t] \in TaskRecords /\ task \in [Tasks -> TaskRecords] /\ TypeOK
  BY NotAwaiting
  DEF PollWaiting, IInv, TaskState, Callers, Live, TypeOK, OpsStay, OpStays, Depending
<1>2. CASE task' = EndedAs(t, "failed") /\ UNCHANGED <<frame, waits>>
  BY <1>1, <1>2, EndedMoves, TasksKeep DEF Outcomes
<1>3. CASE /\ task' = [task EXCEPT ![t].at = "snapshot", ![t].item = "none"]
           /\ UNCHANGED <<frame, waits>>
  <2>1. Moved(t) /\ \A x \in Tasks \ {t} : task'[x] = task[x]
    BY <1>1, <1>3 DEF Moved, TaskRecords
  <2>. QED
    BY <1>1, <1>3, <2>1, TasksKeep DEF TasksStay
<1>4. CASE /\ task' = [task EXCEPT ![t].at = "depend", ![t].item = "none"]
           /\ p # NoTask
           /\ frame' = [frame EXCEPT ![t] = [NoFrame EXCEPT !.on = p, !.how = "wait"]]
           /\ waits' = IF Ended(p) THEN waits ELSE [waits EXCEPT ![task[t].target] = d]
  <2>1. Moved(t) /\ task'[t].at = "depend" /\ \A x \in Tasks \ {t} : task'[x] = task[x]
    BY <1>1, <1>4 DEF Moved, TaskRecords
  <2>. /\ TaskState /\ Registry /\ Owned /\ frame \in [Callers -> Frames]
       /\ materials \in [Mats -> SomeTask] /\ waits \in [Mats -> Mats \union {NoMat}]
    BY DEF IInv, TypeOK, Callers
  <2>2. p \in Tasks
    <3>1. task[t].sources[d] \in SomeTask /\ Running(d, task[t].rev) \in SomeTask
      BY <1>1, RunningType DEF TaskRecords
    <3>. QED
      BY <1>4, <3>1 DEF SomeTask, Tasks, NoTask
  <2>3. /\ frame'[t].how = "wait" /\ frame'[t].on = p /\ frame[t].how = "none"
        /\ \A x \in Callers \ {t} : frame'[x] = frame[x]
    BY <1>1, <1>4 DEF NoFrame, Awaits
  <2>4. TaskState' /\ OnlyMoves(t)
    BY <2>1, <2>3, TaskStateStays DEF OnlyMoves
  <2>5. Registry'
    <3>1. \A x \in Tasks : Live(x)' =>
            Live(x) /\ task'[x].target = task[x].target
      BY <1>1, <2>1 DEF Live, Moved
    <3>2. \A m \in Mats : materials[m] # NoTask => materials[m] \in Tasks
      BY DEF SomeTask, Tasks, NoTask
    <3>. QED
      BY <1>1, <2>1, <3>1, <3>2 DEF Registry, Moved
  <2>6. Owned'
    <3>1. ASSUME NEW m \in Mats, materials[m] # NoTask
          PROVE  \E x \in Callers : Owns(x, materials[m])'
      <4>1. PICK x \in Callers : Owns(x, materials[m])
        BY <3>1 DEF Owned
      <4>. QED
        BY <1>1, <2>3, <4>1 DEF Owns
    <3>2. ASSUME NEW x \in Tasks, NEW y \in Tasks, Owns(x, y)'
          PROVE  x < y /\ task'[y].target = task'[x].dependency
      <4>1. x # t /\ Owns(x, y)
        BY <2>3, <3>2 DEF Owns, Callers
      <4>. QED
        BY <2>1, <4>1 DEF Owned, Moved
    <3>3. ASSUME NEW m \in Mats, waits'[m] # NoMat
          PROVE  \E x \in Tasks : frame'[x].how = "wait" /\ task'[x].target = m
      <4>1. CASE m = task[t].target
        BY <2>1, <2>3, <4>1 DEF Moved
      <4>2. CASE m # task[t].target
        <5>1. waits'[m] = waits[m]
          BY <1>4, <4>2
        <5>2. PICK x \in Tasks : frame[x].how = "wait" /\ task[x].target = m
          BY <3>3, <5>1 DEF Owned
        <5>. QED
          BY <2>1, <2>3, <5>2 DEF Callers
      <4>. QED
        BY <4>1, <4>2
    <3>. QED
      BY <1>1, <3>1, <3>2, <3>3 DEF Owned, Owns
  <2>. QED
    BY <1>1, <2>1, <2>2, <2>3, <2>4, <2>5, <2>6, TaskKeeps
<1>. QED
  BY <1>2, <1>3, <1>4 DEF PollWaiting

-----------------------------------------------------------------------------
(* The invariant.                                                           *)

LEMMA RestartKeeps ==
  ASSUME IInv, TypeOK', Restart
  PROVE  IInv'
<1>. /\ ops \in [Ops -> OpRecords] /\ task \in [Tasks -> TaskRecords]
     /\ TaskState /\ Rows /\ Earned
  BY DEF IInv, TypeOK
<1>1. /\ \A c \in Callers : frame'[c] = NoFrame
      /\ \A m \in Mats : materials'[m] = NoTask /\ waits'[m] = NoMat
      /\ \A t \in Tasks : \/ task'[t] = task[t] /\ ~Live(t)
                          \/ /\ Live(t) /\ task'[t].at = "lost" /\ task'[t].item = "none"
                             /\ task'[t].target = task[t].target
                             /\ task'[t].outcome = task[t].outcome
                             /\ task'[t].row = task[t].row
                             /\ task'[t].dependency = task[t].dependency
      /\ \A o \in Ops : \/ ops'[o].at = "lost" /\ ops'[o].row = ops[o].row
                           /\ ops'[o].rev = ops[o].rev /\ Active(o)
                        \/ ops'[o] = NewOp
                        \/ ops'[o] = ops[o] /\ ~Active(o)
  <2>1. /\ \A c \in Callers : frame'[c] = NoFrame
        /\ \A m \in Mats : materials'[m] = NoTask /\ waits'[m] = NoMat
    BY DEF Restart, NoSources, Callers
  <2>2. ASSUME NEW t \in Tasks
        PROVE  \/ task'[t] = task[t] /\ ~Live(t)
               \/ Live(t) /\ task'[t] = [task[t] EXCEPT !.at = "lost", !.item = "none"]
    BY DEF Restart
  <2>3. ASSUME NEW o \in Ops
        PROVE  \/ Active(o) /\ ops'[o] = [ops[o] EXCEPT !.at = "lost"]
               \/ ops'[o] = NewOp
               \/ ops'[o] = ops[o] /\ ~Active(o)
    BY DEF Restart
  <2>4. \A t \in Tasks : task[t] \in TaskRecords
    OBVIOUS
  <2>5. \A o \in Ops : ops[o] \in OpRecords
    OBVIOUS
  <2>6. \A r \in TaskRecords : LET q == [r EXCEPT !.at = "lost", !.item = "none"] IN
          /\ q.at = "lost" /\ q.item = "none" /\ q.target = r.target
          /\ q.outcome = r.outcome /\ q.row = r.row /\ q.dependency = r.dependency
    BY DEF TaskRecords
  <2>7. \A r \in OpRecords : LET q == [r EXCEPT !.at = "lost"] IN
          q.at = "lost" /\ q.row = r.row /\ q.rev = r.rev
    BY DEF OpRecords
  <2>8. ASSUME NEW t \in Tasks, task'[t] = [task[t] EXCEPT !.at = "lost", !.item = "none"]
        PROVE  /\ task'[t].at = "lost" /\ task'[t].item = "none"
               /\ task'[t].target = task[t].target /\ task'[t].outcome = task[t].outcome
               /\ task'[t].row = task[t].row /\ task'[t].dependency = task[t].dependency
    BY <2>4, <2>6, <2>8
  <2>9. ASSUME NEW o \in Ops, ops'[o] = [ops[o] EXCEPT !.at = "lost"]
        PROVE  ops'[o].at = "lost" /\ ops'[o].row = ops[o].row /\ ops'[o].rev = ops[o].rev
    BY <2>5, <2>7, <2>9
  <2>. QED
    BY <2>1, <2>2, <2>3, <2>8, <2>9
<1>2. TaskState'
  <2>1. \A t \in Tasks : task[t].at # "free" => task'[t].at # "free"
    BY <1>1
  <2>2. \A t \in Tasks : task'[t].at # "free" =>
          task[t].at # "free" /\ task'[t].target = task[t].target
    BY <1>1 DEF Live
  <2>3. \A t \in Tasks : 1..(t - 1) \subseteq Tasks
    BY TasksAssumption DEF Tasks
  <2>4. \A t \in Tasks : task'[t].at # "free" =>
          /\ task'[t].target \in Mats
          /\ \A u \in 1..(t - 1) : task'[u].at # "free"
    BY <2>1, <2>2, <2>3 DEF TaskState
  <2>5. \A t \in Tasks : task'[t].at = "done" <=> task'[t].outcome # "none"
    BY <1>1 DEF TaskState, Live
  <2>6. \A t \in Tasks :
          /\ task'[t].item # "none" => task'[t].at = "native"
          /\ Depending(task'[t]) => task'[t].dependency \in Mats
    BY <1>1 DEF TaskState, Live, Depending
  <2>. QED
    BY <2>4, <2>5, <2>6 DEF TaskState
<1>3. Rows'
  BY <1>1 DEF Rows, NewOp
<1>4. \A c \in Callers : ~Awaits(c)' /\ frame'[c].how = "none"
  BY <1>1 DEF Awaits, NoFrame
<1>5. \A o \in Ops : ops'[o].at # "run"
  BY <1>1 DEF NewOp, Active
<1>6. Calls'
  BY <1>4, <1>5 DEF Calls, Callers
<1>7. Registry'
  BY <1>1 DEF Registry, Live
<1>8. Owned'
  BY <1>1, <1>4 DEF Owned, Owns, Callers
<1>9. Earned'
  <2>1. \A m, rev : Achieved(m, rev) => Achieved(m, rev)'
    BY <1>1 DEF Achieved, TaskState, Live
  <2>2. \A o \in Ops : ops'[o].row = "success" =>
          ops[o].row = "success" /\ ops'[o].rev = ops[o].rev
    BY <1>1 DEF NewOp
  <2>3. ASSUME NEW o \in Ops PROVE Verdict(o)'
    <3>. SUFFICES ASSUME ops'[o].row = "success"
         PROVE \A i \in DOMAIN Plan[o] : Achieved(Plan[o][i], ops[o].rev)'
      BY DEF Verdict
    <3>1. PICK rev : rev = ops[o].rev
      OBVIOUS
    <3>2. \A i \in DOMAIN Plan[o] : Achieved(Plan[o][i], rev)'
      BY <2>1, <2>2, <3>1 DEF Earned, Verdict
    <3>. QED
      BY <2>2, <3>1, <3>2 DEF Achieved
  <2>. QED
    BY <1>5, <2>3 DEF Earned, Past, Present
<1>. QED
  BY <1>2, <1>3, <1>6, <1>7, <1>8, <1>9 DEF IInv

LEMMA InitInvariant == ASSUME Init PROVE IInv
<1>1. TypeOK
  BY InitType
<1>2. TaskState /\ Rows
  BY DEF Init, TaskState, Rows, FreeTask, NewOp, Depending
<1>3. Calls
  BY DEF Init, Calls, Callers, Awaits, NoFrame, NewOp
<1>4. Registry
  BY DEF Init, Registry, Live, FreeTask, NoSources
<1>5. Owned
  BY DEF Init, Owned, Owns, Callers, NoFrame, NoSources
<1>6. Earned
  BY DEF Init, Earned, Past, Verdict, Present, NewOp
<1>. QED
  BY <1>1, <1>2, <1>3, <1>4, <1>5, <1>6 DEF IInv

LEMMA StillKeeps ==
  ASSUME IInv, TypeOK', UNCHANGED <<ops, task, frame, materials, waits>>
  PROVE  IInv'
BY TasksKeep DEF TasksStay, OpsStay, OpStays

LEMMA StepInvariant == ASSUME IInv, [Next]_vars PROVE IInv'
<1>1. TypeOK'
  BY TypeStep
<1>2. CASE UNCHANGED vars \/ Edit \/ \E m \in Mats : Pick(m)
  BY <1>1, <1>2, StillKeeps DEF vars, Edit, Pick
<1>3. ASSUME NEW t \in Tasks, Execute(t) PROVE IInv'
  BY <1>1, <1>3, ExecutionMoves, TasksKeep, PollWaitingKeeps, DependSnapshotKeeps,
     DependKeeps, DependResumeKeeps
  DEF Execute
<1>4. ASSUME NEW o \in Ops, Start(o) \/ OpStep(o) \/ Request(o) PROVE IInv'
  BY <1>1, <1>4, StartKeeps, OpBeginKeeps, OpResumeKeeps, RequestMoves, TasksKeep
  DEF Start, OpStep, Request
<1>5. ASSUME NEW t \in Tasks,
             WorkerStart(t) \/ WorkerBlocks(t) \/ WorkerPublishes(t) \/ WorkerEnds(t)
             \/ NativeRemove(t)
      PROVE  IInv'
  BY <1>1, <1>5, WorkerMoves, TasksKeep
<1>6. CASE Restart
  BY <1>1, <1>6, RestartKeeps
<1>. QED
  BY <1>2, <1>3, <1>4, <1>5, <1>6 DEF Next, LoopStep, WorkerStep

LEMMA Invariant == Spec => []IInv
<1>1. Init => IInv
  BY InitInvariant
<1>2. IInv /\ [Next]_vars => IInv'
  BY StepInvariant
<1>. QED
  BY <1>1, <1>2, PTL DEF Spec

-----------------------------------------------------------------------------
(* Theorems.                                                                *)

\* Every reachable state of the service is well typed.
THEOREM TypeCorrect == Spec => []TypeOK
BY Invariant, PTL DEF IInv

\* Whatever the operations, revisions and dependencies, and also over restarts, a
\* material is never being generated by two executions: the running one is
\* registered in self.materials.
THEOREM OneExecution == Spec => []OneAtATime
<1>1. IInv => OneAtATime
  BY DEF IInv, Registry, OneAtATime
<1>. QED
  BY <1>1, Invariant, PTL

\* A reported success was earned: each target of the operation was generated for
\* its revision by a run that was selected.
THEOREM EarnedSuccess == Spec => []SuccessIsEarned
<1>1. IInv => SuccessIsEarned
  BY DEF IInv, Earned, Verdict, Achieved, SuccessIsEarned
<1>. QED
  BY <1>1, Invariant, PTL

LEMMA Smallest ==
  ASSUME NEW S \in SUBSET Nat, S # {}
  PROVE  \E s \in S : \A r \in S : ~(r < s)
<1>1. PICK s \in S : \A r \in S : ~(<<r, s>> \in OpToRel(<, Nat))
  BY NatLessThanWellFounded, WFMin
<1>2. \A r \in S : r < s => <<r, s>> \in OpToRel(<, Nat)
  BY DEF OpToRel
<1>. QED
  BY <1>1, <1>2

\* The oldest running task was created by an operation that still awaits it.
LEMMA LiveIsOwned ==
  ASSUME IInv, NEW t \in Tasks, Live(t)
  PROVE  \E o \in Ops : Active(o)
<1>. DEFINE L == {u \in Tasks : Live(u)}
<1>1. L \in SUBSET Nat /\ L # {}
  BY Constants
<1>2. PICK s \in L : \A r \in L : ~(r < s)
  BY <1>1, Smallest
<1>3. s \in Tasks /\ Live(s) /\ materials[task[s].target] = s /\ task[s].target \in Mats
  BY DEF IInv, Registry, TaskState, Live
<1>4. PICK c \in Callers : Owns(c, s)
  BY <1>3, Constants DEF IInv, Owned
<1>5. CASE c \in Ops
  BY <1>4, <1>5 DEF IInv, Calls, Owns, Awaits, Active
<1>6. CASE c \in Tasks
  <2>1. c < s /\ c \in L
    BY <1>3, <1>4, <1>6 DEF IInv, Owned, Calls, Owns, Awaits, Live
  <2>. QED
    BY <1>2, <2>1
<1>. QED
  BY <1>5, <1>6 DEF Callers

\* Every operation that ends takes with it what it started: with none active, no
\* task runs, no prompt is queued, and no entry makes the next operation wait.
THEOREM NothingIsLeft == Spec => []NothingLeft
<1>1. ASSUME IInv, \A o \in Ops : ~Active(o)
      PROVE  /\ \A t \in Tasks : ~Live(t) /\ task[t].item = "none"
             /\ \A m \in Mats : materials[m] = NoTask /\ waits[m] = NoMat
  <2>1. \A t \in Tasks : ~Live(t)
    BY <1>1, LiveIsOwned
  <2>2. \A t \in Tasks : task[t].item = "none"
    BY <1>1, <2>1 DEF IInv, TaskState, Live
  <2>3. \A c \in Callers : ~Awaits(c)
    BY <1>1, <2>1 DEF IInv, Calls, Callers, Active, Live
  <2>4. \A m \in Mats : materials[m] = NoTask
    BY <1>1, <2>3 DEF IInv, Owned, Owns, Awaits
  <2>5. \A m \in Mats : waits[m] = NoMat
    BY <1>1, <2>3 DEF IInv, Owned, Awaits, Callers
  <2>. QED
    BY <2>1, <2>2, <2>4, <2>5
<1>. QED
  BY <1>1, Invariant, PTL DEF NothingLeft

LEMMA RowsFinal ==
  ASSUME IInv, [Next]_vars, NEW o \in Ops, ops[o].row \in Final
  PROVE  ops'[o].row = ops[o].row
<1>1. /\ ops \in [Ops -> OpRecords] /\ ops[o].at \notin {"idle", "snapshot", "queued", "run"}
      /\ ops[o].row \notin {"queued", "running"}
  BY DEF IInv, TypeOK, Rows, Final
<1>2. CASE UNCHANGED ops
  BY <1>2
<1>3. CASE \E p \in Ops \ {o} : \A q \in Ops \ {p} : ops'[q] = ops[q]
  BY <1>3
<1>4. CASE OpsStay
  BY <1>4 DEF OpsStay, OpStays
<1>5. CASE Restart
  BY <1>1, <1>5 DEF Restart, Active
<1>6. ASSUME NEW p \in Ops, StartSnapshot(p) \/ Start(p) \/ OpStep(p) \/ Status(p)
      PROVE  UNCHANGED ops \/ \A q \in Ops \ {p} : ops'[q] = ops[q]
  BY <1>1, <1>6
  DEF StartSnapshot, Start, StartShared, StartQueued, OpStep, OpBegin, OpResume, Status,
      Advance, Finish
<1>7. ~(StartSnapshot(o) \/ Start(o) \/ OpStep(o) \/ Status(o))
  BY <1>1
  DEF StartSnapshot, Start, StartShared, StartQueued, OpStep, OpBegin, OpResume, Status
<1>8. ASSUME NEW t \in Tasks, Execute(t) PROVE OpsStay
  BY <1>8, ExecutionMoves, WaitingStays DEF Execute
<1>9. ASSUME NEW p \in Ops, Cancel(p) \/ Interrupt(p) PROVE OpsStay
  BY <1>9, RequestMoves
<1>10. ASSUME NEW t \in Tasks,
              WorkerStart(t) \/ WorkerBlocks(t) \/ WorkerPublishes(t) \/ WorkerEnds(t)
              \/ NativeRemove(t)
       PROVE  OpsStay
  BY <1>10, WorkerMoves
<1>11. CASE UNCHANGED vars \/ Edit \/ \E m \in Mats : Pick(m)
  BY <1>2, <1>11 DEF vars, Edit, Pick
<1>. QED
  BY <1>2, <1>3, <1>4, <1>5, <1>6, <1>7, <1>8, <1>9, <1>10, <1>11
  DEF Next, LoopStep, WorkerStep, Request

\* What an operation was reported to have ended with never changes, whoever asks
\* for its status and whenever the server is restarted.
THEOREM OutcomeIsFinal == Spec => OutcomeStays
<1>1. IInv /\ [Next]_vars =>
        [\A o \in Ops : ops[o].row \in Final => ops'[o].row = ops[o].row]_vars
  BY RowsFinal
<1>. QED
  BY <1>1, Invariant, PTL DEF Spec, OutcomeStays

-----------------------------------------------------------------------------
(* The queue.                                                               *)

Entered(t) == task'[t].item = "queued" /\ task[t].item # "queued"

LEMMA CreateEnters ==
  ASSUME TypeOK, NEW t \in Tasks, NEW c, NEW owned, NEW m, NEW rev, NEW base, NEW shown,
         NEW ancestors, NEW root, NEW sources,
         Create(c, owned, m, rev, base, shown, ancestors, root, sources)
  PROVE  ~Entered(t)
<1>1. task \in [Tasks -> TaskRecords]
  BY DEF TypeOK
<1>. QED
  BY <1>1 DEF Create, Entered, FreeTask

LEMMA EndedEnters ==
  ASSUME TypeOK, NEW t \in Tasks, NEW u \in Tasks, NEW outcome, task' = EndedAs(u, outcome)
  PROVE  ~Entered(t)
<1>1. task \in [Tasks -> TaskRecords]
  BY DEF TypeOK
<1>2. CASE t = u
  <2>1. task'[t].item = "none"
    BY <1>1, <1>2 DEF EndedAs, TaskRecords
  <2>. QED
    BY <2>1 DEF Entered
<1>3. CASE t # u
  BY <1>1, <1>3 DEF EndedAs, Entered
<1>. QED
  BY <1>2, <1>3

LEMMA MaterialEnters ==
  ASSUME TypeOK, NEW t \in Tasks, NEW c, NEW owned, NEW m, NEW rev, NEW base, NEW shown,
         NEW ancestors, NEW root, NEW sources,
         Material(c, owned, m, rev, base, shown, ancestors, root, sources)
  PROVE  ~Entered(t)
BY CreateEnters DEF Material, Join, Entered

LEMMA AgainEnters ==
  ASSUME TypeOK, NEW t \in Tasks, NEW c, NEW m, NEW ancestors, NEW root, NEW sources,
         Again(c, m, ancestors, root, sources)
  PROVE  ~Entered(t)
BY CreateEnters DEF Again, Join, Entered

LEMMA AdvanceEnters ==
  ASSUME TypeOK, NEW t \in Tasks, NEW o, NEW n, NEW owned, Advance(o, n, owned)
  PROVE  ~Entered(t)
BY MaterialEnters DEF Advance, Finish, Entered

LEMMA OpStepEnters ==
  ASSUME TypeOK, NEW t \in Tasks, NEW o, OpStep(o)
  PROVE  ~Entered(t)
BY AdvanceEnters, AgainEnters DEF OpStep, OpBegin, OpResume, Finish, Entered

\* Only a validated prompt enters ComfyUI's queue, and only if nobody interrupted.
LEMMA ExecuteEnters ==
  ASSUME IInv, NEW t \in Tasks, NEW u \in Tasks, Execute(u), Entered(t)
  PROVE  ~Interrupted
<1>1. TypeOK /\ task \in [Tasks -> TaskRecords]
  BY DEF IInv, TypeOK
<1>2. \A outcome : task' # EndedAs(u, outcome)
  BY <1>1, EndedEnters
<1>4. CASE Compile(u)
  <2>1. PICK resumed, sources :
          task' = [task EXCEPT ![u].at = "submit", ![u].row = "prepared",
                     ![u].resumed = resumed, ![u].sources = sources]
    BY <1>2, <1>4 DEF Compile
  <2>. QED
    BY <1>1, <2>1 DEF Entered
<1>5. CASE SubmitBegin(u)
  <2>1. task' = [task EXCEPT ![u].at = "validate"]
    BY <1>2, <1>5 DEF SubmitBegin
  <2>. QED
    BY <1>1, <2>1 DEF Entered
<1>6. CASE SubmitEnd(u)
  BY <1>2, <1>6 DEF SubmitEnd
<1>7. CASE PollSuccess(u) \/ PollFailure(u)
  BY <1>2, <1>7 DEF PollSuccess, PollFailure
<1>8. CASE PollWaiting(u)
  <2>1. PICK at : task' = [task EXCEPT ![u].at = at, ![u].item = "none"]
    BY <1>2, <1>8 DEF PollWaiting
  <2>. QED
    BY <1>1, <2>1 DEF Entered, TaskRecords
<1>11. CASE DependSnapshot(u)
  BY <1>1, <1>11 DEF DependSnapshot, Entered
<1>9. CASE Depend(u)
  BY <1>1, <1>2, <1>9, MaterialEnters DEF Depend
<1>10. CASE DependResume(u)
  <2>1. PICK resumed : task' = [task EXCEPT ![u].at = "submit", ![u].resumed = resumed]
    BY <1>1, <1>2, <1>10, AgainEnters DEF DependResume
  <2>. QED
    BY <1>1, <2>1 DEF Entered
<1>. QED
  BY <1>4, <1>5, <1>6, <1>7, <1>8, <1>9, <1>10, <1>11 DEF Execute

LEMMA WorkerEnters ==
  ASSUME IInv, NEW t \in Tasks, NEW u \in Tasks,
         WorkerStart(u) \/ WorkerBlocks(u) \/ WorkerPublishes(u) \/ WorkerEnds(u)
         \/ NativeRemove(u)
  PROVE  ~Entered(t)
<1>1. task \in [Tasks -> TaskRecords] /\ task[u] \in TaskRecords
  BY DEF IInv, TypeOK
<1>2. \A x \in Tasks \ {u} : task'[x] = task[x]
  BY <1>1
  DEF WorkerStart, WorkerBlocks, WorkerPublishes, WorkerEnds, NativeRemove
<1>3. task'[u].item \in {task[u].item, "running", "stopping", "over", "removed"}
  BY <1>1
  DEF WorkerStart, WorkerBlocks, WorkerPublishes, WorkerEnds, NativeRemove, TaskRecords
<1>. QED
  BY <1>2, <1>3 DEF Entered

LEMMA WorldEnters ==
  ASSUME IInv, NEW t \in Tasks, Restart \/ \E o \in Ops : Interrupt(o)
  PROVE  ~Entered(t)
<1>1. task[t] \in TaskRecords
  BY DEF IInv, TypeOK
<1>2. CASE Restart
  BY <1>1, <1>2 DEF Restart, Entered, TaskRecords
<1>3. CASE \E o \in Ops : Interrupt(o)
  <2>1. task'[t].item =
          CASE task[t].item = "queued" -> "removed" [] task[t].item = "running" -> "stopping"
            [] OTHER -> task[t].item
    BY <1>1, <1>3 DEF Interrupt, TaskRecords
  <2>. QED
    BY <2>1 DEF Entered
<1>. QED
  BY <1>2, <1>3

\* As long as an interrupted operation has not ended, no prompt of the directory
\* enters ComfyUI's queue: not even one whose validation had begun before.
THEOREM InterruptIsFinal == Spec => InterruptHolds
<1>1. ASSUME IInv, [Next]_vars, Interrupted, NEW t \in Tasks
      PROVE  ~Entered(t)
  <2>1. TypeOK
    BY <1>1 DEF IInv
  <2>2. CASE UNCHANGED task
    BY <2>2 DEF Entered
  <2>3. ASSUME NEW o \in Ops, Start(o) \/ Request(o)
        PROVE  UNCHANGED task \/ Interrupt(o)
    BY <2>3
    DEF Start, StartShared, StartQueued, Request, StartSnapshot, Cancel, Status
  <2>4. CASE UNCHANGED vars \/ Edit \/ \E m \in Mats : Pick(m)
    BY <2>2, <2>4 DEF vars, Edit, Pick
  <2>. QED
    BY <1>1, <2>1, <2>2, <2>3, <2>4, OpStepEnters, ExecuteEnters, WorkerEnters, WorldEnters
    DEF Next, LoopStep, WorkerStep
<1>2. IInv /\ [Next]_vars =>
        [Interrupted => \A t \in Tasks : task'[t].item = "queued" => task[t].item = "queued"]_vars
  BY <1>1 DEF Entered
<1>. QED
  BY <1>2, Invariant, PTL DEF Spec, InterruptHolds
=============================================================================
