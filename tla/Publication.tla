---------------------------- MODULE Publication -----------------------------
(***************************************************************************)
(* Publication of generated material: workspace/runs.py with the parts of  *)
(* store.py, workflow_state.py and workflow_files.py it goes through.      *)
(*                                                                         *)
(* A result crosses two stores.  finish_run commits an intent to SQLite,   *)
(* then writes the selection to the card's JSON file, then commits the     *)
(* verdict to SQLite.  Each of the three is atomic; between them the       *)
(* process may die, or one of them may raise.  transactions.LOCK, a        *)
(* re-entrant lock of the process, keeps other threads off the selection   *)
(* but not off the database.  Every Project(...) first finishes the        *)
(* intents it finds.                                                       *)
(*                                                                         *)
(* The module follows one material (a "target" of the source) of one       *)
(* project, the native worker that publishes to it and the request threads *)
(* that edit it.                                                           *)
(***************************************************************************)
EXTENDS Naturals, FiniteSets

CONSTANTS
  Runs,        \* runs whose target is this material
  Values,      \* contents: an asset or a text
  Nothing,     \* the selection of a material never filled
  Requests,    \* threads that serve HTTP requests
  Worker,      \* the native worker's thread
  NoThread,    \* "LOCK is free"
  NoRun,       \* "no run"
  Editable,    \* whether the card may be saved without the material
  MaxEdits,    \* bound: manual changes of the selection or of the card
  MaxCrashes,  \* bound: deaths of the process
  MaxFaults    \* bound: exceptions between the three commits

ASSUME PublicationAssumption ==
  /\ Nothing \notin Values
  /\ Worker \notin Requests
  /\ NoThread \notin Requests \union {Worker}
  /\ NoRun \notin Runs
  /\ Editable \in BOOLEAN
  /\ MaxEdits \in Nat /\ MaxCrashes \in Nat /\ MaxFaults \in Nat

VARIABLES
  present,   \* the card's workflow contains the material
  slot,      \* its selection in the card's workflow.json
  run,       \* the rows of the SQLite table "runs", and compiles before their row
  lock,      \* the owner of transactions.LOCK
  thread,    \* where each thread stands
  writes,    \* history variable: selections written for a run
  overtaken, \* history variable: content of another came after the run's read,
             \* and the material was not removed since
  edits, crashes, faults  \* counters the bounds limit

durable == <<present, slot, run>>
history == <<writes, overtaken>>
bounds == <<edits, crashes, faults>>
vars == <<present, slot, run, lock, thread, writes, overtaken,
          edits, crashes, faults>>

Threads == Requests \union {Worker}

\* "content_revision" counts contents, "revision" every change of a selection.
Empty == [content |-> Nothing, rev |-> 0, contentRev |-> 0]

\* "read" is a compile_task that has its snapshot but no row yet.  "live"
\* stands for prepared, queued, running and waiting, "stopped" for failed and
\* interrupted: no decision modelled here tells those apart.
RunStatuses == {"none", "read", "live", "stopped", "publishing", "success"}
NewRun == [status |-> "none", base |-> 0, payload |-> Nothing, selected |-> FALSE]

\* idle; open: in Project(...); list, recover: in recover_publications, before
\* and after it lists the rows; act: the project is open; intended, written: in
\* finish_run, after its first and its second commit.  "todo" is what recover_publications has still to finish,
\* "run" what the worker came to publish, "doing" the argument of finish_run.
Places == {"idle", "open", "list", "recover", "act", "intended", "written"}
Idle == [at |-> "idle", todo |-> {}, run |-> NoRun, doing |-> NoRun,
         value |-> Nothing, seen |-> 0, seenPresent |-> TRUE, shown |-> FALSE]

Contents == Values \union {Nothing}
Selections == [content: Contents, rev: Nat, contentRev: Nat]
Rows == [status: RunStatuses, base: Nat, payload: Contents, selected: BOOLEAN]
Positions == [at: Places, todo: SUBSET Runs, run: Runs \union {NoRun},
              doing: Runs \union {NoRun}, value: Contents, seen: Nat,
              seenPresent: BOOLEAN, shown: BOOLEAN]

TypeOK ==
  /\ present \in BOOLEAN
  /\ slot \in Selections
  /\ run \in [Runs -> Rows]
  /\ \A r \in Runs : run[r].status = "publishing" <=> run[r].payload # Nothing
  /\ lock \in Threads \union {NoThread}
  /\ thread \in [Threads -> Positions]
  /\ writes \in [Runs -> Nat]
  /\ overtaken \in [Runs -> BOOLEAN]
  /\ edits \in Nat /\ crashes \in Nat /\ faults \in Nat

Init ==
  /\ present = TRUE
  /\ slot = Empty
  /\ run = [r \in Runs |-> NewRun]
  /\ lock = NoThread
  /\ thread = [t \in Threads |-> Idle]
  /\ writes = [r \in Runs |-> 0]
  /\ overtaken = [r \in Runs |-> FALSE]
  /\ edits = 0 /\ crashes = 0 /\ faults = 0

-----------------------------------------------------------------------------
(* What the code decides at each point.                                     *)

HasRow(r) == run[r].status \notin {"none", "read"}
Free == lock = NoThread
LockedPlaces == {"intended", "written"}

\* recover_publications takes the rows whose intent is not finished.
MutPending == {r \in Runs : run[r].status = "live"}
Pending == {r \in Runs : run[r].status = "publishing"}

\* run_state() updates no row that is publishing or published.
MutMayUpdate(r) == HasRow(r) /\ run[r].status # "success"
MayUpdate(r) == HasRow(r) /\ run[r].status \notin {"success", "publishing"}

\* A retry finishes the stored intent, whatever content it was called with.
MutIntent(r, v) == v
MutStored(r, v) == run[r].payload
Intent(r, v) == IF run[r].status = "publishing" THEN run[r].payload ELSE v

\* Nothing replaced the content the run was compiled from.
MutNotNewer(r) == slot.contentRev <= run[r].base + 1
Unchanged(r) == slot.contentRev = run[r].base

\* The first attempt already wrote this content and nothing replaced it.
Written(r) ==
  /\ slot.contentRev = run[r].base + 1
  /\ slot.content = run[r].payload

\* select() checks the revision the caller edited.
MutUpToDate(t) == TRUE
UpToDate(t) == thread[t].seen = slot.rev

\* select() with a new asset or text: both revisions advance.
Replaced(content) ==
  [content |-> content, rev |-> slot.rev + 1, contentRev |-> slot.contentRev + 1]

\* select() with a trim interval only: the content revision stays.
MutTrimmed == [slot EXCEPT !.rev = @ + 1, !.contentRev = @ + 1]
Trimmed == [slot EXCEPT !.rev = @ + 1]

\* History: everyone's reads of the content but the writer's are overtaken.
Overtakes(writer) ==
  overtaken' = [r \in Runs |->
    overtaken[r] \/ (r # writer /\ run[r].status # "none")]

Move(t, place) == thread' = [thread EXCEPT ![t].at = place]
Leave(t) == thread' = [thread EXCEPT ![t] = Idle]

-----------------------------------------------------------------------------
(* The task service: compile_task, run_state and wait_for_material.  They   *)
(* use the database alone and take no lock.                                 *)

Snapshot(r) ==
  /\ run[r].status = "none"
  /\ Free
  /\ run' = [run EXCEPT ![r].status = "read", ![r].base = slot.contentRev]
  /\ UNCHANGED <<present, slot, lock, thread, history, bounds>>

BeginRun(r) ==
  /\ run[r].status = "read"
  /\ run' = [run EXCEPT ![r].status = "live"]
  /\ UNCHANGED <<present, slot, lock, thread, history, bounds>>

RunState(r, status) ==
  /\ MayUpdate(r)
  /\ run' = [run EXCEPT ![r].status = status]
  /\ UNCHANGED <<present, slot, lock, thread, history, bounds>>

-----------------------------------------------------------------------------
(* Threads: open the project, then act.                                     *)

\* A request arrives; its client edited the revisions it last saw.
Arrive(t) ==
  /\ t \in Requests /\ thread[t].at = "idle"
  /\ thread' = [thread EXCEPT ![t] =
       [Idle EXCEPT !.at = "open", !.seen = slot.rev, !.seenPresent = present]]
  /\ UNCHANGED <<present, slot, run, lock, history, bounds>>

\* The worker reaches a node of r's prompt; the write node has computed v.
Execute(r, v) ==
  /\ thread[Worker].at = "idle" /\ HasRow(r)
  /\ thread' = [thread EXCEPT ![Worker] =
       [Idle EXCEPT !.at = "open", !.run = r, !.value = v]]
  /\ UNCHANGED <<present, slot, run, lock, history, bounds>>

\* Project.__init__ passes its locked part.
Open(t) ==
  /\ thread[t].at = "open" /\ Free
  /\ Move(t, "list")
  /\ UNCHANGED <<present, slot, run, lock, history, bounds>>

\* recover_publications lists the pending intents, whoever holds the lock.
List(t) ==
  /\ thread[t].at = "list"
  /\ thread' = [thread EXCEPT ![t].at = "recover", ![t].todo = Pending]
  /\ UNCHANGED <<present, slot, run, lock, history, bounds>>

Opened(t) ==
  /\ thread[t].at = "recover" /\ thread[t].todo = {}
  /\ Move(t, "act")
  /\ UNCHANGED <<present, slot, run, lock, history, bounds>>

\* After finish_run: the next pending intent, or the publisher's return.
Resumed(t, r) ==
  IF thread[t].todo # {}
  THEN [thread[t] EXCEPT !.at = "recover", !.todo = @ \ {r}, !.doing = NoRun]
  ELSE Idle
Return(t, r) == thread' = [thread EXCEPT ![t] = Resumed(t, r)]

\* finish_run, first commit: the intent, unless the run is published already.
Intend(t, r) ==
  /\ Free
  /\ \/ thread[t].at = "recover" /\ r \in thread[t].todo
     \/ thread[t].at = "act" /\ r = thread[t].run
  /\ IF run[r].status = "success"
     THEN /\ Return(t, r)
          /\ UNCHANGED <<run, lock>>
     ELSE /\ run' = [run EXCEPT ![r].status = "publishing",
                                ![r].payload = Intent(r, thread[t].value)]
          /\ lock' = t
          /\ thread' = [thread EXCEPT ![t].at = "intended", ![t].doing = r]
  /\ UNCHANGED <<present, slot, history, bounds>>

\* set_selection finds the material in the workflow, else it raises.
MutFound == TRUE
Found == present

\* finish_run, second commit: the selection, unless it is newer than the run.
Select(t, r) ==
  /\ thread[t].at = "intended" /\ thread[t].doing = r
  /\ \/ /\ Unchanged(r) /\ Found
        /\ slot' = Replaced(run[r].payload)
        /\ writes' = [writes EXCEPT ![r] = @ + 1]
        /\ Overtakes(r)
        /\ thread' = [thread EXCEPT ![t].at = "written", ![t].shown = TRUE]
     \/ /\ ~Unchanged(r)
        /\ thread' = [thread EXCEPT ![t].at = "written", ![t].shown = Written(r)]
        /\ UNCHANGED <<slot, history>>
  /\ UNCHANGED <<present, run, lock, bounds>>

\* finish_run, third commit: the verdict; the lock is released.
Settle(t, r) ==
  /\ thread[t].at = "written" /\ thread[t].doing = r
  /\ run' = [run EXCEPT ![r].status = "success", ![r].payload = Nothing,
                        ![r].selected = thread[t].shown]
  /\ lock' = NoThread
  /\ Return(t, r)
  /\ UNCHANGED <<present, slot, history, bounds>>

\* set_selection finds no material with this name in the workflow and raises.
SelectRaises(t, r) ==
  /\ thread[t].at = "intended" /\ thread[t].doing = r
  /\ Unchanged(r) /\ ~Found
  /\ lock' = NoThread
  /\ Leave(t)
  /\ UNCHANGED <<present, slot, run, history, bounds>>

\* A read node of r found its material empty.  It runs before the write node,
\* so there is no intent yet that the unconditional update could overwrite.
Wait(r) ==
  /\ thread[Worker].at = "act" /\ thread[Worker].run = r
  /\ run[r].status \in {"live", "stopped"}
  /\ run' = [run EXCEPT ![r].status = "live"]
  /\ Leave(Worker)
  /\ UNCHANGED <<present, slot, lock, history, bounds>>

\* A full disk, a busy database, a file in use: the exception leaves finish_run,
\* and Project(...) if it was recovering, with the lock released.
Raise(t) ==
  /\ thread[t].at \in LockedPlaces /\ faults < MaxFaults
  /\ faults' = faults + 1
  /\ lock' = NoThread
  /\ Leave(t)
  /\ UNCHANGED <<present, slot, run, history, edits, crashes>>

-----------------------------------------------------------------------------
(* What request threads do with an open project.                            *)

\* /select with a new asset or text.
ManualSelect(t, v) ==
  /\ t \in Requests /\ thread[t].at = "act" /\ Free
  /\ Found /\ UpToDate(t)
  /\ edits < MaxEdits /\ edits' = edits + 1
  /\ slot' = Replaced(v)
  /\ Overtakes(NoRun)
  /\ Leave(t)
  /\ UNCHANGED <<present, run, lock, writes, crashes, faults>>

\* /select with a trim interval of the selected media.
Trim(t) ==
  /\ t \in Requests /\ thread[t].at = "act" /\ Free
  /\ Found /\ UpToDate(t) /\ slot.content # Nothing
  /\ edits < MaxEdits /\ edits' = edits + 1
  /\ slot' = Trimmed
  /\ Leave(t)
  /\ UNCHANGED <<present, run, lock, history, crashes, faults>>

\* /card/save of a workflow without the material, or with it again.  A save
\* without it deletes its selection, and no other content is left there.
SaveCard(t) ==
  /\ Editable
  /\ t \in Requests /\ thread[t].at = "act" /\ Free
  /\ thread[t].seenPresent = present
  /\ edits < MaxEdits /\ edits' = edits + 1
  /\ present' = ~present
  /\ slot' = Empty
  /\ overtaken' = [r \in Runs |-> FALSE]
  /\ Leave(t)
  /\ UNCHANGED <<run, lock, writes, crashes, faults>>

\* A request that only reads or is refused; a prompt that fails before finish_run.
Reply(t) ==
  /\ thread[t].at = "act"
  /\ Leave(t)
  /\ UNCHANGED <<present, slot, run, lock, history, bounds>>

\* The process dies; what is on disk stays, compiles without a row are lost.
Crash ==
  /\ crashes < MaxCrashes /\ crashes' = crashes + 1
  /\ thread' = [t \in Threads |-> Idle]
  /\ lock' = NoThread
  /\ run' = [r \in Runs |-> IF run[r].status = "read" THEN NewRun ELSE run[r]]
  /\ overtaken' = [r \in Runs |-> overtaken[r] /\ HasRow(r)]
  /\ UNCHANGED <<present, slot, writes, edits, faults>>

-----------------------------------------------------------------------------
Publish(t) ==
  \E r \in Runs : Intend(t, r) \/ Select(t, r) \/ Settle(t, r) \/ SelectRaises(t, r)
Edit(t) == Trim(t) \/ SaveCard(t) \/ \E v \in Values : ManualSelect(t, v)
TaskStep(r) ==
  \/ Snapshot(r) \/ BeginRun(r) \/ Wait(r)
  \/ \E status \in {"live", "stopped"} : RunState(r, status)
  \/ \E v \in Values : Execute(r, v)

Next ==
  \/ \E r \in Runs : TaskStep(r)
  \/ \E t \in Threads :
       \/ Arrive(t) \/ Open(t) \/ List(t) \/ Opened(t) \/ Publish(t) \/ Raise(t)
       \/ Edit(t) \/ Reply(t)
  \/ Crash

Spec == Init /\ [][Next]_vars

\* Threads run on, and the project is opened again and again.  Nothing is
\* assumed of the worker, of edits, or of the absence of faults.
Fairness ==
  /\ \A t \in Threads : /\ WF_vars(Open(t)) /\ WF_vars(List(t))
                        /\ WF_vars(Opened(t)) /\ WF_vars(Publish(t))
  /\ \A t \in Requests : WF_vars(Arrive(t)) /\ WF_vars(Reply(t))

FairSpec == Spec /\ Fairness

-----------------------------------------------------------------------------
(* Properties.                                                              *)

\* A result is written to the selection at most once, however often the
\* process dies, a commit fails or another thread recovers it in between
\* ("without incrementing a selection twice").
PublishedOnce == \A r \in Runs : writes[r] <= 1

\* A result only replaces the content its run was compiled from: whatever a
\* user or another run put there since then stays ("without overwriting a
\* newer manual selection").
KeepsNewer == [][\A r \in Runs : writes'[r] # writes[r] => ~overtaken[r]]_vars

\* A durable intent is never dropped: no status update of the task service and
\* no crash turns it into anything but a published run, which is final.
IntentKept ==
  [][\A r \in Runs :
       /\ run[r].status = "publishing" => run'[r].status \in {"publishing", "success"}
       /\ run[r].status = "publishing" /\ run'[r].status = "publishing" =>
            run'[r].payload = run[r].payload
       /\ run[r].status = "success" => run'[r] = run[r]]_vars

\* The verdict a run ends with is true when it is recorded: a selected result is
\* what the material shows, an unselected one was overtaken by other content.
TruthfulVerdict ==
  [][\A r \in Runs :
       (run[r].status # "success" /\ run'[r].status = "success") =>
         IF run'[r].selected THEN slot.content = run[r].payload ELSE overtaken[r]]_vars

\* "A retry (or reopening the project) finishes that intent."
IntentFinishes ==
  \A r \in Runs : run[r].status = "publishing" ~> run[r].status = "success"

\* A card saved without the material holds no selection of it, even when a run
\* that was compiled before publishes, or an intent is recovered, afterwards.
NoOrphanSelection == ~present => slot = Empty

\* Once the material stays in its card, its intents finish after all.
RestoredIntentFinishes == <>[]present => IntentFinishes

\* Publication implements the slot it promises: one atomic, at most once effect
\* per run on the version it was compiled from, one true verdict, and changes by
\* hand only of the selection the editor was shown.
Slot == INSTANCE MaterialSlot WITH
  Editors <- Requests,
  content <- slot.content,
  version <- slot.contentRev,
  edition <- slot.rev,
  shown <- [t \in Requests |-> thread[t].seen],
  born <- [r \in {s \in Runs : HasRow(s)} |-> run[r].base],
  applied <- {r \in Runs : writes[r] > 0},
  settled <- [r \in {s \in Runs : run[s].status = "success"} |-> run[r].selected]

SlotSpec == Slot!Spec
=============================================================================
