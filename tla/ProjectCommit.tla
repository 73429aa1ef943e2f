--------------------------- MODULE ProjectCommit ---------------------------
(***************************************************************************)
(* How a Canvas project's files are written: the commit journal of         *)
(* workspace/transactions.py and the saves of workflow_files.py, store.py  *)
(* and native.py that use it.                                              *)
(*                                                                         *)
(* A save of several files first replaces .canvas-commit.json by its       *)
(* intent, then each file, then removes the journal.  Whoever loads        *)
(* canvas.json next finishes what a crash or an OSError left.  Everything  *)
(* runs under transactions.LOCK; people and tools may edit the files       *)
(* between two requests, never inside one.                                 *)
(***************************************************************************)
EXTENDS Naturals

CONSTANTS
  Cards,       \* card workflow files, the project's root card included
  Canvas,      \* canvas.json
  Clients,     \* clients with one request each at a time
  NoClient,    \* "nobody holds the lock"
  MaxVersions, \* bound: contents written by saves and by foreign edits
  MaxFaults    \* bound: crashes, and writes or removals that raise OSError

ASSUME CommitAssumption ==
  /\ Canvas \notin Cards
  /\ NoClient \notin Clients
  /\ MaxVersions \in Nat /\ MaxFaults \in Nat

VARIABLES
  file,     \* what each file holds
  journal,  \* the files of the pending commit, with content before and after
  lock,     \* the client whose request holds transactions.LOCK
  request,  \* where each client's request stands
  known,    \* the revisions each client was last shown
  version,  \* contents written so far, each with a number
  edits,    \* history variable: foreign edits so far
  faults    \* crashes and failures so far

vars == <<file, journal, lock, request, known, version, edits, faults>>

Files == Cards \union {Canvas}

\* A file is compared by its revision: the counter in canvas.json, the hash of
\* a card's structure.  Field values, selections and cursors leave a card's
\* revision as it is; "value" tells such contents apart.
Contents == [revision: Nat, value: Nat]
Start == [revision |-> 0, value |-> 0]

\* What the program saves: the files it writes, those whose revision changes,
\* those whose revision the client sends along and has in the answer, and
\* whether it goes through commit_project.
Plan(writes, revises, checked, journaled) ==
  [writes |-> writes, revises |-> revises, checked |-> checked, journaled |-> journaled]

\* patch, copy_instance, save_settings: cards and the manifest.
PatchPlans ==
  {Plan(W \union {Canvas}, B \union {Canvas}, {Canvas}, TRUE)
     : W \in SUBSET Cards, B \in SUBSET Cards}
\* save_instance, with or without another structure of the card; add_instance.
CardPlans ==
  {Plan({c, Canvas}, B \union {Canvas}, {c}, TRUE) : c \in Cards, B \in SUBSET Cards}
    \union {Plan({c, Canvas}, {c, Canvas}, {}, TRUE) : c \in Cards}
\* commit_controls: values of cards, without the manifest.
ControlPlans == {Plan(W, {}, {}, TRUE) : W \in (SUBSET Cards) \ {{}}}
\* save_layout and Project.select replace one file.
PlainPlans ==
  {Plan({Canvas}, {Canvas}, {Canvas}, FALSE)}
    \union {Plan({c}, {}, {}, FALSE) : c \in Cards}

Plans ==
  {plan \in PatchPlans \union CardPlans \union ControlPlans \union PlainPlans
     : plan.revises \subseteq plan.writes}

\* recover: in recover_commit; apply: past its checks; loaded: canvas.json is
\* loaded and nothing is pending.  "left" are the files still to be replaced;
\* "saved" and "answer" say that a commit is under way and what it will answer.
Idle == [at |-> "idle", left |-> {}, saved |-> FALSE, answer |-> {}]
Requests == [at: {"idle", "recover", "apply", "loaded"},
             left: SUBSET Files, saved: BOOLEAN, answer: SUBSET Files]

None == [f \in {} |-> 0]
Entries == DOMAIN journal
Pending == Entries # {}

TypeOK ==
  /\ file \in [Files -> Contents]
  /\ Entries \subseteq Files
  /\ journal \in [Entries -> [before: Contents, after: Contents]]
  /\ lock \in Clients \union {NoClient}
  /\ request \in [Clients -> Requests]
  /\ known \in [Clients -> [Files -> Nat]]
  /\ version \in Nat /\ edits \in Nat /\ faults \in Nat

Init ==
  /\ file = [f \in Files |-> Start]
  /\ journal = None
  /\ lock = NoClient
  /\ request = [c \in Clients |-> Idle]
  /\ known = [c \in Clients |-> [f \in Files |-> Start.revision]]
  /\ version = 0 /\ edits = 0 /\ faults = 0

-----------------------------------------------------------------------------
\* recover_commit accepts a file that is as it was, or as it shall be.
Foreign(f) == file[f] \notin {journal[f].before, journal[f].after}
Conflicted == \E f \in Entries : Foreign(f)

\* recover_commit checks every entry before it replaces the first file.
MutVerified == Canvas \in Entries => ~Foreign(Canvas)
Verified == ~Conflicted

\* Every writer loads canvas.json first, which finishes a pending commit.
MutOutstanding(c) == Pending /\ request[c].saved
Outstanding(c) == Pending

\* The revisions the client sends along are those of the files.
UpToDate(c, plan) == \A f \in plan.checked : known[c][f] = file[f].revision

\* What a save puts into a file; the revision of canvas.json is a counter.
Written(plan, f) ==
  [revision |-> IF f \notin plan.revises THEN file[f].revision
                ELSE IF f = Canvas THEN file[f].revision + 1 ELSE version + 1,
   value |-> version + 1]

\* The client is shown the revisions of the files F.
Shown(c, F, now) ==
  [known EXCEPT ![c] =
     [f \in Files |-> IF f \in F THEN now[f].revision ELSE known[c][f]]]

\* Only the files whose content is not there yet are replaced.
MutRemaining == {f \in Entries \ {Canvas} : file[f] # journal[f].after}
Remaining == {f \in Entries : file[f] # journal[f].after}

\* The journal holds the content of every file before and after the save.
MutIntent(plan) == [f \in plan.writes |-> [after |-> Written(plan, f)]]
Intent(plan) ==
  [f \in plan.writes |-> [before |-> file[f], after |-> Written(plan, f)]]

Move(c, place) == request' = [request EXCEPT ![c].at = place]
Leave(c) ==
  /\ request' = [request EXCEPT ![c] = Idle]
  /\ lock' = NoClient

-----------------------------------------------------------------------------
Begin(c) ==
  /\ request[c].at = "idle" /\ lock = NoClient
  /\ lock' = c
  /\ request' = [request EXCEPT ![c] = [Idle EXCEPT !.at = "recover"]]
  /\ UNCHANGED <<file, journal, known, version, edits, faults>>

\* recover_commit finds no journal: the load goes on, or the save has ended.
Recovered(c) ==
  /\ request[c].at = "recover" /\ ~Outstanding(c)
  /\ IF request[c].saved
     THEN Leave(c) /\ known' = Shown(c, request[c].answer, file)
     ELSE Move(c, "loaded") /\ UNCHANGED <<lock, known>>
  /\ UNCHANGED <<file, journal, version, edits, faults>>

\* A file was changed during an incomplete save: nothing is touched.
Stop(c) ==
  /\ request[c].at = "recover" /\ Outstanding(c) /\ ~Verified
  /\ Leave(c)
  /\ UNCHANGED <<file, journal, known, version, edits, faults>>

Prepare(c) ==
  /\ request[c].at = "recover" /\ Outstanding(c) /\ Verified
  /\ request' = [request EXCEPT ![c].at = "apply", ![c].left = Remaining]
  /\ UNCHANGED <<file, journal, lock, known, version, edits, faults>>

\* os.replace of one file; every caller lists the manifest last.
Apply(c, f) ==
  /\ request[c].at = "apply" /\ f \in request[c].left
  /\ f = Canvas => request[c].left = {Canvas}
  /\ file' = [file EXCEPT ![f] = journal[f].after]
  /\ request' = [request EXCEPT ![c].left = @ \ {f}]
  /\ UNCHANGED <<journal, lock, known, version, edits, faults>>

Unlink(c) ==
  /\ request[c].at = "apply" /\ request[c].left = {}
  /\ journal' = None
  /\ Move(c, "recover")
  /\ UNCHANGED <<file, lock, known, version, edits, faults>>

\* The client opens the project, or reads one card.
Show(c) ==
  /\ request[c].at = "loaded"
  /\ \E F \in {Files} \union {{f} : f \in Cards} : known' = Shown(c, F, file)
  /\ Leave(c)
  /\ UNCHANGED <<file, journal, version, edits, faults>>

\* The client's revision is not the current one, or its edit is not valid.
Refuse(c) ==
  /\ request[c].at = "loaded"
  /\ Leave(c)
  /\ UNCHANGED <<file, journal, known, version, edits, faults>>

\* commit_project replaces the journal file by the intent.
WriteJournal(c, plan) ==
  /\ request[c].at = "loaded" /\ plan.journaled /\ UpToDate(c, plan)
  /\ version < MaxVersions /\ version' = version + 1
  /\ journal' = Intent(plan)
  /\ request' = [request EXCEPT ![c] =
       [at |-> "recover", left |-> {}, saved |-> TRUE, answer |-> plan.checked]]
  /\ UNCHANGED <<file, lock, known, edits, faults>>

\* save_layout and Project.select replace one file without a journal.
WriteFile(c, plan) ==
  /\ request[c].at = "loaded" /\ ~plan.journaled /\ UpToDate(c, plan)
  /\ version < MaxVersions /\ version' = version + 1
  /\ file' = [f \in Files |-> IF f \in plan.writes THEN Written(plan, f) ELSE file[f]]
  /\ known' = Shown(c, plan.checked, file')
  /\ Leave(c)
  /\ UNCHANGED <<journal, edits, faults>>

\* A read, a write or a removal raises: a full disk, a file held by another
\* program.
Fail(c) ==
  /\ request[c].at \in {"recover", "apply"}
  /\ faults < MaxFaults /\ faults' = faults + 1
  /\ Leave(c)
  /\ UNCHANGED <<file, journal, known, version, edits>>

Crash ==
  /\ faults < MaxFaults /\ faults' = faults + 1
  /\ lock' = NoClient
  /\ request' = [c \in Clients |-> Idle]
  /\ UNCHANGED <<file, journal, known, version, edits>>

\* A person or a tool edits a file, with or without another revision, or
\* restores what it held at first or before the pending save.
Earlier(f) == {Start} \union {journal[g].before : g \in Entries \intersect {f}}
Edit(f) ==
  /\ lock = NoClient /\ version < MaxVersions
  /\ edits' = edits + 1
  /\ version' = version + 1
  /\ \E now \in Earlier(f) \union
                  [revision: {file[f].revision, version'}, value: {version'}] :
       file' = [file EXCEPT ![f] = now]
  /\ UNCHANGED <<journal, lock, request, known, faults>>

-----------------------------------------------------------------------------
Recover(c) ==
  Recovered(c) \/ Stop(c) \/ Prepare(c) \/ Unlink(c) \/ \E f \in Files : Apply(c, f)
Save(c) == \E plan \in Plans : WriteJournal(c, plan) \/ WriteFile(c, plan)
Serve(c) == Recover(c) \/ Show(c) \/ Refuse(c) \/ Save(c)

Next ==
  \/ \E c \in Clients : Begin(c) \/ Serve(c) \/ Fail(c)
  \/ Crash
  \/ \E f \in Files : Edit(f)

Spec == Init /\ [][Next]_vars

\* Requests run to their end, and requests keep coming.
Fairness ==
  /\ \A c \in Clients : WF_vars(Serve(c))
  /\ WF_vars(\E c \in Clients : Begin(c))
FairSpec == Spec /\ Fairness

-----------------------------------------------------------------------------
(* Properties.                                                              *)

\* A pending commit counts as done: its journal is bound to be finished.
Committed == [f \in Files |-> IF f \in Entries THEN journal[f].after ELSE file[f]]
Store == INSTANCE ProjectStore WITH
  content <- Committed

\* A save takes effect on all its files at once or not at all, whatever crash
\* or error interrupts commit_project and whoever finishes it, and only on the
\* revisions its client was shown.
StoreSpec == Store!Spec

\* "externally changed files stop recovery and preserve the journal for
\* inspection" (docs/architecture.md): as long as a file of a pending commit is
\* neither as it was nor as it shall be, no request changes any file.
ForeignEditStops ==
  [][Conflicted /\ edits' = edits => UNCHANGED <<file, journal>>]_vars

\* Only a foreign edit blocks a project: no save, finished by whomever or
\* interrupted wherever, ever leaves a file that recovery refuses.
OnlyForeignBlocks == [][Conflicted' => Conflicted \/ edits' # edits]_vars

\* "Reopening finishes only the intended writes": once no foreign edit stands in
\* the way, a pending commit is finished.
CommitFinishes == <>[]~Conflicted => (Pending ~> ~Pending)
=============================================================================
