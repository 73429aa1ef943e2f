------------------------ MODULE ProjectCommit_proofs ------------------------
(***************************************************************************)
(* Proofs about ProjectCommit, for every number of cards, clients, saves,  *)
(* foreign edits, crashes and failures.                                    *)
(***************************************************************************)
EXTENDS ProjectCommit, TLAPS

-----------------------------------------------------------------------------
(* The inductive invariant.                                                 *)

\* Only the owner of LOCK is inside a request.
Holding == \A c \in Clients : request[c].at # "idle" => lock = c

\* A client that loaded canvas.json left no commit pending.
Loaded == \A c \in Clients : request[c].at = "loaded" => ~Pending

\* Past recover_commit's checks, no file is foreign, and every file that is not
\* still to be replaced holds what the journal intends.
Applying ==
  \A c \in Clients : request[c].at = "apply" =>
    /\ request[c].left \subseteq Entries
    /\ ~Conflicted
    /\ \A f \in Entries \ request[c].left : file[f] = journal[f].after

\* No content is newer than the last one written, so the next is a new one.
Old(content) == content.revision <= version /\ content.value <= version
Fresh ==
  /\ \A f \in Files : Old(file[f])
  /\ \A f \in Entries : Old(journal[f].before) /\ Old(journal[f].after)

Invariant == TypeOK /\ Holding /\ Loaded /\ Applying /\ Fresh

-----------------------------------------------------------------------------
(* Facts about the definitions the actions are built from.                  *)

\* A save revises files it writes, and checks files of the project.
LEMMA PlanFacts ==
  ASSUME NEW plan \in Plans
  PROVE  /\ plan.writes \subseteq Files
         /\ plan.revises \subseteq plan.writes
         /\ plan.checked \subseteq Files
<1>1. plan \in PatchPlans \union CardPlans \union ControlPlans \union PlainPlans
  BY DEF Plans
<1>2. plan.revises \subseteq plan.writes
  BY DEF Plans
<1>3. plan \in PatchPlans => plan.writes \subseteq Files /\ plan.checked \subseteq Files
  BY DEF PatchPlans, Plan, Files
<1>4. plan \in CardPlans => plan.writes \subseteq Files /\ plan.checked \subseteq Files
  BY DEF CardPlans, Plan, Files
<1>5. plan \in ControlPlans => plan.writes \subseteq Files /\ plan.checked \subseteq Files
  BY DEF ControlPlans, Plan, Files
<1>6. plan \in PlainPlans => plan.writes \subseteq Files /\ plan.checked \subseteq Files
  BY DEF PlainPlans, Plan, Files
<1> QED BY <1>1, <1>2, <1>3, <1>4, <1>5, <1>6

LEMMA IdleFacts ==
  /\ Idle \in Requests /\ Idle.at = "idle"
  /\ None \in [{} -> {}] /\ DOMAIN None = {}
BY DEF Idle, Requests, None

\* What a save writes is well formed and differs from every content so far.
LEMMA WrittenFacts ==
  ASSUME TypeOK, Fresh, NEW plan \in Plans, NEW f \in Files
  PROVE  /\ Written(plan, f) \in Contents
         /\ Written(plan, f).revision <= version + 1
         /\ Written(plan, f).value = version + 1
         /\ Written(plan, f) # file[f]
         /\ Written(plan, f).revision # file[f].revision <=> f \in plan.revises
<1>1. /\ file[f] \in Contents /\ version \in Nat
      /\ file[f].revision <= version /\ file[f].value <= version
  BY DEF TypeOK, Fresh, Old
<1> QED BY <1>1 DEF Written, Contents

\* What a client is shown keeps the type of "known".
LEMMA ShownType ==
  ASSUME TypeOK, NEW c \in Clients, NEW F, NEW now \in [Files -> Contents]
  PROVE  Shown(c, F, now) \in [Clients -> [Files -> Nat]]
<1>1. /\ known \in [Clients -> [Files -> Nat]]
      /\ \A f \in Files : now[f].revision \in Nat
  BY DEF TypeOK, Contents
<1> QED BY <1>1 DEF Shown

\* One client's request changes; the others stay.
LEMMA RequestUpdate ==
  ASSUME TypeOK, NEW c \in Clients, NEW r \in Requests,
         request' = [request EXCEPT ![c] = r]
  PROVE  /\ request' \in [Clients -> Requests]
         /\ request'[c] = r
         /\ \A d \in Clients : d # c => request'[d] = request[d]
BY DEF TypeOK

-----------------------------------------------------------------------------
(* Preservation, one lemma per kind of step.                                *)

LEMMA InvariantInit == Init => Invariant
<1> SUFFICES ASSUME Init PROVE Invariant
  OBVIOUS
<1> USE CommitAssumption, IdleFacts
<1>1. TypeOK
  BY DEF Init, TypeOK, Start, Contents, Entries
<1>2. Holding /\ Loaded /\ Applying
  BY DEF Init, Holding, Loaded, Applying
<1>3. Fresh
  BY DEF Init, Fresh, Old, Start, Entries
<1> QED BY <1>1, <1>2, <1>3 DEF Invariant

\* The owner of the lock ends its request, or everybody does; the files and the
\* journal stay.
LEMMA LeaveStep ==
  ASSUME Invariant, NEW c \in Clients, lock = c,
         Leave(c) , UNCHANGED <<file, journal, version, edits>>,
         known' \in [Clients -> [Files -> Nat]], faults' \in Nat
  PROVE  Invariant'
<1> USE IdleFacts
<1>1. TypeOK /\ Holding /\ Fresh
  BY DEF Invariant
<1>2. /\ request' \in [Clients -> Requests]
      /\ request'[c] = Idle
      /\ \A d \in Clients : d # c => request'[d] = request[d]
  BY <1>1, RequestUpdate DEF Leave
<1>3. \A d \in Clients : request'[d].at = "idle"
  BY <1>1, <1>2 DEF Holding
<1>4. TypeOK'
  BY <1>1, <1>2 DEF TypeOK, Entries, Leave
<1>5. Fresh'
  BY <1>1 DEF Fresh, Old, Entries
<1> QED BY <1>3, <1>4, <1>5 DEF Invariant, Holding, Loaded, Applying

\* The owner of the lock moves on within its request; the files and the journal
\* stay, and it has the knowledge its new place stands for.
LEMMA MoveStep ==
  ASSUME Invariant, NEW c \in Clients, lock' = c, lock \in {c, NoClient},
         NEW r \in Requests, request' = [request EXCEPT ![c] = r],
         UNCHANGED <<file, journal, known, version, edits, faults>>,
         r.at = "loaded" => ~Pending,
         r.at = "apply" =>
            /\ r.left \subseteq Entries
            /\ ~Conflicted
            /\ \A f \in Entries \ r.left : file[f] = journal[f].after
  PROVE  Invariant'
<1>1. TypeOK /\ Holding /\ Fresh
  BY DEF Invariant
<1>2. /\ request' \in [Clients -> Requests]
      /\ request'[c] = r
      /\ \A d \in Clients : d # c => request'[d] = request[d]
  BY <1>1, RequestUpdate
<1>3. \A d \in Clients : d # c => request'[d].at = "idle"
  BY <1>1, <1>2, CommitAssumption DEF Holding
<1>4. TypeOK'
  BY <1>1, <1>2 DEF TypeOK, Entries
<1>5. Holding'
  BY <1>3 DEF Holding
<1>6. Loaded'
  BY <1>2, <1>3 DEF Loaded, Pending, Entries
<1>7. Applying'
  BY <1>2, <1>3 DEF Applying, Conflicted, Foreign, Entries
<1>8. Fresh'
  BY <1>1 DEF Fresh, Old, Entries
<1> QED BY <1>4, <1>5, <1>6, <1>7, <1>8 DEF Invariant

LEMMA ApplyStep ==
  ASSUME Invariant, NEW c \in Clients, NEW f \in Files, Apply(c, f)
  PROVE  Invariant'
<1> DEFINE r == [request[c] EXCEPT !.left = @ \ {f}]
<1>1. TypeOK /\ Holding /\ Fresh /\ lock = c
  BY DEF Invariant, Holding, Apply
<1>2. /\ f \in Entries /\ request[c].left \subseteq Entries /\ ~Conflicted
      /\ \A g \in Entries \ request[c].left : file[g] = journal[g].after
  BY DEF Invariant, Applying, Apply
<1>3. journal[f] \in [before: Contents, after: Contents]
  BY <1>1, <1>2 DEF TypeOK
<1>4. r \in Requests /\ r.at = "apply" /\ r.left = request[c].left \ {f}
  BY <1>1 DEF Apply, TypeOK, Requests
<1>5. request' = [request EXCEPT ![c] = r]
  BY DEF Apply
<1>6. /\ request' \in [Clients -> Requests]
      /\ request'[c] = r
      /\ \A d \in Clients : d # c => request'[d] = request[d]
  BY <1>1, <1>4, <1>5, RequestUpdate
<1>7. \A d \in Clients : d # c => request'[d].at = "idle"
  BY <1>1, <1>6 DEF Holding
<1>8. /\ file' \in [Files -> Contents]
      /\ file'[f] = journal[f].after
      /\ \A g \in Files : g # f => file'[g] = file[g]
  BY <1>1, <1>3 DEF TypeOK, Apply
<1>9. TypeOK'
  BY <1>1, <1>6, <1>8 DEF TypeOK, Entries, Apply
<1>10. Holding' /\ Loaded'
  BY <1>1, <1>4, <1>6, <1>7 DEF Holding, Loaded, Apply
<1>11. Entries \subseteq Files
  BY <1>1 DEF TypeOK
<1>12. ~Conflicted'
  BY <1>2, <1>8, <1>11 DEF Conflicted, Foreign, Entries, Apply
<1>13. \A g \in Entries \ r.left : file'[g] = journal[g].after
  BY <1>2, <1>4, <1>8, <1>11
<1>14. Applying'
  <2> SUFFICES ASSUME NEW d \in Clients, request'[d].at = "apply"
               PROVE  /\ request'[d].left \subseteq Entries
                      /\ ~Conflicted'
                      /\ \A g \in Entries \ request'[d].left : file'[g] = journal[g].after
    BY DEF Applying, Entries, Apply
  <2> QED BY <1>2, <1>4, <1>6, <1>7, <1>12, <1>13
<1>15. Fresh'
  BY <1>1, <1>2, <1>8 DEF Fresh, Old, Entries, Apply
<1> QED BY <1>9, <1>10, <1>14, <1>15 DEF Invariant

LEMMA UnlinkStep ==
  ASSUME Invariant, NEW c \in Clients, Unlink(c)
  PROVE  Invariant'
<1> DEFINE r == [request[c] EXCEPT !.at = "recover"]
<1> USE IdleFacts
<1>1. TypeOK /\ Holding /\ Fresh /\ lock = c
  BY DEF Invariant, Holding, Unlink
<1>2. r \in Requests /\ r.at = "recover"
  BY <1>1 DEF TypeOK, Requests
<1>3. /\ request' \in [Clients -> Requests]
      /\ request'[c] = r
      /\ \A d \in Clients : d # c => request'[d] = request[d]
  BY <1>1, <1>2, RequestUpdate DEF Unlink, Move
<1>4. \A d \in Clients : d # c => request'[d].at = "idle"
  BY <1>1, <1>3 DEF Holding
<1>5. TypeOK'
  BY <1>1, <1>3 DEF TypeOK, Entries, Unlink
<1>6. Holding' /\ Loaded' /\ Applying'
  BY <1>1, <1>2, <1>3, <1>4 DEF Holding, Loaded, Applying, Unlink
<1>7. Fresh'
  BY <1>1 DEF Fresh, Old, Entries, Unlink
<1> QED BY <1>5, <1>6, <1>7 DEF Invariant

LEMMA WriteJournalStep ==
  ASSUME Invariant, NEW c \in Clients, NEW plan \in Plans, WriteJournal(c, plan)
  PROVE  /\ Invariant'
         /\ Entries' = plan.writes /\ ~Pending /\ ~Conflicted'
         /\ \A f \in plan.writes : journal'[f].after = Written(plan, f)
<1> DEFINE r == [at |-> "recover", left |-> {}, saved |-> TRUE, answer |-> plan.checked]
<1>1. TypeOK /\ Holding /\ Fresh /\ lock = c /\ ~Pending
  BY DEF Invariant, Holding, Loaded, WriteJournal
<1>2. r \in Requests /\ r.at = "recover"
  BY PlanFacts DEF Requests
<1>3. /\ request' \in [Clients -> Requests]
      /\ request'[c] = r
      /\ \A d \in Clients : d # c => request'[d] = request[d]
  BY <1>1, <1>2, RequestUpdate DEF WriteJournal
<1>4. \A d \in Clients : d # c => request'[d].at = "idle"
  BY <1>1, <1>3 DEF Holding
<1>5. plan.writes \subseteq Files
  BY PlanFacts
<1>6. /\ Entries' = plan.writes
      /\ \A f \in plan.writes :
           journal'[f].before = file[f] /\ journal'[f].after = Written(plan, f)
      /\ journal' \in [plan.writes -> [before: Contents, after: Contents]]
  BY <1>1, <1>5, WrittenFacts DEF WriteJournal, Intent, Entries, TypeOK
<1>7. TypeOK'
  BY <1>1, <1>3, <1>5, <1>6 DEF TypeOK, Entries, WriteJournal
<1>8. Holding' /\ Loaded' /\ Applying'
  BY <1>1, <1>2, <1>3, <1>4 DEF Holding, Loaded, Applying, WriteJournal
<1>9. file' = file /\ version' = version + 1 /\ version \in Nat
  BY <1>1 DEF WriteJournal, TypeOK
<1>10. Fresh'
  <2>1. \A f \in Files : file[f] \in Contents /\ Old(file[f])
    BY <1>1 DEF TypeOK, Fresh
  <2>2. \A f \in Files : Old(file[f])'
    BY <1>9, <2>1 DEF Old, Contents
  <2>3. \A f \in plan.writes : Old(journal[f].before)'
    BY <1>5, <1>6, <1>9, <2>2 DEF Old
  <2>4. \A f \in plan.writes : Old(journal[f].after)'
    <3> SUFFICES ASSUME NEW f \in plan.writes
                 PROVE  /\ journal'[f].after.revision <= version'
                        /\ journal'[f].after.value <= version'
      BY DEF Old
    <3>1. journal'[f].after = Written(plan, f)
      BY <1>6
    <3> QED BY <1>1, <1>5, <1>9, <3>1, WrittenFacts
  <2> QED BY <1>6, <2>2, <2>3, <2>4 DEF Fresh
<1>11. ~Conflicted'
  <2> SUFFICES ASSUME NEW f \in plan.writes
               PROVE  file'[f] = journal'[f].before
    BY <1>6 DEF Conflicted, Foreign
  <2> QED BY <1>6, <1>9
<1>12. \A f \in plan.writes : journal'[f].after = Written(plan, f)
  BY <1>6
<1>13. Invariant'
  BY <1>7, <1>8, <1>10 DEF Invariant
<1> QED BY <1>1, <1>6, <1>11, <1>12, <1>13

LEMMA WriteFileStep ==
  ASSUME Invariant, NEW c \in Clients, NEW plan \in Plans, WriteFile(c, plan)
  PROVE  Invariant' /\ Entries = {} /\ Entries' = {}
<1> USE IdleFacts
<1>1. TypeOK /\ Holding /\ Fresh /\ lock = c /\ Entries = {}
  BY DEF Invariant, Holding, Loaded, Pending, WriteFile
<1>2. /\ request' \in [Clients -> Requests]
      /\ \A d \in Clients : request'[d].at = "idle"
  BY <1>1, RequestUpdate DEF WriteFile, Leave, Holding
<1>3. /\ file' = [f \in Files |-> IF f \in plan.writes THEN Written(plan, f) ELSE file[f]]
      /\ version' = version + 1 /\ version \in Nat
      /\ journal' = journal
  BY <1>1 DEF WriteFile, TypeOK
<1>4. file' \in [Files -> Contents]
  BY <1>1, <1>3, WrittenFacts DEF TypeOK
<1>5. known' \in [Clients -> [Files -> Nat]]
  BY <1>1, <1>4, ShownType DEF WriteFile
<1>6. Entries' = {}
  BY <1>1, <1>3 DEF Entries
<1>7. TypeOK'
  <2>1. journal' \in [{} -> [before: Contents, after: Contents]]
    BY <1>1, <1>3 DEF TypeOK
  <2>2. lock' = NoClient /\ edits' \in Nat /\ faults' \in Nat
    BY <1>1 DEF TypeOK, WriteFile, Leave
  <2> QED BY <1>2, <1>3, <1>4, <1>5, <1>6, <2>1, <2>2 DEF TypeOK
<1>8. Fresh'
  <2>1. \A f \in Files : Old(file[f])'
    <3> SUFFICES ASSUME NEW f \in Files
                 PROVE  file'[f].revision <= version' /\ file'[f].value <= version'
      BY DEF Old
    <3>1. /\ file[f].revision <= version /\ file[f].value <= version
          /\ file[f].revision \in Nat /\ file[f].value \in Nat
      BY <1>1 DEF TypeOK, Fresh, Old, Contents
    <3> QED BY <1>1, <1>3, <3>1, WrittenFacts
  <2> QED BY <1>6, <2>1 DEF Fresh
<1> QED BY <1>1, <1>2, <1>6, <1>7, <1>8 DEF Invariant, Holding, Loaded, Applying

LEMMA EditStep ==
  ASSUME Invariant, NEW f \in Files, Edit(f)
  PROVE  /\ Invariant'
         /\ \A g \in Files \ {f} : file'[g] = file[g]
<1>1. TypeOK /\ Holding /\ Fresh /\ lock = NoClient
  BY DEF Invariant, Edit
<1>2. \A c \in Clients : request[c].at = "idle"
  BY <1>1, CommitAssumption DEF Holding
<1>3. /\ version' = version + 1 /\ version \in Nat
      /\ edits' = edits + 1
      /\ UNCHANGED <<journal, lock, request, known, faults>>
  BY <1>1 DEF Edit, TypeOK
<1>4. PICK now \in Earlier(f) \union
                     [revision: {file[f].revision, version'}, value: {version'}] :
        file' = [file EXCEPT ![f] = now]
  BY DEF Edit
<1>5. now \in Contents /\ now.revision <= version' /\ now.value <= version'
  <2>1. CASE now = Start
    BY <1>3, <2>1 DEF Start, Contents
  <2>2. CASE f \in Entries /\ now = journal[f].before
    BY <1>1, <1>3, <2>2 DEF TypeOK, Fresh, Old, Contents
  <2>3. CASE now \in [revision: {file[f].revision, version'}, value: {version'}]
    BY <1>1, <1>3, <2>3 DEF TypeOK, Fresh, Old, Contents
  <2> QED BY <1>4, <2>1, <2>2, <2>3 DEF Earlier
<1>6. /\ file' \in [Files -> Contents]
      /\ file'[f] = now
      /\ \A g \in Files : g # f => file'[g] = file[g]
  BY <1>1, <1>4, <1>5 DEF TypeOK
<1>7. TypeOK'
  BY <1>1, <1>3, <1>6 DEF TypeOK, Entries
<1>8. Fresh'
  <2>1. \A g \in Files : file[g] \in Contents /\ Old(file[g])
    BY <1>1 DEF TypeOK, Fresh
  <2>2. \A g \in Files : Old(file[g])'
    BY <1>3, <1>5, <1>6, <2>1 DEF Old, Contents
  <2>3. \A g \in Entries :
          /\ journal[g].before \in Contents /\ journal[g].after \in Contents
          /\ Old(journal[g].before) /\ Old(journal[g].after)
    BY <1>1 DEF TypeOK, Fresh
  <2>4. \A g \in Entries : Old(journal[g].before)' /\ Old(journal[g].after)'
    BY <1>3, <2>3 DEF Old, Contents
  <2> QED BY <1>3, <2>2, <2>4 DEF Fresh, Entries
<1>9. Holding' /\ Loaded' /\ Applying'
  BY <1>2, <1>3 DEF Holding, Loaded, Applying
<1> QED BY <1>6, <1>7, <1>8, <1>9 DEF Invariant

-----------------------------------------------------------------------------
(* Every step preserves the invariant.                                      *)

LEMMA InvariantStep == Invariant /\ [Next]_vars => Invariant'
<1> SUFFICES ASSUME Invariant, [Next]_vars PROVE Invariant'
  OBVIOUS
<1>0. TypeOK /\ Holding
  BY DEF Invariant
<1>1. ASSUME NEW c \in Clients, Begin(c) PROVE Invariant'
  <2> DEFINE r == [Idle EXCEPT !.at = "recover"]
  <2>1. r \in Requests /\ r.at = "recover"
    BY DEF Idle, Requests
  <2>2. /\ lock' = c /\ lock = NoClient
        /\ request' = [request EXCEPT ![c] = r]
        /\ UNCHANGED <<file, journal, known, version, edits, faults>>
    BY <1>1 DEF Begin
  <2> HIDE DEF r
  <2> QED BY <2>1, <2>2, MoveStep
<1>2. ASSUME NEW c \in Clients, Recovered(c) PROVE Invariant'
  <2>1. lock = c /\ ~Pending /\ file \in [Files -> Contents] /\ faults \in Nat
    BY <1>0, <1>2 DEF Recovered, Holding, Outstanding, TypeOK
  <2>2. CASE request[c].saved
    <3>1. known' \in [Clients -> [Files -> Nat]]
      BY <1>0, <1>2, <2>1, <2>2, ShownType DEF Recovered
    <3> QED BY <1>2, <2>1, <2>2, <3>1, LeaveStep DEF Recovered
  <2>3. CASE ~request[c].saved
    <3> DEFINE r == [request[c] EXCEPT !.at = "loaded"]
    <3>1. r \in Requests /\ r.at = "loaded"
      BY <1>0 DEF TypeOK, Requests
    <3>2. /\ lock' = c /\ request' = [request EXCEPT ![c] = r]
          /\ UNCHANGED <<file, journal, known, version, edits, faults>>
      BY <1>2, <2>1, <2>3 DEF Recovered, Move
    <3> HIDE DEF r
    <3> QED BY <2>1, <3>1, <3>2, MoveStep
  <2> QED BY <2>2, <2>3
<1>3. ASSUME NEW c \in Clients, Stop(c) \/ Refuse(c) PROVE Invariant'
  <2>1. lock = c /\ known' \in [Clients -> [Files -> Nat]] /\ faults' \in Nat
    BY <1>0, <1>3 DEF Stop, Refuse, Holding, TypeOK
  <2> QED BY <1>3, <2>1, LeaveStep DEF Stop, Refuse
<1>4. ASSUME NEW c \in Clients, Prepare(c) PROVE Invariant'
  <2> DEFINE r == [request[c] EXCEPT !.at = "apply", !.left = Remaining]
  <2>1. /\ r \in Requests /\ r.at = "apply" /\ r.left = Remaining
        /\ Remaining \subseteq Entries
    BY <1>0 DEF TypeOK, Requests, Remaining
  <2>2. /\ lock' = c /\ lock = c /\ request' = [request EXCEPT ![c] = r]
        /\ UNCHANGED <<file, journal, known, version, edits, faults>>
        /\ ~Conflicted
    BY <1>0, <1>4 DEF Prepare, Holding, Verified
  <2>3. \A f \in Entries \ r.left : file[f] = journal[f].after
    BY <2>1 DEF Remaining
  <2> HIDE DEF r
  <2> QED BY <2>1, <2>2, <2>3, MoveStep
<1>5. ASSUME NEW c \in Clients, Show(c) PROVE Invariant'
  <2>1. lock = c /\ file \in [Files -> Contents] /\ faults' \in Nat
    BY <1>0, <1>5 DEF Show, Holding, TypeOK
  <2>2. known' \in [Clients -> [Files -> Nat]]
    BY <1>0, <1>5, <2>1, ShownType DEF Show
  <2> QED BY <1>5, <2>1, <2>2, LeaveStep DEF Show
<1>6. ASSUME NEW c \in Clients, Fail(c) PROVE Invariant'
  <2>1. lock = c /\ known' \in [Clients -> [Files -> Nat]] /\ faults' \in Nat
    BY <1>0, <1>6 DEF Fail, Holding, TypeOK
  <2> QED BY <1>6, <2>1, LeaveStep DEF Fail
<1>7. CASE Crash
  <2> USE IdleFacts
  <2>1. request' \in [Clients -> Requests] /\ \A c \in Clients : request'[c].at = "idle"
    BY <1>7 DEF Crash
  <2>2. TypeOK'
    BY <1>0, <1>7, <2>1 DEF TypeOK, Crash, Entries
  <2>3. Fresh'
    BY <1>7 DEF Invariant, Fresh, Old, Crash, Entries
  <2> QED BY <2>1, <2>2, <2>3 DEF Invariant, Holding, Loaded, Applying
<1>8. CASE UNCHANGED vars
  BY <1>8 DEF vars, Invariant, TypeOK, Holding, Loaded, Applying, Fresh, Old,
              Pending, Conflicted, Foreign, Entries
<1> QED
  BY <1>1, <1>2, <1>3, <1>4, <1>5, <1>6, <1>7, <1>8,
     ApplyStep, UnlinkStep, WriteJournalStep, WriteFileStep, EditStep
  DEF Next, Serve, Recover, Save

LEMMA InvariantHolds == Spec => []Invariant
BY InvariantInit, InvariantStep, PTL DEF Spec

-----------------------------------------------------------------------------
(* The results.                                                             *)

\* Every reachable state is well typed: a journal holds the contents before
\* and after of files of the project.
THEOREM TypeCorrect == Spec => []TypeOK
<1>1. Invariant => TypeOK
  BY DEF Invariant
<1> QED BY InvariantHolds, <1>1, PTL

\* Between recover_commit's checks and its last write nothing becomes foreign,
\* and whoever loaded canvas.json may write without a journal: none is pending.
THEOREM DisciplineHolds == Spec => [](Holding /\ Loaded /\ Applying)
<1>1. Invariant => Holding /\ Loaded /\ Applying
  BY DEF Invariant
<1> QED BY InvariantHolds, <1>1, PTL

\* No request touches a project some of whose files recovery refuses.
THEOREM ForeignEditStopped == Spec => ForeignEditStops
<1>1. Invariant /\ [Next]_vars =>
        [Conflicted /\ edits' = edits => UNCHANGED <<file, journal>>]_vars
  <2> SUFFICES ASSUME Invariant, Next, Conflicted, edits' = edits
               PROVE  UNCHANGED <<file, journal>>
    OBVIOUS
  <2>1. ASSUME NEW c \in Clients PROVE request[c].at \notin {"loaded", "apply"}
    BY DEF Invariant, Loaded, Applying, Pending, Conflicted
  <2>2. ASSUME NEW f \in Files PROVE ~Edit(f)
    BY DEF Edit, Invariant, TypeOK
  <2> QED
    BY <2>1, <2>2
    DEF Next, Serve, Recover, Save, Begin, Recovered, Stop, Prepare, Apply,
        Unlink, Show, Refuse, WriteJournal, WriteFile, Fail, Crash
<1> QED BY InvariantHolds, <1>1, PTL DEF Spec, ForeignEditStops

\* A save, wherever it is interrupted and whoever finishes it, never leaves a
\* file that recovery refuses.
THEOREM OnlyForeignBlocked == Spec => OnlyForeignBlocks
<1>1. Invariant /\ [Next]_vars =>
        [Conflicted' => Conflicted \/ edits' # edits]_vars
  <2> SUFFICES ASSUME Invariant, Next, ~Conflicted, edits' = edits
               PROVE  ~Conflicted'
    OBVIOUS
  <2>1. ASSUME NEW f \in Files PROVE ~Edit(f)
    BY DEF Edit, Invariant, TypeOK
  <2>2. CASE UNCHANGED <<file, journal>>
    BY <2>2 DEF Conflicted, Foreign, Entries
  <2>3. ASSUME NEW c \in Clients, NEW f \in Files, Apply(c, f) PROVE ~Conflicted'
    BY <2>3 DEF Apply, Conflicted, Foreign, Entries, Invariant, TypeOK
  <2>4. ASSUME NEW c \in Clients, Unlink(c) PROVE ~Conflicted'
    BY <2>4, IdleFacts DEF Unlink, Conflicted, Entries
  <2>5. ASSUME NEW c \in Clients, NEW plan \in Plans, WriteJournal(c, plan)
        PROVE  ~Conflicted'
    BY <2>5, WriteJournalStep
  <2>6. ASSUME NEW c \in Clients, NEW plan \in Plans, WriteFile(c, plan)
        PROVE  ~Conflicted'
    BY <2>6, WriteFileStep DEF Conflicted
  <2> QED
    BY <2>1, <2>2, <2>3, <2>4, <2>5, <2>6
    DEF Next, Serve, Recover, Save, Begin, Recovered, Stop, Prepare,
        Show, Refuse, Fail, Crash
<1> QED BY InvariantHolds, <1>1, PTL DEF Spec, OnlyForeignBlocks

-----------------------------------------------------------------------------
(* ProjectCommit implements ProjectStore.                                   *)

LEMMA CommittedType ==
  ASSUME TypeOK
  PROVE  Committed \in [Files -> Contents]
BY DEF TypeOK, Committed

\* Without a pending commit, what is committed is what the files hold.
LEMMA Nothing ==
  ASSUME TypeOK, Entries = {}
  PROVE  Committed = file
BY DEF TypeOK, Committed

\* The two specifications show a client the same revisions.
LEMMA SameShown ==
  ASSUME NEW c, NEW F, NEW now
  PROVE  Shown(c, F, now) = Store!Shown(c, F, now)
BY DEF Shown, Store!Shown

LEMMA StoreInit == Init => Store!Init
<1> SUFFICES ASSUME Init PROVE Store!Init
  OBVIOUS
<1>1. Entries = {}
  BY IdleFacts DEF Init, Entries
<1> QED BY <1>1 DEF Init, Store!Init, Committed

\* A client that is shown files when nothing is pending learns what the store
\* holds.
LEMMA StoreLearn ==
  ASSUME Invariant, NEW c \in Clients, NEW F \in SUBSET Files, ~Pending,
         known' = Shown(c, F, file), UNCHANGED <<file, journal, edits>>
  PROVE  Store!Learn(c)
<1>1. Committed = file /\ Committed' = file'
  BY Nothing, CommittedType DEF Invariant, Pending, TypeOK, Entries, Committed
<1> QED BY <1>1, SameShown DEF Store!Learn

\* A commit is the instant its journal is written.
LEMMA StoreJournal ==
  ASSUME Invariant, NEW c \in Clients, NEW plan \in Plans, WriteJournal(c, plan)
  PROVE  Store!Save(c)
<1>1. TypeOK /\ Fresh /\ TypeOK' /\ Committed = file
  BY WriteJournalStep, Nothing DEF Invariant, Pending
<1>2. /\ UpToDate(c, plan) /\ UNCHANGED <<known, edits>> /\ file' = file
  BY DEF WriteJournal
<1>3. Committed' \in [Files -> Contents]
  BY <1>1, CommittedType DEF TypeOK, Committed, Entries
<1>4. ASSUME NEW f \in Files
      PROVE  Committed'[f] = IF f \in plan.writes THEN Written(plan, f) ELSE file[f]
  <2>1. Committed'[f] = IF f \in Entries' THEN journal'[f].after ELSE file'[f]
    BY DEF Committed
  <2> QED BY <1>2, <2>1, WriteJournalStep
<1>5. \A f \in Files :
        /\ Committed'[f] # Committed[f] <=> f \in plan.writes
        /\ Committed'[f].revision # Committed[f].revision <=> f \in plan.revises
  BY <1>1, <1>4, WrittenFacts, PlanFacts
<1> QED BY <1>1, <1>2, <1>3, <1>5 DEF Store!Save, UpToDate

\* A save of one file is the instant the file is replaced.
LEMMA StoreFile ==
  ASSUME Invariant, NEW c \in Clients, NEW plan \in Plans, WriteFile(c, plan)
  PROVE  Store!Save(c)
<1>1. /\ TypeOK /\ Fresh /\ TypeOK' /\ Committed = file
      /\ Committed' = file'
  <2>1. TypeOK /\ Fresh /\ TypeOK' /\ Committed = file
    BY WriteFileStep, Nothing DEF Invariant
  <2>2. Committed' = [f \in Files |-> file'[f]]
    BY WriteFileStep DEF Committed
  <2> QED BY <2>1, <2>2 DEF TypeOK
<1>2. /\ UpToDate(c, plan) /\ UNCHANGED edits
      /\ known' = Shown(c, plan.checked, file')
      /\ file' = [f \in Files |-> IF f \in plan.writes THEN Written(plan, f) ELSE file[f]]
  BY DEF WriteFile
<1>3. \A f \in Files :
        /\ file'[f] # file[f] <=> f \in plan.writes
        /\ file'[f].revision # file[f].revision <=> f \in plan.revises
  BY <1>1, <1>2, WrittenFacts, PlanFacts
<1>4. file' \in [Files -> Contents]
  BY <1>1 DEF TypeOK
<1> QED BY <1>1, <1>2, <1>3, <1>4, SameShown DEF Store!Save, UpToDate

LEMMA StoreEdit ==
  ASSUME Invariant, NEW f \in Files, Edit(f)
  PROVE  Store!Edit(f)
<1>1. TypeOK /\ TypeOK' /\ Entries' = Entries /\ journal' = journal
  BY EditStep DEF Invariant, Edit, Entries
<1>2. Committed' \in [Files -> Contents]
  BY <1>1, CommittedType DEF TypeOK, Committed
<1>3. \A g \in Files \ {f} : Committed'[g] = Committed[g]
  BY <1>1, EditStep DEF Committed
<1> QED BY <1>2, <1>3 DEF Store!Edit, Edit

\* Finishing a pending commit changes nothing that the store holds.
LEMMA StoreFinish ==
  ASSUME Invariant, NEW c \in Clients, Unlink(c) \/ \E f \in Files : Apply(c, f)
  PROVE  UNCHANGED Store!vars
<1>1. TypeOK /\ UNCHANGED <<known, edits>>
  BY DEF Invariant, Unlink, Apply
<1>2. /\ request[c].left \subseteq Entries
      /\ \A f \in Entries \ request[c].left : file[f] = journal[f].after
  BY DEF Invariant, Applying, Unlink, Apply
<1>3. CASE Unlink(c)
  <2>1. Entries' = {} /\ file' = file /\ request[c].left = {}
    BY <1>3, IdleFacts DEF Unlink, Entries
  <2>2. Committed' = [f \in Files |-> file[f]]
    BY <2>1 DEF Committed
  <2>3. Committed = [f \in Files |-> file[f]]
    BY <1>2, <2>1 DEF Committed
  <2> QED BY <1>1, <2>2, <2>3 DEF Store!vars
<1>4. ASSUME NEW f \in Files, Apply(c, f) PROVE UNCHANGED Store!vars
  <2>1. /\ f \in Entries /\ Entries' = Entries /\ journal' = journal
        /\ \A g \in Files \ {f} : file'[g] = file[g]
    BY <1>1, <1>2, <1>4 DEF Apply, Entries, TypeOK
  <2>2. Committed' = Committed
    BY <2>1 DEF Committed
  <2> QED BY <1>1, <2>2 DEF Store!vars
<1> QED BY <1>3, <1>4

LEMMA StoreStep == Invariant /\ [Next]_vars => [Store!Next]_(Store!vars)
<1> SUFFICES ASSUME Invariant, [Next]_vars
             PROVE  Store!Next \/ UNCHANGED Store!vars
  OBVIOUS
<1>1. CASE UNCHANGED <<file, journal, known, edits>>
  BY <1>1 DEF Store!vars, Committed, Entries
<1>2. ASSUME NEW c \in Clients, Recovered(c), request[c].saved PROVE Store!Next
  <2>1. request[c].answer \in SUBSET Files
    BY DEF Invariant, TypeOK, Requests
  <2> QED BY <1>2, <2>1, StoreLearn DEF Recovered, Outstanding, Store!Next
<1>3. ASSUME NEW c \in Clients, Show(c) PROVE Store!Next
  <2>1. ~Pending
    BY <1>3 DEF Show, Invariant, Loaded
  <2>2. PICK F \in {Files} \union {{f} : f \in Cards} : known' = Shown(c, F, file)
    BY <1>3 DEF Show
  <2>3. F \in SUBSET Files /\ UNCHANGED <<file, journal, edits>>
    BY <1>3 DEF Files, Show
  <2> QED BY <2>1, <2>2, <2>3, StoreLearn DEF Store!Next
<1>4. ASSUME NEW c \in Clients, NEW plan \in Plans,
             WriteJournal(c, plan) \/ WriteFile(c, plan)
      PROVE  Store!Next
  BY <1>4, StoreJournal, StoreFile DEF Store!Next
<1>5. ASSUME NEW c \in Clients, Unlink(c) \/ \E f \in Files : Apply(c, f)
      PROVE  UNCHANGED Store!vars
  BY <1>5, StoreFinish
<1>6. ASSUME NEW f \in Files, Edit(f) PROVE Store!Next
  BY <1>6, StoreEdit DEF Store!Next
<1>7. ASSUME NEW c \in Clients,
             \/ Begin(c) \/ Stop(c) \/ Prepare(c) \/ Refuse(c) \/ Fail(c)
             \/ Recovered(c) /\ ~request[c].saved
      PROVE  UNCHANGED <<file, journal, known, edits>>
  BY <1>7 DEF Begin, Stop, Prepare, Refuse, Fail, Recovered
<1>8. CASE Crash \/ UNCHANGED vars
  BY <1>1, <1>8 DEF Crash, vars
<1> QED BY <1>1, <1>2, <1>3, <1>4, <1>5, <1>6, <1>7, <1>8
        DEF Next, Serve, Recover, Save

\* The journal, with every crash, failure and recovery, is indistinguishable
\* from a store whose saves happen at one instant.
THEOREM ImplementsStore == Spec => StoreSpec
BY StoreInit, StoreStep, InvariantHolds, PTL DEF Spec, Store!Spec, StoreSpec
=============================================================================
