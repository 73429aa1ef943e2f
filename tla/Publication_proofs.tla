------------------------- MODULE Publication_proofs -------------------------
(***************************************************************************)
(* Proofs about Publication, for every number of runs, contents, threads,  *)
(* edits, crashes and faults.                                              *)
(***************************************************************************)
EXTENDS Publication, TLAPS

-----------------------------------------------------------------------------
(* Types, the discipline of the lock, and what a thread may be carrying.    *)

\* The owner of LOCK is the one thread between two commits of finish_run, for
\* a run whose intent is durable; recovery only carries such runs.
Carries(t) ==
  /\ thread[t].at \in LockedPlaces <=> lock = t
  /\ thread[t].at \in LockedPlaces =>
       thread[t].doing \in Runs /\ run[thread[t].doing].status = "publishing"
  /\ \A r \in thread[t].todo : run[r].status \in {"publishing", "success"}
  /\ thread[t].run \in Runs => thread[t].value \in Values

Calls == \A t \in Threads : Carries(t)

Discipline == TypeOK /\ Calls

LEMMA ThreadFacts ==
  /\ Worker \in Threads /\ Requests \subseteq Threads
  /\ NoThread \notin Threads
  /\ NoRun \notin Runs
BY PublicationAssumption DEF Threads

LEMMA IdleType ==
  Idle \in Positions
BY DEF Idle, Places, Positions, Contents

\* The initial state obeys the discipline.
LEMMA DisciplineInit == Init => Discipline
<1> SUFFICES ASSUME Init PROVE Discipline
  OBVIOUS
<1> USE PublicationAssumption, ThreadFacts, IdleType
<1>1. TypeOK
  BY DEF Init, TypeOK, Empty, NewRun, RunStatuses, Threads, Rows, Selections, Contents
<1>2. Calls
  BY DEF Init, Calls, Carries, Idle, LockedPlaces
<1> QED BY <1>1, <1>2 DEF Discipline

\* A step that changes one row and nothing else of the database keeps its type.
LEMMA RowUpdate ==
  ASSUME TypeOK, NEW r \in Runs, NEW row \in Rows,
         row.status = "publishing" <=> row.payload # Nothing,
         run' = [run EXCEPT ![r] = row]
  PROVE  /\ run' \in [Runs -> Rows]
         /\ \A q \in Runs : run'[q].status = "publishing" <=> run'[q].payload # Nothing
         /\ run'[r] = row
         /\ \A q \in Runs : q # r => run'[q] = run[q]
BY DEF TypeOK

\* Likewise for the record of one thread.
LEMMA ThreadUpdate ==
  ASSUME TypeOK, NEW t \in Threads, NEW pos \in Positions,
         thread' = [thread EXCEPT ![t] = pos]
  PROVE  /\ thread' \in [Threads -> Positions]
         /\ thread'[t] = pos
         /\ \A u \in Threads : u # t => thread'[u] = thread[u]
BY DEF TypeOK

\* A thread that does not move keeps what it carries while published rows stay.
LEMMA OthersCarry ==
  ASSUME Discipline, NEW u \in Threads, thread'[u] = thread[u],
         lock' = u <=> lock = u,
         \A r \in Runs : run[r].status \in {"publishing", "success"} =>
            run'[r].status \in {"publishing", "success"},
         lock = u => run'[thread[u].doing].status = "publishing"
  PROVE  Carries(u)'
<1>1. Carries(u) /\ thread[u] \in Positions
  BY DEF Discipline, Calls, TypeOK
<1> QED BY <1>1 DEF Carries, Positions

\* One thread moves; the others keep what they carry.
LEMMA CallsStep ==
  ASSUME Discipline, NEW t \in Threads, NEW pos \in Positions,
         thread' = [thread EXCEPT ![t] = pos],
         lock' = t <=> pos.at \in LockedPlaces,
         \A u \in Threads \ {t} :
            /\ lock' = u <=> lock = u
            /\ lock = u => run'[thread[u].doing].status = "publishing",
         \A q \in Runs : run[q].status \in {"publishing", "success"} =>
            run'[q].status \in {"publishing", "success"},
         pos.at \in LockedPlaces =>
            pos.doing \in Runs /\ run'[pos.doing].status = "publishing",
         \A q \in pos.todo : run'[q].status \in {"publishing", "success"},
         pos.run \in Runs => pos.value \in Values
  PROVE  Calls'
<1> SUFFICES ASSUME NEW u \in Threads PROVE Carries(u)'
  BY DEF Calls
<1>1. TypeOK /\ thread[u] \in Positions
  BY DEF Discipline, TypeOK
<1>2. CASE u = t
  BY <1>1, <1>2, ThreadUpdate DEF Carries
<1>3. CASE u # t
  BY <1>1, <1>3, ThreadUpdate, OthersCarry
<1> QED BY <1>2, <1>3

\* A step of one thread outside the lock that touches nothing shared.
LEMMA MoveStep ==
  ASSUME Discipline, NEW t \in Threads, NEW pos \in Positions,
         thread' = [thread EXCEPT ![t] = pos],
         thread[t].at \notin LockedPlaces, pos.at \notin LockedPlaces,
         \A q \in pos.todo : run[q].status \in {"publishing", "success"},
         pos.run \in Runs => pos.value \in Values,
         UNCHANGED <<present, slot, run, lock, history, bounds>>
  PROVE  Discipline'
<1>1. TypeOK /\ \A u \in Threads : Carries(u)
  BY DEF Discipline, Calls
<1>2. TypeOK'
  BY <1>1, ThreadUpdate DEF TypeOK, history, bounds
<1>3. Calls'
  BY <1>1, CallsStep DEF Carries
<1> QED BY <1>2, <1>3 DEF Discipline

\* A step of one thread that ends its request, releasing the lock if it held it.
LEMMA LeaveStep ==
  ASSUME Discipline, NEW t \in Threads,
         thread' = [thread EXCEPT ![t] = Idle],
         lock' = IF lock = t THEN NoThread ELSE lock,
         UNCHANGED <<run, writes>>,
         present' \in BOOLEAN, slot' \in Selections,
         overtaken' \in [Runs -> BOOLEAN],
         edits' \in Nat, crashes' \in Nat, faults' \in Nat
  PROVE  Discipline'
<1> USE ThreadFacts, IdleType
<1>1. TypeOK /\ \A u \in Threads : Carries(u)
  BY DEF Discipline, Calls
<1>2. TypeOK'
  BY <1>1, ThreadUpdate DEF TypeOK
<1>3. Calls'
  BY ZenonT(60), <1>1, CallsStep DEF Carries, Idle, LockedPlaces
<1> QED BY <1>2, <1>3 DEF Discipline

\* A step of the task service that changes one row without a thread moving.
LEMMA RowStep ==
  ASSUME Discipline, NEW r \in Runs, NEW row \in Rows,
         run' = [run EXCEPT ![r] = row],
         row.status = "publishing" <=> row.payload # Nothing,
         run[r].status \notin {"publishing", "success"},
         UNCHANGED <<present, slot, lock, thread, history, bounds>>
  PROVE  Discipline'
<1>1. TypeOK /\ \A u \in Threads : Carries(u)
  BY DEF Discipline, Calls
<1>2. TypeOK'
  BY <1>1, RowUpdate DEF TypeOK, history, bounds
<1>3. ASSUME NEW u \in Threads PROVE Carries(u)'
  BY <1>1, <1>3, RowUpdate, OthersCarry DEF Carries
<1> QED BY <1>2, <1>3 DEF Discipline, Calls

\* The three commits of finish_run.
LEMMA IntendStep ==
  ASSUME Discipline, NEW t \in Threads, NEW r \in Runs, Intend(t, r)
  PROVE  Discipline'
<1> USE PublicationAssumption, ThreadFacts, IdleType DEF history, bounds
<1>0. /\ TypeOK /\ Calls /\ lock = NoThread
      /\ \A u \in Threads : Carries(u) /\ thread[u] \in Positions
      /\ run[r] \in Rows /\ UNCHANGED <<present, slot, history, bounds>>
  BY DEF Discipline, Calls, TypeOK, Intend, Free
<1>1. CASE run[r].status = "success"
  <2> DEFINE pos == Resumed(t, r)
  <2>1. thread' = [thread EXCEPT ![t] = pos] /\ UNCHANGED <<run, lock>>
    BY <1>0, <1>1 DEF Intend, Return
  <2>2. pos \in Positions
    BY <1>0 DEF Positions, Places, Resumed
  <2>3. /\ pos.at \notin LockedPlaces
        /\ pos.todo \subseteq thread[t].todo
        /\ pos.run \in Runs => pos.run = thread[t].run /\ pos.value = thread[t].value
    BY <1>0 DEF Positions, Idle, LockedPlaces, Resumed
  <2> HIDE DEF pos
  <2> QED BY <1>0, <2>1, <2>2, <2>3, MoveStep DEF Carries
<1>2. CASE run[r].status # "success"
  <2> DEFINE row == [run[r] EXCEPT !.status = "publishing",
                                   !.payload = Intent(r, thread[t].value)]
             pos == [thread[t] EXCEPT !.at = "intended", !.doing = r]
  <2>1. /\ thread' = [thread EXCEPT ![t] = pos]
        /\ run' = [run EXCEPT ![r] = row]
        /\ lock' = t
    BY <1>0, <1>2 DEF Intend
  <2>2. Intent(r, thread[t].value) \in Values
    <3>1. CASE run[r].status = "publishing"
      BY <1>0, <3>1 DEF Intent, TypeOK, Rows, Contents
    <3>2. CASE run[r].status # "publishing"
      BY <1>0, <1>2, <3>2 DEF Intent, Intend, Carries
    <3> QED BY <3>1, <3>2
  <2>3. row \in Rows /\ row.status = "publishing" /\ row.payload # Nothing
    BY <1>0, <2>2 DEF Rows, RunStatuses, Contents
  <2>4. /\ pos \in Positions /\ pos.at = "intended" /\ pos.doing = r
        /\ pos.todo = thread[t].todo /\ pos.run = thread[t].run
        /\ pos.value = thread[t].value
    BY <1>0 DEF Positions, Places
  <2> HIDE DEF row, pos
  <2>5. TypeOK'
    BY <1>0, <2>1, <2>3, <2>4, RowUpdate, ThreadUpdate DEF TypeOK
  <2>6. \A q \in Runs : run[q].status \in {"publishing", "success"} =>
          run'[q].status \in {"publishing", "success"}
    BY <1>0, <2>1, <2>3, RowUpdate
  <2>7. Calls'
    <3>1. /\ lock' = t <=> pos.at \in LockedPlaces
          /\ \A u \in Threads \ {t} : (lock' = u <=> lock = u) /\ lock # u
          /\ pos.doing \in Runs /\ run'[pos.doing].status = "publishing"
          /\ \A q \in pos.todo : run'[q].status \in {"publishing", "success"}
          /\ pos.run \in Runs => pos.value \in Values
      <4>1. lock' = t <=> pos.at \in LockedPlaces
        BY <2>1, <2>4 DEF LockedPlaces
      <4>2. \A u \in Threads \ {t} : (lock' = u <=> lock = u) /\ lock # u
        BY <1>0, <2>1
      <4>3. pos.doing \in Runs /\ run'[pos.doing].status = "publishing"
        BY <1>0, <2>1, <2>3, <2>4, RowUpdate
      <4>4. \A q \in pos.todo : run'[q].status \in {"publishing", "success"}
        BY <1>0, <2>4, <2>6 DEF Carries, Positions
      <4>5. pos.run \in Runs => pos.value \in Values
        BY <1>0, <2>4 DEF Carries
      <4> QED BY <4>1, <4>2, <4>3, <4>4, <4>5
    <3> QED BY <2>1, <2>4, <2>6, <3>1, CallsStep
  <2> QED BY <2>5, <2>7 DEF Discipline
<1> QED BY <1>1, <1>2

LEMMA SelectStep ==
  ASSUME Discipline, NEW t \in Threads, NEW r \in Runs, Select(t, r)
  PROVE  Discipline'
<1> USE PublicationAssumption, ThreadFacts DEF history, bounds
<1>0. /\ TypeOK /\ Calls
      /\ \A u \in Threads : Carries(u) /\ thread[u] \in Positions
      /\ run[r] \in Rows /\ UNCHANGED <<present, run, lock, bounds>>
      /\ thread[t].at = "intended" /\ thread[t].doing = r
  BY DEF Discipline, Calls, TypeOK, Select
<1>1. lock = t /\ run[r].status = "publishing"
  BY <1>0 DEF Carries, LockedPlaces
<1>2. run[r].payload \in Values
  BY <1>0, <1>1 DEF TypeOK, Rows, Contents
<1>3. PICK shown \in BOOLEAN :
        thread' = [thread EXCEPT ![t] = [thread[t] EXCEPT !.at = "written",
                                                          !.shown = shown]]
  BY <1>0 DEF Select, Written
<1>4. /\ slot' \in Selections /\ writes' \in [Runs -> Nat]
      /\ overtaken' \in [Runs -> BOOLEAN]
  <2>1. CASE UNCHANGED <<slot, writes, overtaken>>
    BY <1>0, <2>1 DEF TypeOK
  <2>2. CASE /\ slot' = Replaced(run[r].payload)
             /\ writes' = [writes EXCEPT ![r] = @ + 1]
             /\ Overtakes(r)
    <3>1. slot' \in Selections
      BY <1>0, <1>2, <2>2 DEF Replaced, TypeOK, Selections, Contents
    <3>2. writes' \in [Runs -> Nat]
      BY <1>0, <2>2 DEF TypeOK
    <3>3. overtaken' \in [Runs -> BOOLEAN]
      BY <1>0, <2>2 DEF Overtakes, TypeOK
    <3> QED BY <3>1, <3>2, <3>3
  <2> QED BY <2>1, <2>2 DEF Select
<1> DEFINE pos == [thread[t] EXCEPT !.at = "written", !.shown = shown]
<1>5. thread[t] \in Positions /\ thread[t].doing = r
  BY <1>0
<1>6. /\ pos \in Positions /\ pos.at = "written" /\ pos.doing = r
      /\ pos.todo = thread[t].todo /\ pos.run = thread[t].run
      /\ pos.value = thread[t].value
  BY <1>5 DEF Positions, Places
<1>9. thread' = [thread EXCEPT ![t] = pos]
  BY <1>3
<1> HIDE DEF pos
<1>7. TypeOK'
  BY <1>0, <1>4, <1>6, <1>9, ThreadUpdate DEF TypeOK
<1>8. Calls'
  <2>1. /\ lock' = t <=> pos.at \in LockedPlaces
        /\ \A u \in Threads \ {t} : (lock' = u <=> lock = u) /\ lock # u
        /\ pos.doing \in Runs /\ run'[pos.doing].status = "publishing"
    BY <1>0, <1>1, <1>6 DEF LockedPlaces
  <2>2. /\ \A q \in pos.todo : run'[q].status \in {"publishing", "success"}
        /\ pos.run \in Runs => pos.value \in Values
    BY <1>0, <1>6 DEF Carries
  <2> QED BY <1>0, <1>6, <1>9, <2>1, <2>2, CallsStep
<1> QED BY <1>7, <1>8 DEF Discipline

LEMMA SettleStep ==
  ASSUME Discipline, NEW t \in Threads, NEW r \in Runs, Settle(t, r)
  PROVE  Discipline'
<1> USE PublicationAssumption, ThreadFacts, IdleType DEF history, bounds
<1>0. /\ TypeOK /\ Calls
      /\ \A u \in Threads : Carries(u) /\ thread[u] \in Positions
      /\ run[r] \in Rows /\ UNCHANGED <<present, slot, history, bounds>>
      /\ thread[t].at = "written" /\ thread[t].doing = r
      /\ lock' = NoThread
  BY DEF Discipline, Calls, TypeOK, Settle
<1>1. lock = t
  BY <1>0 DEF Carries, LockedPlaces
<1> DEFINE row == [run[r] EXCEPT !.status = "success", !.payload = Nothing,
                                 !.selected = thread[t].shown]
           pos == Resumed(t, r)
<1>2. run' = [run EXCEPT ![r] = row] /\ thread' = [thread EXCEPT ![t] = pos]
  BY DEF Settle, Return
<1>3. row \in Rows /\ row.status = "success" /\ row.payload = Nothing
  BY <1>0 DEF Rows, RunStatuses, Contents, Positions
<1>4. pos \in Positions
  BY <1>0 DEF Positions, Places, Resumed
<1>5. /\ pos.at \notin LockedPlaces
      /\ pos.todo \subseteq thread[t].todo
      /\ pos.run \in Runs => pos.run = thread[t].run /\ pos.value = thread[t].value
  BY <1>0 DEF Positions, Idle, LockedPlaces, Resumed
<1> HIDE DEF row, pos
<1>6. TypeOK'
  BY <1>0, <1>2, <1>3, <1>4, RowUpdate, ThreadUpdate DEF TypeOK
<1>7. \A q \in Runs : run[q].status \in {"publishing", "success"} =>
        run'[q].status \in {"publishing", "success"}
  BY <1>0, <1>2, <1>3, RowUpdate
<1>8. Calls'
  <2>1. \A q \in pos.todo : run'[q].status \in {"publishing", "success"}
    BY <1>0, <1>4, <1>5, <1>7 DEF Carries, Positions
  <2> QED BY ZenonT(60), <1>0, <1>1, <1>2, <1>4, <1>5, <1>7, <2>1, CallsStep DEF Carries
<1> QED BY <1>6, <1>8 DEF Discipline

\* After a crash nobody holds the lock or carries anything.
LEMMA CrashStep ==
  ASSUME Discipline, Crash PROVE Discipline'
<1> USE PublicationAssumption, ThreadFacts, IdleType
<1>1. NewRun \in Rows /\ NewRun.status = "none" /\ NewRun.payload = Nothing
  BY DEF NewRun, Rows, RunStatuses, Contents
<1>2. TypeOK'
  BY <1>1 DEF Crash, Discipline, TypeOK
<1>3. Calls'
  BY DEF Crash, Calls, Carries, Idle, LockedPlaces
<1> QED BY <1>2, <1>3 DEF Discipline

\* Every step of every thread keeps the discipline.
LEMMA DisciplineStep == Discipline /\ [Next]_vars => Discipline'
<1> SUFFICES ASSUME Discipline, [Next]_vars PROVE Discipline'
  OBVIOUS
<1> USE PublicationAssumption, ThreadFacts, IdleType
<1> USE DEF history, bounds
<1>0. /\ TypeOK /\ Calls /\ \A t \in Threads : Carries(t) /\ thread[t] \in Positions
      /\ \A r \in Runs : run[r] \in Rows
  BY DEF Discipline, Calls, TypeOK
<1>1. ASSUME NEW r \in Runs, Snapshot(r) PROVE Discipline'
  <2> DEFINE row == [run[r] EXCEPT !.status = "read", !.base = slot.contentRev]
  <2>1. row \in Rows /\ run' = [run EXCEPT ![r] = row]
    BY <1>0, <1>1 DEF Snapshot, Rows, RunStatuses, TypeOK, Selections
  <2>2. row.status = "publishing" <=> row.payload # Nothing
    BY <1>0, <1>1, <2>1 DEF Snapshot, Rows, TypeOK
  <2> HIDE DEF row
  <2>3. QED BY ZenonT(60), <1>0, <1>1, <2>1, <2>2, RowUpdate, RowStep DEF Snapshot, Rows
<1>2. ASSUME NEW r \in Runs, BeginRun(r) PROVE Discipline'
  <2> DEFINE row == [run[r] EXCEPT !.status = "live"]
  <2>1. row \in Rows /\ run' = [run EXCEPT ![r] = row]
    BY <1>0, <1>2 DEF BeginRun, Rows, RunStatuses
  <2>2. row.status = "publishing" <=> row.payload # Nothing
    BY <1>0, <1>2, <2>1 DEF BeginRun, Rows, TypeOK
  <2> HIDE DEF row
  <2>3. QED BY <1>0, <1>2, <2>1, <2>2, RowStep DEF BeginRun
<1>3. ASSUME NEW r \in Runs, NEW s \in {"live", "stopped"}, RunState(r, s)
      PROVE Discipline'
  <2> DEFINE row == [run[r] EXCEPT !.status = s]
  <2>1. row \in Rows /\ run' = [run EXCEPT ![r] = row]
    BY <1>0, <1>3 DEF RunState, Rows, RunStatuses
  <2>2. row.status = "publishing" <=> row.payload # Nothing
    BY <1>0, <1>3, <2>1 DEF RunState, MayUpdate, Rows, TypeOK
  <2> HIDE DEF row
  <2>3. QED BY <1>0, <1>3, <2>1, <2>2, RowStep DEF RunState, MayUpdate
<1>4. ASSUME NEW r \in Runs, Wait(r) PROVE Discipline'
  <2> DEFINE row == [run[r] EXCEPT !.status = "live"]
  <2>1. row \in Rows /\ run' = [run EXCEPT ![r] = row]
    BY <1>0, <1>4 DEF Wait, Rows, RunStatuses
  <2>2. row.status = "publishing" <=> row.payload # Nothing
    BY <1>0, <1>4, <2>1 DEF Wait, Rows, TypeOK
  <2>3. row.status = "live"
    BY <1>0 DEF Rows
  <2> HIDE DEF row
  <2>4. TypeOK'
    BY <1>0, <1>4, <2>1, <2>2, RowUpdate, ThreadUpdate DEF Wait, Leave, TypeOK
  <2>5. Calls'
    <3>1. /\ thread' = [thread EXCEPT ![Worker] = Idle]
          /\ lock' = lock /\ lock # Worker
          /\ run[r].status \notin {"publishing", "success"}
      BY <1>0, <1>4 DEF Wait, Leave, LockedPlaces, Carries
    <3>2. \A q \in Runs : run[q].status \in {"publishing", "success"} =>
            run'[q].status = run[q].status
      BY <1>0, <2>1, <2>2, <3>1, RowUpdate
    <3>3. \A u \in Threads \ {Worker} :
            lock = u => run'[thread[u].doing].status = "publishing"
      BY <1>0, <3>2 DEF Carries
    <3> QED BY <3>1, <3>2, <3>3, CallsStep DEF Idle, LockedPlaces
  <2> QED BY <2>4, <2>5 DEF Discipline
<1>5. ASSUME NEW r \in Runs, NEW v \in Values, Execute(r, v) PROVE Discipline'
  <2> DEFINE pos == [Idle EXCEPT !.at = "open", !.run = r, !.value = v]
  <2>1. pos \in Positions /\ pos.at = "open" /\ pos.todo = {} /\ pos.value \in Values
    BY DEF Idle, Positions, Places, Contents
  <2>2. thread' = [thread EXCEPT ![Worker] = pos]
    BY <1>5 DEF Execute
  <2> HIDE DEF pos
  <2>3. QED BY <1>0, <1>5, <2>1, <2>2, MoveStep DEF Execute, LockedPlaces
<1>6. ASSUME NEW t \in Threads, Arrive(t) PROVE Discipline'
  <2> DEFINE pos == [Idle EXCEPT !.at = "open", !.seen = slot.rev,
                                 !.seenPresent = present]
  <2>1. pos \in Positions /\ pos.at = "open" /\ pos.todo = {} /\ pos.run = NoRun
    BY <1>0 DEF Idle, Positions, Places, Contents, TypeOK, Selections
  <2>2. thread' = [thread EXCEPT ![t] = pos]
    BY <1>6 DEF Arrive
  <2> HIDE DEF pos
  <2>3. QED BY <1>0, <1>6, <2>1, <2>2, MoveStep DEF Arrive, LockedPlaces
<1>20. ASSUME NEW t \in Threads, Open(t) PROVE Discipline'
  <2> DEFINE pos == [thread[t] EXCEPT !.at = "list"]
  <2>1. pos \in Positions /\ pos.at = "list" /\ pos.todo = thread[t].todo
        /\ pos.run = thread[t].run /\ pos.value = thread[t].value
    BY <1>0 DEF Positions, Places
  <2>2. thread' = [thread EXCEPT ![t] = pos]
    BY <1>20 DEF Open, Move
  <2> HIDE DEF pos
  <2>3. QED BY <1>0, <1>20, <2>1, <2>2, MoveStep DEF Open, LockedPlaces, Carries
<1>7. ASSUME NEW t \in Threads, List(t) PROVE Discipline'
  <2> DEFINE pos == [thread[t] EXCEPT !.at = "recover", !.todo = Pending]
  <2>1. pos \in Positions /\ pos.at = "recover" /\ pos.todo = Pending
        /\ pos.run = thread[t].run /\ pos.value = thread[t].value
    BY <1>0 DEF Positions, Places, Pending
  <2>2. thread' = [thread EXCEPT ![t] = pos]
    BY <1>7 DEF List
  <2> HIDE DEF pos
  <2>3. QED BY <1>0, <1>7, <2>1, <2>2, MoveStep DEF List, LockedPlaces, Pending, Carries
<1>8. ASSUME NEW t \in Threads, Opened(t) PROVE Discipline'
  <2> DEFINE pos == [thread[t] EXCEPT !.at = "act"]
  <2>1. pos \in Positions /\ pos.at = "act" /\ pos.todo = thread[t].todo
        /\ pos.run = thread[t].run /\ pos.value = thread[t].value
    BY <1>0 DEF Positions, Places
  <2>2. thread' = [thread EXCEPT ![t] = pos]
    BY <1>8 DEF Opened, Move
  <2> HIDE DEF pos
  <2>3. QED BY <1>0, <1>8, <2>1, <2>2, MoveStep DEF Opened, LockedPlaces, Carries
<1>9. ASSUME NEW t \in Threads, NEW r \in Runs, Intend(t, r) PROVE Discipline'
  BY <1>0, <1>9, IntendStep
<1>10. ASSUME NEW t \in Threads, NEW r \in Runs, Select(t, r) PROVE Discipline'
  BY <1>0, <1>10, SelectStep
<1>11. ASSUME NEW t \in Threads, NEW r \in Runs, Settle(t, r) PROVE Discipline'
  BY <1>0, <1>11, SettleStep
<1>12. ASSUME NEW t \in Threads, NEW r \in Runs, SelectRaises(t, r) PROVE Discipline'
  BY <1>0, <1>12, LeaveStep DEF SelectRaises, Leave, TypeOK, Carries, LockedPlaces
<1>13. ASSUME NEW t \in Threads, Raise(t) PROVE Discipline'
  <2>1. /\ thread' = [thread EXCEPT ![t] = Idle] /\ lock = t /\ lock' = NoThread
        /\ UNCHANGED <<run, writes>>
    BY <1>0, <1>13 DEF Raise, Leave, Carries
  <2>2. /\ present' \in BOOLEAN /\ slot' \in Selections
        /\ overtaken' \in [Runs -> BOOLEAN]
        /\ edits' \in Nat /\ crashes' \in Nat /\ faults' \in Nat
    BY <1>0, <1>13 DEF Raise, TypeOK
  <2> QED BY <2>1, <2>2, LeaveStep
<1>14. ASSUME NEW t \in Threads, NEW v \in Values, ManualSelect(t, v) PROVE Discipline'
  <2>1. slot' \in Selections /\ overtaken' \in [Runs -> BOOLEAN] /\ edits' \in Nat
    BY <1>0, <1>14 DEF ManualSelect, Replaced, Overtakes, TypeOK, Selections, Contents
  <2> QED BY <1>0, <1>14, <2>1, LeaveStep
          DEF ManualSelect, Leave, TypeOK, Free
<1>15. ASSUME NEW t \in Threads, Trim(t) PROVE Discipline'
  <2>1. slot' \in Selections /\ edits' \in Nat
    BY <1>0, <1>15 DEF Trim, Trimmed, TypeOK, Selections
  <2> QED BY <1>0, <1>15, <2>1, LeaveStep DEF Trim, Leave, TypeOK, Free
<1>16. ASSUME NEW t \in Threads, SaveCard(t) PROVE Discipline'
  <2>1. slot' \in Selections /\ edits' \in Nat /\ present' \in BOOLEAN
        /\ overtaken' \in [Runs -> BOOLEAN]
    BY <1>0, <1>16 DEF SaveCard, Empty, TypeOK, Selections, Contents
  <2> QED BY <1>0, <1>16, <2>1, LeaveStep DEF SaveCard, Leave, TypeOK, Free
<1>17. ASSUME NEW t \in Threads, Reply(t) PROVE Discipline'
  BY <1>0, <1>17, LeaveStep DEF Reply, Leave, TypeOK, Carries, LockedPlaces
<1>18. CASE Crash
  BY <1>0, <1>18, CrashStep
<1>19. CASE UNCHANGED vars
  BY <1>0, <1>19 DEF vars, Discipline, TypeOK, Calls, Carries
<1> QED
  BY <1>1, <1>2, <1>3, <1>4, <1>5, <1>6, <1>20, <1>7, <1>8, <1>9, <1>10, <1>11,
     <1>12, <1>13, <1>14, <1>15, <1>16, <1>17, <1>18, <1>19
  DEF Next, TaskStep, Publish, Edit

\* Only the task service, finish_run and a crash change the database.
LEMMA RowsChange ==
  ASSUME [Next]_vars, run' # run
  PROVE  \/ Crash
         \/ \E r \in Runs : TaskStep(r)
         \/ \E t \in Threads, r \in Runs : Intend(t, r) \/ Settle(t, r)
<1> USE DEF history, bounds
<1>1. ASSUME NEW t \in Threads,
             Arrive(t) \/ Open(t) \/ List(t) \/ Opened(t) \/ Raise(t) \/ Reply(t)
      PROVE  run' = run
  BY <1>1 DEF Arrive, Open, List, Opened, Raise, Reply
<1>2. ASSUME NEW t \in Threads, Edit(t) PROVE run' = run
  BY <1>2 DEF Edit, ManualSelect, Trim, SaveCard
<1>3. ASSUME NEW t \in Threads, NEW r \in Runs, Select(t, r) \/ SelectRaises(t, r)
      PROVE  run' = run
  BY <1>3 DEF Select, SelectRaises
<1>4. Next
  BY DEF vars
<1> QED BY <1>1, <1>2, <1>3, <1>4 DEF Next, Publish

\* The types of the specification's variables hold in every reachable state.
THEOREM TypeCorrect == Spec => []TypeOK
<1>1. Discipline => TypeOK
  BY DEF Discipline
<1> QED BY <1>1, DisciplineInit, DisciplineStep, PTL DEF Spec

THEOREM DisciplineHolds == Spec => []Discipline
BY DisciplineInit, DisciplineStep, PTL DEF Spec

\* A material that is not in its card has no selection, whoever publishes,
\* recovers, edits or crashes, with cards that may be saved without it.
THEOREM AbsentIsEmpty == Spec => []NoOrphanSelection
<1>1. Init => NoOrphanSelection
  BY DEF Init, NoOrphanSelection
<1>2. NoOrphanSelection /\ [Next]_vars => NoOrphanSelection'
  <2>. SUFFICES ASSUME NoOrphanSelection, [Next]_vars PROVE NoOrphanSelection'
    OBVIOUS
  <2>1. CASE UNCHANGED <<present, slot>>
    BY <2>1 DEF NoOrphanSelection
  <2>2. ASSUME NEW t \in Threads, NEW r \in Runs, Select(t, r)
        PROVE  NoOrphanSelection'
    <3>1. UNCHANGED <<present, slot>> \/ (present /\ present' = present)
      BY <2>2 DEF Select, Found, history
    <3>. QED
      BY <2>1, <3>1 DEF NoOrphanSelection
  <2>3. ASSUME NEW t \in Threads, Edit(t)
        PROVE  NoOrphanSelection'
    <3>1. slot' = Empty \/ (present /\ present' = present)
      BY <2>3 DEF Edit, Trim, SaveCard, ManualSelect, Found
    <3>. QED
      BY <3>1 DEF NoOrphanSelection
  <2>4. ASSUME NEW r \in Runs, TaskStep(r)
        PROVE  UNCHANGED <<present, slot>>
    BY <2>4 DEF TaskStep, Snapshot, BeginRun, Wait, RunState, Execute
  <2>5. ASSUME NEW t \in Threads, NEW r \in Runs, Intend(t, r) \/ Settle(t, r) \/ SelectRaises(t, r)
        PROVE  UNCHANGED <<present, slot>>
    BY <2>5 DEF Intend, Settle, SelectRaises
  <2>6. ASSUME NEW t \in Threads,
               Arrive(t) \/ Open(t) \/ List(t) \/ Opened(t) \/ Raise(t) \/ Reply(t)
        PROVE  UNCHANGED <<present, slot>>
    BY <2>6 DEF Arrive, Open, List, Opened, Raise, Reply
  <2>7. CASE Crash \/ UNCHANGED vars
    BY <2>1, <2>7 DEF Crash, vars
  <2>. QED
    BY <2>1, <2>2, <2>3, <2>4, <2>5, <2>6, <2>7 DEF Next, Publish
<1>. QED
  BY <1>1, <1>2, PTL DEF Spec

\* A durable intent stays an intent with the same content until it is published,
\* and a published run never changes again.
THEOREM IntentIsKept == Spec => IntentKept
<1> DEFINE Kept == \A r \in Runs :
       /\ run[r].status = "publishing" => run'[r].status \in {"publishing", "success"}
       /\ run[r].status = "publishing" /\ run'[r].status = "publishing" =>
            run'[r].payload = run[r].payload
       /\ run[r].status = "success" => run'[r] = run[r]
<1>1. Discipline /\ [Next]_vars => Kept
  <2> SUFFICES ASSUME Discipline, [Next]_vars, NEW q \in Runs
               PROVE  /\ run[q].status = "publishing" =>
                           run'[q].status \in {"publishing", "success"}
                      /\ run[q].status = "publishing" /\ run'[q].status = "publishing" =>
                           run'[q].payload = run[q].payload
                      /\ run[q].status = "success" => run'[q] = run[q]
    OBVIOUS
  <2>0. /\ run \in [Runs -> Rows] /\ \A t \in Threads : Carries(t)
        /\ run[q] \in Rows
    BY DEF Discipline, TypeOK, Calls
  <2>1. CASE run' = run
    BY <2>1
  <2>2. ASSUME NEW r \in Runs, TaskStep(r), run' # run PROVE run'[q] = run[q] \/
          run[q].status \notin {"publishing", "success"}
    BY <2>0, <2>2 DEF TaskStep, Snapshot, BeginRun, RunState, MayUpdate, Wait, Execute
  <2>3. ASSUME NEW t \in Threads, NEW r \in Runs, Intend(t, r), run' # run
        PROVE  /\ run[q].status = "publishing" => run'[q].status = "publishing"
               /\ run[q].status = "publishing" => run'[q].payload = run[q].payload
               /\ run[q].status = "success" => run'[q] = run[q]
    <3>1. run' = [run EXCEPT ![r].status = "publishing",
                             ![r].payload = Intent(r, thread[t].value)]
          /\ run[r].status # "success"
      BY <2>3 DEF Intend
    <3> QED BY <2>0, <3>1 DEF Intent, Rows
  <2>4. ASSUME NEW t \in Threads, NEW r \in Runs, Settle(t, r)
        PROVE  /\ run[q].status = "publishing" => run'[q].status = "success" \/ run'[q] = run[q]
               /\ run[q].status = "success" => run'[q] = run[q]
    <3>1. run[r].status = "publishing"
      BY <2>0, <2>4 DEF Settle, Carries, LockedPlaces
    <3> QED BY <2>0, <2>4, <3>1 DEF Settle, Rows
  <2>5. CASE Crash
    BY <2>0, <2>5 DEF Crash
  <2>6. \/ run' = run \/ Crash
        \/ \E r \in Runs : TaskStep(r)
        \/ \E t \in Threads, r \in Runs : Intend(t, r) \/ Settle(t, r)
    BY RowsChange
  <2> QED BY <2>1, <2>2, <2>3, <2>4, <2>5, <2>6
<1> QED BY <1>1, DisciplineHolds, PTL DEF Spec, IntentKept

-----------------------------------------------------------------------------
(* How often a run wrote, and who overtook it, can be read off the          *)
(* selection's content revision.  This needs the material to stay in its    *)
(* card: removing and restoring it restarts the revisions.                  *)

Counted(r) ==
  /\ writes[r] \in {0, 1}
  /\ writes[r] = 1 => run[r].status \in {"publishing", "success"}
  /\ run[r].status = "none" => ~overtaken[r]
  /\ run[r].status # "none" /\ overtaken[r] =>
       slot.contentRev > run[r].base + writes[r]
  /\ run[r].status # "none" /\ ~overtaken[r] =>
       slot.contentRev = run[r].base + writes[r]
  /\ writes[r] = 1 /\ ~overtaken[r] /\ run[r].status = "publishing" =>
       slot.content = run[r].payload

\* The verdict finish_run is about to record.
Verdict(t) ==
  thread[t].at = "written" =>
    IF thread[t].shown
    THEN /\ slot.contentRev = run[thread[t].doing].base + 1
         /\ slot.content = run[thread[t].doing].payload
    ELSE overtaken[thread[t].doing]

Sound ==
  /\ present = TRUE
  /\ \A r \in Runs : Counted(r)
  /\ \A t \in Threads : Verdict(t)

LEMMA SoundInit == Init => Sound
BY DEF Init, Sound, Counted, Verdict, NewRun, Idle, Empty

\* A thread between the last two commits: its run, and why nobody else is there.
LEMMA AtWritten ==
  ASSUME Discipline, NEW t \in Threads, thread[t].at = "written"
  PROVE  /\ lock = t /\ thread[t].doing \in Runs
         /\ run[thread[t].doing].status = "publishing"
BY DEF Discipline, Calls, Carries, LockedPlaces

\* Steps that neither change the stores nor reach a verdict.
LEMMA QuietStep ==
  ASSUME Sound, UNCHANGED <<present, slot, run, writes, overtaken>>,
         \A t \in Threads : thread'[t].at = "written" => thread'[t] = thread[t]
  PROVE  Sound'
BY DEF Sound, Counted, Verdict

\* Steps that change one unpublished row and leave selection and history alone.
LEMMA SoundRowStep ==
  ASSUME Discipline, Sound, NEW r \in Runs,
         UNCHANGED <<present, slot, writes, overtaken>>,
         \A q \in Runs : q # r => run'[q] = run[q],
         run[r].status \notin {"publishing", "success"},
         Counted(r)',
         \A t \in Threads : thread'[t].at = "written" => thread'[t] = thread[t]
  PROVE  Sound'
<1>1. ASSUME NEW q \in Runs PROVE Counted(q)'
  BY DEF Sound, Counted
<1>2. ASSUME NEW t \in Threads PROVE Verdict(t)'
  <2>1. CASE thread'[t].at = "written"
    <3>1. thread'[t] = thread[t] /\ thread[t].at = "written" /\ Verdict(t)
      BY <2>1 DEF Sound
    <3>2. thread[t].doing \in Runs /\ run'[thread[t].doing] = run[thread[t].doing]
      BY <3>1, AtWritten
    <3> QED BY <3>1, <3>2 DEF Verdict
  <2>2. CASE thread'[t].at # "written"
    BY <2>2 DEF Verdict
  <2> QED BY <2>1, <2>2
<1> QED BY <1>1, <1>2 DEF Sound

\* The commit of the selection: applied at most once, and to nothing newer.
LEMMA SoundSelect ==
  ASSUME Discipline, Sound, NEW t \in Threads, NEW r \in Runs, Select(t, r)
  PROVE  /\ Sound'
         /\ writes' # writes => ~overtaken[r] /\ writes[r] = 0
<1> USE DEF history
<1>0. /\ lock = t /\ run[r].status = "publishing"
      /\ thread[t].at = "intended" /\ thread[t].doing = r
      /\ run' = run /\ present' = present
      /\ thread[t] \in Positions
      /\ \A u \in Threads : thread[u].at = "written" => lock = u
  BY DEF Select, Discipline, Calls, Carries, LockedPlaces, TypeOK
<1>1. /\ writes[r] \in {0, 1} /\ slot \in Selections /\ run \in [Runs -> Rows]
      /\ run[r].base \in Nat
      /\ slot.contentRev \in Nat /\ writes \in [Runs -> Nat]
      /\ overtaken \in [Runs -> BOOLEAN]
      /\ thread \in [Threads -> Positions]
  BY DEF Sound, Counted, Discipline, TypeOK, Selections, Rows
<1>2. \A u \in Threads : u # t => thread'[u] = thread[u] /\ thread'[u].at # "written"
  BY <1>0, <1>1 DEF Select
<1>3. CASE /\ Unchanged(r)
           /\ slot' = Replaced(run[r].payload)
           /\ writes' = [writes EXCEPT ![r] = @ + 1]
           /\ Overtakes(r)
           /\ thread' = [thread EXCEPT ![t].at = "written", ![t].shown = TRUE]
  <2>1. ~overtaken[r] /\ writes[r] = 0
    BY <1>0, <1>1, <1>3 DEF Unchanged, Sound, Counted
  <2>2. /\ slot'.contentRev = slot.contentRev + 1 /\ slot'.content = run[r].payload
        /\ slot'.contentRev = run[r].base + 1
    BY <1>3 DEF Replaced, Unchanged
  <2>3. Counted(r)'
    BY <1>0, <1>1, <1>3, <2>1, <2>2 DEF Counted, Overtakes
  <2>4. ASSUME NEW q \in Runs, q # r PROVE Counted(q)'
    <3>1. Counted(q) /\ run[q].base \in Nat /\ writes'[q] = writes[q]
          /\ (overtaken'[q] <=> overtaken[q] \/ run[q].status # "none")
      BY <1>1, <1>3, <2>4 DEF Sound, Overtakes, Rows
    <3> QED BY <1>0, <1>1, <2>2, <3>1 DEF Counted
  <2>5. Verdict(t)'
    <3>1. thread'[t].doing = r /\ thread'[t].shown = TRUE
      BY <1>0, <1>1, <1>3 DEF Positions
    <3> QED BY <1>0, <2>2, <3>1 DEF Verdict
  <2> QED BY <1>0, <1>2, <2>1, <2>3, <2>4, <2>5 DEF Sound, Verdict
<1>4. CASE /\ ~Unchanged(r)
           /\ thread' = [thread EXCEPT ![t].at = "written", ![t].shown = Written(r)]
           /\ UNCHANGED <<slot, writes, overtaken>>
  <2>1. thread'[t].doing = r /\ thread'[t].shown = Written(r)
    BY <1>0, <1>1, <1>4 DEF Positions
  <2>2. ~Written(r) => overtaken[r]
    BY <1>0, <1>1, <1>4 DEF Unchanged, Written, Sound, Counted
  <2>3. Verdict(t)'
    BY <1>0, <1>4, <2>1, <2>2 DEF Verdict, Written
  <2>4. \A q \in Runs : Counted(q)'
    BY <1>0, <1>4 DEF Sound, Counted
  <2> QED BY <1>0, <1>2, <1>4, <2>3, <2>4 DEF Sound, Verdict
<1> QED BY <1>3, <1>4 DEF Select

\* A change of the selection by a user, while nobody holds the lock.
LEMMA SoundEdit ==
  ASSUME Discipline, Sound, NEW t \in Threads, ~Editable, Edit(t)
  PROVE  Sound'
<1> USE PublicationAssumption DEF history, bounds
<1>0. /\ run' = run /\ present' = present /\ writes' = writes
      /\ slot \in Selections /\ slot.contentRev \in Nat
      /\ run \in [Runs -> Rows] /\ overtaken \in [Runs -> BOOLEAN]
      /\ \A u \in Threads : thread'[u].at # "written"
  <2>1. lock = NoThread /\ thread' = [thread EXCEPT ![t] = Idle]
        /\ run' = run /\ present' = present /\ writes' = writes
    BY DEF Edit, ManualSelect, Trim, SaveCard, Leave, Free
  <2> QED BY <2>1, ThreadFacts
          DEF Discipline, TypeOK, Calls, Carries, LockedPlaces, Idle, Selections
<1>1. CASE Trim(t)
  <2>1. /\ slot'.contentRev = slot.contentRev /\ slot'.content = slot.content
        /\ overtaken' = overtaken
    BY <1>0, <1>1 DEF Trim, Trimmed, Selections
  <2>2. \A q \in Runs : Counted(q)'
    BY <1>0, <2>1 DEF Sound, Counted
  <2> QED BY <1>0, <2>2 DEF Sound, Verdict
<1>2. ASSUME NEW v \in Values, ManualSelect(t, v) PROVE Sound'
  <2>1. slot'.contentRev = slot.contentRev + 1 /\ Overtakes(NoRun)
    BY <1>2 DEF ManualSelect, Replaced
  <2>2. ASSUME NEW q \in Runs PROVE Counted(q)'
    <3>1. Counted(q) /\ run[q].base \in Nat /\ writes[q] \in {0, 1}
          /\ (overtaken'[q] <=> overtaken[q] \/ run[q].status # "none")
      BY <1>0, <2>1, ThreadFacts DEF Sound, Overtakes, Rows, Counted
    <3> QED BY <1>0, <2>1, <3>1 DEF Counted
  <2> QED BY <1>0, <2>2 DEF Sound, Verdict
<1> QED BY <1>1, <1>2 DEF Edit, SaveCard

\* The worker only publishes runs whose row was inserted.
HasRows == \A t \in Threads : thread[t].run \in Runs => HasRow(thread[t].run)

LEMMA HasRowsStep == Discipline /\ HasRows /\ [Next]_vars => HasRows'
<1> SUFFICES ASSUME Discipline, HasRows, [Next]_vars PROVE HasRows'
  OBVIOUS
<1> USE PublicationAssumption, ThreadFacts DEF history, bounds
<1>0. thread \in [Threads -> Positions] /\ run \in [Runs -> Rows]
  BY DEF Discipline, TypeOK
<1>1. ASSUME NEW q \in Runs, HasRow(q) PROVE HasRow(q)'
  <2>1. CASE run' = run
    BY <1>1, <2>1 DEF HasRow
  <2>2. ASSUME NEW r \in Runs, TaskStep(r) PROVE HasRow(q)'
    <3>1. CASE Snapshot(r)
      BY <1>0, <1>1, <3>1 DEF HasRow, Snapshot
    <3>2. CASE BeginRun(r)
      BY <1>0, <1>1, <3>2 DEF HasRow, BeginRun
    <3>3. ASSUME NEW s \in {"live", "stopped"}, RunState(r, s) PROVE HasRow(q)'
      BY <1>0, <1>1, <3>3 DEF HasRow, RunState, Rows
    <3>4. CASE Wait(r)
      BY <1>0, <1>1, <3>4 DEF HasRow, Wait, Rows
    <3>5. ASSUME NEW v \in Values, Execute(r, v) PROVE HasRow(q)'
      BY <1>1, <3>5 DEF HasRow, Execute
    <3> QED BY <2>2, <3>1, <3>2, <3>3, <3>4, <3>5 DEF TaskStep
  <2>3. ASSUME NEW t \in Threads, NEW r \in Runs, Intend(t, r) \/ Settle(t, r)
        PROVE  HasRow(q)'
    <3>1. CASE Intend(t, r) /\ run' # run
      <4>1. run' = [run EXCEPT ![r].status = "publishing",
                               ![r].payload = Intent(r, thread[t].value)]
        BY <3>1 DEF Intend
      <4> QED BY <1>0, <1>1, <4>1 DEF HasRow, Rows
    <3>2. CASE Settle(t, r)
      BY <1>0, <1>1, <3>2 DEF HasRow, Settle, Rows
    <3> QED BY <2>1, <2>3, <3>1, <3>2
  <2>4. CASE Crash
    BY <1>0, <1>1, <2>4 DEF HasRow, Crash
  <2>5. \/ run' = run \/ Crash
        \/ \E r \in Runs : TaskStep(r)
        \/ \E t \in Threads, r \in Runs : Intend(t, r) \/ Settle(t, r)
    BY RowsChange
  <2> QED BY <2>1, <2>2, <2>3, <2>4, <2>5
<1>2. ASSUME NEW u \in Threads
      PROVE  \/ thread'[u].run \in {NoRun, thread[u].run}
             \/ HasRow(thread[u].run)'
  <2>1. CASE thread' = thread
    BY <2>1
  <2>2. ASSUME NEW t \in Threads, thread' = [thread EXCEPT ![t] = Idle]
        PROVE  thread'[u].run \in {NoRun, thread[u].run}
    BY <1>0, <2>2 DEF Idle
  <2>3. ASSUME NEW r \in Runs, NEW v \in Values, Execute(r, v)
        PROVE  \/ thread'[u].run \in {NoRun, thread[u].run}
               \/ HasRow(thread[u].run)'
    <3>1. CASE u = Worker
      BY <1>0, <2>3, <3>1 DEF Execute, Idle, HasRow
    <3>2. CASE u # Worker
      BY <1>0, <2>3, <3>2 DEF Execute
    <3> QED BY <3>1, <3>2
  <2>4. ASSUME NEW t \in Threads, Arrive(t) PROVE thread'[u].run \in {NoRun, thread[u].run}
    BY <1>0, <2>4 DEF Arrive, Idle
  <2>5. ASSUME NEW t \in Threads, Open(t) \/ List(t) \/ Opened(t)
        PROVE  thread'[u].run \in {NoRun, thread[u].run}
    BY <1>0, <2>5 DEF Open, List, Opened, Move, Positions
  <2>6. ASSUME NEW t \in Threads, NEW r \in Runs,
               Intend(t, r) \/ Select(t, r) \/ Settle(t, r)
        PROVE  thread'[u].run \in {NoRun, thread[u].run}
    <3>1. CASE thread' = [thread EXCEPT ![t] = Resumed(t, r)]
      BY <1>0, <3>1 DEF Resumed, Idle, Positions
    <3>2. CASE thread' = [thread EXCEPT ![t].at = "intended", ![t].doing = r]
      BY <1>0, <3>2 DEF Positions
    <3>3. CASE \E shown \in BOOLEAN :
                thread' = [thread EXCEPT ![t].at = "written", ![t].shown = shown]
      BY <1>0, <3>3 DEF Positions
    <3>4. Select(t, r) => \E shown \in BOOLEAN :
                thread' = [thread EXCEPT ![t].at = "written", ![t].shown = shown]
      BY DEF Select, Written
    <3> QED BY <2>6, <3>1, <3>2, <3>3, <3>4 DEF Intend, Settle, Return
  <2>7. CASE Crash
    BY <2>7 DEF Crash, Idle
  <2>8. \/ thread' = thread \/ Crash
        \/ \E r \in Runs, v \in Values : Execute(r, v)
        \/ \E t \in Threads : Arrive(t) \/ Open(t) \/ List(t) \/ Opened(t)
        \/ \E t \in Threads, r \in Runs : Intend(t, r) \/ Select(t, r) \/ Settle(t, r)
        \/ \E t \in Threads : thread' = [thread EXCEPT ![t] = Idle]
    <3>1. ASSUME NEW r \in Runs, TaskStep(r)
          PROVE  \/ thread' = thread
                 \/ \E v \in Values : Execute(r, v)
                 \/ thread' = [thread EXCEPT ![Worker] = Idle]
      BY <3>1 DEF TaskStep, Snapshot, BeginRun, RunState, Wait, Leave
    <3>2. ASSUME NEW t \in Threads, Raise(t) \/ Edit(t) \/ Reply(t) \/
                 \E r \in Runs : SelectRaises(t, r)
          PROVE  thread' = [thread EXCEPT ![t] = Idle]
      BY <3>2 DEF Raise, Edit, Reply, SelectRaises, ManualSelect, Trim, SaveCard, Leave
    <3> QED BY <3>1, <3>2 DEF Next, vars, Publish
  <2> QED BY <2>1, <2>2, <2>3, <2>4, <2>5, <2>6, <2>7, <2>8
<1> QED BY <1>1, <1>2 DEF HasRows

\* Every step of the specification keeps the counts.
LEMMA SoundStep ==
  ASSUME ~Editable
  PROVE  Discipline /\ HasRows /\ Sound /\ [Next]_vars => Sound'
<1> SUFFICES ASSUME Discipline, HasRows, Sound, [Next]_vars PROVE Sound'
  OBVIOUS
<1> USE PublicationAssumption, ThreadFacts DEF history, bounds
<1>0. /\ thread \in [Threads -> Positions] /\ run \in [Runs -> Rows]
      /\ slot.contentRev \in Nat
      /\ \A u \in Threads : Carries(u)
      /\ \A q \in Runs : Counted(q)
  BY DEF Discipline, TypeOK, Calls, Sound, Selections
<1>1. ASSUME NEW r \in Runs, Snapshot(r) PROVE Sound'
  <2>1. /\ run'[r].status = "read" /\ run'[r].base = slot.contentRev
        /\ run[r].status = "none" /\ \A q \in Runs : q # r => run'[q] = run[q]
    BY <1>0, <1>1 DEF Snapshot, Rows
  <2>2. Counted(r)'
    BY <1>0, <1>1, <2>1 DEF Snapshot, Counted
  <2> QED BY <1>1, <2>1, <2>2, SoundRowStep DEF Snapshot
<1>2. ASSUME NEW r \in Runs, BeginRun(r) \/ Wait(r) \/
             \E s \in {"live", "stopped"} : RunState(r, s)
      PROVE  Sound'
  <2>1. /\ run[r].status \notin {"none", "publishing", "success"}
        /\ run'[r].status \in {"live", "stopped"} /\ run'[r].base = run[r].base
        /\ \A q \in Runs : q # r => run'[q] = run[q]
        /\ UNCHANGED <<present, slot, writes, overtaken>>
    BY <1>0, <1>2 DEF BeginRun, RunState, MayUpdate, HasRow, Wait, Rows
  <2>2. Counted(r)'
    BY <1>0, <2>1 DEF Counted
  <2>3. \A t \in Threads : thread'[t].at = "written" => thread'[t] = thread[t]
    BY <1>0, <1>2 DEF BeginRun, RunState, Wait, Leave, Idle
  <2> QED BY <2>1, <2>2, <2>3, SoundRowStep
<1>3. ASSUME NEW r \in Runs, NEW v \in Values, Execute(r, v) PROVE Sound'
  BY <1>0, <1>3, QuietStep DEF Execute, Idle
<1>4. ASSUME NEW t \in Threads,
             Arrive(t) \/ Open(t) \/ List(t) \/ Opened(t) \/ Raise(t) \/ Reply(t)
      PROVE  Sound'
  <2>1. UNCHANGED <<present, slot, run, writes, overtaken>>
    BY <1>4 DEF Arrive, Open, List, Opened, Raise, Reply
  <2>2. ASSUME NEW u \in Threads, thread'[u].at = "written"
        PROVE  thread'[u] = thread[u]
    <3>1. u # t => thread'[u] = thread[u]
      BY <1>0, <1>4 DEF Arrive, Open, List, Opened, Raise, Reply, Leave, Move
    <3>2. CASE Arrive(t)
      BY <1>0, <2>2, <3>1, <3>2 DEF Arrive, Idle
    <3>3. CASE Open(t)
      BY <1>0, <2>2, <3>1, <3>3 DEF Open, Move
    <3>6. CASE List(t)
      BY <1>0, <2>2, <3>1, <3>6 DEF List
    <3>4. CASE Opened(t)
      BY <1>0, <2>2, <3>1, <3>4 DEF Opened, Move
    <3>5. CASE Raise(t) \/ Reply(t)
      BY <1>0, <2>2, <3>1, <3>5 DEF Raise, Reply, Leave, Idle
    <3> QED BY <1>4, <3>2, <3>3, <3>4, <3>5, <3>6
  <2> QED BY <2>1, <2>2, QuietStep
<1>5. ASSUME NEW t \in Threads, NEW r \in Runs, SelectRaises(t, r) PROVE Sound'
  BY <1>0, <1>5, QuietStep DEF SelectRaises, Leave, Idle
<1>6. ASSUME NEW t \in Threads, NEW r \in Runs, Intend(t, r) PROVE Sound'
  <2>1. /\ UNCHANGED <<present, slot, writes, overtaken>>
        /\ lock = NoThread
    BY <1>6 DEF Intend, Free
  <2>2. \A u \in Threads : thread[u].at # "written"
    BY <1>0, <2>1 DEF Carries, LockedPlaces
  <2>3. \A u \in Threads : thread'[u].at # "written"
    <3>1. CASE thread' = [thread EXCEPT ![t] = Resumed(t, r)]
      BY <1>0, <2>2, <3>1 DEF Resumed, Idle, Positions
    <3>2. CASE thread' = [thread EXCEPT ![t].at = "intended", ![t].doing = r]
      BY <1>0, <2>2, <3>2 DEF Positions
    <3> QED BY <1>6, <3>1, <3>2 DEF Intend, Return
  <2>4. CASE run' = run
    BY <2>1, <2>3, <2>4, QuietStep
  <2>5. CASE /\ run[r].status # "success"
             /\ run' = [run EXCEPT ![r].status = "publishing",
                                   ![r].payload = Intent(r, thread[t].value)]
    <3>1. /\ run'[r].status = "publishing" /\ run'[r].base = run[r].base
          /\ run'[r].payload = Intent(r, thread[t].value)
          /\ \A q \in Runs : q # r => run'[q] = run[q]
      BY <1>0, <2>5 DEF Rows
    <3>2. run[r].status # "none"
      <4>1. CASE thread[t].at = "recover"
        BY <1>0, <1>6, <4>1 DEF Intend, Carries
      <4>2. CASE thread[t].at = "act" /\ r = thread[t].run
        BY <1>6, <4>2 DEF HasRows, HasRow
      <4> QED BY <1>6, <4>1, <4>2 DEF Intend
    <3>3. Counted(r)'
      BY <1>0, <2>1, <2>5, <3>1, <3>2 DEF Counted, Intent
    <3>4. ASSUME NEW q \in Runs, q # r PROVE Counted(q)'
      BY <1>0, <2>1, <3>1, <3>4 DEF Counted
    <3> QED BY <2>1, <2>3, <3>3, <3>4 DEF Sound, Verdict
  <2> QED BY <1>6, <2>4, <2>5 DEF Intend
<1>7. ASSUME NEW t \in Threads, NEW r \in Runs, Select(t, r) PROVE Sound'
  BY <1>7, SoundSelect
<1>8. ASSUME NEW t \in Threads, NEW r \in Runs, Settle(t, r) PROVE Sound'
  <2>1. /\ run[r].status = "publishing" /\ lock = t
        /\ UNCHANGED <<present, slot, writes, overtaken>>
    BY <1>0, <1>8 DEF Settle, Carries, LockedPlaces
  <2>2. /\ run'[r].status = "success" /\ run'[r].base = run[r].base
        /\ \A q \in Runs : q # r => run'[q] = run[q]
    BY <1>0, <1>8 DEF Settle, Rows
  <2>3. \A u \in Threads : thread'[u].at # "written"
    BY <1>0, <1>8, <2>1 DEF Settle, Return, Resumed, Idle, Carries, LockedPlaces
  <2>4. \A q \in Runs : Counted(q)'
    BY <1>0, <2>1, <2>2 DEF Counted
  <2> QED BY <2>1, <2>3, <2>4 DEF Sound, Verdict
<1>9. ASSUME NEW t \in Threads, Edit(t) PROVE Sound'
  BY <1>9, SoundEdit
<1>10. CASE Crash
  <2>1. /\ UNCHANGED <<present, slot, writes>>
        /\ \A t \in Threads : thread'[t].at = "idle"
    BY <1>10 DEF Crash, Idle
  <2>2. ASSUME NEW q \in Runs PROVE Counted(q)'
    <3>1. CASE run[q].status = "read"
      BY <1>0, <1>10, <2>1, <3>1 DEF Crash, Counted, NewRun, HasRow
    <3>2. CASE run[q].status # "read"
      BY <1>0, <1>10, <2>1, <3>2 DEF Crash, Counted, HasRow
    <3> QED BY <3>1, <3>2
  <2> QED BY <2>1, <2>2 DEF Sound, Verdict
<1>11. CASE UNCHANGED vars
  BY <1>11, QuietStep DEF vars
<1> QED
  BY <1>1, <1>2, <1>3, <1>4, <1>5, <1>6, <1>7, <1>8, <1>9, <1>10, <1>11
  DEF Next, TaskStep, Publish

Invariant == Discipline /\ HasRows /\ Sound

LEMMA InvariantHolds == ASSUME ~Editable PROVE Spec => []Invariant
<1>1. Init => Invariant
  BY DisciplineInit, SoundInit, ThreadFacts DEF Invariant, Init, HasRows, Idle
<1>2. Invariant /\ [Next]_vars => Invariant'
  BY DisciplineStep, HasRowsStep, SoundStep DEF Invariant
<1> QED BY <1>1, <1>2, PTL DEF Spec

\* However often the process dies, a commit raises or a thread recovers a run, its
\* result is written to the selection at most once.
THEOREM AtMostOnce == ASSUME ~Editable PROVE Spec => []PublishedOnce
<1>1. Invariant => PublishedOnce
  BY DEF Invariant, Sound, Counted, PublishedOnce
<1> QED BY <1>1, InvariantHolds, PTL

\* A result never replaces content that came after its run was compiled.
THEOREM NewerContentKept == ASSUME ~Editable PROVE Spec => KeepsNewer
<1> DEFINE Kept == \A r \in Runs : writes'[r] # writes[r] => ~overtaken[r]
<1>1. Invariant /\ [Next]_vars => Kept
  <2> SUFFICES ASSUME Invariant, [Next]_vars, NEW q \in Runs, writes'[q] # writes[q]
               PROVE  ~overtaken[q]
    OBVIOUS
  <2>1. PICK t \in Threads, r \in Runs : Select(t, r)
    BY ZenonT(60) DEF Next, vars, TaskStep, Snapshot, BeginRun, RunState, Wait, Execute, Arrive,
           Open, List, Opened, Publish, Intend, Settle, SelectRaises, Raise, Edit, Reply,
           ManualSelect, Trim, SaveCard, Crash, history
  <2>2. q = r
    BY <2>1 DEF Select, history, Invariant, Discipline, TypeOK
  <2> QED BY <2>1, <2>2, SoundSelect DEF Invariant
<1> QED BY <1>1, InvariantHolds, PTL DEF Spec, KeepsNewer

\* A run ends "selected" only if the material shows its result at that moment, and
\* "not selected" only if other content came after the run was compiled.
THEOREM VerdictIsTrue == ASSUME ~Editable PROVE Spec => TruthfulVerdict
<1> DEFINE Truth == \A r \in Runs :
       (run[r].status # "success" /\ run'[r].status = "success") =>
         IF run'[r].selected THEN slot.content = run[r].payload ELSE overtaken[r]
<1>1. Invariant /\ [Next]_vars => Truth
  <2> SUFFICES ASSUME Invariant, [Next]_vars, NEW q \in Runs,
                      run[q].status # "success", run'[q].status = "success"
               PROVE  IF run'[q].selected THEN slot.content = run[q].payload
                      ELSE overtaken[q]
    OBVIOUS
  <2>0. run \in [Runs -> Rows] /\ thread \in [Threads -> Positions]
        /\ \A t \in Threads : Verdict(t)
    BY DEF Invariant, Discipline, TypeOK, Sound
  <2>1. PICK t \in Threads, r \in Runs : Settle(t, r)
    <3>1. ASSUME NEW r \in Runs, TaskStep(r) PROVE FALSE
      BY <2>0, <3>1 DEF TaskStep, Snapshot, BeginRun, RunState, Wait, Execute, Rows
    <3>2. ASSUME NEW t \in Threads, NEW r \in Runs, Intend(t, r) PROVE FALSE
      BY <2>0, <3>2 DEF Intend, Rows
    <3>3. CASE Crash
      BY <2>0, <3>3 DEF Crash, NewRun
    <3>4. run' # run
      OBVIOUS
    <3> QED BY <3>1, <3>2, <3>3, <3>4, RowsChange
  <2>2. q = r
    BY <2>0, <2>1 DEF Settle
  <2>3. run'[q].selected = thread[t].shown /\ thread[t].at = "written"
        /\ thread[t].doing = q
    BY <2>0, <2>1, <2>2 DEF Settle, Rows
  <2> QED BY <2>0, <2>3 DEF Verdict
<1> QED BY <1>1, InvariantHolds, PTL DEF Spec, TruthfulVerdict

-----------------------------------------------------------------------------
(* Publication implements MaterialSlot.  These are the state functions its  *)
(* instance substitutes.                                                    *)

WithRow == {r \in Runs : HasRow(r)}
Published == {r \in Runs : run[r].status = "success"}
Born == [r \in WithRow |-> run[r].base]
Applied == {r \in Runs : writes[r] > 0}
Settled == [r \in Published |-> run[r].selected]
Shown == [t \in Requests |-> thread[t].seen]

\* A request thread comes to publish nothing of its own: between the commits of
\* finish_run it recovers, and has not ended when the last of them is done.
Serves == \A t \in Requests :
  /\ thread[t].run = NoRun
  /\ thread[t].at \in LockedPlaces => thread[t].todo # {}

\* What a request thread's place becomes when t moves to pos.
LEMMA ServesMove ==
  ASSUME Serves, thread \in [Threads -> Positions], NEW t \in Threads, NEW pos,
         thread' = [thread EXCEPT ![t] = pos],
         t \in Requests => /\ pos.run = NoRun
                           /\ pos.at \in LockedPlaces => pos.todo # {}
  PROVE  Serves'
<1>1. \A u \in Requests : u \in Threads /\ thread'[u] = IF u = t THEN pos ELSE thread[u]
  BY ThreadFacts
<1> QED BY <1>1 DEF Serves

LEMMA ServesStep == Discipline /\ Serves /\ [Next]_vars => Serves'
<1> SUFFICES ASSUME Discipline, Serves, [Next]_vars PROVE Serves'
  OBVIOUS
<1> USE PublicationAssumption, ThreadFacts DEF history, bounds
<1>0. thread \in [Threads -> Positions]
  BY DEF Discipline, TypeOK
<1>1. ASSUME NEW t \in Threads, thread' = [thread EXCEPT ![t] = Idle] PROVE Serves'
  BY <1>0, <1>1, ServesMove DEF Idle, LockedPlaces
<1>2. CASE thread' = thread
  BY <1>2 DEF Serves
<1>3. ASSUME NEW r \in Runs, TaskStep(r) PROVE Serves'
  <2>1. ASSUME NEW v \in Values, Execute(r, v) PROVE Serves'
    <3> DEFINE pos == [Idle EXCEPT !.at = "open", !.run = r, !.value = v]
    <3>1. thread' = [thread EXCEPT ![Worker] = pos]
      BY <2>1 DEF Execute
    <3> HIDE DEF pos
    <3> QED BY <1>0, <3>1, ServesMove
  <2> QED BY <1>1, <1>2, <1>3, <2>1
          DEF TaskStep, Snapshot, BeginRun, RunState, Wait, Leave
<1>4. ASSUME NEW t \in Threads, Arrive(t) PROVE Serves'
  <2> DEFINE pos == [Idle EXCEPT !.at = "open", !.seen = slot.rev,
                                 !.seenPresent = present]
  <2>1. thread' = [thread EXCEPT ![t] = pos]
    BY <1>4 DEF Arrive
  <2>2. pos.run = NoRun /\ pos.at \notin LockedPlaces
    BY DEF Idle, LockedPlaces
  <2> HIDE DEF pos
  <2> QED BY <1>0, <2>1, <2>2, ServesMove
<1>5. ASSUME NEW t \in Threads, NEW place \in {"list", "act"}, Move(t, place)
      PROVE  Serves'
  <2> DEFINE pos == [thread[t] EXCEPT !.at = place]
  <2>1. thread' = [thread EXCEPT ![t] = pos]
    BY <1>5 DEF Move
  <2>2. pos.run = thread[t].run /\ pos.at \notin LockedPlaces
    BY <1>0 DEF Positions, LockedPlaces
  <2> HIDE DEF pos
  <2> QED BY <1>0, <2>1, <2>2, ServesMove DEF Serves
<1>6. ASSUME NEW t \in Threads, List(t) PROVE Serves'
  <2> DEFINE pos == [thread[t] EXCEPT !.at = "recover", !.todo = Pending]
  <2>1. thread' = [thread EXCEPT ![t] = pos]
    BY <1>6 DEF List
  <2>2. pos.run = thread[t].run /\ pos.at \notin LockedPlaces
    BY <1>0 DEF Positions, LockedPlaces
  <2> HIDE DEF pos
  <2> QED BY <1>0, <2>1, <2>2, ServesMove DEF Serves
<1>7. ASSUME NEW t \in Threads, NEW r \in Runs, Return(t, r) PROVE Serves'
  <2> DEFINE pos == [thread[t] EXCEPT !.at = "recover", !.todo = @ \ {r}, !.doing = NoRun]
  <2>1. CASE thread[t].todo = {}
    BY <1>1, <1>7, <2>1 DEF Return, Resumed
  <2>2. CASE thread[t].todo # {}
    <3>1. thread' = [thread EXCEPT ![t] = pos]
      BY <1>7, <2>2 DEF Return, Resumed
    <3>2. pos.run = thread[t].run /\ pos.at \notin LockedPlaces
      BY <1>0 DEF Positions, LockedPlaces
    <3> HIDE DEF pos
    <3> QED BY <1>0, <3>1, <3>2, ServesMove DEF Serves
  <2> QED BY <2>1, <2>2
<1>8. ASSUME NEW t \in Threads, NEW r \in Runs, Intend(t, r) PROVE Serves'
  <2> DEFINE pos == [thread[t] EXCEPT !.at = "intended", !.doing = r]
  <2>1. CASE Return(t, r)
    BY <1>7, <2>1
  <2>2. CASE thread' = [thread EXCEPT ![t] = pos]
    <3>1. pos.run = thread[t].run /\ pos.todo = thread[t].todo
      BY <1>0 DEF Positions
    <3>2. thread[t].todo # {} \/ r = thread[t].run
      BY <1>8 DEF Intend
    <3> HIDE DEF pos
    <3> QED BY <1>0, <2>2, <3>1, <3>2, ServesMove DEF Serves
  <2> QED BY <1>8, <2>1, <2>2 DEF Intend
<1>9. ASSUME NEW t \in Threads, NEW r \in Runs, Select(t, r) PROVE Serves'
  <2>1. PICK shown : thread' = [thread EXCEPT ![t] = [thread[t] EXCEPT !.at = "written",
                                                                    !.shown = shown]]
    BY <1>0, <1>9 DEF Select
  <2> DEFINE pos == [thread[t] EXCEPT !.at = "written", !.shown = shown]
  <2>2. /\ pos.run = thread[t].run /\ pos.todo = thread[t].todo
        /\ thread[t].at \in LockedPlaces
    BY <1>0, <1>9 DEF Positions, LockedPlaces, Select
  <2>3. thread' = [thread EXCEPT ![t] = pos]
    BY <2>1
  <2> HIDE DEF pos
  <2> QED BY <1>0, <2>2, <2>3, ServesMove DEF Serves
<1>10. ASSUME NEW t \in Threads, Open(t) \/ Opened(t) \/ Raise(t) \/ Reply(t) \/ Edit(t)
       PROVE  Serves'
  BY <1>1, <1>5, <1>10 DEF Open, Opened, Raise, Reply, Edit, ManualSelect, Trim, SaveCard, Leave
<1>11. CASE Crash
  BY <1>11 DEF Crash, Serves, Idle, LockedPlaces
<1>12. ASSUME NEW t \in Threads, NEW r \in Runs, Settle(t, r) \/ SelectRaises(t, r)
       PROVE  Serves'
  BY <1>1, <1>7, <1>12 DEF Settle, SelectRaises, Leave
<1>13. CASE UNCHANGED vars
  BY <1>2, <1>13 DEF vars
<1> QED BY <1>3, <1>4, <1>6, <1>8, <1>9, <1>10, <1>11, <1>12, <1>13 DEF Next, Publish

\* What a thread that moves to pos has before it.
Glances(t, pos) == pos.seen \in {0, thread[t].seen, slot.rev}

LEMMA SeenMove ==
  ASSUME thread \in [Threads -> Positions], NEW t \in Threads, NEW pos,
         thread' = [thread EXCEPT ![t] = pos], Glances(t, pos)
  PROVE  \A u \in Requests : thread'[u].seen \in {0, thread[u].seen, slot.rev}
<1>1. \A u \in Requests : u \in Threads /\ thread'[u] = IF u = t THEN pos ELSE thread[u]
  BY ThreadFacts
<1> QED BY <1>1 DEF Glances

\* An editor keeps the revision they were shown, is shown the current one, or leaves.
LEMMA SeenStep ==
  ASSUME Discipline, [Next]_vars
  PROVE  \A u \in Requests : thread'[u].seen \in {0, thread[u].seen, slot.rev}
<1> DEFINE Seen == \A u \in Requests : thread'[u].seen \in {0, thread[u].seen, slot.rev}
<1> SUFFICES Seen
  OBVIOUS
<1> USE DEF history, bounds
<1>0. thread \in [Threads -> Positions] /\ Requests \subseteq Threads /\ Worker \in Threads
  BY ThreadFacts DEF Discipline, TypeOK
<1>1. ASSUME NEW t \in Threads, thread' = [thread EXCEPT ![t] = Idle] PROVE Seen
  BY <1>0, <1>1, SeenMove DEF Idle, Glances
<1>2. CASE thread' = thread
  BY <1>0, <1>2
<1>4. ASSUME NEW r \in Runs, TaskStep(r) PROVE Seen
  <2>1. ASSUME NEW v \in Values, Execute(r, v) PROVE Seen
    <3> DEFINE pos == [Idle EXCEPT !.at = "open", !.run = r, !.value = v]
    <3>1. thread' = [thread EXCEPT ![Worker] = pos] /\ pos.seen = 0
      BY <2>1 DEF Execute, Idle
    <3> HIDE DEF pos
    <3> QED BY <1>0, <3>1, SeenMove DEF Glances
  <2> QED BY <1>0, <1>1, <1>2, <1>4, <2>1
          DEF TaskStep, Snapshot, BeginRun, RunState, Wait, Leave
<1>5. ASSUME NEW t \in Threads, Arrive(t) PROVE Seen
  <2> DEFINE pos == [Idle EXCEPT !.at = "open", !.seen = slot.rev,
                                 !.seenPresent = present]
  <2>1. thread' = [thread EXCEPT ![t] = pos] /\ pos.seen = slot.rev
    BY <1>5 DEF Arrive, Idle
  <2> HIDE DEF pos
  <2> QED BY <1>0, <2>1, SeenMove DEF Glances
<1>6. ASSUME NEW t \in Threads, Open(t) \/ Opened(t) PROVE Seen
  <2>1. PICK place : thread' = [thread EXCEPT ![t] = [thread[t] EXCEPT !.at = place]]
    BY <1>6 DEF Open, Opened, Move
  <2>2. [thread[t] EXCEPT !.at = place].seen = thread[t].seen
    BY <1>0 DEF Positions
  <2> QED BY <1>0, <2>1, <2>2, SeenMove DEF Glances
<1>7. ASSUME NEW t \in Threads, List(t) PROVE Seen
  <2> DEFINE pos == [thread[t] EXCEPT !.at = "recover", !.todo = Pending]
  <2>1. thread' = [thread EXCEPT ![t] = pos] /\ pos.seen = thread[t].seen
    BY <1>0, <1>7 DEF List, Positions
  <2> HIDE DEF pos
  <2> QED BY <1>0, <2>1, SeenMove DEF Glances
<1>8. ASSUME NEW t \in Threads, NEW r \in Runs, Return(t, r) PROVE Seen
  <2> DEFINE pos == Resumed(t, r)
  <2>1. thread' = [thread EXCEPT ![t] = pos] /\ pos.seen \in {0, thread[t].seen}
    BY <1>0, <1>8 DEF Return, Resumed, Positions, Idle
  <2> HIDE DEF pos
  <2> QED BY <1>0, <2>1, SeenMove DEF Glances
<1>9. ASSUME NEW t \in Threads, NEW r \in Runs, Intend(t, r) PROVE Seen
  <2> DEFINE pos == [thread[t] EXCEPT !.at = "intended", !.doing = r]
  <2>1. CASE thread' = [thread EXCEPT ![t] = pos]
    <3>1. pos.seen = thread[t].seen
      BY <1>0 DEF Positions
    <3> HIDE DEF pos
    <3> QED BY <1>0, <2>1, <3>1, SeenMove DEF Glances
  <2> QED BY <1>8, <1>9, <2>1 DEF Intend
<1>10. ASSUME NEW t \in Threads, NEW r \in Runs, Select(t, r) PROVE Seen
  <2>1. PICK shown : thread' = [thread EXCEPT ![t] = [thread[t] EXCEPT !.at = "written",
                                                                    !.shown = shown]]
    BY <1>0, <1>10 DEF Select
  <2> DEFINE pos == [thread[t] EXCEPT !.at = "written", !.shown = shown]
  <2>2. thread' = [thread EXCEPT ![t] = pos] /\ pos.seen = thread[t].seen
    BY <1>0, <2>1 DEF Positions
  <2> HIDE DEF pos
  <2> QED BY <1>0, <2>2, SeenMove DEF Glances
<1>11. ASSUME NEW t \in Threads, Raise(t) \/ Reply(t) \/ Edit(t) PROVE Seen
  BY <1>1, <1>11 DEF Raise, Reply, Edit, ManualSelect, Trim, SaveCard, Leave
<1>12. ASSUME NEW t \in Threads, NEW r \in Runs, Settle(t, r) \/ SelectRaises(t, r)
       PROVE  Seen
  BY <1>1, <1>8, <1>12 DEF Settle, SelectRaises, Leave
<1>13. CASE Crash
  BY <1>0, <1>13 DEF Crash, Idle
<1>14. CASE UNCHANGED vars
  BY <1>2, <1>14 DEF vars
<1> HIDE DEF Seen
<1> QED BY <1>4, <1>5, <1>6, <1>7, <1>9, <1>10, <1>11, <1>12, <1>13, <1>14
        DEF Next, Publish

\* Rows keep what the slot sees of them when base, verdict and status class stay.
LEMMA RowsStay ==
  ASSUME \A r \in Runs : /\ HasRow(r)' <=> HasRow(r)
                         /\ HasRow(r) => run'[r].base = run[r].base
                         /\ run'[r].status = "success" <=> run[r].status = "success"
                         /\ run[r].status = "success" => run'[r].selected = run[r].selected
  PROVE  Born' = Born /\ Settled' = Settled
<1>1. WithRow' = WithRow /\ Published' = Published
  BY DEF WithRow, Published
<1>2. \A r \in WithRow : run'[r].base = run[r].base
  BY DEF WithRow
<1>3. \A r \in Published : run'[r].selected = run[r].selected
  BY DEF Published
<1> QED BY <1>1, <1>2, <1>3 DEF Born, Settled

\* A step that leaves the selection, the rows' sides the slot sees and the effects
\* as they are at most shows an editor something.
LEMMA SlotLook ==
  ASSUME Discipline, [Next]_vars,
         \A r \in Runs : /\ HasRow(r)' <=> HasRow(r)
                         /\ HasRow(r) => run'[r].base = run[r].base
                         /\ run'[r].status = "success" <=> run[r].status = "success"
                         /\ run[r].status = "success" => run'[r].selected = run[r].selected,
         slot' = slot, writes' = writes
  PROVE  Slot!Look
<1>1. Born' = Born /\ Settled' = Settled
  BY RowsStay
<1>2. Applied' = Applied
  BY DEF Applied
<1>3. /\ \A t \in Requests : Shown'[t] \in {0, Shown[t], slot.rev}
      /\ Shown' = [t \in Requests |-> Shown'[t]]
  BY SeenStep DEF Shown
<1> QED BY <1>1, <1>2, <1>3
        DEF Slot!Look, Born, Settled, Applied, Shown, WithRow, Published

\* Request threads that keep what they have before them.
LEMMA ShownStays ==
  ASSUME \A t \in Requests : thread'[t].seen = thread[t].seen
  PROVE  Shown' = Shown
BY DEF Shown

\* The initial state is an initial state of the slot.
LEMMA SlotInit == Init => Slot!Init
<1> SUFFICES ASSUME Init PROVE Slot!Init
  OBVIOUS
<1>1. WithRow = {} /\ Published = {} /\ Applied = {}
  BY DEF Init, WithRow, Published, Applied, HasRow, NewRun
<1>2. Born = [r \in {} |-> 0] /\ Settled = [r \in {} |-> FALSE]
  BY <1>1 DEF Born, Settled
<1>3. Shown = [t \in Requests |-> 0]
  BY ThreadFacts DEF Shown, Init, Idle
<1> QED BY <1>1, <1>2, <1>3
        DEF Slot!Init, Born, Settled, Applied, Shown, WithRow, Published, Init, Empty

\* The row's insertion is the slot's Compile.
LEMMA SlotCompile ==
  ASSUME Invariant, NEW r \in Runs, BeginRun(r)
  PROVE  Slot!Compile(r)
<1> USE DEF history, bounds
<1>0. /\ run \in [Runs -> Rows] /\ run[r].base \in Nat /\ slot.contentRev \in Nat
      /\ Counted(r)
  BY DEF Invariant, Discipline, TypeOK, Sound, Selections, Rows
<1>1. /\ ~HasRow(r) /\ HasRow(r)' /\ run'[r].base = run[r].base
      /\ \A q \in Runs : q # r => run'[q] = run[q]
      /\ run'[r].status = "live" /\ run[r].status = "read"
  BY <1>0 DEF BeginRun, HasRow, Rows
<1>2. run[r].base \in 0..slot.contentRev
  BY <1>0, <1>1 DEF Counted
<1>3. WithRow' = WithRow \union {r} /\ r \notin WithRow
  BY <1>1 DEF WithRow, HasRow
<1>4. Born' = [s \in DOMAIN Born \union {r} |-> IF s = r THEN run[r].base ELSE Born[s]]
  <2>1. \A s \in WithRow' : run'[s].base = IF s = r THEN run[r].base ELSE Born[s]
    BY <1>1, <1>3 DEF Born, WithRow
  <2> QED BY <1>3, <2>1 DEF Born
<1>5. Settled' = Settled
  <2>1. Published' = Published
    BY <1>1 DEF Published
  <2>2. \A s \in Published : run'[s].selected = run[s].selected
    BY <1>1 DEF Published
  <2> QED BY <2>1, <2>2 DEF Settled
<1>6. slot' = slot /\ Applied' = Applied /\ Shown' = Shown
  BY DEF BeginRun, Applied, Shown
<1> QED BY <1>2, <1>3, <1>4, <1>5, <1>6
        DEF Slot!Compile, Slot!Compiled, Born, Settled, Applied, Shown, WithRow, Published

\* The commit of the selection is the slot's Apply, or nothing at all.
LEMMA SlotSelect ==
  ASSUME Invariant, [Next]_vars, NEW t \in Threads, NEW r \in Runs, Select(t, r)
  PROVE  Slot!Apply(r) \/ Slot!Look
<1> USE DEF history, bounds
<1>0. /\ run' = run /\ run[r].status = "publishing" /\ run \in [Runs -> Rows]
      /\ writes \in [Runs -> Nat] /\ slot \in Selections
      /\ run[r].payload \in Values
  BY DEF Select, Invariant, Discipline, TypeOK, Calls, Carries, LockedPlaces, Rows,
         Contents
<1>1. Born' = Born /\ Settled' = Settled
  BY <1>0, RowsStay DEF HasRow
<1>2. CASE UNCHANGED <<slot, writes, overtaken>>
  BY <1>0, <1>2, SlotLook DEF HasRow, Invariant
<1>3. CASE /\ Unchanged(r)
           /\ slot' = Replaced(run[r].payload)
           /\ writes' = [writes EXCEPT ![r] = @ + 1]
  <2>1. writes[r] = 0
    BY <1>0, <1>3, SoundSelect DEF Invariant
  <2>2. r \in WithRow /\ r \notin Applied /\ r \notin Published
    BY <1>0, <2>1 DEF WithRow, Applied, Published, HasRow
  <2>3. Applied' = Applied \union {r}
    BY <1>0, <1>3, <2>1 DEF Applied
  <2>4. /\ slot.contentRev = Born[r] /\ slot'.content \in Values
        /\ slot'.contentRev = slot.contentRev + 1 /\ slot'.rev = slot.rev + 1
    BY <1>0, <1>3, <2>2 DEF Unchanged, Replaced, Born
  <2>5. Shown' = Shown
    <3>1. thread \in [Threads -> Positions] /\ Requests \subseteq Threads
      BY ThreadFacts DEF Invariant, Discipline, TypeOK
    <3>2. \A u \in Threads : thread'[u].seen = thread[u].seen
      BY <3>1 DEF Select, Positions
    <3> QED BY <3>1, <3>2, ShownStays
  <2> QED BY <1>1, <2>2, <2>3, <2>4, <2>5
          DEF Slot!Apply, Slot!Compiled, Born, Settled, Applied, Shown, WithRow, Published
<1> QED BY <1>2, <1>3 DEF Select

\* The commit of the verdict is the slot's Settle.
LEMMA SlotSettle ==
  ASSUME Invariant, Serves, NEW t \in Threads, NEW r \in Runs, Settle(t, r)
  PROVE  Slot!Settle(r)
<1> USE DEF history, bounds
<1>0. /\ run \in [Runs -> Rows] /\ run[r].status = "publishing"
      /\ slot' = slot /\ writes' = writes
      /\ thread[t].at = "written" /\ thread[t].doing = r
      /\ thread[t].shown \in BOOLEAN
      /\ Counted(r) /\ Verdict(t)
      /\ run[r].base \in Nat /\ slot.contentRev \in Nat
  BY DEF Settle, Invariant, Discipline, TypeOK, Calls, Carries, LockedPlaces,
         Positions, Sound, Rows, Selections
<1>1. /\ run'[r].status = "success" /\ run'[r].base = run[r].base
      /\ run'[r].selected = thread[t].shown
      /\ \A q \in Runs : q # r => run'[q] = run[q]
  BY <1>0 DEF Settle, Rows
<1>2. /\ r \in WithRow /\ r \notin Published
      /\ WithRow' = WithRow /\ Published' = Published \union {r}
  BY <1>0, <1>1 DEF WithRow, Published, HasRow
<1>3. Born' = Born
  <2>1. \A q \in WithRow : run'[q].base = run[q].base
    BY <1>1 DEF WithRow
  <2> QED BY <1>2, <2>1 DEF Born
<1>4. Settled' = [s \in DOMAIN Settled \union {r} |->
                    IF s = r THEN thread[t].shown ELSE Settled[s]]
  <2>1. \A s \in Published' :
          run'[s].selected = IF s = r THEN thread[t].shown ELSE Settled[s]
    BY <1>1, <1>2 DEF Settled, Published
  <2> QED BY <1>2, <2>1 DEF Settled
<1>5. /\ Born[r] = run[r].base
      /\ slot.contentRev > Born[r]
      /\ thread[t].shown => slot.contentRev = Born[r] + 1
      /\ r \in Applied /\ slot.contentRev = Born[r] + 1 => thread[t].shown
  BY <1>0, <1>2 DEF Born, Counted, Verdict, Applied
<1>6. Applied' = Applied
  BY <1>0 DEF Applied
<1>7. Shown' = Shown
  <2>1. /\ thread \in [Threads -> Positions] /\ Requests \subseteq Threads
        /\ thread' = [thread EXCEPT ![t] = Resumed(t, r)]
    BY ThreadFacts DEF Invariant, Discipline, TypeOK, Settle, Return
  <2>2. t \in Requests => Resumed(t, r).seen = thread[t].seen
    BY <1>0, <2>1 DEF Serves, LockedPlaces, Resumed, Positions
  <2>3. \A u \in Requests : thread'[u].seen = thread[u].seen
    BY <2>1, <2>2
  <2> QED BY <2>3, ShownStays
<1> QED BY <1>0, <1>2, <1>3, <1>4, <1>5, <1>6, <1>7
        DEF Slot!Settle, Slot!Compiled, Born, Settled, Applied, Shown, WithRow, Published

\* An editor who is up to date and then leaves.
LEMMA EditShown ==
  ASSUME Discipline, NEW t \in Requests, thread[t].seen = slot.rev, Leave(t)
  PROVE  Shown[t] = slot.rev /\ Shown' = [Shown EXCEPT ![t] = 0]
<1>1. thread \in [Threads -> Positions] /\ Requests \subseteq Threads
  BY ThreadFacts DEF Discipline, TypeOK
<1>2. \A u \in Requests : thread'[u].seen = IF u = t THEN 0 ELSE thread[u].seen
  BY <1>1 DEF Leave, Idle
<1> QED BY <1>2 DEF Shown

\* Each step of Publication is a step of the slot or changes nothing it sees.
LEMMA SlotStep ==
  ASSUME ~Editable
  PROVE  Invariant /\ Serves /\ [Next]_vars => [Slot!Next]_(Slot!vars)
<1> SUFFICES ASSUME Invariant, Serves, [Next]_vars PROVE Slot!Next
  OBVIOUS
<1> USE DEF history, bounds
<1>0. run \in [Runs -> Rows] /\ slot \in Selections /\ Discipline
  BY DEF Invariant, Discipline, TypeOK
<1>1. ASSUME NEW r \in Runs, BeginRun(r) PROVE Slot!Next
  BY <1>1, SlotCompile DEF Slot!Next
<1>2. ASSUME NEW t \in Threads, NEW r \in Runs, Select(t, r) PROVE Slot!Next
  BY <1>2, SlotSelect DEF Slot!Next
<1>3. ASSUME NEW t \in Threads, NEW r \in Runs, Settle(t, r) PROVE Slot!Next
  BY <1>3, SlotSettle DEF Slot!Next
<1>4. ASSUME NEW t \in Threads, NEW v \in Values, ManualSelect(t, v) PROVE Slot!Next
  <2>1. Born' = Born /\ Settled' = Settled /\ Applied' = Applied
    BY <1>4, RowsStay DEF ManualSelect, HasRow, Applied
  <2>2. /\ slot'.content \in Values /\ slot'.contentRev = slot.contentRev + 1
        /\ slot'.rev = slot.rev + 1
    BY <1>4 DEF ManualSelect, Replaced
  <2>3. /\ t \in Requests /\ Shown[t] = slot.rev
        /\ Shown' = [Shown EXCEPT ![t] = 0]
    BY <1>0, <1>4, EditShown DEF ManualSelect, UpToDate
  <2> QED BY <2>1, <2>2, <2>3
          DEF Slot!Next, Slot!Replace, Born, Settled, Applied, Shown, WithRow, Published
<1>5. ASSUME NEW r \in Runs, Snapshot(r) \/ Wait(r) \/
             \E s \in {"live", "stopped"} : RunState(r, s)
      PROVE  Slot!Look
  <2>1. UNCHANGED <<slot, writes>>
    BY <1>5 DEF Snapshot, Wait, RunState
  <2>2. /\ HasRow(r)' <=> HasRow(r)
        /\ HasRow(r) => run'[r].base = run[r].base
        /\ run'[r].status # "success" /\ run[r].status # "success"
        /\ \A q \in Runs : q # r => run'[q] = run[q]
    <3>1. CASE Snapshot(r)
      BY <1>0, <3>1 DEF Snapshot, HasRow, Rows
    <3>2. CASE Wait(r)
      BY <1>0, <3>2 DEF Wait, HasRow, Rows
    <3>3. ASSUME NEW s \in {"live", "stopped"}, RunState(r, s)
          PROVE  /\ HasRow(r)' /\ HasRow(r)
                 /\ run'[r].base = run[r].base
                 /\ run'[r].status # "success" /\ run[r].status # "success"
                 /\ \A q \in Runs : q # r => run'[q] = run[q]
      BY <1>0, <3>3 DEF RunState, MayUpdate, HasRow, Rows
    <3> QED BY <1>5, <3>1, <3>2, <3>3
  <2> QED BY <1>0, <2>1, <2>2, SlotLook DEF HasRow
<1>6. ASSUME NEW t \in Threads, NEW r \in Runs, Intend(t, r), run' # run
      PROVE  Slot!Look
  <2>1. /\ run' = [run EXCEPT ![r].status = "publishing",
                              ![r].payload = Intent(r, thread[t].value)]
        /\ run[r].status # "success" /\ UNCHANGED <<slot, writes>>
    BY <1>6 DEF Intend
  <2>2. HasRow(r)
    <3>1. CASE thread[t].at = "recover"
      BY <1>6, <3>1 DEF Intend, HasRow, Invariant, Discipline, Calls, Carries
    <3>2. CASE thread[t].at = "act" /\ r = thread[t].run
      BY <3>2 DEF Invariant, HasRows
    <3> QED BY <1>6, <3>1, <3>2 DEF Intend
  <2>3. /\ run'[r].status = "publishing" /\ run'[r].base = run[r].base
        /\ \A q \in Runs : q # r => run'[q] = run[q]
    BY <1>0, <2>1 DEF Rows
  <2> QED BY <1>0, <2>1, <2>2, <2>3, SlotLook DEF HasRow
<1>7. ASSUME NEW t \in Threads, Trim(t) PROVE Slot!Next
  <2>1. Born' = Born /\ Settled' = Settled /\ Applied' = Applied
    BY <1>7, RowsStay DEF Trim, HasRow, Applied
  <2>2. /\ slot'.content = slot.content /\ slot'.contentRev = slot.contentRev
        /\ slot'.rev = slot.rev + 1
    BY <1>0, <1>7 DEF Trim, Trimmed, Selections
  <2>3. /\ t \in Requests /\ Shown[t] = slot.rev
        /\ Shown' = [Shown EXCEPT ![t] = 0]
    BY <1>0, <1>7, EditShown DEF Trim, UpToDate
  <2> QED BY <2>1, <2>2, <2>3
          DEF Slot!Next, Slot!Trim, Born, Settled, Applied, Shown, WithRow, Published
<1>8. CASE Crash
  <2>1. \A r \in Runs : /\ HasRow(r)' <=> HasRow(r)
                        /\ HasRow(r) => run'[r].base = run[r].base
                        /\ run'[r].status = "success" <=> run[r].status = "success"
                        /\ run[r].status = "success" => run'[r].selected = run[r].selected
    BY <1>0, <1>8 DEF Crash, HasRow, NewRun
  <2>2. slot' = slot /\ writes' = writes
    BY <1>8 DEF Crash
  <2> QED BY <1>0, <2>1, <2>2, SlotLook DEF Slot!Next
<1>9. CASE UNCHANGED <<slot, run, writes>>
  <2>1. \A r \in Runs : /\ HasRow(r)' <=> HasRow(r)
                        /\ HasRow(r) => run'[r].base = run[r].base
                        /\ run'[r].status = "success" <=> run[r].status = "success"
                        /\ run[r].status = "success" => run'[r].selected = run[r].selected
    BY <1>9 DEF HasRow
  <2>2. slot' = slot /\ writes' = writes
    BY <1>9
  <2> QED BY <1>0, <2>1, <2>2, SlotLook DEF Slot!Next
<1>10. \/ \E r \in Runs : \/ BeginRun(r) \/ Snapshot(r) \/ Wait(r)
                          \/ \E s \in {"live", "stopped"} : RunState(r, s)
       \/ \E t \in Threads, r \in Runs :
            Select(t, r) \/ Settle(t, r) \/ (Intend(t, r) /\ run' # run)
       \/ \E t \in Threads : Trim(t) \/ \E v \in Values : ManualSelect(t, v)
       \/ Crash
       \/ UNCHANGED <<slot, run, writes>>
  <2>1. ASSUME NEW r \in Runs, NEW v \in Values, Execute(r, v)
        PROVE  UNCHANGED <<slot, run, writes>>
    BY <2>1 DEF Execute
  <2>2. ASSUME NEW t \in Threads,
               Arrive(t) \/ Open(t) \/ List(t) \/ Opened(t) \/ Raise(t) \/ Reply(t)
        PROVE  UNCHANGED <<slot, run, writes>>
    BY <2>2 DEF Arrive, Open, List, Opened, Raise, Reply
  <2>3. ASSUME NEW t \in Threads, NEW r \in Runs, SelectRaises(t, r)
        PROVE  UNCHANGED <<slot, run, writes>>
    BY <2>3 DEF SelectRaises
  <2>4. ASSUME NEW t \in Threads, NEW r \in Runs, Intend(t, r), run' = run
        PROVE  UNCHANGED <<slot, run, writes>>
    BY <2>4 DEF Intend
  <2>5. ASSUME NEW t \in Threads PROVE ~SaveCard(t)
    BY DEF SaveCard
  <2>6. CASE UNCHANGED vars
    BY <2>6 DEF vars
  <2> QED BY <2>1, <2>2, <2>3, <2>4, <2>5, <2>6 DEF Next, TaskStep, Publish, Edit
<1> QED BY <1>1, <1>2, <1>3, <1>4, <1>5, <1>6, <1>7, <1>8, <1>9, <1>10 DEF Slot!Next

\* While the material stays in its card, the two-store protocol with its lock,
\* retries, recoveries and stale editors is indistinguishable from the atomic slot.
THEOREM ImplementsSlot == ASSUME ~Editable PROVE Spec => SlotSpec
<1>1. Init => Invariant /\ Serves
  BY DisciplineInit, SoundInit, ThreadFacts
     DEF Invariant, Init, HasRows, Serves, Idle, LockedPlaces
<1>2. Invariant /\ Serves /\ [Next]_vars => (Invariant /\ Serves)'
  BY DisciplineStep, HasRowsStep, SoundStep, ServesStep DEF Invariant
<1>3. Invariant /\ Serves /\ [Next]_vars => [Slot!Next]_(Slot!vars)
  BY SlotStep
<1> QED
  BY <1>1, <1>2, <1>3, SlotInit, PTL DEF Spec, Slot!Spec, SlotSpec

=============================================================================
