---------------------------- MODULE JobApi_proofs ----------------------------
(***************************************************************************)
(* For any identities, downloads and failing removals: the job API is well *)
(* typed, runs a request once, removes a job's files only while nobody     *)
(* uses them, leaves nothing of a job that is gone, keeps what a download  *)
(* reads, interrupts only prompts of jobs to be deleted, and gives up the  *)
(* directory lock last.                                                    *)
(*                                                                         *)
(* The invariant describes one job: what its handler and its runner may    *)
(* have under way at each of their awaits (Uploading, Running), who may be *)
(* removing its files (Removing), and what its files then are (Holding).   *)
(* Two more rest on it: how the files and the status of a job come to agree *)
(* (Settling), and the jobs that close() has to wait for (CloseInv).        *)
(***************************************************************************)
EXTENDS JobApi, WellFoundedInduction, TLAPS

\* Entries of the loop and of the queue.
In(s, e) == \E k \in 1..Len(s) : s[k] = e
Once(s, e) == \A k, m \in 1..Len(s) : s[k] = e /\ s[m] = e => k = m

\* Before it has launched its prompt, the handler is the only one at work.
Uploading(j) ==
  /\ j \notin requests <=> handler[j] = "none"
  /\ "mkdir" \in io[j] => handler[j] = "mkdir"
  /\ "input" \in io[j] => handler[j] \in {"write", "prepare"}
  /\ handler[j] # "done" => runner[j] = "none" /\ starts[j] = 0

\* What the await of the runner says about the native prompt and the threads.
Running(j) ==
  /\ runner[j] = "none" => ~job[j].outputs
  /\ job[j].nativeActive => runner[j] \in {"poll", "sleep"}
  /\ job[j].finished => runner[j] = "done"
  /\ job[j].status = "succeeded" => job[j].finished
  /\ job[j].status = "failed" => runner[j] \in {"clear", "cleared", "uncleared", "discard", "done"}
  /\ In(queue, j) \/ running = j => job[j].nativeActive /\ history[j] = "none"
  /\ history[j] # "none" => runner[j] \in {"poll", "sleep", "results"}
  /\ "results" \in io[j] => runner[j] = "results"
  /\ "clear" \in io[j] => runner[j] = "clear"
  /\ job[j].outputs =>
       /\ runner[j] \in {"clear", "cleared", "uncleared", "discard", "done"}
       /\ job[j].status # "failed"

\* The worker has taken the prompt or will take it, not both.
Starting(j) ==
  /\ In(queue, j) => starts[j] = 0
  /\ running = j => starts[j] = 1
  /\ Once(queue, j)
  /\ starts[j] <= 1

\* The runner's next step is scheduled once, and then has not begun.
Scheduled(j) ==
  /\ In(loop, <<"poll", j>>) => runner[j] = "poll"
  /\ In(loop, <<"io", j>>) =>
       /\ runner[j] \in {"results", "clear", "discard"}
       /\ io[j] \intersect {"results", "clear"} = {}
       /\ "runner" \notin discarding[j]
  /\ Once(loop, <<"poll", j>>) /\ Once(loop, <<"io", j>>)

\* Who removes files comes after the upload and after the runner.
Removing(j) ==
  /\ discarding[j] # {} =>
       /\ handler[j] \in {"unmake", "discard", "done"}
       /\ runner[j] \in {"none", "done", "discard"}
       /\ runner[j] = "none" \/ job[j].deleteRequested
  /\ discarding[j] \ {"handler"} # {} => handler[j] \in {"discard", "done"}
  /\ "handler" \in discarding[j] => handler[j] \in {"unmake", "discard"}
  /\ "runner" \in discarding[j] => runner[j] = "discard"
  /\ runner[j] = "discard" => discarding[j] \subseteq {"runner"} /\ job[j].deleteRequested

\* What the directory holds.
Holding(j) ==
  /\ j \notin jobs => files[j] = {} /\ ~Receiving(j) /\ runner[j] \in {"none", "done"}
  /\ job[j].outputs /\ ~job[j].deleteRequested => "outputs" \in files[j]
  /\ readers[j] > 0 =>
       /\ discarding[j] = {} /\ j \in jobs
       /\ job[j].status = "succeeded" /\ job[j].outputs /\ "outputs" \in files[j]

JobInv(j) ==
  Uploading(j) /\ Running(j) /\ Starting(j) /\ Scheduled(j) /\ Removing(j) /\ Holding(j)

Identities == jobs \subseteq requests /\ sweep \subseteq requests /\ closeTodo \subseteq requests

IInv == TypeOK /\ Identities /\ \A j \in Ids : JobInv(j)

-----------------------------------------------------------------------------
(* Sequences.                                                               *)

LEMMA AppendIn ==
  ASSUME NEW S, NEW s \in Seq(S), NEW x \in S
  PROVE  /\ Append(s, x) \in Seq(S)
         /\ \A e : In(Append(s, x), e) <=> In(s, e) \/ e = x
         /\ \A e : Once(s, e) /\ (e # x \/ ~In(s, e)) => Once(Append(s, x), e)
<1>1. /\ Append(s, x) \in Seq(S) /\ Len(Append(s, x)) = Len(s) + 1 /\ Len(s) \in Nat
      /\ \A k \in 1..Len(s) : Append(s, x)[k] = s[k]
      /\ Append(s, x)[Len(s) + 1] = x
  OBVIOUS
<1>2. \A k \in 1..(Len(s) + 1) : k = Len(s) + 1 \/ k \in 1..Len(s)
  BY <1>1
<1>3. 1..Len(s) \subseteq 1..(Len(s) + 1) /\ Len(s) + 1 \in 1..(Len(s) + 1)
  BY <1>1
<1>4. \A e : In(Append(s, x), e) <=> In(s, e) \/ e = x
  BY <1>1, <1>2, <1>3 DEF In
<1>5. ASSUME NEW e, Once(s, e), e # x \/ ~In(s, e)
      PROVE  Once(Append(s, x), e)
  BY <1>1, <1>2, <1>5 DEF In, Once
<1>. QED
  BY <1>1, <1>4, <1>5

LEMMA TailIn ==
  ASSUME NEW S, NEW s \in Seq(S), s # <<>>
  PROVE  /\ Tail(s) \in Seq(S) /\ Head(s) \in S /\ In(s, Head(s))
         /\ \A e : In(Tail(s), e) => In(s, e)
         /\ \A e : Once(s, e) => Once(Tail(s), e)
         /\ \A e : Once(s, e) /\ e = Head(s) => ~In(Tail(s), e)
<1>1. /\ Tail(s) \in Seq(S) /\ Head(s) \in S /\ Head(s) = s[1]
      /\ Len(s) \in Nat \ {0} /\ Len(Tail(s)) = Len(s) - 1
      /\ \A k \in 1..(Len(s) - 1) : Tail(s)[k] = s[k + 1]
  OBVIOUS
<1>2. 1 \in 1..Len(s) /\ \A k \in 1..(Len(s) - 1) : k + 1 \in 1..Len(s) /\ k + 1 # 1
  BY <1>1
<1>3. \A k, m \in 1..(Len(s) - 1) : k + 1 = m + 1 => k = m
  BY <1>1
<1>4. In(s, Head(s)) /\ \A e : In(Tail(s), e) => In(s, e)
  BY <1>1, <1>2 DEF In
<1>5. \A e : Once(s, e) => Once(Tail(s), e)
  BY <1>1, <1>2, <1>3 DEF Once
<1>6. \A e : Once(s, e) /\ e = Head(s) => ~In(Tail(s), e)
  BY <1>1, <1>2 DEF Once, In
<1>. QED
  BY <1>1, <1>4, <1>5, <1>6

LEMMA WithoutIn ==
  ASSUME NEW S, NEW q \in Seq(S), NEW j
  PROVE  /\ Without(q, j) \in Seq(S)
         /\ \A e : In(Without(q, j), e) => In(q, e)
         /\ \A e : Once(q, e) => Once(Without(q, j), e)
<1>1. CASE ~ \E k \in 1..Len(q) : q[k] = j
  BY <1>1 DEF Without
<1>2. CASE \E k \in 1..Len(q) : q[k] = j
  <2>. DEFINE first == CHOOSE k \in 1..Len(q) : q[k] = j /\ \A i \in 1..(k - 1) : q[i] # j
              at(i) == IF i < first THEN i ELSE i + 1
              w == [i \in 1..(Len(q) - 1) |-> IF i < first THEN q[i] ELSE q[i + 1]]
  <2>1. Without(q, j) = w
    BY <1>2 DEF Without
  <2>2. Len(q) \in Nat \ {0} /\ \A k \in 1..Len(q) : q[k] \in S
    BY <1>2
  <2>. DEFINE places == {k \in 1..Len(q) : q[k] = j}
  <2>8. PICK low \in places : \A r \in places : ~(<<r, low>> \in OpToRel(<, Nat))
    <3>1. places \subseteq Nat /\ places # {}
      BY <1>2, <2>2
    <3>. QED
      BY <3>1, NatLessThanWellFounded, WFMin
  <2>9. \A i \in 1..(low - 1) : q[i] # j
    <3>. SUFFICES ASSUME NEW i \in 1..(low - 1), q[i] = j PROVE FALSE
      OBVIOUS
    <3>1. i \in places /\ low \in Nat /\ i \in Nat /\ i < low
      BY <2>2
    <3>. QED
      BY <2>8, <3>1 DEF OpToRel
  <2>10. first \in 1..Len(q)
    BY <2>9
  <2>. HIDE DEF first
  <2>3. \A i \in 1..(Len(q) - 1) : at(i) \in 1..Len(q) /\ w[i] = q[at(i)]
    BY <2>2
  <2>4. w \in Seq(S) /\ Len(w) = Len(q) - 1
    BY <2>2, <2>3
  <2>5. \A k, m \in 1..(Len(q) - 1) : at(k) = at(m) => k = m
    BY <2>2, <2>10
  <2>. HIDE DEF w, at
  <2>6. \A e : In(w, e) => In(q, e)
    BY <2>3, <2>4 DEF In
  <2>7. \A e : Once(q, e) => Once(w, e)
    BY <2>3, <2>4, <2>5 DEF Once
  <2>. QED
    BY <2>1, <2>4, <2>6, <2>7
<1>. QED
  BY <1>1, <1>2

-----------------------------------------------------------------------------
(* Types.                                                                   *)

LEMMA FieldTypes ==
  ASSUME NEW f \in [Ids -> Fields], NEW j \in Ids
  PROVE  /\ f[j] \in Fields
         /\ \A s \in Statuses : [f EXCEPT ![j].status = s] \in [Ids -> Fields]
         /\ \A x \in {"none", "armed", "passed"} : [f EXCEPT ![j].expires = x] \in [Ids -> Fields]
         /\ \A b \in BOOLEAN :
              /\ [f EXCEPT ![j].outputs = b] \in [Ids -> Fields]
              /\ [f EXCEPT ![j].cleanupError = b] \in [Ids -> Fields]
              /\ [f EXCEPT ![j].deleteRequested = b] \in [Ids -> Fields]
              /\ [f EXCEPT ![j].nativeActive = b] \in [Ids -> Fields]
         /\ \A s \in Statuses, b \in BOOLEAN :
              /\ [f EXCEPT ![j].status = s, ![j].error = b] \in [Ids -> Fields]
              /\ [f EXCEPT ![j].status = s, ![j].nativeActive = b] \in [Ids -> Fields]
              /\ [f EXCEPT ![j].status = s, ![j].finished = b] \in [Ids -> Fields]
         /\ \A b, d \in BOOLEAN :
              [f EXCEPT ![j].deleteRequested = b, ![j].cleanupError = d] \in [Ids -> Fields]
<1>1. f[j] \in Fields /\ \A r \in Fields : [f EXCEPT ![j] = r] \in [Ids -> Fields]
  OBVIOUS
<1>2. \A s \in Statuses : [f EXCEPT ![j].status = s] \in [Ids -> Fields]
  BY <1>1 DEF Fields
<1>3. \A x \in {"none", "armed", "passed"} : [f EXCEPT ![j].expires = x] \in [Ids -> Fields]
  BY <1>1 DEF Fields
<1>4. \A b \in BOOLEAN :
        /\ [f EXCEPT ![j].outputs = b] \in [Ids -> Fields]
        /\ [f EXCEPT ![j].cleanupError = b] \in [Ids -> Fields]
        /\ [f EXCEPT ![j].deleteRequested = b] \in [Ids -> Fields]
        /\ [f EXCEPT ![j].nativeActive = b] \in [Ids -> Fields]
  BY <1>1 DEF Fields
<1>5. \A s \in Statuses, b \in BOOLEAN : [f EXCEPT ![j].status = s, ![j].error = b] \in [Ids -> Fields]
  BY <1>1 DEF Fields
<1>6. \A s \in Statuses, b \in BOOLEAN : [f EXCEPT ![j].status = s, ![j].nativeActive = b] \in [Ids -> Fields]
  BY <1>1 DEF Fields
<1>7. \A s \in Statuses, b \in BOOLEAN : [f EXCEPT ![j].status = s, ![j].finished = b] \in [Ids -> Fields]
  BY <1>1 DEF Fields
<1>8. \A b, d \in BOOLEAN :
        [f EXCEPT ![j].deleteRequested = b, ![j].cleanupError = d] \in [Ids -> Fields]
  BY <1>1 DEF Fields
<1>. QED
  BY <1>1, <1>2, <1>3, <1>4, <1>5, <1>6, <1>7, <1>8

LEMMA Added ==
  ASSUME NEW S, NEW f \in [Ids -> SUBSET S], NEW j \in Ids, NEW e \in S
  PROVE  [f EXCEPT ![j] = f[j] \union {e}] \in [Ids -> SUBSET S]
<1>. f[j] \union {e} \in SUBSET S
  OBVIOUS
<1>. QED
  OBVIOUS

LEMMA DeleteCallType ==
  ASSUME TypeOK, NEW j \in Ids, NEW c \in Callers, DeleteCall(j, c)
  PROVE  /\ cancelled' \in [Ids -> BOOLEAN] /\ queue' \in Seq(Ids)
         /\ interrupted' \in BOOLEAN /\ discarding' \in [Ids -> SUBSET Callers]
<1>. cancelled \in [Ids -> BOOLEAN] /\ queue \in Seq(Ids) /\ interrupted \in BOOLEAN
     /\ discarding \in [Ids -> SUBSET Callers]
  BY DEF TypeOK
<1>1. CASE Receiving(j)
  <2>1. cancelled' = [cancelled EXCEPT ![j] = @ \/ ~job[j].deleteRequested]
        /\ UNCHANGED <<queue, interrupted, discarding>>
    BY <1>1 DEF DeleteCall
  <2>2. cancelled' \in [Ids -> BOOLEAN]
    BY <2>1
  <2>. QED
    BY <2>1, <2>2
<1>2. CASE ~Receiving(j) /\ Working(j)
  <2>1. queue' = Without(queue, j) /\ interrupted' = (interrupted \/ running = j)
        /\ UNCHANGED <<cancelled, discarding>>
    BY <1>2 DEF DeleteCall, Interrupt
  <2>2. Without(queue, j) \in Seq(Ids)
    BY WithoutIn
  <2>. QED
    BY <2>1, <2>2
<1>3. CASE ~Receiving(j) /\ ~Working(j)
  <2>1. /\ UNCHANGED <<cancelled, queue, interrupted>>
        /\ discarding' = discarding \/ discarding' = [discarding EXCEPT ![j] = @ \union {c}]
    BY <1>3 DEF DeleteCall
  <2>. QED
    BY <2>1
<1>. QED
  BY <1>1, <1>2, <1>3

LEMMA FinishType ==
  ASSUME TypeOK, NEW j \in Ids, NEW current \in [Ids -> Fields], NEW callbacks \in Seq(Callbacks),
         Finish(j, current, callbacks)
  PROVE  /\ job' \in [Ids -> Fields] /\ history' \in [Ids -> {"none", "success", "error"}]
         /\ runner' \in [Ids -> RunnerPlaces] /\ loop' \in Seq(Callbacks)
<1>1. job' \in [Ids -> Fields]
  BY FieldTypes DEF Finish
<1>2. history' \in [Ids -> {"none", "success", "error"}]
  <2>. history \in [Ids -> {"none", "success", "error"}]
    BY DEF TypeOK
  <2>. QED
    BY DEF Finish
<1>3. runner' \in [Ids -> RunnerPlaces]
  <2>. runner \in [Ids -> RunnerPlaces]
    BY DEF TypeOK
  <2>. QED
    BY DEF Finish, RunnerPlaces
<1>4. loop' \in Seq(Callbacks)
  <2>. <<"io", j>> \in Callbacks
    BY DEF Callbacks
  <2>. QED
    BY AppendIn DEF Finish
<1>. QED
  BY <1>1, <1>2, <1>3, <1>4

LEMMA TypeStep ==
  ASSUME TypeOK, Identities, \A j \in Ids : Scheduled(j), [Next]_vars
  PROVE  TypeOK'
<1>. /\ requests \in SUBSET Ids
     /\ jobs \in SUBSET Ids
     /\ job \in [Ids -> Fields]
     /\ readers \in [Ids -> Nat]
     /\ handler \in [Ids -> HandlerPlaces]
     /\ cancelled \in [Ids -> BOOLEAN]
     /\ runner \in [Ids -> RunnerPlaces]
     /\ io \in [Ids -> SUBSET Operations]
     /\ files \in [Ids -> SUBSET Parts]
     /\ discarding \in [Ids -> SUBSET Callers]
     /\ loop \in Seq(Callbacks)
     /\ foreign \in SUBSET Ids
     /\ queue \in Seq(Ids)
     /\ running \in Ids \union {NoJob}
     /\ stage \in {"idle", "taken", "started"}
     /\ interrupted \in BOOLEAN
     /\ history \in [Ids -> {"none", "success", "error"}]
     /\ starts \in [Ids -> Nat]
     /\ sweep \in SUBSET Ids
     /\ closing \in Closing
     /\ closeTodo \in SUBSET Ids
     /\ closePending \in SUBSET Ids
     /\ faults \in Nat
  BY DEF TypeOK
<1>a. \A s \in Seq(Callbacks), j \in Ids :
       /\ Append(s, <<"start", j>>) \in Seq(Callbacks) /\ Append(s, <<"poll", j>>) \in Seq(Callbacks)
       /\ Append(s, <<"io", j>>) \in Seq(Callbacks)
  <2>1. \A j \in Ids : <<"start", j>> \in Callbacks /\ <<"poll", j>> \in Callbacks /\ <<"io", j>> \in Callbacks
    BY DEF Callbacks
  <2>2. \A s \in Seq(Callbacks), e \in Callbacks : Append(s, e) \in Seq(Callbacks)
    OBVIOUS
  <2>. QED
    BY <2>1, <2>2
<1>b. NewJob \in Fields
  BY DEF NewJob, Fields, Statuses
<1>c. \A current \in [Ids -> Fields], j \in Ids : Conclude(current, j) \in [Ids -> Fields]
  <2>. SUFFICES ASSUME NEW current \in [Ids -> Fields], NEW j \in Ids
                PROVE  Conclude(current, j) \in [Ids -> Fields]
    OBVIOUS
  <2>1. Outcome(current[j].status) \in Statuses
    BY DEF Outcome, Statuses
  <2>2. Conclude(current, j) = [current EXCEPT ![j].status = Outcome(current[j].status), ![j].finished = TRUE]
    BY DEF Conclude
  <2>. QED
    BY <2>1, <2>2, FieldTypes
<1>1. ASSUME NEW j \in Ids, Submit(j)
      PROVE  TypeOK'
  <2>1. requests' \in SUBSET Ids
    BY <1>1 DEF Submit
  <2>2. jobs' \in SUBSET Ids
    BY <1>1 DEF Submit
  <2>3. job' \in [Ids -> Fields]
    BY <1>1, FieldTypes, <1>b DEF Submit
  <2>4. handler' \in [Ids -> HandlerPlaces]
    BY <1>1 DEF Submit, HandlerPlaces
  <2>5. io' \in [Ids -> SUBSET Operations]
    BY <1>1 DEF Submit, Operations, HandlerIo
  <2>. QED
    BY <1>1, <2>1, <2>2, <2>3, <2>4, <2>5 DEF Submit, TypeOK, nativeVars, sweepVars
<1>2. ASSUME NEW j \in Ids, ReceiveChunk(j)
      PROVE  TypeOK'
  <2>1. handler' \in [Ids -> HandlerPlaces]
    BY <1>2 DEF ReceiveChunk, HandlerPlaces
  <2>2. io' \in [Ids -> SUBSET Operations]
    BY <1>2 DEF ReceiveChunk, Operations, HandlerIo
  <2>. QED
    BY <1>2, <2>1, <2>2 DEF ReceiveChunk, TypeOK, serverVars, nativeVars, sweepVars
<1>3. ASSUME NEW j \in Ids, Uploaded(j)
      PROVE  TypeOK'
  <2>1. job' \in [Ids -> Fields]
    BY <1>3, FieldTypes DEF Uploaded, Statuses
  <2>2. handler' \in [Ids -> HandlerPlaces]
    BY <1>3 DEF Uploaded, HandlerPlaces
  <2>3. io' \in [Ids -> SUBSET Operations]
    BY <1>3 DEF Uploaded, Operations, HandlerIo
  <2>. QED
    BY <1>3, <2>1, <2>2, <2>3 DEF Uploaded, TypeOK, serverVars, nativeVars, sweepVars
<1>4. ASSUME NEW j \in Ids, HandlerIoDone(j)
      PROVE  TypeOK'
  <2>1. io' \in [Ids -> SUBSET Operations]
    BY <1>4 DEF HandlerIoDone, HandlerIo, Operations
  <2>2. files' \in [Ids -> SUBSET Parts]
    BY <1>4 DEF HandlerIoDone, Parts
  <2>3. handler' \in [Ids -> HandlerPlaces]
    BY <1>4 DEF HandlerIoDone, HandlerPlaces
  <2>. QED
    BY <1>4, <2>1, <2>2, <2>3 DEF HandlerIoDone, TypeOK, serverVars, nativeVars, sweepVars
<1>5. ASSUME NEW j \in Ids, Launch(j)
      PROVE  TypeOK'
  <2>1. CASE EndHandler(j) /\ UNCHANGED <<runner, loop, queue>> /\ (UNCHANGED job \/ job' = [job EXCEPT ![j].status = "queued"])
    <3>1. job' \in [Ids -> Fields]
      <4>1. "queued" \in Statuses
        BY DEF Statuses
      <4>2. [job EXCEPT ![j].status = "queued"] \in [Ids -> Fields]
        BY <4>1, FieldTypes
      <4>. QED
        BY <2>1, <4>2
    <3>2. handler' \in [Ids -> HandlerPlaces]
      BY <2>1 DEF EndHandler, HandlerPlaces
    <3>3. cancelled' \in [Ids -> BOOLEAN]
      BY <2>1 DEF EndHandler
    <3>4. discarding' \in [Ids -> SUBSET Callers]
      BY <2>1 DEF EndHandler, Callers
    <3>. QED
      BY <1>5, <2>1, <3>1, <3>2, <3>3, <3>4 DEF Launch, TypeOK, serverVars, diskVars, sweepVars
  <2>2. CASE /\ job' = [job EXCEPT ![j].status = "queued", ![j].nativeActive = TRUE]
             /\ queue' = Append(queue, j) /\ runner' = [runner EXCEPT ![j] = "poll"]
             /\ loop' = Append(loop, <<"poll", j>>) /\ handler' = [handler EXCEPT ![j] = "done"]
             /\ UNCHANGED <<cancelled, discarding>>
    <3>1. job' \in [Ids -> Fields]
      BY <2>2, FieldTypes DEF Statuses
    <3>2. queue' \in Seq(Ids) /\ loop' \in Seq(Callbacks)
      <4>1. queue' \in Seq(Ids)
        BY <2>2
      <4>2. loop' \in Seq(Callbacks)
        BY <1>a, <2>2
      <4>. QED
        BY <4>1, <4>2
    <3>3. runner' \in [Ids -> RunnerPlaces] /\ handler' \in [Ids -> HandlerPlaces]
      BY <2>2 DEF RunnerPlaces, HandlerPlaces
    <3>. QED
      BY <1>5, <2>2, <3>1, <3>2, <3>3 DEF Launch, TypeOK, serverVars, diskVars, sweepVars
  <2>. QED
    BY <1>5, <2>1, <2>2 DEF Launch, Schedule
<1>6. ASSUME NEW j \in Ids, HandlerFails(j)
      PROVE  TypeOK'
  <2>1. io' \in [Ids -> SUBSET Operations]
    BY <1>6 DEF HandlerFails, Operations
  <2>2. files' \in [Ids -> SUBSET Parts]
    BY <1>6 DEF HandlerFails, Parts
  <2>3. handler' \in [Ids -> HandlerPlaces]
    BY <1>6 DEF HandlerFails, EndHandler, HandlerPlaces
  <2>4. cancelled' \in [Ids -> BOOLEAN]
    BY <1>6 DEF HandlerFails, EndHandler
  <2>5. discarding' \in [Ids -> SUBSET Callers]
    BY <1>6 DEF HandlerFails, EndHandler, Callers
  <2>. QED
    BY <1>6, <2>1, <2>2, <2>3, <2>4, <2>5 DEF HandlerFails, TypeOK, serverVars, nativeVars, sweepVars
<1>7. ASSUME NEW j \in Ids, HandlerCancelled(j)
      PROVE  TypeOK'
  <2>1. handler' \in [Ids -> HandlerPlaces]
    BY <1>7 DEF HandlerCancelled, EndHandler, HandlerPlaces
  <2>2. cancelled' \in [Ids -> BOOLEAN]
    BY <1>7 DEF HandlerCancelled, EndHandler
  <2>3. discarding' \in [Ids -> SUBSET Callers]
    BY <1>7 DEF HandlerCancelled, EndHandler, Callers
  <2>. QED
    BY <1>7, <2>1, <2>2, <2>3 DEF HandlerCancelled, TypeOK, serverVars, diskVars, nativeVars, sweepVars
<1>8. ASSUME NEW j \in Ids, RunnerWake(j)
      PROVE  TypeOK'
  <2>1. runner' \in [Ids -> RunnerPlaces]
    BY <1>8 DEF RunnerWake, RunnerPlaces
  <2>2. loop' \in Seq(Callbacks)
    BY <1>8, <1>a DEF RunnerWake, Schedule
  <2>. QED
    BY <1>8, <2>1, <2>2 DEF RunnerWake, TypeOK, serverVars, handlerVars, diskVars, nativeVars, sweepVars
<1>9. ASSUME NEW j \in Ids, LoopEvent(j)
      PROVE  TypeOK'
  <2>1. loop' \in Seq(Callbacks)
    BY <1>9, TailIn DEF LoopEvent
  <2>2. job' \in [Ids -> Fields]
    BY <1>9, FieldTypes DEF LoopEvent, Statuses
  <2>. QED
    BY <1>9, <2>1, <2>2 DEF LoopEvent, TypeOK, serverVars, handlerVars, diskVars, nativeVars, sweepVars
<1>10. ASSUME NEW j \in Ids, NativeDrop(j)
      PROVE  TypeOK'
  <2>1. queue' \in Seq(Ids)
    BY <1>10, WithoutIn DEF NativeDrop
  <2>2. history' \in [Ids -> {"none", "success", "error"}]
    BY <1>10 DEF NativeDrop
  <2>. QED
    BY <1>10, <2>1, <2>2 DEF NativeDrop, TypeOK, serverVars, handlerVars, diskVars, sweepVars
<1>11. ASSUME NEW j \in Ids, ReaderOpen(j)
      PROVE  TypeOK'
  <2>1. readers' \in [Ids -> Nat]
    BY <1>11 DEF ReaderOpen
  <2>. QED
    BY <1>11, <2>1 DEF ReaderOpen, TypeOK, serverVars, handlerVars, diskVars, nativeVars, sweepVars
<1>12. ASSUME NEW j \in Ids, Expire(j)
      PROVE  TypeOK'
  <2>1. job' \in [Ids -> Fields]
    BY <1>12, FieldTypes DEF Expire
  <2>. QED
    BY <1>12, <2>1 DEF Expire, TypeOK, serverVars, handlerVars, diskVars, nativeVars, sweepVars
<1>13. ASSUME NEW j \in Ids, LoopPoll(j)
       PROVE  TypeOK'
  <2>. DEFINE ended == [job EXCEPT ![j].nativeActive = FALSE]
              failed == [ended EXCEPT ![j].status = "failed", ![j].error = TRUE]
  <2>1. ended \in [Ids -> Fields]
    BY FieldTypes
  <2>2. failed \in [Ids -> Fields]
    <3>. HIDE DEF ended
    <3>. QED
      BY <2>1, FieldTypes DEF Statuses
  <2>3. Tail(loop) \in Seq(Callbacks)
    BY <1>13, TailIn DEF LoopPoll
  <2>4. \/ Finish(j, ended, Tail(loop)) \/ Finish(j, failed, Tail(loop))
        \/ /\ job' = ended /\ runner' = [runner EXCEPT ![j] = "results"]
           /\ loop' = Append(Tail(loop), <<"io", j>>) /\ UNCHANGED history
        \/ runner' = [runner EXCEPT ![j] = "sleep"] /\ loop' = Tail(loop) /\ UNCHANGED <<job, history>>
    BY <1>13 DEF LoopPoll
  <2>. HIDE DEF ended, failed
  <2>5. runner' \in [Ids -> RunnerPlaces]
    BY <2>1, <2>2, <2>3, <2>4, FinishType DEF RunnerPlaces
  <2>6. loop' \in Seq(Callbacks)
    <3>1. CASE Finish(j, ended, Tail(loop)) \/ Finish(j, failed, Tail(loop))
      BY <2>1, <2>2, <2>3, <3>1, FinishType
    <3>2. Append(Tail(loop), <<"io", j>>) \in Seq(Callbacks)
      BY <1>a, <2>3
    <3>. QED
      BY <2>3, <2>4, <3>1, <3>2
  <2>7. job' \in [Ids -> Fields] /\ history' \in [Ids -> {"none", "success", "error"}]
    BY <2>1, <2>2, <2>3, <2>4, FinishType
  <2>. QED
    BY <1>13, <2>5, <2>6, <2>7 DEF LoopPoll, TypeOK, serverVars, handlerVars, diskVars, sweepVars
<1>14. ASSUME NEW j \in Ids, LoopIo(j)
       PROVE  TypeOK'
  <2>1. loop' \in Seq(Callbacks) /\ In(loop, <<"io", j>>)
    BY <1>14, TailIn DEF LoopIo
  <2>2. runner[j] \in {"results", "clear", "discard"}
    BY <2>1 DEF Scheduled
  <2>3. io' \in [Ids -> SUBSET Operations]
    <3>1. runner[j] = "discard" => UNCHANGED io
      BY <1>14 DEF LoopIo
    <3>2. runner[j] # "discard" => io' = [io EXCEPT ![j] = io[j] \union {runner[j]}]
      BY <1>14 DEF LoopIo
    <3>3. runner[j] # "discard" => runner[j] \in Operations
      BY <2>2 DEF Operations
    <3>4. runner[j] \in Operations => [io EXCEPT ![j] = io[j] \union {runner[j]}] \in [Ids -> SUBSET Operations]
      BY Added
    <3>. QED
      BY <3>1, <3>2, <3>3, <3>4
  <2>4. discarding' \in [Ids -> SUBSET Callers]
    <3>1. UNCHANGED discarding \/ discarding' = [discarding EXCEPT ![j] = discarding[j] \union {"runner"}]
      BY <1>14 DEF LoopIo
    <3>2. [discarding EXCEPT ![j] = discarding[j] \union {"runner"}] \in [Ids -> SUBSET Callers]
      BY Added DEF Callers
    <3>. QED
      BY <3>1, <3>2
  <2>. QED
    BY <1>14, <2>1, <2>3, <2>4 DEF LoopIo, TypeOK, serverVars, handlerVars, nativeVars, sweepVars
<1>15. ASSUME NEW j \in Ids, ResultsDone(j)
       PROVE  TypeOK'
  <2>. DEFINE good == [job EXCEPT ![j].outputs = TRUE]
              bad == [job EXCEPT ![j].status = "failed", ![j].error = TRUE]
  <2>1. good \in [Ids -> Fields] /\ bad \in [Ids -> Fields]
    BY FieldTypes DEF Statuses
  <2>2. Finish(j, good, loop) \/ Finish(j, bad, loop)
    BY <1>15 DEF ResultsDone
  <2>. HIDE DEF good, bad
  <2>3. /\ job' \in [Ids -> Fields] /\ history' \in [Ids -> {"none", "success", "error"}]
        /\ runner' \in [Ids -> RunnerPlaces] /\ loop' \in Seq(Callbacks)
    BY <2>1, <2>2, FinishType
  <2>4. io' \in [Ids -> SUBSET Operations] /\ files' \in [Ids -> SUBSET Parts]
    BY <1>15 DEF ResultsDone, Parts
  <2>. QED
    BY <1>15, <2>3, <2>4 DEF ResultsDone, TypeOK, serverVars, handlerVars, sweepVars
<1>29. ASSUME NEW j \in Ids, ClearDone(j)
       PROVE  TypeOK'
  <2>. DEFINE marked == [job EXCEPT ![j].cleanupError = @ \/ runner[j] = "uncleared"]
  <2>1. marked \in [Ids -> Fields]
    <3>1. job[j].cleanupError \in BOOLEAN
      BY DEF Fields
    <3>2. (job[j].cleanupError \/ runner[j] = "uncleared") \in BOOLEAN
      OBVIOUS
    <3>. QED
      BY <3>2, FieldTypes
  <2>2. job' = Conclude(marked, j)
    BY <1>29 DEF ClearDone
  <2>. HIDE DEF marked
  <2>3. job' \in [Ids -> Fields]
    BY <1>c, <2>1, <2>2
  <2>4. runner' \in [Ids -> RunnerPlaces]
    BY <1>29 DEF ClearDone, RunnerPlaces
  <2>. QED
    BY <1>29, <2>3, <2>4 DEF ClearDone, TypeOK, serverVars, handlerVars, diskVars, nativeVars, sweepVars
<1>16. ASSUME NEW j \in Ids, ClearWork(j)
       PROVE  TypeOK'
  <2>4. runner' \in [Ids -> RunnerPlaces]
    BY <1>16 DEF ClearWork, RunnerPlaces
  <2>5. io' \in [Ids -> SUBSET Operations] /\ faults' \in Nat
    BY <1>16 DEF ClearWork
  <2>6. files' \in [Ids -> SUBSET Parts]
    <3>1. PICK left \in SUBSET Parts : files' = [files EXCEPT ![j] = left]
      <4>1. Cleared(files[j], job[j].status) \in SUBSET Parts
        BY DEF Cleared
      <4>2. CASE files' = [files EXCEPT ![j] = Cleared(@, job[j].status)]
        BY <4>1, <4>2
      <4>3. CASE \E left \in Leftovers(files[j]) : files' = [files EXCEPT ![j] = left]
        BY <4>3 DEF Leftovers
      <4>. QED
        BY <1>16, <4>2, <4>3 DEF ClearWork
    <3>. QED
      BY <3>1
  <2>. QED
    BY <1>16, <2>4, <2>5, <2>6 DEF ClearWork, TypeOK, serverVars, handlerVars, nativeVars, sweepVars
<1>17. ASSUME NEW j \in Ids, Delete(j)
       PROVE  TypeOK'
  <2>1. job' \in [Ids -> Fields]
    BY <1>17, FieldTypes DEF Delete, MarkDeleted
  <2>2. /\ cancelled' \in [Ids -> BOOLEAN] /\ queue' \in Seq(Ids)
        /\ interrupted' \in BOOLEAN /\ discarding' \in [Ids -> SUBSET Callers]
    BY <1>17, DeleteCallType DEF Delete, Callers
  <2>. QED
    BY <1>17, <2>1, <2>2 DEF Delete, TypeOK, serverVars, diskVars, sweepVars
<1>18. ASSUME NEW j \in Ids, ReaderClose(j)
       PROVE  TypeOK'
  <2>1. readers' \in [Ids -> Nat]
    BY <1>18 DEF ReaderClose
  <2>2. /\ cancelled' \in [Ids -> BOOLEAN] /\ queue' \in Seq(Ids)
        /\ interrupted' \in BOOLEAN /\ discarding' \in [Ids -> SUBSET Callers]
    BY <1>18, DeleteCallType DEF ReaderClose, Callers
  <2>. QED
    BY <1>18, <2>1, <2>2 DEF ReaderClose, TypeOK, serverVars, diskVars, sweepVars
<1>19. ASSUME NEW j \in Ids, SweepVisit(j)
       PROVE  TypeOK'
  <2>1. job' \in [Ids -> Fields]
    BY <1>19, FieldTypes DEF SweepVisit, MarkDeleted
  <2>2. /\ cancelled' \in [Ids -> BOOLEAN] /\ queue' \in Seq(Ids)
        /\ interrupted' \in BOOLEAN /\ discarding' \in [Ids -> SUBSET Callers]
    BY <1>19, DeleteCallType DEF SweepVisit, Callers
  <2>3. io' \in [Ids -> SUBSET Operations]
    <3>1. UNCHANGED io \/ io' = [io EXCEPT ![j] = io[j] \union {"sweep"}]
      BY <1>19 DEF SweepVisit
    <3>2. [io EXCEPT ![j] = io[j] \union {"sweep"}] \in [Ids -> SUBSET Operations]
      BY Added DEF Operations
    <3>. QED
      BY <3>1, <3>2
  <2>. QED
    BY <1>19, <2>1, <2>2, <2>3 DEF SweepVisit, TypeOK, serverVars
<1>20. ASSUME NEW j \in Ids, SweepCleared(j)
       PROVE  TypeOK'
  <2>1. job' \in [Ids -> Fields]
    <3>1. /\ [job EXCEPT ![j].cleanupError = TRUE] \in [Ids -> Fields]
          /\ [job EXCEPT ![j].cleanupError = FALSE] \in [Ids -> Fields]
      BY FieldTypes
    <3>2. \/ job' = job \/ job' = [job EXCEPT ![j].cleanupError = FALSE]
          \/ job' = [job EXCEPT ![j].cleanupError = TRUE]
      BY <1>20 DEF SweepCleared
    <3>. QED
      BY <3>1, <3>2
  <2>2. io' \in [Ids -> SUBSET Operations] /\ faults' \in Nat
    BY <1>20 DEF SweepCleared
  <2>3. files' \in [Ids -> SUBSET Parts]
    <3>1. PICK left \in SUBSET Parts : files' = [files EXCEPT ![j] = left]
      <4>1. Cleared(files[j], job[j].status) \in SUBSET Parts
        BY DEF Cleared
      <4>2. CASE files' = [files EXCEPT ![j] = Cleared(@, job[j].status)]
        BY <4>1, <4>2
      <4>3. CASE \E left \in Leftovers(files[j]) : files' = [files EXCEPT ![j] = left]
        BY <4>3 DEF Leftovers
      <4>. QED
        BY <1>20, <4>2, <4>3 DEF SweepCleared
    <3>. QED
      BY <3>1
  <2>4. closing' \in Closing
    BY <1>20 DEF SweepCleared, Closing
  <2>. QED
    BY <1>20, <2>1, <2>2, <2>3, <2>4 DEF SweepCleared, TypeOK, serverVars, handlerVars, nativeVars
<1>21. ASSUME NEW j \in Ids, CloseDelete(j)
       PROVE  TypeOK'
  <2>1. job' \in [Ids -> Fields]
    BY <1>21, FieldTypes DEF CloseDelete, MarkDeleted
  <2>2. /\ cancelled' \in [Ids -> BOOLEAN] /\ queue' \in Seq(Ids)
        /\ interrupted' \in BOOLEAN /\ discarding' \in [Ids -> SUBSET Callers]
    BY <1>21, DeleteCallType DEF CloseDelete, Callers
  <2>. QED
    BY <1>21, <2>1, <2>2 DEF CloseDelete, TypeOK, serverVars, diskVars
<1>22. ASSUME NEW j \in Ids, NEW caller \in Callers, DiscardDone(j, caller) \/ DiscardFailed(j, caller)
       PROVE  TypeOK'
  <2>. DEFINE marked == [job EXCEPT ![j].deleteRequested = TRUE, ![j].cleanupError = TRUE]
  <2>1. marked \in [Ids -> Fields]
    BY FieldTypes
  <2>2. \/ AfterDiscard(j, caller, job) \/ AfterDiscard(j, caller, marked)
    BY <1>22 DEF DiscardDone, DiscardFailed
  <2>. HIDE DEF marked
  <2>3. job' \in [Ids -> Fields]
    <3>1. Conclude(job, j) \in [Ids -> Fields] /\ Conclude(marked, j) \in [Ids -> Fields]
      BY <1>c, <2>1
    <3>2. \/ job' = job \/ job' = marked \/ job' = Conclude(job, j) \/ job' = Conclude(marked, j)
      BY <2>2 DEF AfterDiscard
    <3>. QED
      BY <2>1, <3>1, <3>2
  <2>4. handler' \in [Ids -> HandlerPlaces] /\ runner' \in [Ids -> RunnerPlaces]
    <3>1. handler' = handler \/ handler' = [handler EXCEPT ![j] = "done"]
      BY <2>2 DEF AfterDiscard
    <3>2. runner' = runner \/ runner' = [runner EXCEPT ![j] = "done"]
      BY <2>2 DEF AfterDiscard
    <3>3. "done" \in HandlerPlaces /\ "done" \in RunnerPlaces
      BY DEF HandlerPlaces, RunnerPlaces
    <3>4. handler' \in [Ids -> HandlerPlaces]
      BY <3>1, <3>3
    <3>5. runner' \in [Ids -> RunnerPlaces]
      BY <3>2, <3>3
    <3>. QED
      BY <3>4, <3>5
  <2>5. cancelled' \in [Ids -> BOOLEAN] /\ discarding' \in [Ids -> SUBSET Callers]
    <3>1. cancelled' = cancelled \/ cancelled' = [cancelled EXCEPT ![j] = FALSE]
      BY <2>2 DEF AfterDiscard
    <3>2. discarding' = [discarding EXCEPT ![j] = discarding[j] \ {caller}]
      BY <2>2 DEF AfterDiscard
    <3>. QED
      BY <3>1, <3>2
  <2>6. CASE DiscardDone(j, caller)
    <3>1. files' \in [Ids -> SUBSET Parts] /\ jobs' \subseteq Ids
      BY <2>6 DEF DiscardDone
    <3>. QED
      BY <2>3, <2>4, <2>5, <2>6, <3>1 DEF DiscardDone, TypeOK, nativeVars, sweepVars
  <2>7. CASE DiscardFailed(j, caller)
    <3>1. files' \in [Ids -> SUBSET Parts] /\ closing' \in Closing /\ faults' \in Nat
      BY <2>7 DEF DiscardFailed, Leftovers, Closing
    <3>. QED
      BY <2>3, <2>4, <2>5, <2>7, <3>1 DEF DiscardFailed, TypeOK, serverVars, nativeVars
  <2>. QED
    BY <1>22, <2>6, <2>7
<1>23. CASE WorkerTake
  <2>1. running' \in Ids /\ queue' \in Seq(Ids)
    BY <1>23, TailIn DEF WorkerTake
  <2>2. starts' \in [Ids -> Nat]
    BY <1>23, <2>1 DEF WorkerTake
  <2>. QED
    BY <1>23, <2>1, <2>2 DEF WorkerTake, TypeOK, serverVars, handlerVars, diskVars, sweepVars
<1>24. CASE WorkerStart
  <2>1. loop' \in Seq(Callbacks)
    BY <1>24, <1>a DEF WorkerStart, Schedule
  <2>. QED
    BY <1>24, <2>1 DEF WorkerStart, TypeOK, serverVars, handlerVars, diskVars, sweepVars
<1>25. ASSUME NEW o \in {"success", "error"}, WorkerDone(o)
       PROVE  TypeOK'
  <2>1. history' \in [Ids -> {"none", "success", "error"}]
    BY <1>25 DEF WorkerDone
  <2>. QED
    BY <1>25, <2>1 DEF WorkerDone, TypeOK, serverVars, handlerVars, diskVars, sweepVars
<1>26. CASE SweepStart
  BY <1>26 DEF SweepStart, TypeOK, serverVars, handlerVars, diskVars, nativeVars
<1>27. CASE CloseStart \/ CloseStopped \/ CloseWait \/ CloseEnd
  BY <1>27 DEF CloseStart, CloseStopped, CloseWait, CloseEnd, Closing, TypeOK, serverVars,
               handlerVars, diskVars, nativeVars
<1>28. CASE UNCHANGED vars
  BY <1>28 DEF vars, TypeOK
<1>. QED
  BY <1>1, <1>2, <1>3, <1>4, <1>5, <1>6, <1>7, <1>8, <1>9, <1>10, <1>11, <1>12, <1>13, <1>14,
     <1>15, <1>16, <1>17, <1>18, <1>19, <1>20, <1>21, <1>22, <1>23, <1>24, <1>25, <1>26, <1>27, <1>28, <1>29
  DEF Next, WorkerStep, LoopStep, HandlerStep, RunnerStep, DiscardStep, CloseStep

-----------------------------------------------------------------------------
(* What a step leaves alone.                                                *)

Fewer(s, t, e) == (In(t, e) => In(s, e)) /\ (Once(s, e) => Once(t, e))

\* Nothing that the invariant says of i is disturbed.
Same(i) ==
  /\ (i \in requests') <=> (i \in requests)
  /\ (i \in jobs') <=> (i \in jobs)
  /\ job'[i] = job[i] /\ readers'[i] = readers[i] /\ handler'[i] = handler[i]
  /\ runner'[i] = runner[i] /\ io'[i] = io[i] /\ files'[i] = files[i]
  /\ discarding'[i] = discarding[i] /\ starts'[i] = starts[i]
  /\ history'[i] = history[i] \/ history'[i] = "none"
  /\ running' = i => running = i
  /\ Fewer(queue, queue', i)
  /\ Fewer(loop, loop', <<"poll", i>>) /\ Fewer(loop, loop', <<"io", i>>)

LEMMA Untouched ==
  ASSUME NEW i \in Ids, JobInv(i), Same(i)
  PROVE  JobInv(i)'
<1>1. Uploading(i)'
  BY DEF JobInv, Same, Uploading
<1>2. Running(i)'
  BY DEF JobInv, Same, Fewer, Running
<1>3. Starting(i)'
  BY DEF JobInv, Same, Fewer, Starting
<1>4. Scheduled(i)'
  BY DEF JobInv, Same, Fewer, Scheduled
<1>5. Removing(i)'
  BY DEF JobInv, Same, Removing
<1>6. Holding(i)'
  BY DEF JobInv, Same, Holding, Receiving
<1>. QED
  BY <1>1, <1>2, <1>3, <1>4, <1>5, <1>6 DEF JobInv

LEMMA LoopAppend ==
  ASSUME loop \in Seq(Callbacks), NEW k \in {"start", "poll", "io"}, NEW j \in Ids,
         NEW i \in Ids, NEW m \in {"poll", "io"}
  PROVE  /\ i # j \/ m # k => Fewer(loop, Append(loop, <<k, j>>), <<m, i>>)
         /\ Once(loop, <<k, j>>) /\ ~In(loop, <<k, j>>) => Once(Append(loop, <<k, j>>), <<k, j>>)
<1>1. <<k, j>> \in Callbacks
  BY DEF Callbacks
<1>2. i # j \/ m # k => <<m, i>> # <<k, j>>
  OBVIOUS
<1>. HIDE DEF Callbacks
<1>. QED
  BY <1>1, <1>2, AppendIn DEF Fewer

LEMMA LoopTail ==
  ASSUME loop \in Seq(Callbacks), loop # <<>>, NEW e
  PROVE  Fewer(loop, Tail(loop), e)
  BY TailIn DEF Fewer

LEMMA QueueWithout ==
  ASSUME queue \in Seq(Ids), NEW j, NEW e
  PROVE  Fewer(queue, Without(queue, j), e)
  BY WithoutIn DEF Fewer

LEMMA FewerSelf ==
  ASSUME NEW s, NEW e
  PROVE  Fewer(s, s, e)
  BY DEF Fewer

-----------------------------------------------------------------------------
(* Submission.                                                              *)

LEMMA SubmitStep ==
  ASSUME IInv, NEW j \in Ids, Submit(j)
  PROVE  \A i \in Ids : JobInv(i)'
<1>. /\ job \in [Ids -> Fields] /\ handler \in [Ids -> HandlerPlaces]
     /\ io \in [Ids -> SUBSET Operations]
  BY DEF IInv, TypeOK
<1>1. ASSUME NEW i \in Ids, i # j
      PROVE  Same(i)
  BY <1>1, FewerSelf DEF Submit, Same, diskVars, nativeVars, sweepVars
<1>2. JobInv(j)'
  <2>1. /\ j \in requests' /\ j \in jobs' /\ job'[j] = NewJob
        /\ handler'[j] = "mkdir" /\ io'[j] = {"mkdir"}
        /\ UNCHANGED <<readers, runner, files, discarding, loop, queue, running, history, starts>>
    BY DEF Submit, nativeVars
  <2>2. JobInv(j) /\ j \notin requests /\ jobs \subseteq requests
    BY DEF IInv, Identities, Submit, Unused
  <2>3. handler[j] = "none" /\ runner[j] = "none" /\ starts[j] = 0 /\ discarding[j] = {}
    BY <2>2 DEF JobInv, Uploading, Removing
  <2>4. ~job[j].nativeActive /\ ~In(queue, j) /\ running # j /\ history[j] = "none" /\ files[j] = {} /\ ~(readers[j] > 0)
    BY <2>2, <2>3 DEF JobInv, Running, Holding
  <2>5. Uploading(j)' /\ Running(j)'
    BY <2>1, <2>3, <2>4 DEF Uploading, Running, NewJob
  <2>6. Starting(j)' /\ Scheduled(j)'
    BY <2>1, <2>2, <2>3, <2>4 DEF JobInv, Starting, Scheduled
  <2>7. Removing(j)' /\ Holding(j)'
    BY <2>1, <2>3, <2>4 DEF Removing, Holding, NewJob
  <2>. QED
    BY <2>5, <2>6, <2>7 DEF JobInv
<1>. QED
  BY <1>1, <1>2, Untouched DEF IInv

\* The upload up to its end: the handler and its thread alone.
LEMMA ReceiveStep ==
  ASSUME IInv, NEW j \in Ids, HandlerIoDone(j) \/ ReceiveChunk(j) \/ Uploaded(j)
  PROVE  \A i \in Ids : JobInv(i)'
<1>. /\ job \in [Ids -> Fields] /\ handler \in [Ids -> HandlerPlaces]
     /\ io \in [Ids -> SUBSET Operations] /\ files \in [Ids -> SUBSET Parts]
  BY DEF IInv, TypeOK
<1>1. ASSUME NEW i \in Ids, i # j
      PROVE  Same(i)
  BY <1>1, FewerSelf DEF HandlerIoDone, ReceiveChunk, Uploaded, Same, serverVars, diskVars, nativeVars, sweepVars
<1>2. JobInv(j)'
  <2>1. JobInv(j)
    BY DEF IInv
  <2>2. handler[j] \in {"mkdir", "receive", "write", "prepare"}
    BY <2>1 DEF JobInv, Uploading, HandlerIoDone, HandlerThread, HandlerIo, ReceiveChunk, Uploaded
  <2>3. /\ j \in requests /\ j \in jobs /\ runner[j] = "none" /\ starts[j] = 0 /\ discarding[j] = {}
    BY <2>1, <2>2 DEF JobInv, Uploading, Removing, Holding, Receiving
  <2>4. /\ ~job[j].nativeActive /\ ~job[j].finished /\ ~job[j].outputs /\ job[j].status # "succeeded"
        /\ job[j].status # "failed" /\ ~In(queue, j) /\ running # j /\ history[j] = "none"
        /\ io[j] \intersect {"results", "clear"} = {} /\ ~(readers[j] > 0)
    BY <2>1, <2>3 DEF JobInv, Running, Holding
  <2>5. /\ UNCHANGED <<requests, jobs, readers, runner, discarding, loop, queue, running, history, starts>>
        /\ job'[j] = job[j] \/ job'[j] = [job[j] EXCEPT !.status = "preparing"]
    BY DEF HandlerIoDone, ReceiveChunk, Uploaded, serverVars, nativeVars
  <2>6. /\ handler'[j] \in {"mkdir", "receive", "write", "prepare", "validate"}
        /\ io'[j] \intersect {"results", "clear"} = {}
        /\ "mkdir" \notin io'[j] /\ ("input" \in io'[j] => handler'[j] \in {"write", "prepare"})
    BY <2>2, <2>4 DEF HandlerIoDone, HandlerIo, ReceiveChunk, Uploaded
  <2>7. Uploading(j)' /\ Running(j)'
    BY <2>3, <2>4, <2>5, <2>6 DEF Uploading, Running, Fields
  <2>8. Starting(j)' /\ Scheduled(j)'
    BY <2>1, <2>3, <2>4, <2>5 DEF JobInv, Starting, Scheduled
  <2>9. Removing(j)' /\ Holding(j)'
    BY <2>3, <2>4, <2>5, <2>6 DEF Removing, Holding, Receiving, Fields
  <2>. QED
    BY <2>7, <2>8, <2>9 DEF JobInv
<1>. QED
  BY <1>1, <1>2, Untouched DEF IInv

\* The upload ends without a prompt: the handler discards the job.
LEMMA GiveUpStep ==
  ASSUME IInv, NEW j \in Ids, EndHandler(j), Receiving(j), handler[j] # "unmake",
         job' = job \/ job' = [job EXCEPT ![j].status = "queued"],
         io' = [io EXCEPT ![j] = @ \ HandlerIo],
         \E made \in SUBSET Parts : files' = [files EXCEPT ![j] = made],
         UNCHANGED <<requests, jobs, readers, runner, loop, queue, running, history, starts>>
  PROVE  \A i \in Ids : JobInv(i)'
<1>. /\ job \in [Ids -> Fields] /\ handler \in [Ids -> HandlerPlaces]
     /\ io \in [Ids -> SUBSET Operations] /\ files \in [Ids -> SUBSET Parts]
     /\ discarding \in [Ids -> SUBSET Callers]
  BY DEF IInv, TypeOK
<1>1. ASSUME NEW i \in Ids, i # j
      PROVE  Same(i)
  BY <1>1, FewerSelf DEF EndHandler, Same
<1>2. JobInv(j)'
  <2>1. JobInv(j)
    BY DEF IInv
  <2>2. handler[j] \in {"mkdir", "receive", "write", "prepare", "validate"}
    BY DEF Receiving
  <2>3. /\ j \in requests /\ j \in jobs /\ runner[j] = "none" /\ starts[j] = 0 /\ discarding[j] = {}
    BY <2>1, <2>2 DEF JobInv, Uploading, Removing, Holding, Receiving
  <2>4. /\ ~job[j].nativeActive /\ ~job[j].finished /\ ~job[j].outputs /\ job[j].status # "succeeded"
        /\ job[j].status # "failed" /\ ~In(queue, j) /\ running # j /\ history[j] = "none"
        /\ io[j] \intersect {"results", "clear"} = {} /\ ~(readers[j] > 0)
    BY <2>1, <2>3 DEF JobInv, Running, Holding
  <2>5. job'[j] = job[j] \/ job'[j] = [job[j] EXCEPT !.status = "queued"]
    OBVIOUS
  <2>6. /\ handler'[j] \in {"unmake", "discard"} /\ discarding'[j] = {"handler"}
        /\ io'[j] = io[j] \ HandlerIo
    BY <2>3 DEF EndHandler
  <2>7. Uploading(j)' /\ Running(j)'
    BY <2>3, <2>4, <2>5, <2>6 DEF Uploading, Running, Fields, HandlerIo
  <2>8. Starting(j)' /\ Scheduled(j)'
    BY <2>1, <2>3, <2>4 DEF JobInv, Starting, Scheduled
  <2>9. Removing(j)' /\ Holding(j)'
    BY <2>3, <2>4, <2>5, <2>6 DEF Removing, Holding, Receiving, Fields
  <2>. QED
    BY <2>7, <2>8, <2>9 DEF JobInv
<1>. QED
  BY <1>1, <1>2, Untouched DEF IInv

LEMMA UploadEnds ==
  ASSUME IInv, NEW j \in Ids, Launch(j) \/ HandlerFails(j) \/ HandlerCancelled(j)
  PROVE  \A i \in Ids : JobInv(i)'
<1>. /\ job \in [Ids -> Fields] /\ handler \in [Ids -> HandlerPlaces] /\ runner \in [Ids -> RunnerPlaces]
     /\ io \in [Ids -> SUBSET Operations] /\ files \in [Ids -> SUBSET Parts]
     /\ queue \in Seq(Ids) /\ loop \in Seq(Callbacks)
  BY DEF IInv, TypeOK
<1>0. JobInv(j)
  BY DEF IInv
<1>1. CASE HandlerFails(j)
  <2>1. handler[j] \in {"mkdir", "receive", "write", "prepare", "validate"} /\ EndHandler(j)
    BY <1>1 DEF HandlerFails
  <2>2. \E made \in SUBSET Parts : files' = [files EXCEPT ![j] = made]
    BY <1>1 DEF HandlerFails, Parts
  <2>3. /\ io' = [io EXCEPT ![j] = @ \ HandlerIo]
        /\ UNCHANGED <<job, requests, jobs, readers, runner, loop, queue, running, history, starts>>
    BY <1>1 DEF HandlerFails, serverVars, nativeVars
  <2>. QED
    BY <2>1, <2>2, <2>3, GiveUpStep DEF Receiving
<1>2. CASE HandlerCancelled(j)
  <2>1. handler[j] \in {"mkdir", "receive", "write", "prepare", "validate"} /\ EndHandler(j)
    BY <1>2 DEF HandlerCancelled
  <2>2. io[j] \ HandlerIo = io[j]
    BY <1>2 DEF HandlerCancelled, Joined, HandlerThread
  <2>3. /\ UNCHANGED <<io, files>>
        /\ UNCHANGED <<job, requests, jobs, readers, runner, loop, queue, running, history, starts>>
    BY <1>2 DEF HandlerCancelled, serverVars, diskVars, nativeVars
  <2>4. io' = [io EXCEPT ![j] = @ \ HandlerIo] /\ files' = [files EXCEPT ![j] = files[j]]
    BY <2>2, <2>3
  <2>. QED
    BY <2>1, <2>3, <2>4, GiveUpStep DEF Receiving
<1>3. CASE Launch(j) /\ EndHandler(j)
  <2>1. handler[j] = "validate" /\ (job' = job \/ job' = [job EXCEPT ![j].status = "queued"])
    <3>1. job[j].deleteRequested \/ Conflict(j)
      BY <1>3 DEF Launch, EndHandler
    <3>. QED
      BY <1>3, <3>1 DEF Launch
  <2>2. io[j] \ HandlerIo = io[j]
    BY <1>0, <2>1 DEF JobInv, Uploading, HandlerIo
  <2>3. /\ UNCHANGED <<io, files>>
        /\ UNCHANGED <<requests, jobs, readers, runner, loop, queue, running, history, starts>>
    <3>1. UNCHANGED <<runner, loop, queue>>
      BY <1>3, <2>1 DEF Launch, EndHandler
    <3>. QED
      BY <1>3, <3>1 DEF Launch, serverVars, diskVars
  <2>4. io' = [io EXCEPT ![j] = @ \ HandlerIo] /\ files' = [files EXCEPT ![j] = files[j]]
    BY <2>2, <2>3
  <2>. QED
    BY <1>3, <2>1, <2>3, <2>4, GiveUpStep DEF Receiving
<1>4. CASE Launch(j) /\ ~EndHandler(j)
  <2>1. /\ handler[j] = "validate" /\ ~job[j].deleteRequested /\ ~Conflict(j)
        /\ job' = [job EXCEPT ![j].status = "queued", ![j].nativeActive = TRUE]
        /\ queue' = Append(queue, j) /\ runner' = [runner EXCEPT ![j] = "poll"]
        /\ loop' = Append(loop, <<"poll", j>>) /\ handler' = [handler EXCEPT ![j] = "done"]
        /\ UNCHANGED <<cancelled, discarding>>
        /\ UNCHANGED <<requests, jobs, readers, io, files, running, history, starts>>
    BY <1>4 DEF Launch, Schedule, serverVars, diskVars
  <2>2. ASSUME NEW i \in Ids, i # j
        PROVE  Same(i)
    <3>1. Fewer(loop, loop', <<"poll", i>>) /\ Fewer(loop, loop', <<"io", i>>)
      BY <2>1, <2>2, LoopAppend
    <3>2. Fewer(queue, queue', i)
      BY <2>1, <2>2, AppendIn DEF Fewer
    <3>. QED
      BY <2>1, <2>2, <3>1, <3>2 DEF Same
  <2>3. /\ j \in requests /\ j \in jobs /\ runner[j] = "none" /\ starts[j] = 0 /\ discarding[j] = {}
        /\ io[j] \intersect HandlerIo = {}
    BY <1>0, <2>1 DEF JobInv, Uploading, Removing, Holding, Receiving, HandlerIo
  <2>4. /\ ~job[j].finished /\ ~job[j].outputs /\ job[j].status # "succeeded"
        /\ history[j] = "none" /\ running # j
        /\ io[j] \intersect {"results", "clear"} = {} /\ ~(readers[j] > 0)
        /\ ~In(queue, j) /\ ~In(loop, <<"poll", j>>) /\ ~In(loop, <<"io", j>>)
    BY <1>0, <2>1, <2>3 DEF JobInv, Running, Holding, Scheduled
  <2>5. /\ In(queue', j) /\ Once(queue', j) /\ Once(loop', <<"poll", j>>)
        /\ Fewer(loop, loop', <<"io", j>>)
    <3>1. Once(queue, j) /\ Once(loop, <<"poll", j>>)
      BY <1>0 DEF JobInv, Starting, Scheduled
    <3>2. In(queue', j) /\ Once(queue', j)
      BY <2>1, <2>4, <3>1, AppendIn
    <3>. QED
      BY <2>1, <2>4, <3>1, <3>2, LoopAppend
  <2>6. /\ job'[j] = [job[j] EXCEPT !.status = "queued", !.nativeActive = TRUE]
        /\ handler'[j] = "done" /\ runner'[j] = "poll"
    BY <2>1
  <2>7. Uploading(j)' /\ Running(j)'
    BY <2>1, <2>3, <2>4, <2>6 DEF Uploading, Running, Fields, HandlerIo
  <2>8. Starting(j)' /\ Scheduled(j)'
    BY <1>0, <2>1, <2>3, <2>4, <2>5, <2>6 DEF JobInv, Starting, Scheduled, Fewer
  <2>9. Removing(j)' /\ Holding(j)'
    BY <2>1, <2>3, <2>4, <2>6 DEF Removing, Holding, Receiving, Fields
  <2>. QED
    BY <2>2, <2>7, <2>8, <2>9, Untouched DEF JobInv, IInv
<1>. QED
  BY <1>1, <1>2, <1>3, <1>4

-----------------------------------------------------------------------------
(* The native worker and queue.                                             *)

LEMMA WorkerStepInv ==
  ASSUME IInv, WorkerStep
  PROVE  \A i \in Ids : JobInv(i)'
<1>. /\ history \in [Ids -> {"none", "success", "error"}] /\ starts \in [Ids -> Nat]
     /\ queue \in Seq(Ids) /\ loop \in Seq(Callbacks) /\ running \in Ids \union {NoJob}
     /\ jobs \subseteq Ids
  BY DEF IInv, TypeOK
<1>0. \A i \in Ids : JobInv(i)
  BY DEF IInv
<1>1. CASE WorkerTake
  <2>0. PICK j \in Ids : j = Head(queue)
    BY <1>1, TailIn DEF WorkerTake
  <2>1. /\ In(queue, j) /\ running = NoJob /\ running' = j /\ queue' = Tail(queue)
        /\ starts' = [starts EXCEPT ![j] = @ + 1]
        /\ \A e : In(queue', e) => In(queue, e)
        /\ \A e : Once(queue, e) => Once(queue', e)
        /\ Once(queue, j) => ~In(queue', j)
    BY <1>1, <2>0, TailIn DEF WorkerTake
  <2>2. UNCHANGED <<requests, jobs, job, readers, handler, runner, io, files, discarding, loop, history>>
    BY <1>1 DEF WorkerTake, serverVars, handlerVars, diskVars
  <2>3. ASSUME NEW i \in Ids, i # j
        PROVE  Same(i)
    BY <2>1, <2>2, <2>3, FewerSelf DEF Same, Fewer
  <2>4. JobInv(j)'
    <3>1. JobInv(j) /\ starts[j] = 0 /\ job[j].nativeActive /\ history[j] = "none" /\ starts'[j] = 1
          /\ Once(queue, j) /\ handler[j] = "done"
      BY <1>0, <2>1 DEF JobInv, Running, Starting, Uploading
    <3>2. Uploading(j)' /\ Running(j)'
      BY <2>1, <2>2, <3>1 DEF JobInv, Uploading, Running
    <3>3. Starting(j)' /\ Scheduled(j)'
      BY <2>1, <2>2, <3>1 DEF JobInv, Starting, Scheduled
    <3>4. Removing(j)' /\ Holding(j)'
      BY <2>2, <3>1 DEF JobInv, Removing, Holding, Receiving
    <3>. QED
      BY <3>2, <3>3, <3>4 DEF JobInv
  <2>. QED
    BY <1>0, <2>3, <2>4, Untouched
<1>2. CASE WorkerStart
  <2>1. UNCHANGED <<requests, jobs, job, readers, handler, runner, io, files, discarding, queue, running, history, starts>>
    BY <1>2 DEF WorkerStart, serverVars, handlerVars, diskVars
  <2>2. loop' = loop \/ (running \in Ids /\ loop' = Append(loop, <<"start", running>>))
    BY <1>2 DEF WorkerStart, Schedule
  <2>3. ASSUME NEW i \in Ids
        PROVE  Same(i)
    <3>1. Fewer(loop, loop', <<"poll", i>>) /\ Fewer(loop, loop', <<"io", i>>)
      BY <2>2, LoopAppend, FewerSelf
    <3>. QED
      BY <2>1, <3>1, FewerSelf DEF Same
  <2>. QED
    BY <1>0, <2>3, Untouched
<1>3. ASSUME NEW o \in {"success", "error"}, WorkerDone(o)
      PROVE  \A i \in Ids : JobInv(i)'
  <2>1. /\ history' = [history EXCEPT ![running] = o] /\ running' = NoJob
        /\ UNCHANGED <<requests, jobs, job, readers, handler, runner, io, files, discarding, loop, queue, starts>>
    BY <1>3 DEF WorkerDone, serverVars, handlerVars, diskVars
  <2>2. ASSUME NEW i \in Ids, i # running
        PROVE  Same(i)
    BY <2>1, <2>2, FewerSelf, JobApiAssumption DEF Same
  <2>3. ASSUME NEW i \in Ids, i = running
        PROVE  JobInv(i)'
    <3>1. JobInv(i) /\ starts[i] = 1 /\ job[i].nativeActive /\ ~In(queue, i)
      BY <1>0, <2>3 DEF JobInv, Running, Starting
    <3>2. history'[i] = o /\ running' # i
      BY <2>1, <2>3, JobApiAssumption
    <3>3. Uploading(i)' /\ Running(i)'
      BY <2>1, <3>1, <3>2 DEF JobInv, Uploading, Running
    <3>4. Starting(i)' /\ Scheduled(i)'
      BY <2>1, <3>1, <3>2 DEF JobInv, Starting, Scheduled
    <3>5. Removing(i)' /\ Holding(i)'
      BY <2>1, <3>1 DEF JobInv, Removing, Holding, Receiving
    <3>. QED
      BY <3>3, <3>4, <3>5 DEF JobInv
  <2>. QED
    BY <1>0, <2>2, <2>3, Untouched
<1>. QED
  BY <1>1, <1>2, <1>3 DEF WorkerStep

LEMMA DropStep ==
  ASSUME IInv, NEW j \in Ids, NativeDrop(j)
  PROVE  \A i \in Ids : JobInv(i)'
<1>. /\ history \in [Ids -> {"none", "success", "error"}] /\ queue \in Seq(Ids)
  BY DEF IInv, TypeOK
<1>1. UNCHANGED <<requests, jobs, job, readers, handler, runner, io, files, discarding, loop, running, starts>>
  BY DEF NativeDrop, serverVars, handlerVars, diskVars
<1>2. \A i \in Ids : Fewer(queue, queue', i)
  BY QueueWithout, FewerSelf DEF NativeDrop
<1>3. \A i \in Ids : history'[i] = history[i] \/ history'[i] = "none"
  BY DEF NativeDrop
<1>4. ASSUME NEW i \in Ids
      PROVE  Same(i)
  BY <1>1, <1>2, <1>3, FewerSelf DEF Same
<1>. QED
  BY <1>4, Untouched DEF IInv

-----------------------------------------------------------------------------
(* The runner.                                                              *)

\* A turn of the runner begins: its callback leaves the loop.
LEMMA TakenOff ==
  ASSUME IInv, NEW j \in Ids, NEW k \in {"poll", "io"}, loop # <<>>, Head(loop) = <<k, j>>
  PROVE  /\ Tail(loop) \in Seq(Callbacks) /\ In(loop, <<k, j>>) /\ ~In(Tail(loop), <<k, j>>)
         /\ \A e : Fewer(loop, Tail(loop), e)
<1>1. loop \in Seq(Callbacks) /\ Once(loop, <<k, j>>)
  BY DEF IInv, TypeOK, JobInv, Scheduled
<1>. QED
  BY <1>1, TailIn DEF Fewer

LEMMA LoopAdd ==
  ASSUME NEW s \in Seq(Callbacks), \A e : Fewer(loop, s, e), NEW k \in {"poll", "io"}, NEW j \in Ids
  PROVE  /\ \A i \in Ids : i # j => /\ Fewer(loop, Append(s, <<k, j>>), <<"poll", i>>)
                                    /\ Fewer(loop, Append(s, <<k, j>>), <<"io", i>>)
         /\ \A m \in {"poll", "io"} : m # k => Fewer(s, Append(s, <<k, j>>), <<m, j>>)
         /\ Once(s, <<k, j>>) /\ ~In(s, <<k, j>>) => Once(Append(s, <<k, j>>), <<k, j>>)
<1>1. <<k, j>> \in Callbacks
  BY DEF Callbacks
<1>2. \A e : e # <<k, j>> => Fewer(s, Append(s, <<k, j>>), e)
  BY <1>1, AppendIn DEF Fewer
<1>3. Once(s, <<k, j>>) /\ ~In(s, <<k, j>>) => Once(Append(s, <<k, j>>), <<k, j>>)
  BY <1>1, AppendIn
<1>4. \A i \in Ids : i # j => <<"poll", i>> # <<k, j>> /\ <<"io", i>> # <<k, j>>
  OBVIOUS
<1>5. \A m \in {"poll", "io"} : m # k => <<m, j>> # <<k, j>>
  OBVIOUS
<1>. QED
  BY <1>2, <1>3, <1>4, <1>5 DEF Fewer

\* _finish begins, from the poll or from _results.
LEMMA FinishStep ==
  ASSUME IInv, NEW j \in Ids, NEW current \in [Ids -> Fields], NEW s \in Seq(Callbacks),
         Finish(j, current, s), \A e : Fewer(loop, s, e),
         ~In(s, <<"poll", j>>), ~In(s, <<"io", j>>), runner[j] \in {"poll", "results"},
         ~In(queue, j), running # j,
         \A i \in Ids : i # j => current[i] = job[i] /\ io'[i] = io[i] /\ files'[i] = files[i],
         current[j].deleteRequested = job[j].deleteRequested, ~current[j].nativeActive,
         ~current[j].finished, current[j].status # "succeeded",
         current[j].outputs => current[j].status # "failed" /\ "outputs" \in files'[j],
         io'[j] = io[j] \ {"results"}, files'[j] = files[j] \/ j \in jobs,
         UNCHANGED <<requests, jobs, readers, handler, discarding, queue, running, starts>>
  PROVE  \A i \in Ids : JobInv(i)'
<1>. /\ job \in [Ids -> Fields] /\ runner \in [Ids -> RunnerPlaces]
     /\ history \in [Ids -> {"none", "success", "error"}]
  BY DEF IInv, TypeOK
<1>0. JobInv(j)
  BY DEF IInv
<1>1. ASSUME NEW i \in Ids, i # j
      PROVE  Same(i)
  <2>1. Fewer(loop, loop', <<"poll", i>>) /\ Fewer(loop, loop', <<"io", i>>)
    BY <1>1, LoopAdd DEF Finish
  <2>. QED
    BY <1>1, <2>1, FewerSelf DEF Finish, Same
<1>2. /\ handler[j] = "done" /\ discarding[j] = {} /\ "clear" \notin io[j] /\ ~(readers[j] > 0)
      /\ j \in jobs /\ j \in requests
  BY <1>0 DEF JobInv, Uploading, Running, Removing, Holding
<1>3. /\ runner'[j] = IF job[j].deleteRequested THEN "discard" ELSE "clear"
      /\ history'[j] = "none" /\ job'[j] = [current[j] EXCEPT !.expires = "armed"]
      /\ loop' = Append(s, <<"io", j>>)
  BY DEF Finish
<1>4. /\ job'[j].deleteRequested = job[j].deleteRequested /\ ~job'[j].nativeActive
      /\ ~job'[j].finished /\ job'[j].status # "succeeded"
      /\ job'[j].outputs => job'[j].status # "failed" /\ "outputs" \in files'[j]
  BY <1>3 DEF Fields
<1>5. /\ ~In(loop', <<"poll", j>>) /\ Once(loop', <<"poll", j>>) /\ Once(loop', <<"io", j>>)
  <2>1. Once(s, <<"poll", j>>) /\ Once(s, <<"io", j>>)
    BY <1>0 DEF JobInv, Scheduled, Fewer
  <2>2. Fewer(s, loop', <<"poll", j>>) /\ Once(loop', <<"io", j>>)
    BY <1>3, <2>1, LoopAdd
  <2>. QED
    BY <2>1, <2>2 DEF Fewer
<1>6. Uploading(j)' /\ Running(j)'
  BY <1>0, <1>2, <1>3, <1>4 DEF JobInv, Uploading, Running
<1>7. Starting(j)' /\ Scheduled(j)'
  BY <1>0, <1>2, <1>3, <1>5 DEF JobInv, Starting, Scheduled
<1>8. Removing(j)' /\ Holding(j)'
  BY <1>2, <1>3, <1>4 DEF Removing, Holding
<1>. QED
  BY <1>1, <1>6, <1>7, <1>8, Untouched DEF JobInv, IInv

LEMMA PollStep ==
  ASSUME IInv, NEW j \in Ids, LoopPoll(j)
  PROVE  \A i \in Ids : JobInv(i)'
<1>. /\ job \in [Ids -> Fields] /\ runner \in [Ids -> RunnerPlaces] /\ loop \in Seq(Callbacks)
     /\ history \in [Ids -> {"none", "success", "error"}] /\ io \in [Ids -> SUBSET Operations]
  BY DEF IInv, TypeOK
<1>. DEFINE ended == [job EXCEPT ![j].nativeActive = FALSE]
            failed == [ended EXCEPT ![j].status = "failed", ![j].error = TRUE]
            s == Tail(loop)
<1>1. /\ s \in Seq(Callbacks) /\ In(loop, <<"poll", j>>) /\ ~In(s, <<"poll", j>>)
      /\ \A e : Fewer(loop, s, e)
  BY TakenOff DEF LoopPoll
<1>2. JobInv(j) /\ runner[j] = "poll" /\ ~In(loop, <<"io", j>>) /\ ~In(s, <<"io", j>>)
  BY <1>1 DEF IInv, JobInv, Scheduled, Fewer
<1>3. /\ ~job[j].finished /\ ~job[j].outputs /\ job[j].status # "succeeded" /\ "results" \notin io[j]
      /\ history[j] # "none" => ~In(queue, j) /\ running # j
  BY <1>2 DEF JobInv, Running
<1>4. ended \in [Ids -> Fields]
  BY FieldTypes
<1>5. /\ \A i \in Ids : i # j => ended[i] = job[i]
      /\ ended[j].deleteRequested = job[j].deleteRequested /\ ~ended[j].nativeActive
      /\ ended[j].finished = job[j].finished /\ ended[j].status = job[j].status
      /\ ended[j].outputs = job[j].outputs
  BY DEF Fields
<1>6. /\ failed \in [Ids -> Fields] /\ \A i \in Ids : i # j => failed[i] = job[i]
      /\ failed[j].deleteRequested = job[j].deleteRequested /\ ~failed[j].nativeActive
      /\ failed[j].finished = job[j].finished /\ failed[j].status = "failed"
      /\ failed[j].outputs = job[j].outputs
  <2>. HIDE DEF ended
  <2>1. failed \in [Ids -> Fields]
    BY <1>4, FieldTypes DEF Statuses
  <2>2. \A i \in Ids : i # j => failed[i] = job[i]
    BY <1>4, <1>5
  <2>. QED
    BY <1>4, <1>5, <2>1, <2>2 DEF Fields
<1>7. /\ UNCHANGED <<requests, jobs, readers, handler, io, files, discarding, queue, running, starts>>
      /\ io'[j] = io[j] \ {"results"}
  BY <1>3 DEF LoopPoll, serverVars, handlerVars, diskVars
<1>8. \/ (Finish(j, ended, s) /\ history[j] # "none")
      \/ (Finish(j, failed, s) /\ (history[j] # "none" \/ ~StillNative(j)))
      \/ /\ job' = ended /\ runner' = [runner EXCEPT ![j] = "results"] /\ history[j] # "none"
         /\ loop' = Append(s, <<"io", j>>) /\ UNCHANGED history
      \/ runner' = [runner EXCEPT ![j] = "sleep"] /\ loop' = s /\ UNCHANGED <<job, history>>
  BY DEF LoopPoll
<1>. HIDE DEF ended, failed, s
<1>9. CASE Finish(j, ended, s) /\ history[j] # "none"
  BY <1>1, <1>2, <1>3, <1>4, <1>5, <1>7, <1>9, FinishStep
<1>10. CASE Finish(j, failed, s) /\ (history[j] # "none" \/ ~StillNative(j))
  <2>1. ~In(queue, j) /\ running # j
    BY <1>3, <1>10 DEF StillNative, InNative, Queued, In
  <2>. QED
    BY <1>1, <1>2, <1>3, <1>6, <1>7, <1>10, <2>1, FinishStep
<1>11. CASE /\ job' = ended /\ runner' = [runner EXCEPT ![j] = "results"] /\ history[j] # "none"
            /\ loop' = Append(s, <<"io", j>>) /\ UNCHANGED history
  <2>1. ASSUME NEW i \in Ids, i # j
        PROVE  Same(i)
    <3>1. Fewer(loop, loop', <<"poll", i>>) /\ Fewer(loop, loop', <<"io", i>>)
      BY <1>1, <1>11, <2>1, LoopAdd
    <3>. QED
      BY <1>5, <1>7, <1>11, <2>1, <3>1, FewerSelf DEF Same
  <2>2. ~In(loop', <<"poll", j>>) /\ Once(loop', <<"poll", j>>) /\ Once(loop', <<"io", j>>)
    <3>1. Once(s, <<"poll", j>>) /\ Once(s, <<"io", j>>)
      BY <1>1, <1>2 DEF JobInv, Scheduled, Fewer
    <3>2. Fewer(s, loop', <<"poll", j>>) /\ Once(loop', <<"io", j>>)
      BY <1>1, <1>2, <1>11, <3>1, LoopAdd
    <3>. QED
      BY <1>1, <3>1, <3>2 DEF Fewer
  <2>3. /\ handler[j] = "done" /\ discarding[j] = {} /\ "clear" \notin io[j]
        /\ j \in jobs /\ j \in requests /\ ~(readers[j] > 0) /\ job[j].status # "failed"
    BY <1>2 DEF JobInv, Uploading, Running, Removing, Holding
  <2>4. Uploading(j)' /\ Running(j)'
    BY <1>2, <1>3, <1>5, <1>7, <1>11, <2>3 DEF JobInv, Uploading, Running
  <2>5. Starting(j)' /\ Scheduled(j)'
    BY <1>2, <1>3, <1>7, <1>11, <2>2, <2>3 DEF JobInv, Starting, Scheduled
  <2>6. Removing(j)' /\ Holding(j)'
    BY <1>3, <1>5, <1>7, <1>11, <2>3 DEF Removing, Holding
  <2>. QED
    BY <2>1, <2>4, <2>5, <2>6, Untouched DEF JobInv, IInv
<1>12. CASE runner' = [runner EXCEPT ![j] = "sleep"] /\ loop' = s /\ UNCHANGED <<job, history>>
  <2>1. ASSUME NEW i \in Ids, i # j
        PROVE  Same(i)
    BY <1>1, <1>7, <1>12, <2>1, FewerSelf DEF Same
  <2>2. Uploading(j)' /\ Running(j)'
    BY <1>2, <1>7, <1>12 DEF JobInv, Uploading, Running
  <2>3. Starting(j)' /\ Scheduled(j)'
    BY <1>1, <1>2, <1>7, <1>12 DEF JobInv, Starting, Scheduled, Fewer
  <2>4. Removing(j)' /\ Holding(j)'
    BY <1>2, <1>7, <1>12 DEF JobInv, Removing, Holding, Receiving
  <2>. QED
    BY <2>1, <2>2, <2>3, <2>4, Untouched DEF JobInv, IInv
<1>. QED
  BY <1>8, <1>9, <1>10, <1>11, <1>12

\* The runner polls again, or a callback of the worker's events is served.
LEMMA LoopStepInv ==
  ASSUME IInv, NEW j \in Ids, RunnerWake(j) \/ LoopEvent(j) \/ LoopIo(j)
  PROVE  \A i \in Ids : JobInv(i)'
<1>. /\ job \in [Ids -> Fields] /\ runner \in [Ids -> RunnerPlaces] /\ loop \in Seq(Callbacks)
     /\ io \in [Ids -> SUBSET Operations] /\ discarding \in [Ids -> SUBSET Callers]
  BY DEF IInv, TypeOK
<1>0. JobInv(j)
  BY DEF IInv
<1>1. CASE RunnerWake(j)
  <2>1. /\ runner[j] = "sleep" /\ runner' = [runner EXCEPT ![j] = "poll"]
        /\ loop' = Append(loop, <<"poll", j>>)
        /\ UNCHANGED <<requests, jobs, job, readers, handler, io, files, discarding, queue, running, history, starts>>
    BY <1>1 DEF RunnerWake, Schedule, serverVars, handlerVars, diskVars, nativeVars
  <2>2. ASSUME NEW i \in Ids, i # j
        PROVE  Same(i)
    <3>1. Fewer(loop, loop', <<"poll", i>>) /\ Fewer(loop, loop', <<"io", i>>)
      BY <2>1, <2>2, LoopAppend
    <3>. QED
      BY <2>1, <2>2, <3>1, FewerSelf DEF Same
  <2>3. /\ ~In(loop, <<"poll", j>>) /\ ~In(loop, <<"io", j>>) /\ Once(loop, <<"poll", j>>) /\ Once(loop, <<"io", j>>)
    BY <1>0, <2>1 DEF JobInv, Scheduled
  <2>4. Once(loop', <<"poll", j>>) /\ Once(loop', <<"io", j>>) /\ ~In(loop', <<"io", j>>)
    <3>1. Once(loop', <<"poll", j>>)
      BY <2>1, <2>3, LoopAppend
    <3>2. Fewer(loop, loop', <<"io", j>>)
      BY <2>1, LoopAppend
    <3>. QED
      BY <2>3, <3>1, <3>2 DEF Fewer
  <2>5. Uploading(j)' /\ Running(j)'
    BY <1>0, <2>1 DEF JobInv, Uploading, Running
  <2>6. Starting(j)' /\ Scheduled(j)'
    BY <1>0, <2>1, <2>4 DEF JobInv, Starting, Scheduled
  <2>7. Removing(j)' /\ Holding(j)'
    BY <1>0, <2>1 DEF JobInv, Removing, Holding, Receiving
  <2>. QED
    BY <2>2, <2>5, <2>6, <2>7, Untouched DEF JobInv, IInv
<1>2. CASE LoopEvent(j)
  <2>1. /\ \A e : Fewer(loop, loop', e)
        /\ UNCHANGED <<requests, jobs, readers, handler, runner, io, files, discarding, queue, running, history, starts>>
    BY <1>2, LoopTail DEF LoopEvent, serverVars, handlerVars, diskVars, nativeVars
  <2>2. job' = job \/ (~job[j].finished /\ job' = [job EXCEPT ![j].status = "running"])
    BY <1>2 DEF LoopEvent
  <2>3. ASSUME NEW i \in Ids, i # j
        PROVE  Same(i)
    BY <2>1, <2>2, <2>3, FewerSelf DEF Same
  <2>4. CASE job' = job
    <3>1. Same(j)
      BY <2>1, <2>4, FewerSelf DEF Same
    <3>. QED
      BY <2>3, <3>1, Untouched DEF IInv
  <2>5. CASE ~job[j].finished /\ job' = [job EXCEPT ![j].status = "running"]
    <3>1. /\ job'[j].status = "running" /\ ~job'[j].finished /\ job'[j].outputs = job[j].outputs
          /\ job'[j].nativeActive = job[j].nativeActive
          /\ job'[j].deleteRequested = job[j].deleteRequested
      BY <2>5 DEF Fields
    <3>2. Uploading(j)' /\ Running(j)'
      BY <1>0, <2>1, <2>5, <3>1 DEF JobInv, Uploading, Running
    <3>3. Starting(j)' /\ Scheduled(j)'
      BY <1>0, <2>1 DEF JobInv, Starting, Scheduled, Fewer
    <3>4. Removing(j)' /\ Holding(j)'
      BY <1>0, <2>1, <2>5, <3>1 DEF JobInv, Running, Removing, Holding, Receiving
    <3>. QED
      BY <2>3, <3>2, <3>3, <3>4, Untouched DEF JobInv, IInv
  <2>. QED
    BY <2>2, <2>4, <2>5
<1>3. CASE LoopIo(j)
  <2>1. /\ In(loop, <<"io", j>>) /\ ~In(loop', <<"io", j>>) /\ \A e : Fewer(loop, loop', e)
        /\ UNCHANGED <<requests, jobs, job, readers, handler, runner, files, queue, running, history, starts>>
    <3>1. loop # <<>> /\ Head(loop) = <<"io", j>> /\ loop' = Tail(loop)
      BY <1>3 DEF LoopIo
    <3>2. In(loop, <<"io", j>>) /\ ~In(loop', <<"io", j>>) /\ \A e : Fewer(loop, loop', e)
      BY <3>1, TakenOff
    <3>. QED
      BY <1>3, <3>2 DEF LoopIo, serverVars, handlerVars, nativeVars
  <2>2. runner[j] \in {"results", "clear", "discard"}
    BY <1>0, <2>1 DEF JobInv, Scheduled
  <2>3. /\ handler[j] = "done" /\ ~job[j].finished /\ j \in jobs
        /\ ~(readers[j] > 0)
    BY <1>0, <2>2 DEF JobInv, Uploading, Running, Holding
  <2>4. ASSUME NEW i \in Ids, i # j
        PROVE  Same(i)
    BY <1>3, <2>1, <2>4, FewerSelf DEF LoopIo, Same
  <2>5. CASE runner[j] = "discard"
    <3>1. io' = io /\ discarding'[j] = discarding[j] \union {"runner"}
      BY <1>3, <2>5 DEF LoopIo
    <3>2. Uploading(j)' /\ Running(j)'
      BY <1>0, <2>1, <3>1 DEF JobInv, Uploading, Running
    <3>3. Starting(j)' /\ Scheduled(j)'
      BY <1>0, <2>1 DEF JobInv, Starting, Scheduled, Fewer
    <3>4. Removing(j)' /\ Holding(j)'
      BY <1>0, <2>1, <2>3, <2>5, <3>1 DEF JobInv, Removing, Holding, Receiving
    <3>. QED
      BY <2>4, <3>2, <3>3, <3>4, Untouched DEF JobInv, IInv
  <2>6. CASE runner[j] \in {"results", "clear"}
    <3>1. discarding' = discarding /\ io'[j] = io[j] \union {runner[j]}
      BY <1>3, <2>6 DEF LoopIo
    <3>2. Uploading(j)' /\ Running(j)'
      BY <1>0, <2>1, <2>6, <3>1 DEF JobInv, Uploading, Running
    <3>3. Starting(j)' /\ Scheduled(j)'
      BY <1>0, <2>1 DEF JobInv, Starting, Scheduled, Fewer
    <3>4. Removing(j)' /\ Holding(j)'
      BY <1>0, <2>1, <3>1 DEF JobInv, Removing, Holding, Receiving
    <3>. QED
      BY <2>4, <3>2, <3>3, <3>4, Untouched DEF JobInv, IInv
  <2>. QED
    BY <2>2, <2>5, <2>6
<1>. QED
  BY <1>1, <1>2, <1>3

LEMMA ResultsStep ==
  ASSUME IInv, NEW j \in Ids, ResultsDone(j)
  PROVE  \A i \in Ids : JobInv(i)'
<1>. /\ job \in [Ids -> Fields] /\ runner \in [Ids -> RunnerPlaces] /\ loop \in Seq(Callbacks)
     /\ io \in [Ids -> SUBSET Operations] /\ files \in [Ids -> SUBSET Parts]
  BY DEF IInv, TypeOK
<1>. DEFINE good == [job EXCEPT ![j].outputs = TRUE]
            bad == [job EXCEPT ![j].status = "failed", ![j].error = TRUE]
<1>1. JobInv(j) /\ runner[j] = "results"
  BY DEF IInv, JobInv, Running, ResultsDone
<1>2. /\ ~job[j].nativeActive /\ ~job[j].finished /\ ~job[j].outputs
      /\ job[j].status # "succeeded" /\ job[j].status # "failed"
      /\ ~In(queue, j) /\ running # j
      /\ ~In(loop, <<"poll", j>>) /\ ~In(loop, <<"io", j>>) /\ j \in jobs
  BY <1>1 DEF JobInv, Running, Scheduled, Holding, ResultsDone
<1>3. good \in [Ids -> Fields] /\ bad \in [Ids -> Fields]
  BY FieldTypes DEF Statuses
<1>4. /\ \A i \in Ids : i # j => good[i] = job[i] /\ bad[i] = job[i]
      /\ good[j].deleteRequested = job[j].deleteRequested /\ ~good[j].nativeActive
      /\ ~good[j].finished /\ good[j].status = job[j].status
  BY <1>2 DEF Fields
<1>5. /\ bad[j].deleteRequested = job[j].deleteRequested /\ ~bad[j].nativeActive
      /\ ~bad[j].finished /\ bad[j].status = "failed" /\ ~bad[j].outputs
  BY <1>2 DEF Fields
<1>6. /\ Finish(j, good, loop) \/ Finish(j, bad, loop)
      /\ io'[j] = io[j] \ {"results"} /\ "outputs" \in files'[j]
      /\ \A i \in Ids : i # j => io'[i] = io[i] /\ files'[i] = files[i]
      /\ UNCHANGED <<requests, jobs, readers, handler, discarding, queue, running, starts>>
  BY DEF ResultsDone, serverVars, handlerVars
<1>. HIDE DEF good, bad
<1>7. CASE Finish(j, good, loop)
  <2>1. \A e : Fewer(loop, loop, e)
    BY FewerSelf
  <2>2. \A i \in Ids : i # j => good[i] = job[i] /\ io'[i] = io[i] /\ files'[i] = files[i]
    BY <1>4, <1>6
  <2>3. /\ good[j].deleteRequested = job[j].deleteRequested /\ ~good[j].nativeActive /\ ~good[j].finished
        /\ good[j].status # "succeeded"
        /\ good[j].outputs => good[j].status # "failed" /\ "outputs" \in files'[j]
    BY <1>2, <1>4, <1>6
  <2>. QED
    BY <1>1, <1>2, <1>3, <1>6, <1>7, <2>1, <2>2, <2>3, FinishStep
<1>8. CASE Finish(j, bad, loop)
  <2>1. \A e : Fewer(loop, loop, e)
    BY FewerSelf
  <2>2. \A i \in Ids : i # j => bad[i] = job[i] /\ io'[i] = io[i] /\ files'[i] = files[i]
    BY <1>4, <1>6
  <2>3. /\ bad[j].deleteRequested = job[j].deleteRequested /\ ~bad[j].nativeActive /\ ~bad[j].finished
        /\ bad[j].status # "succeeded"
        /\ bad[j].outputs => bad[j].status # "failed" /\ "outputs" \in files'[j]
    BY <1>2, <1>4, <1>5, <1>6
  <2>. QED
    BY <1>1, <1>2, <1>3, <1>6, <1>8, <2>1, <2>2, <2>3, FinishStep
<1>. QED
  BY <1>6, <1>7, <1>8

\* Files that the outcome lets go; what is left of a failed removal.
LEMMA ClearedFiles ==
  ASSUME NEW parts \in SUBSET Parts, NEW status
  PROVE  /\ Cleared(parts, status) \subseteq parts
         /\ "inputs" \notin Cleared(parts, status)
         /\ status = "failed" => Cleared(parts, status) = {}
         /\ status # "failed" /\ "outputs" \in parts => "outputs" \in Cleared(parts, status)
         /\ \A left \in Leftovers(parts) : left \subseteq parts
  BY DEF Cleared, Leftovers

LEMMA ClearStep ==
  ASSUME IInv, NEW j \in Ids, ClearWork(j)
  PROVE  \A i \in Ids : JobInv(i)'
<1>. /\ job \in [Ids -> Fields] /\ runner \in [Ids -> RunnerPlaces]
     /\ io \in [Ids -> SUBSET Operations] /\ files \in [Ids -> SUBSET Parts]
  BY DEF IInv, TypeOK
<1>1. JobInv(j) /\ runner[j] = "clear"
  BY DEF IInv, JobInv, Running, ClearWork
<1>2. /\ ~In(loop, <<"poll", j>>) /\ ~In(loop, <<"io", j>>) /\ j \in jobs /\ handler[j] = "done"
      /\ discarding[j] = {} /\ ~(readers[j] > 0)
  BY <1>1 DEF JobInv, Uploading, Running, Scheduled, Removing, Holding, ClearWork
<1>3. /\ io' = [io EXCEPT ![j] = @ \ {"clear"}]
      /\ \E place \in {"cleared", "uncleared"} : runner' = [runner EXCEPT ![j] = place]
      /\ UNCHANGED <<requests, jobs, job, readers, handler, discarding, loop, queue, running, history, starts>>
  BY DEF ClearWork, serverVars, handlerVars, nativeVars
<1>4. PICK left \in SUBSET Parts :
        files' = [files EXCEPT ![j] = left] /\ Cleared(files[j], job[j].status) \subseteq left
  <2>1. Cleared(files[j], job[j].status) \in SUBSET Parts /\ Leftovers(files[j]) \subseteq SUBSET Parts
    BY ClearedFiles
  <2>. QED
    BY <2>1 DEF ClearWork
<1>5. ASSUME NEW i \in Ids, i # j
      PROVE  Same(i)
  BY <1>3, <1>4, <1>5, FewerSelf DEF Same
<1>6. io'[j] = io[j] \ {"clear"} /\ runner'[j] \in {"cleared", "uncleared"} /\ files'[j] = left
  BY <1>3, <1>4
<1>7. Uploading(j)' /\ Running(j)'
  BY <1>1, <1>2, <1>3, <1>6 DEF JobInv, Uploading, Running
<1>8. Starting(j)' /\ Scheduled(j)'
  BY <1>1, <1>2, <1>3, <1>6 DEF JobInv, Starting, Scheduled
<1>9. Removing(j)'
  BY <1>1, <1>2, <1>3, <1>6 DEF JobInv, Removing
<1>10. Holding(j)'
  <2>1. job[j].outputs /\ ~job[j].deleteRequested => job[j].status # "failed" /\ "outputs" \in files[j]
    BY <1>1 DEF JobInv, Running, Holding
  <2>2. job[j].outputs /\ ~job[j].deleteRequested => "outputs" \in left
    BY <1>4, <2>1, ClearedFiles
  <2>. QED
    BY <1>2, <1>3, <1>6, <2>2 DEF Holding
<1>. QED
  BY <1>5, <1>7, <1>8, <1>9, <1>10, Untouched DEF JobInv, IInv

\* _finish publishes the outcome, once the thread of _clear_work has ended.
LEMMA ConcludeStep ==
  ASSUME IInv, NEW j \in Ids, ClearDone(j)
  PROVE  \A i \in Ids : JobInv(i)'
<1>. /\ job \in [Ids -> Fields] /\ runner \in [Ids -> RunnerPlaces]
  BY DEF IInv, TypeOK
<1>1. JobInv(j) /\ runner[j] \in {"cleared", "uncleared"}
  BY DEF IInv, ClearDone
<1>2. /\ ~In(loop, <<"poll", j>>) /\ ~In(loop, <<"io", j>>) /\ j \in jobs /\ handler[j] = "done"
      /\ discarding[j] = {} /\ ~(readers[j] > 0)
      /\ ~In(queue, j) /\ running # j /\ history[j] = "none" /\ ~job[j].nativeActive
      /\ io[j] \intersect {"results", "clear"} = {}
  BY <1>1 DEF JobInv, Uploading, Running, Scheduled, Removing, Holding
<1>3. /\ runner' = [runner EXCEPT ![j] = "done"]
      /\ UNCHANGED <<requests, jobs, readers, handler, io, files, discarding, loop, queue, running, history, starts>>
  BY DEF ClearDone, serverVars, handlerVars, diskVars, nativeVars
<1>4. job' = Conclude([job EXCEPT ![j].cleanupError = @ \/ runner[j] = "uncleared"], j)
  BY DEF ClearDone
<1>5. \A i \in Ids : i # j => job'[i] = job[i]
  BY <1>4 DEF Conclude
<1>6. /\ job'[j].finished /\ job'[j].status = Outcome(job[j].status) /\ job'[j].outputs = job[j].outputs
      /\ job'[j].nativeActive = job[j].nativeActive /\ job'[j].deleteRequested = job[j].deleteRequested
  BY <1>4 DEF Conclude, Fields
<1>7. ASSUME NEW i \in Ids, i # j
      PROVE  Same(i)
  BY <1>3, <1>5, <1>7, FewerSelf DEF Same
<1>8. Uploading(j)' /\ Running(j)'
  BY <1>1, <1>2, <1>3, <1>6 DEF JobInv, Uploading, Running, Outcome
<1>9. Starting(j)' /\ Scheduled(j)'
  BY <1>1, <1>2, <1>3 DEF JobInv, Starting, Scheduled
<1>10. Removing(j)' /\ Holding(j)'
  BY <1>1, <1>2, <1>3, <1>6 DEF JobInv, Removing, Holding
<1>. QED
  BY <1>7, <1>8, <1>9, <1>10, Untouched DEF JobInv, IInv

-----------------------------------------------------------------------------
(* Removal: discard(), DELETE, downloads, expiry, the sweeper and close().  *)

LEMMA DiscardStepInv ==
  ASSUME IInv, NEW j \in Ids, NEW caller \in Callers,
         DiscardDone(j, caller) \/ DiscardFailed(j, caller)
  PROVE  \A i \in Ids : JobInv(i)'
<1>. /\ job \in [Ids -> Fields] /\ runner \in [Ids -> RunnerPlaces] /\ handler \in [Ids -> HandlerPlaces]
     /\ discarding \in [Ids -> SUBSET Callers] /\ files \in [Ids -> SUBSET Parts]
  BY DEF IInv, TypeOK
<1>. DEFINE marked == [job EXCEPT ![j].deleteRequested = TRUE, ![j].cleanupError = TRUE]
<1>1. JobInv(j) /\ caller \in discarding[j]
  BY DEF IInv, DiscardDone, DiscardFailed
<1>2. /\ marked \in [Ids -> Fields] /\ \A i \in Ids : i # j => marked[i] = job[i]
      /\ marked[j].deleteRequested /\ marked[j].status = job[j].status /\ marked[j].outputs = job[j].outputs
      /\ marked[j].finished = job[j].finished /\ marked[j].nativeActive = job[j].nativeActive
  <2>1. marked \in [Ids -> Fields]
    BY FieldTypes
  <2>2. marked[j] = [job[j] EXCEPT !.deleteRequested = TRUE, !.cleanupError = TRUE]
        /\ \A i \in Ids : i # j => marked[i] = job[i]
    OBVIOUS
  <2>. HIDE DEF marked
  <2>3. /\ marked[j].deleteRequested /\ marked[j].status = job[j].status /\ marked[j].outputs = job[j].outputs
        /\ marked[j].finished = job[j].finished /\ marked[j].nativeActive = job[j].nativeActive
    BY <2>2 DEF Fields
  <2>. QED
    BY <2>1, <2>2, <2>3
<1>3. PICK current \in {job, marked}, left \in SUBSET Parts :
        /\ AfterDiscard(j, caller, current) /\ files' = [files EXCEPT ![j] = left]
        /\ left = {} \/ (current = marked /\ files[j] # {} /\ jobs' = jobs)
  <2>1. CASE DiscardDone(j, caller)
    BY <2>1 DEF DiscardDone
  <2>2. CASE DiscardFailed(j, caller)
    <3>1. Leftovers(files[j]) \subseteq SUBSET Parts
      BY ClearedFiles
    <3>2. PICK left \in SUBSET Parts : files' = [files EXCEPT ![j] = left]
      BY <2>2, <3>1 DEF DiscardFailed
    <3>3. files[j] # {} /\ jobs' = jobs /\ AfterDiscard(j, caller, marked)
      BY <2>2 DEF DiscardFailed, serverVars
    <3>. QED
      BY <3>2, <3>3
  <2>. QED
    BY <2>1, <2>2
<1>4. /\ current \in [Ids -> Fields] /\ \A i \in Ids : i # j => current[i] = job[i]
      /\ current[j].status = job[j].status /\ current[j].outputs = job[j].outputs
      /\ current[j].finished = job[j].finished /\ current[j].nativeActive = job[j].nativeActive
      /\ job[j].deleteRequested \/ left # {} => current[j].deleteRequested
  BY <1>2, <1>3
<1>. HIDE DEF marked
<1>5. /\ jobs' = jobs \/ jobs' = jobs \ {j}
      /\ UNCHANGED <<requests, readers, io, loop, queue, running, history, starts>>
  BY DEF DiscardDone, DiscardFailed, serverVars, nativeVars
<1>6. /\ handler' = IF caller = "handler" THEN [handler EXCEPT ![j] = "done"] ELSE handler
      /\ runner' = IF caller = "runner" THEN [runner EXCEPT ![j] = "done"] ELSE runner
      /\ job' = IF caller = "runner" THEN Conclude(current, j) ELSE current
      /\ discarding' = [discarding EXCEPT ![j] = @ \ {caller}]
  BY <1>3 DEF AfterDiscard
<1>7. ASSUME NEW i \in Ids, i # j
      PROVE  Same(i)
  <2>1. job'[i] = job[i]
    BY <1>4, <1>6, <1>7 DEF Conclude
  <2>. QED
    BY <1>3, <1>5, <1>6, <1>7, <2>1, FewerSelf DEF Same
<1>8. /\ handler'[j] = IF caller = "handler" THEN "done" ELSE handler[j]
      /\ runner'[j] = IF caller = "runner" THEN "done" ELSE runner[j]
      /\ discarding'[j] = discarding[j] \ {caller} /\ files'[j] = left
  BY <1>3, <1>6
<1>9. /\ job'[j].status = IF caller = "runner" THEN Outcome(job[j].status) ELSE job[j].status
      /\ job'[j].finished <=> (caller = "runner" \/ job[j].finished)
      /\ job'[j].outputs = job[j].outputs /\ job'[j].nativeActive = job[j].nativeActive
      /\ job[j].deleteRequested \/ left # {} => job'[j].deleteRequested
  <2>1. CASE caller = "runner"
    BY <1>4, <1>6, <2>1 DEF Conclude, Fields
  <2>2. CASE caller # "runner"
    BY <1>4, <1>6, <2>2
  <2>. QED
    BY <2>1, <2>2
<1>10. /\ handler[j] \in {"unmake", "discard", "done"} /\ (caller # "handler" => handler[j] # "unmake")
       /\ runner[j] \in {"none", "done", "discard"} /\ (runner[j] = "discard" <=> caller = "runner")
       /\ job[j].deleteRequested \/ ~job[j].outputs
       /\ ~(readers[j] > 0) /\ ~In(loop, <<"poll", j>>) /\ (caller = "runner" => ~In(loop, <<"io", j>>))
       /\ ~In(queue, j) /\ running # j /\ ~job[j].nativeActive /\ history[j] = "none"
       /\ io[j] \intersect {"mkdir", "input", "results", "clear"} = {}
       /\ (caller = "runner" => job[j].deleteRequested)
  <2>1. /\ handler[j] \in {"unmake", "discard", "done"} /\ (caller # "handler" => handler[j] # "unmake")
        /\ runner[j] \in {"none", "done", "discard"} /\ (runner[j] = "discard" <=> caller = "runner")
        /\ runner[j] = "none" \/ job[j].deleteRequested
    BY <1>1 DEF JobInv, Removing
  <2>2. /\ job[j].deleteRequested \/ ~job[j].outputs
        /\ ~job[j].nativeActive /\ history[j] = "none" /\ ~In(queue, j) /\ running # j
        /\ io[j] \intersect {"mkdir", "input", "results", "clear"} = {}
    BY <1>1, <2>1 DEF JobInv, Running, Uploading
  <2>3. ~In(loop, <<"poll", j>>) /\ (caller = "runner" => ~In(loop, <<"io", j>>))
    BY <1>1, <2>1 DEF JobInv, Scheduled
  <2>4. ~(readers[j] > 0)
    BY <1>1 DEF JobInv, Holding
  <2>. QED
    BY <2>1, <2>2, <2>3, <2>4
<1>11. Uploading(j)' /\ Running(j)'
  <2>1. Uploading(j)'
    BY <1>1, <1>5, <1>8, <1>10 DEF JobInv, Uploading
  <2>2. Running(j)'
    BY <1>1, <1>5, <1>8, <1>9, <1>10 DEF JobInv, Running, Outcome
  <2>. QED
    BY <2>1, <2>2
<1>12. Starting(j)' /\ Scheduled(j)'
  BY <1>1, <1>5, <1>8, <1>10 DEF JobInv, Starting, Scheduled
<1>13. Removing(j)'
  BY <1>1, <1>8, <1>9, <1>10 DEF JobInv, Removing
<1>14. Holding(j)'
  <2>1. j \notin jobs' => left = {}
    BY <1>1, <1>3, <1>5 DEF JobInv, Holding
  <2>2. j \notin jobs' => ~Receiving(j)' /\ runner'[j] \in {"none", "done"}
    BY <1>1, <1>5, <1>8, <1>10 DEF JobInv, Holding, Receiving
  <2>3. job'[j].outputs /\ ~job'[j].deleteRequested => FALSE
    BY <1>9, <1>10
  <2>4. ~job'[j].deleteRequested => left = {}
    BY <1>9
  <2>. QED
    BY <1>5, <1>8, <1>10, <2>1, <2>2, <2>3, <2>4 DEF Holding
<1>. QED
  BY <1>7, <1>11, <1>12, <1>13, <1>14, Untouched DEF JobInv, IInv

\* Whoever asks for a deletion: the upload or the prompt is stopped, or discard()
\* starts, unless a download is open.
LEMMA DeletedStep ==
  ASSUME IInv, NEW j \in requests, NEW c \in {"client", "reader", "sweeper", "close"},
         DeleteCall(j, c), \A i \in Ids : i # j => job'[i] = job[i] /\ readers'[i] = readers[i],
         /\ job'[j].deleteRequested /\ job'[j].status = job[j].status
         /\ job'[j].outputs = job[j].outputs /\ job'[j].finished = job[j].finished
         /\ job'[j].nativeActive = job[j].nativeActive,
         readers'[j] \in Nat, readers'[j] > 0 => readers[j] > 0,
         UNCHANGED <<requests, jobs, handler, runner, io, files, loop, running, history, starts>>
  PROVE  \A i \in Ids : JobInv(i)'
<1>. /\ handler \in [Ids -> HandlerPlaces] /\ runner \in [Ids -> RunnerPlaces] /\ queue \in Seq(Ids)
     /\ discarding \in [Ids -> SUBSET Callers] /\ j \in Ids
  BY DEF IInv, TypeOK
<1>1. JobInv(j)
  BY DEF IInv
<1>2. /\ \A i \in Ids : i # j => discarding'[i] = discarding[i]
      /\ \/ discarding'[j] = discarding[j]
         \/ /\ discarding'[j] = discarding[j] \union {c} /\ ~(readers'[j] > 0)
            /\ ~Receiving(j) /\ ~Working(j)
      /\ \A i \in Ids : Fewer(queue, queue', i)
  <2>1. CASE Receiving(j) \/ Working(j)
    <3>1. discarding' = discarding /\ (queue' = queue \/ queue' = Without(queue, j))
      BY <2>1 DEF DeleteCall, Interrupt
    <3>. QED
      BY <3>1, QueueWithout, FewerSelf
  <2>2. CASE ~Receiving(j) /\ ~Working(j)
    <3>1. /\ discarding' = IF readers'[j] > 0 THEN discarding ELSE [discarding EXCEPT ![j] = @ \union {c}]
          /\ queue' = queue
      BY <2>2 DEF DeleteCall, Pinned
    <3>. QED
      BY <2>2, <3>1, FewerSelf
  <2>. QED
    BY <2>1, <2>2
<1>3. ASSUME NEW i \in Ids, i # j
      PROVE  Same(i)
  BY <1>2, <1>3, FewerSelf DEF Same
<1>4. Uploading(j)'
  BY <1>1 DEF JobInv, Uploading
<1>5. Running(j)'
  BY <1>1, <1>2 DEF JobInv, Running, Fewer
<1>6. Starting(j)'
  BY <1>1, <1>2 DEF JobInv, Starting, Fewer
<1>7. Scheduled(j)'
  BY <1>1, <1>2 DEF JobInv, Scheduled
<1>8. handler[j] # "none"
  BY <1>1 DEF JobInv, Uploading
<1>9. Removing(j)'
  <2>1. ~Receiving(j) => handler[j] \in {"discard", "done"}
    BY <1>8 DEF Receiving, HandlerPlaces
  <2>2. ~Working(j) => runner[j] \in {"none", "done"}
    BY DEF Working
  <2>. QED
    BY <1>1, <1>2, <2>1, <2>2 DEF JobInv, Removing
<1>10. Holding(j)'
  BY <1>1, <1>2 DEF JobInv, Holding, Receiving
<1>. QED
  BY <1>3, <1>4, <1>5, <1>6, <1>7, <1>9, <1>10, Untouched DEF JobInv, IInv

LEMMA MarkedJob ==
  ASSUME IInv, NEW j \in Ids, MarkDeleted(j)
  PROVE  /\ \A i \in Ids : i # j => job'[i] = job[i]
         /\ job'[j].deleteRequested /\ job'[j].status = job[j].status
         /\ job'[j].outputs = job[j].outputs /\ job'[j].finished = job[j].finished
         /\ job'[j].nativeActive = job[j].nativeActive
<1>. job \in [Ids -> Fields]
  BY DEF IInv, TypeOK
<1>1. job'[j] = [job[j] EXCEPT !.deleteRequested = TRUE] /\ \A i \in Ids : i # j => job'[i] = job[i]
  BY DEF MarkDeleted
<1>. QED
  BY <1>1 DEF Fields

LEMMA DeletionStep ==
  ASSUME IInv, NEW j \in Ids,
         Delete(j) \/ ReaderClose(j) \/ CloseDelete(j) \/ (SweepVisit(j) /\ Due(j))
  PROVE  \A i \in Ids : JobInv(i)'
<1>. /\ readers \in [Ids -> Nat] /\ job \in [Ids -> Fields]
  BY DEF IInv, TypeOK
<1>1. j \in requests
  <2>1. jobs \subseteq requests /\ sweep \subseteq requests /\ closeTodo \subseteq requests
    BY DEF IInv, Identities
  <2>2. ReaderClose(j) => j \in jobs
    BY DEF IInv, JobInv, Holding, ReaderClose
  <2>. QED
    BY <2>1, <2>2 DEF Delete, SweepVisit, CloseDelete
<1>2. CASE Delete(j)
  <2>1. MarkDeleted(j) /\ DeleteCall(j, "client")
        /\ UNCHANGED <<readers, requests, jobs, handler, runner, io, files, loop, running, history, starts>>
    BY <1>2 DEF Delete, serverVars, diskVars
  <2>. QED
    BY <1>1, <2>1, MarkedJob, DeletedStep
<1>3. CASE CloseDelete(j)
  <2>1. MarkDeleted(j) /\ DeleteCall(j, "close")
        /\ UNCHANGED <<readers, requests, jobs, handler, runner, io, files, loop, running, history, starts>>
    BY <1>3 DEF CloseDelete, serverVars, diskVars
  <2>. QED
    BY <1>1, <2>1, MarkedJob, DeletedStep
<1>4. CASE SweepVisit(j) /\ Due(j)
  <2>1. MarkDeleted(j) /\ DeleteCall(j, "sweeper")
        /\ UNCHANGED <<readers, requests, jobs, handler, runner, io, files, loop, running, history, starts>>
    BY <1>4 DEF SweepVisit, serverVars
  <2>. QED
    BY <1>1, <2>1, MarkedJob, DeletedStep
<1>5. CASE ReaderClose(j)
  <2>1. /\ readers[j] > 0 /\ readers' = [readers EXCEPT ![j] = @ - 1]
        /\ UNCHANGED <<job, requests, jobs, handler, runner, io, files, loop, running, history, starts>>
    BY <1>5 DEF ReaderClose, serverVars, diskVars
  <2>2. /\ readers'[j] \in Nat /\ (readers'[j] > 0 => readers[j] > 0)
        /\ \A i \in Ids : i # j => readers'[i] = readers[i]
    BY <2>1
  <2>3. CASE job[j].deleteRequested
    <3>1. DeleteCall(j, "reader")
      BY <1>5, <2>3 DEF ReaderClose
    <3>. QED
      BY <1>1, <2>1, <2>2, <2>3, <3>1, DeletedStep
  <2>4. CASE ~job[j].deleteRequested
    <3>1. UNCHANGED <<queue, discarding>>
      BY <1>5, <2>4 DEF ReaderClose
    <3>2. ASSUME NEW i \in Ids, i # j
          PROVE  Same(i)
      BY <2>1, <2>2, <3>1, <3>2, FewerSelf DEF Same
    <3>3. JobInv(j)
      BY DEF IInv
    <3>4. Uploading(j)' /\ Running(j)'
      BY <2>1, <3>1, <3>3 DEF JobInv, Uploading, Running
    <3>5. Starting(j)' /\ Scheduled(j)'
      BY <2>1, <3>1, <3>3 DEF JobInv, Starting, Scheduled
    <3>6. Removing(j)' /\ Holding(j)'
      BY <2>1, <3>1, <3>3 DEF JobInv, Removing, Holding, Receiving
    <3>. QED
      BY <3>2, <3>4, <3>5, <3>6, Untouched DEF JobInv, IInv
  <2>. QED
    BY <2>3, <2>4
<1>. QED
  BY <1>2, <1>3, <1>4, <1>5

LEMMA LeaseStep ==
  ASSUME IInv, NEW j \in Ids, ReaderOpen(j) \/ Expire(j)
  PROVE  \A i \in Ids : JobInv(i)'
<1>. /\ readers \in [Ids -> Nat] /\ job \in [Ids -> Fields]
  BY DEF IInv, TypeOK
<1>0. JobInv(j)
  BY DEF IInv
<1>1. CASE ReaderOpen(j)
  <2>1. /\ readers' = [readers EXCEPT ![j] = @ + 1] /\ j \in jobs
        /\ job[j].status = "succeeded" /\ ~job[j].deleteRequested /\ job[j].outputs
        /\ UNCHANGED <<requests, jobs, job, handler, runner, io, files, discarding, loop, queue, running, history, starts>>
    BY <1>1 DEF ReaderOpen, Downloadable, serverVars, handlerVars, diskVars, nativeVars
  <2>2. ASSUME NEW i \in Ids, i # j
        PROVE  Same(i)
    BY <2>1, <2>2, FewerSelf DEF Same
  <2>3. discarding[j] = {} /\ "outputs" \in files[j]
    BY <1>0, <2>1 DEF JobInv, Running, Removing, Holding
  <2>4. Uploading(j)' /\ Running(j)'
    BY <1>0, <2>1 DEF JobInv, Uploading, Running
  <2>5. Starting(j)' /\ Scheduled(j)'
    BY <1>0, <2>1 DEF JobInv, Starting, Scheduled
  <2>6. Removing(j)' /\ Holding(j)'
    BY <1>0, <2>1, <2>3 DEF JobInv, Removing, Holding, Receiving
  <2>. QED
    BY <2>2, <2>4, <2>5, <2>6, Untouched DEF JobInv, IInv
<1>2. CASE Expire(j)
  <2>1. /\ job' = [job EXCEPT ![j].expires = "passed"]
        /\ UNCHANGED <<requests, jobs, readers, handler, runner, io, files, discarding, loop, queue, running, history, starts>>
    BY <1>2 DEF Expire, serverVars, handlerVars, diskVars, nativeVars
  <2>2. ASSUME NEW i \in Ids, i # j
        PROVE  Same(i)
    BY <2>1, <2>2, FewerSelf DEF Same
  <2>3. /\ job'[j].deleteRequested = job[j].deleteRequested /\ job'[j].status = job[j].status
        /\ job'[j].outputs = job[j].outputs /\ job'[j].finished = job[j].finished
        /\ job'[j].nativeActive = job[j].nativeActive /\ job'[j].cleanupError = job[j].cleanupError
    <3>1. job'[j] = [job[j] EXCEPT !.expires = "passed"]
      BY <2>1
    <3>. QED
      BY <3>1 DEF Fields
  <2>4. Uploading(j)' /\ Running(j)'
    BY <1>0, <2>1, <2>3 DEF JobInv, Uploading, Running
  <2>5. Starting(j)' /\ Scheduled(j)'
    BY <1>0, <2>1 DEF JobInv, Starting, Scheduled
  <2>6. Removing(j)' /\ Holding(j)'
    BY <1>0, <2>1, <2>3 DEF JobInv, Removing, Holding, Receiving
  <2>. QED
    BY <2>2, <2>4, <2>5, <2>6, Untouched DEF JobInv, IInv
<1>. QED
  BY <1>1, <1>2

LEMMA SweepStep ==
  ASSUME IInv, NEW j \in Ids, SweepCleared(j) \/ (SweepVisit(j) /\ ~Due(j))
  PROVE  \A i \in Ids : JobInv(i)'
<1>. /\ job \in [Ids -> Fields] /\ io \in [Ids -> SUBSET Operations] /\ files \in [Ids -> SUBSET Parts]
  BY DEF IInv, TypeOK
<1>0. JobInv(j)
  BY DEF IInv
<1>1. CASE SweepVisit(j) /\ ~Due(j)
  <2>1. /\ io' = io \/ io' = [io EXCEPT ![j] = @ \union {"sweep"}]
        /\ UNCHANGED <<requests, jobs, job, readers, handler, runner, files, discarding, loop, queue, running, history, starts>>
    BY <1>1 DEF SweepVisit, serverVars
  <2>2. ASSUME NEW i \in Ids, i # j
        PROVE  Same(i)
    BY <2>1, <2>2, FewerSelf DEF Same
  <2>3. io'[j] \ {"sweep"} = io[j] \ {"sweep"}
    BY <2>1
  <2>4. Uploading(j)' /\ Running(j)'
    BY <1>0, <2>1, <2>3 DEF JobInv, Uploading, Running
  <2>5. Starting(j)' /\ Scheduled(j)'
    BY <1>0, <2>1, <2>3 DEF JobInv, Starting, Scheduled
  <2>6. Removing(j)' /\ Holding(j)'
    BY <1>0, <2>1 DEF JobInv, Removing, Holding, Receiving
  <2>. QED
    BY <2>2, <2>4, <2>5, <2>6, Untouched DEF JobInv, IInv
<1>2. CASE SweepCleared(j)
  <2>1. /\ io' = [io EXCEPT ![j] = @ \ {"sweep"}]
        /\ UNCHANGED <<requests, jobs, readers, handler, runner, discarding, loop, queue, running, history, starts>>
    BY <1>2 DEF SweepCleared, serverVars, handlerVars, nativeVars
  <2>2. PICK left \in SUBSET Parts :
          /\ files' = [files EXCEPT ![j] = left]
          /\ Cleared(files[j], job[j].status) \subseteq left /\ left \subseteq files[j]
          /\ \/ left = Cleared(files[j], job[j].status) \/ job' = [job EXCEPT ![j].cleanupError = TRUE]
    <3>0. files[j] \in SUBSET Parts
      OBVIOUS
    <3>1. /\ Cleared(files[j], job[j].status) \in SUBSET Parts
          /\ Cleared(files[j], job[j].status) \subseteq files[j]
          /\ \A left \in Leftovers(files[j]) : left \in SUBSET Parts /\ left \subseteq files[j]
      BY <3>0, ClearedFiles
    <3>2. CASE files' = [files EXCEPT ![j] = Cleared(@, job[j].status)]
      BY <3>1, <3>2
    <3>3. CASE /\ \E left \in Leftovers(files[j]) :
                    /\ Cleared(files[j], job[j].status) \subseteq left
                    /\ files' = [files EXCEPT ![j] = left]
               /\ job' = [job EXCEPT ![j].cleanupError = TRUE]
      BY <3>1, <3>3
    <3>. QED
      BY <1>2, <3>2, <3>3 DEF SweepCleared
  <2>3. \/ job' = job
        \/ job' = [job EXCEPT ![j].cleanupError = FALSE]
        \/ job' = [job EXCEPT ![j].cleanupError = TRUE]
    BY <1>2 DEF SweepCleared
  <2>4. \A i \in Ids : i # j => job'[i] = job[i]
    BY <2>3
  <2>5. /\ job'[j].deleteRequested = job[j].deleteRequested /\ job'[j].status = job[j].status
        /\ job'[j].outputs = job[j].outputs /\ job'[j].finished = job[j].finished
        /\ job'[j].nativeActive = job[j].nativeActive
        /\ job'[j].cleanupError \/ left = Cleared(files[j], job[j].status)
    <3>1. \/ job'[j] = job[j] \/ job'[j] = [job[j] EXCEPT !.cleanupError = FALSE]
          \/ job'[j] = [job[j] EXCEPT !.cleanupError = TRUE]
      BY <2>3
    <3>2. /\ job'[j].deleteRequested = job[j].deleteRequested /\ job'[j].status = job[j].status
          /\ job'[j].outputs = job[j].outputs /\ job'[j].finished = job[j].finished
          /\ job'[j].nativeActive = job[j].nativeActive
      BY <3>1 DEF Fields
    <3>3. job' = [job EXCEPT ![j].cleanupError = TRUE] => job'[j].cleanupError
      BY DEF Fields
    <3>. QED
      BY <2>2, <3>2, <3>3
  <2>6. ASSUME NEW i \in Ids, i # j
        PROVE  Same(i)
    BY <2>1, <2>2, <2>4, <2>6, FewerSelf DEF Same
  <2>7. io'[j] = io[j] \ {"sweep"} /\ files'[j] = left
    BY <2>1, <2>2
  <2>8. Uploading(j)' /\ Running(j)'
    BY <1>0, <2>1, <2>5, <2>7 DEF JobInv, Uploading, Running
  <2>9. Starting(j)' /\ Scheduled(j)'
    BY <1>0, <2>1, <2>7 DEF JobInv, Starting, Scheduled
  <2>10. Removing(j)'
    BY <1>0, <2>1, <2>5 DEF JobInv, Removing
  <2>11. Holding(j)'
    <3>0. files[j] \in SUBSET Parts
      OBVIOUS
    <3>1. job[j].status # "failed" /\ "outputs" \in files[j] => "outputs" \in left
      BY <2>2, <3>0, ClearedFiles
    <3>2. left = Cleared(files[j], job[j].status) => "inputs" \notin left /\ (job[j].status = "failed" => left = {})
      BY <3>0, ClearedFiles
    <3>3. job[j].outputs => job[j].status # "failed"
      BY <1>0 DEF JobInv, Running
    <3>. QED
      BY <1>0, <2>1, <2>2, <2>5, <2>7, <3>1, <3>2, <3>3 DEF JobInv, Holding, Receiving
  <2>. QED
    BY <2>6, <2>8, <2>9, <2>10, <2>11, Untouched DEF JobInv, IInv
<1>. QED
  BY <1>1, <1>2

-----------------------------------------------------------------------------
(* The invariant holds.                                                     *)

LEMMA IdentitiesStep ==
  ASSUME TypeOK, Identities, [Next]_vars
  PROVE  Identities'
<1>. jobs \subseteq requests /\ sweep \subseteq requests /\ closeTodo \subseteq requests
  BY DEF Identities
<1>1. ASSUME NEW j \in Ids, Submit(j)
      PROVE  Identities'
  BY <1>1 DEF Submit, Identities, sweepVars
<1>2. ASSUME NEW j \in Ids,
             HandlerIoDone(j) \/ ReceiveChunk(j) \/ Uploaded(j) \/ Launch(j) \/ HandlerFails(j) \/ HandlerCancelled(j)
      PROVE  Identities'
  BY <1>2 DEF HandlerIoDone, ReceiveChunk, Uploaded, Launch, HandlerFails, HandlerCancelled, Identities,
              serverVars, sweepVars
<1>3. ASSUME WorkerTake \/ WorkerStart \/ \E o \in {"success", "error"} : WorkerDone(o)
      PROVE  Identities'
  BY <1>3 DEF WorkerTake, WorkerStart, WorkerDone, Identities, serverVars, sweepVars
<1>4. ASSUME NEW j \in Ids,
             RunnerWake(j) \/ LoopEvent(j) \/ LoopPoll(j) \/ LoopIo(j) \/ ResultsDone(j) \/ ClearWork(j) \/ ClearDone(j)
      PROVE  Identities'
  BY <1>4 DEF RunnerWake, LoopEvent, LoopPoll, LoopIo, ResultsDone, ClearWork, ClearDone, Identities,
              serverVars, sweepVars
<1>5. ASSUME NEW j \in Ids, NEW c \in Callers, DiscardDone(j, c) \/ DiscardFailed(j, c)
      PROVE  Identities'
  BY <1>5 DEF DiscardDone, DiscardFailed, Identities, serverVars, sweepVars
<1>6. ASSUME NEW j \in Ids, NativeDrop(j) \/ Delete(j) \/ ReaderOpen(j) \/ ReaderClose(j) \/ Expire(j)
      PROVE  Identities'
  BY <1>6 DEF NativeDrop, Delete, ReaderOpen, ReaderClose, Expire, Identities, serverVars, sweepVars
<1>7. ASSUME NEW j \in Ids, SweepVisit(j) \/ SweepCleared(j) \/ CloseDelete(j)
      PROVE  Identities'
  BY <1>7 DEF SweepVisit, SweepCleared, CloseDelete, Identities, serverVars
<1>8. CASE SweepStart \/ CloseStart \/ CloseStopped \/ CloseWait \/ CloseEnd
  BY <1>8 DEF SweepStart, CloseStart, CloseStopped, CloseWait, CloseEnd, Identities, serverVars
<1>9. CASE UNCHANGED vars
  BY <1>9 DEF vars, Identities
<1>. QED
  BY <1>1, <1>2, <1>3, <1>4, <1>5, <1>6, <1>7, <1>8, <1>9
  DEF Next, WorkerStep, LoopStep, HandlerStep, RunnerStep, DiscardStep, CloseStep

LEMMA JobStep ==
  ASSUME IInv, [Next]_vars
  PROVE  \A i \in Ids : JobInv(i)'
<1>1. CASE WorkerStep
  BY <1>1, WorkerStepInv
<1>2. ASSUME NEW j \in Ids, Submit(j) \/ ReceiveChunk(j) \/ Uploaded(j) \/ HandlerFails(j) \/ HandlerStep(j)
      PROVE  \A i \in Ids : JobInv(i)'
  BY <1>2, SubmitStep, ReceiveStep, UploadEnds DEF HandlerStep
<1>3. ASSUME NEW j \in Ids, RunnerStep(j) \/ LoopEvent(j) \/ LoopPoll(j) \/ LoopIo(j)
      PROVE  \A i \in Ids : JobInv(i)'
  BY <1>3, LoopStepInv, PollStep, ResultsStep, ClearStep, ConcludeStep DEF RunnerStep
<1>4. ASSUME NEW j \in Ids, DiscardStep(j)
      PROVE  \A i \in Ids : JobInv(i)'
  BY <1>4, DiscardStepInv DEF DiscardStep
<1>5. ASSUME NEW j \in Ids, \/ NativeDrop(j) \/ Delete(j) \/ ReaderOpen(j) \/ ReaderClose(j) \/ Expire(j)
                            \/ SweepVisit(j) \/ SweepCleared(j) \/ CloseDelete(j)
      PROVE  \A i \in Ids : JobInv(i)'
  BY <1>5, DropStep, DeletionStep, LeaseStep, SweepStep
<1>6. CASE \/ SweepStart \/ CloseStart \/ CloseStopped \/ CloseWait \/ CloseEnd \/ UNCHANGED vars
  <2>1. UNCHANGED <<requests, jobs, job, readers, handler, runner, io, files, discarding, loop, queue,
                    running, history, starts>>
    BY <1>6 DEF SweepStart, CloseStart, CloseStopped, CloseWait, CloseEnd, vars, serverVars, handlerVars,
                diskVars, nativeVars
  <2>2. \A i \in Ids : Same(i)
    BY <2>1, FewerSelf DEF Same
  <2>. QED
    BY <2>2, Untouched DEF IInv
<1>. QED
  BY <1>1, <1>2, <1>3, <1>4, <1>5, <1>6 DEF Next, LoopStep, CloseStep

LEMMA InitHolds ==
  ASSUME Init
  PROVE  IInv
<1>1. NewJob \in Fields
  BY DEF NewJob, Fields, Statuses
<1>2. TypeOK
  <2>1. loop \in Seq(Callbacks) /\ queue \in Seq(Ids)
    BY DEF Init
  <2>2. /\ job \in [Ids -> Fields] /\ readers \in [Ids -> Nat]
        /\ cancelled \in [Ids -> BOOLEAN] /\ starts \in [Ids -> Nat]
    BY <1>1 DEF Init
  <2>3. /\ handler \in [Ids -> HandlerPlaces] /\ runner \in [Ids -> RunnerPlaces]
        /\ history \in [Ids -> {"none", "success", "error"}]
    BY DEF Init, HandlerPlaces, RunnerPlaces
  <2>4. /\ io \in [Ids -> SUBSET Operations] /\ files \in [Ids -> SUBSET Parts]
        /\ discarding \in [Ids -> SUBSET Callers]
    BY DEF Init
  <2>5. /\ requests \subseteq Ids /\ jobs \subseteq Ids /\ foreign \subseteq Ids
        /\ running \in Ids \cup {NoJob} /\ stage \in {"idle", "taken", "started"}
        /\ interrupted \in BOOLEAN /\ sweep \subseteq Ids /\ closing \in Closing
        /\ closeTodo \subseteq Ids /\ closePending \subseteq Ids /\ faults \in Nat
    BY DEF Init, Closing
  <2>. QED
    BY <2>1, <2>2, <2>3, <2>4, <2>5 DEF TypeOK
<1>3. Identities
  BY DEF Init, Identities
<1>4. \A j \in Ids : JobInv(j)
  <2>. SUFFICES ASSUME NEW j \in Ids PROVE JobInv(j)
    OBVIOUS
  <2>1. \A e : ~In(<<>>, e) /\ Once(<<>>, e)
    BY DEF In, Once
  <2>2. Uploading(j) /\ Running(j)
    BY <2>1, JobApiAssumption DEF Init, NewJob, Uploading, Running
  <2>3. Starting(j) /\ Scheduled(j)
    BY <2>1, JobApiAssumption DEF Init, Starting, Scheduled
  <2>4. Removing(j) /\ Holding(j)
    BY DEF Init, NewJob, Removing, Holding, Receiving
  <2>. QED
    BY <2>2, <2>3, <2>4 DEF JobInv
<1>. QED
  BY <1>2, <1>3, <1>4 DEF IInv

LEMMA InvStep ==
  ASSUME IInv, [Next]_vars
  PROVE  IInv'
<1>1. TypeOK'
  <2>1. TypeOK /\ Identities /\ \A j \in Ids : Scheduled(j)
    BY DEF IInv, JobInv
  <2>. QED
    BY <2>1, TypeStep
<1>2. Identities'
  BY IdentitiesStep DEF IInv
<1>. QED
  BY <1>1, <1>2, JobStep DEF IInv

LEMMA Invariant == Spec => []IInv
BY InitHolds, InvStep, PTL DEF Spec

-----------------------------------------------------------------------------
(* Theorems.                                                                *)

\* Every variable of the job API keeps its type.
THEOREM TypeCorrect == Spec => []TypeOK
<1>1. IInv => TypeOK
  BY DEF IInv
<1>. QED
  BY <1>1, Invariant, PTL

\* The native worker takes a request identity at most once per process.
THEOREM TakenOnce == Spec => []StartedOnce
<1>1. IInv => StartedOnce
  BY DEF IInv, JobInv, Starting, StartedOnce
<1>. QED
  BY <1>1, Invariant, PTL

\* Nothing uses the directory of a job that discard() is removing.
THEOREM RemovalIsExclusive == Spec => []RemovalExcludesUse
<1>1. IInv => RemovalExcludesUse
  <2>. SUFFICES ASSUME IInv, NEW j \in Ids, discarding[j] # {}
                PROVE  io[j] \subseteq {"sweep"} /\ ~InNative(j) /\ readers[j] = 0
    BY DEF RemovalExcludesUse
  <2>1. JobInv(j) /\ io[j] \subseteq Operations /\ readers[j] \in Nat
    BY DEF IInv, TypeOK
  <2>2. handler[j] \in {"unmake", "discard", "done"} /\ runner[j] \in {"none", "done", "discard"}
    BY <2>1 DEF JobInv, Removing
  <2>3. io[j] \subseteq {"sweep"}
    BY <2>1, <2>2 DEF JobInv, Uploading, Running, Operations, HandlerIo
  <2>4. ~InNative(j)
    BY <2>1, <2>2 DEF JobInv, Running, InNative, Queued, In
  <2>5. readers[j] = 0
    BY <2>1 DEF JobInv, Holding
  <2>. QED
    BY <2>3, <2>4, <2>5
<1>. QED
  BY <1>1, Invariant, PTL

\* A job that has left Jobs.jobs leaves no file, prompt, record or coroutine.
THEOREM GoneIsGone == Spec => []GoneLeavesNothing
<1>1. IInv => GoneLeavesNothing
  <2>. SUFFICES ASSUME IInv, NEW j \in requests \ jobs
                PROVE  /\ files[j] = {} /\ io[j] \subseteq {"sweep"} /\ ~InNative(j) /\ history[j] = "none"
                       /\ ~Receiving(j) /\ runner[j] \in {"none", "done"} /\ readers[j] = 0
    BY DEF GoneLeavesNothing
  <2>1. j \in Ids /\ JobInv(j) /\ io[j] \subseteq Operations /\ readers[j] \in Nat
    BY DEF IInv, TypeOK
  <2>2. files[j] = {} /\ ~Receiving(j) /\ runner[j] \in {"none", "done"} /\ readers[j] = 0
    BY <2>1 DEF JobInv, Holding
  <2>3. io[j] \subseteq {"sweep"}
    BY <2>1, <2>2 DEF JobInv, Uploading, Running, Receiving, Operations, HandlerIo
  <2>4. ~InNative(j) /\ history[j] = "none"
    BY <2>1, <2>2 DEF JobInv, Running, InNative, Queued, In
  <2>. QED
    BY <2>2, <2>3, <2>4
<1>. QED
  BY <1>1, Invariant, PTL

\* The outputs of an open download stay, whatever is deleted, swept or expires.
THEOREM LeasesHold == Spec => []LeaseHeld
<1>1. IInv => LeaseHeld
  BY DEF IInv, JobInv, Holding, LeaseHeld
<1>. QED
  BY <1>1, Invariant, PTL

\* Jobs.interrupt only ever stops a prompt whose own job is being deleted.
THEOREM InterruptsOnlyOwn == Spec => InterruptsOwn
<1>1. ASSUME IInv, [Next]_vars, interrupted', ~interrupted
      PROVE  running # NoJob /\ job'[running].deleteRequested
  <2>. job \in [Ids -> Fields] /\ interrupted \in BOOLEAN
    BY <1>1 DEF IInv, TypeOK
  <2>1. ASSUME NEW j \in Ids, NEW c \in Callers, DeleteCall(j, c)
        PROVE  running = j
    BY <1>1, <2>1 DEF DeleteCall, Interrupt
  <2>2. ASSUME NEW j \in Ids, Delete(j) \/ CloseDelete(j) \/ SweepVisit(j)
        PROVE  running = j /\ job'[j].deleteRequested
    <3>1. CASE interrupted' = interrupted
      BY <1>1, <3>1
    <3>2. CASE ~(interrupted' = interrupted)
      <4>1. MarkDeleted(j) /\ \E c \in Callers : DeleteCall(j, c)
        BY <2>2, <3>2 DEF Delete, CloseDelete, SweepVisit, Callers
      <4>. QED
        BY <1>1, <2>1, <4>1, MarkedJob
    <3>. QED
      BY <3>1, <3>2
  <2>3. ASSUME NEW j \in Ids, ReaderClose(j)
        PROVE  running = j /\ job'[j].deleteRequested
    <3>1. job[j].deleteRequested /\ DeleteCall(j, "reader") /\ job' = job
      BY <1>1, <2>3 DEF ReaderClose
    <3>. QED
      BY <2>1, <3>1 DEF Callers
  <2>4. \E j \in Ids : Delete(j) \/ CloseDelete(j) \/ SweepVisit(j) \/ ReaderClose(j)
    <3>1. CASE WorkerStep
      BY <1>1, <3>1 DEF WorkerStep, WorkerTake, WorkerStart, WorkerDone
    <3>2. ASSUME NEW j \in Ids,
                 \/ Submit(j) \/ ReceiveChunk(j) \/ Uploaded(j) \/ HandlerFails(j) \/ HandlerStep(j)
                 \/ NativeDrop(j) \/ ReaderOpen(j) \/ Expire(j) \/ SweepCleared(j)
          PROVE  FALSE
      BY <1>1, <3>2 DEF Submit, ReceiveChunk, Uploaded, HandlerFails, HandlerStep, HandlerIoDone, Launch,
                        HandlerCancelled, NativeDrop, ReaderOpen, Expire, SweepCleared, nativeVars
    <3>3. ASSUME NEW j \in Ids, RunnerStep(j) \/ LoopEvent(j) \/ LoopPoll(j) \/ LoopIo(j)
          PROVE  FALSE
      BY <1>1, <3>3 DEF RunnerStep, RunnerWake, ResultsDone, ClearWork, ClearDone, LoopEvent, LoopPoll, LoopIo,
                        nativeVars
    <3>4. ASSUME NEW j \in Ids, DiscardStep(j)
          PROVE  FALSE
      BY <1>1, <3>4 DEF DiscardStep, DiscardDone, DiscardFailed, nativeVars
    <3>5. CASE SweepStart \/ CloseStart \/ CloseStopped \/ CloseWait \/ CloseEnd \/ UNCHANGED vars
      BY <1>1, <3>5 DEF SweepStart, CloseStart, CloseStopped, CloseWait, CloseEnd, nativeVars, vars
    <3>. QED
      BY <1>1, <3>1, <3>2, <3>3, <3>4, <3>5 DEF Next, LoopStep, CloseStep
  <2>. QED
    BY <2>2, <2>3, <2>4, JobApiAssumption
<1>2. IInv /\ [Next]_vars => [interrupted' /\ ~interrupted =>
                                running # NoJob /\ job'[running].deleteRequested]_vars
  BY <1>1
<1>. QED
  BY <1>2, Invariant, PTL DEF Spec, InterruptsOwn

-----------------------------------------------------------------------------
(* What a finished job holds.  Its status is what the thread of _clear_work *)
(* took for the outcome, because no event of the worker comes after it.     *)

Before(s, j) ==
  \A k, m \in 1..Len(s) : s[k] = <<"start", j>> /\ s[m] = <<"io", j>> => k < m

\* The worker's events are served before the runner's first thread begins.
Quiet(j) ==
  /\ Before(loop, j)
  /\ runner[j] \notin {"none", "poll", "sleep"} /\ ~In(loop, <<"io", j>>) =>
       ~In(loop, <<"start", j>>)

\* From the start of _finish on a job has results or an error, and not both.
Decided(j) ==
  /\ runner[j] \in {"none", "poll", "sleep", "results"} => ~job[j].error /\ "outputs" \notin files[j]
  /\ \/ runner[j] \in {"none", "poll", "sleep", "results"}
     \/ job[j].outputs \/ job[j].error \/ job[j].deleteRequested
  /\ job[j].outputs => ~job[j].error
  /\ "outputs" \in files[j] /\ ~job[j].outputs =>
       job[j].status = "failed" /\ ~In(loop, <<"start", j>>)
  /\ job[j].finished => job[j].status \in Terminal

Loading == {"receive", "write", "prepare", "validate"}

\* _clear_work removes the inputs, and after a failure everything.
Clean(j) ==
  IF job[j].status = "failed" THEN files[j] = {}
  ELSE "root" \in files[j] /\ "inputs" \notin files[j]

\* The directory is there until the outcome or a deletion lets it go.
Standing(j) ==
  /\ handler[j] \in Loading \/ runner[j] \in {"poll", "sleep", "results", "clear"} =>
       "root" \in files[j]
  /\ job[j].cleanupError => runner[j] = "done" \/ job[j].deleteRequested
  /\ "sweep" \in io[j] => runner[j] = "done"
  /\ runner[j] \in {"cleared", "uncleared", "done"} /\ ~job[j].deleteRequested =>
       "root" \in files[j] \/ job[j].status = "failed"
  /\ \/ runner[j] = "cleared"
     \/ runner[j] = "done" /\ ~job[j].deleteRequested /\ ~job[j].cleanupError
     => Clean(j)

Settling(j) == Quiet(j) /\ Decided(j) /\ Standing(j)

\* A step that changes the entries for j at most as the runner's order allows.
Ordered(s, t, j) ==
  /\ Before(s, j) => Before(t, j)
  /\ In(t, <<"start", j>>) => In(s, <<"start", j>>)
  /\ In(s, <<"io", j>>) => In(t, <<"io", j>>)

\* Nothing that Settling says of j is disturbed.
Spared(j) ==
  /\ runner'[j] = runner[j] \/ {runner[j], runner'[j]} \subseteq {"poll", "sleep"}
  /\ files'[j] = files[j]
  /\ handler'[j] \in Loading => handler[j] \in Loading
  /\ job'[j].outputs = job[j].outputs /\ job'[j].error = job[j].error
  /\ job'[j].finished = job[j].finished /\ job'[j].cleanupError = job[j].cleanupError
  /\ job[j].deleteRequested => job'[j].deleteRequested
  /\ job'[j].status = job[j].status \/ runner[j] = "none"
  /\ "sweep" \in io'[j] => "sweep" \in io[j]
  /\ Ordered(loop, loop', j)

LEMMA SparedStays ==
  ASSUME NEW j \in Ids, Settling(j), Spared(j), Running(j)
  PROVE  Settling(j)'
<1>1. Quiet(j)'
  BY DEF Settling, Quiet, Spared, Ordered
<1>2. Decided(j)'
  BY DEF Settling, Decided, Spared, Ordered, Running
<1>3. Standing(j)'
  BY DEF Settling, Standing, Clean, Spared, Running
<1>. QED
  BY <1>1, <1>2, <1>3 DEF Settling

LEMMA OrderedSelf ==
  ASSUME NEW s, NEW j
  PROVE  Ordered(s, s, j)
  BY DEF Ordered

LEMMA AppendOrdered ==
  ASSUME NEW S, NEW s \in Seq(S), NEW x \in S, NEW j
  PROVE  /\ x # <<"start", j>> /\ x # <<"io", j>> => Ordered(s, Append(s, x), j)
         /\ x = <<"io", j>> => Ordered(s, Append(s, x), j)
         /\ x = <<"start", j>> /\ ~In(s, <<"io", j>>) => Before(Append(s, x), j)
<1>1. /\ Append(s, x) \in Seq(S) /\ Len(Append(s, x)) = Len(s) + 1 /\ Len(s) \in Nat
      /\ \A k \in 1..Len(s) : Append(s, x)[k] = s[k]
      /\ Append(s, x)[Len(s) + 1] = x
  OBVIOUS
<1>2. \A k \in 1..(Len(s) + 1) : k = Len(s) + 1 \/ (k \in 1..Len(s) /\ k < Len(s) + 1)
  BY <1>1
<1>3. \A e : In(Append(s, x), e) <=> In(s, e) \/ e = x
  BY AppendIn
<1>4. <<"start", j>> # <<"io", j>>
  OBVIOUS
<1>5. Before(s, j) /\ x # <<"start", j>> => Before(Append(s, x), j)
  BY <1>1, <1>2 DEF Before
<1>6. x = <<"start", j>> /\ ~In(s, <<"io", j>>) => Before(Append(s, x), j)
  BY <1>1, <1>2, <1>4 DEF Before, In
<1>. QED
  BY <1>3, <1>4, <1>5, <1>6 DEF Ordered

LEMMA TailOrdered ==
  ASSUME NEW S, NEW s \in Seq(S), s # <<>>, NEW j
  PROVE  /\ Before(s, j) => Before(Tail(s), j)
         /\ In(Tail(s), <<"start", j>>) => In(s, <<"start", j>>)
         /\ Head(s) # <<"io", j>> => Ordered(s, Tail(s), j)
         /\ Before(s, j) /\ Head(s) = <<"io", j>> => ~In(Tail(s), <<"start", j>>)
<1>1. /\ Tail(s) \in Seq(S) /\ Head(s) \in S /\ Head(s) = s[1]
      /\ Len(s) \in Nat \ {0} /\ Len(Tail(s)) = Len(s) - 1
      /\ \A k \in 1..(Len(s) - 1) : Tail(s)[k] = s[k + 1]
  OBVIOUS
<1>2. 1 \in 1..Len(s) /\ \A k \in 1..(Len(s) - 1) : k + 1 \in 1..Len(s) /\ ~(k + 1 < 1)
  BY <1>1
<1>3. \A k, m \in 1..(Len(s) - 1) : k + 1 < m + 1 => k < m
  BY <1>1
<1>4. ASSUME Before(s, j)
      PROVE  Before(Tail(s), j)
  <2>. SUFFICES ASSUME NEW k \in 1..(Len(s) - 1), NEW m \in 1..(Len(s) - 1),
                       Tail(s)[k] = <<"start", j>>, Tail(s)[m] = <<"io", j>>
                PROVE  k < m
    BY <1>1 DEF Before
  <2>1. s[k + 1] = <<"start", j>> /\ s[m + 1] = <<"io", j>>
    BY <1>1
  <2>2. k + 1 < m + 1
    BY <1>2, <1>4, <2>1 DEF Before
  <2>. QED
    BY <1>3, <2>2
<1>5. In(Tail(s), <<"start", j>>) => In(s, <<"start", j>>)
  BY TailIn
<1>6. ASSUME Head(s) # <<"io", j>>, In(s, <<"io", j>>)
      PROVE  In(Tail(s), <<"io", j>>)
  <2>1. PICK k \in 1..Len(s) : s[k] = <<"io", j>>
    BY <1>6 DEF In
  <2>2. k # 1
    BY <1>1, <1>6, <2>1
  <2>3. k - 1 \in 1..(Len(s) - 1) /\ (k - 1) + 1 = k
    BY <1>1, <2>2
  <2>. QED
    BY <1>1, <2>1, <2>3 DEF In
<1>7. Before(s, j) /\ Head(s) = <<"io", j>> => ~In(Tail(s), <<"start", j>>)
  BY <1>1, <1>2 DEF Before, In
<1>. QED
  BY <1>4, <1>5, <1>6, <1>7 DEF Ordered

\* The loop is changed for the identity j only.
LEMMA OthersOrdered ==
  ASSUME loop \in Seq(Callbacks), NEW j \in Ids, NEW i \in Ids, i # j,
         \/ loop' = loop
         \/ \E k \in {"start", "poll", "io"} : loop' = Append(loop, <<k, j>>)
         \/ /\ loop # <<>> /\ \E k \in {"start", "poll", "io"} : Head(loop) = <<k, j>>
            /\ \/ loop' = Tail(loop)
               \/ \E k \in {"start", "poll", "io"} : loop' = Append(Tail(loop), <<k, j>>)
  PROVE  Ordered(loop, loop', i)
<1>1. \A k \in {"start", "poll", "io"} :
        <<k, j>> \in Callbacks /\ <<k, j>> # <<"start", i>> /\ <<k, j>> # <<"io", i>>
  BY DEF Callbacks
<1>. HIDE DEF Callbacks
<1>2. \A s \in Seq(Callbacks), k \in {"start", "poll", "io"} : Ordered(s, Append(s, <<k, j>>), i)
  BY <1>1, AppendOrdered
<1>3. loop # <<>> /\ (\E k \in {"start", "poll", "io"} : Head(loop) = <<k, j>>) =>
        Tail(loop) \in Seq(Callbacks) /\ Ordered(loop, Tail(loop), i)
  BY <1>1, TailIn, TailOrdered
<1>4. CASE loop' = loop
  BY <1>4, OrderedSelf
<1>5. CASE \E k \in {"start", "poll", "io"} : loop' = Append(loop, <<k, j>>)
  BY <1>2, <1>5
<1>6. CASE /\ loop # <<>> /\ \E k \in {"start", "poll", "io"} : Head(loop) = <<k, j>>
           /\ \/ loop' = Tail(loop)
              \/ \E k \in {"start", "poll", "io"} : loop' = Append(Tail(loop), <<k, j>>)
  <2>1. Tail(loop) \in Seq(Callbacks) /\ Ordered(loop, Tail(loop), i)
    BY <1>3, <1>6
  <2>2. loop' = Tail(loop) \/ Ordered(Tail(loop), loop', i)
    BY <1>2, <1>6, <2>1
  <2>. QED
    BY <2>1, <2>2 DEF Ordered
<1>. QED
  BY <1>4, <1>5, <1>6

LEMMA OthersSpared ==
  ASSUME IInv, NEW j \in Ids, NEW i \in Ids, i # j,
         \/ Submit(j) \/ HandlerIoDone(j) \/ HandlerFails(j) \/ Launch(j)
         \/ LoopEvent(j) \/ LoopPoll(j) \/ LoopIo(j) \/ RunnerStep(j)
         \/ DiscardStep(j) \/ SweepVisit(j) \/ SweepCleared(j)
  PROVE  Spared(i)
<1>. /\ job \in [Ids -> Fields] /\ handler \in [Ids -> HandlerPlaces] /\ runner \in [Ids -> RunnerPlaces]
     /\ io \in [Ids -> SUBSET Operations] /\ files \in [Ids -> SUBSET Parts] /\ loop \in Seq(Callbacks)
  BY DEF IInv, TypeOK
<1>1. /\ job'[i] = job[i] /\ runner'[i] = runner[i] /\ handler'[i] = handler[i]
      /\ files'[i] = files[i] /\ io'[i] = io[i]
  <2>1. CASE Submit(j) \/ HandlerIoDone(j) \/ HandlerFails(j) \/ Launch(j)
    BY <2>1 DEF Submit, HandlerIoDone, HandlerFails, Launch, EndHandler, serverVars, diskVars
  <2>2. CASE LoopEvent(j) \/ LoopIo(j) \/ RunnerWake(j)
    BY <2>2 DEF LoopEvent, LoopIo, RunnerWake, handlerVars, diskVars
  <2>3. CASE LoopPoll(j)
    BY <2>3 DEF LoopPoll, Finish, handlerVars, diskVars
  <2>4. CASE ResultsDone(j)
    BY <2>4 DEF ResultsDone, Finish, handlerVars
  <2>5. CASE ClearWork(j) \/ ClearDone(j)
    BY <2>5 DEF ClearWork, ClearDone, Conclude, handlerVars, diskVars
  <2>6. CASE DiscardStep(j)
    <3>1. PICK caller \in Callers, current \in [Ids -> Fields] :
            /\ current[i] = job[i] /\ AfterDiscard(j, caller, current)
            /\ files'[i] = files[i] /\ io' = io
      <4>1. PICK caller \in Callers : DiscardDone(j, caller) \/ DiscardFailed(j, caller)
        BY <2>6 DEF DiscardStep
      <4>2. [job EXCEPT ![j].deleteRequested = TRUE, ![j].cleanupError = TRUE] \in [Ids -> Fields]
        BY FieldTypes
      <4>3. [job EXCEPT ![j].deleteRequested = TRUE, ![j].cleanupError = TRUE][i] = job[i]
        OBVIOUS
      <4>. QED
        BY <4>1, <4>2, <4>3 DEF DiscardDone, DiscardFailed
    <3>. QED
      BY <3>1 DEF AfterDiscard, Conclude
  <2>7. CASE SweepVisit(j)
    BY <2>7 DEF SweepVisit, MarkDeleted, serverVars
  <2>8. CASE SweepCleared(j)
    BY <2>8 DEF SweepCleared, handlerVars
  <2>. QED
    BY <2>1, <2>2, <2>3, <2>4, <2>5, <2>6, <2>7, <2>8 DEF RunnerStep
<1>2. Ordered(loop, loop', i)
  <2>1. CASE \/ Submit(j) \/ HandlerIoDone(j) \/ HandlerFails(j) \/ ClearWork(j) \/ ClearDone(j)
             \/ DiscardStep(j) \/ SweepVisit(j) \/ SweepCleared(j)
    BY <2>1, OrderedSelf DEF Submit, HandlerIoDone, HandlerFails, ClearWork, ClearDone, DiscardStep,
                             DiscardDone, DiscardFailed, SweepVisit, SweepCleared
  <2>2. CASE Launch(j) \/ RunnerWake(j) \/ ResultsDone(j)
    <3>1. loop' = loop \/ \E k \in {"start", "poll", "io"} : loop' = Append(loop, <<k, j>>)
      BY <2>2 DEF Launch, RunnerWake, ResultsDone, Schedule, Finish
    <3>. QED
      BY <3>1, OthersOrdered
  <2>3. CASE LoopEvent(j) \/ LoopPoll(j) \/ LoopIo(j)
    <3>1. /\ loop # <<>> /\ \E k \in {"start", "poll", "io"} : Head(loop) = <<k, j>>
          /\ \/ loop' = Tail(loop)
             \/ \E k \in {"start", "poll", "io"} : loop' = Append(Tail(loop), <<k, j>>)
      <4>1. CASE LoopEvent(j) \/ LoopIo(j)
        BY <4>1 DEF LoopEvent, LoopIo
      <4>2. CASE LoopPoll(j)
        BY <4>2 DEF LoopPoll, Finish
      <4>. QED
        BY <2>3, <4>1, <4>2
    <3>. QED
      BY <3>1, OthersOrdered
  <2>. QED
    BY <2>1, <2>2, <2>3 DEF RunnerStep
<1>. QED
  BY <1>1, <1>2 DEF Spared

\* The upload, and the worker's start of a prompt.
LEMMA SettlingUpload ==
  ASSUME IInv, NEW j \in Ids, Settling(j),
         Submit(j) \/ HandlerIoDone(j) \/ HandlerFails(j) \/ Launch(j)
  PROVE  Settling(j)'
<1>. /\ job \in [Ids -> Fields] /\ handler \in [Ids -> HandlerPlaces] /\ runner \in [Ids -> RunnerPlaces]
     /\ io \in [Ids -> SUBSET Operations] /\ files \in [Ids -> SUBSET Parts] /\ loop \in Seq(Callbacks)
     /\ jobs \subseteq requests
  BY DEF IInv, TypeOK, Identities
<1>0. JobInv(j)
  BY DEF IInv
<1>1. runner[j] = "none" /\ ~job[j].finished /\ ~job[j].outputs
  BY <1>0 DEF JobInv, Uploading, Running, Submit, Unused, HandlerIoDone, HandlerThread, HandlerIo,
              HandlerFails, Launch
<1>2. /\ ~job[j].error /\ "outputs" \notin files[j] /\ "sweep" \notin io[j]
      /\ job[j].cleanupError => job[j].deleteRequested
  BY <1>1 DEF Settling, Decided, Standing
<1>3. CASE Submit(j)
  <2>1. /\ files' = files /\ runner' = runner /\ loop' = loop /\ job'[j] = NewJob /\ handler'[j] = "mkdir"
        /\ io'[j] = {"mkdir"}
    BY <1>3 DEF Submit
  <2>2. Quiet(j)' /\ Decided(j)'
    BY <1>1, <1>2, <2>1 DEF Settling, Quiet, Decided, NewJob
  <2>3. Standing(j)'
    BY <1>1, <2>1 DEF Standing, Loading, NewJob
  <2>. QED
    BY <2>2, <2>3 DEF Settling
<1>4. CASE HandlerIoDone(j)
  <2>1. /\ files'[j] = files[j] \union {"root", "inputs"} /\ job' = job /\ runner' = runner /\ loop' = loop
        /\ io'[j] \subseteq io[j]
    BY <1>4 DEF HandlerIoDone
  <2>2. Quiet(j)' /\ Decided(j)'
    BY <1>1, <1>2, <2>1 DEF Settling, Quiet, Decided
  <2>3. Standing(j)'
    BY <1>1, <1>2, <2>1 DEF Standing
  <2>. QED
    BY <2>2, <2>3 DEF Settling
<1>5. CASE HandlerFails(j)
  <2>1. /\ files'[j] \in {{}, {"root"}, files[j]} /\ job' = job /\ runner' = runner /\ loop' = loop
        /\ io'[j] \subseteq io[j] /\ handler'[j] \in {"unmake", "discard"}
    BY <1>5 DEF HandlerFails, EndHandler
  <2>2. Quiet(j)' /\ Decided(j)'
    BY <1>1, <1>2, <2>1 DEF Settling, Quiet, Decided
  <2>3. Standing(j)'
    BY <1>1, <1>2, <2>1 DEF Standing, Loading
  <2>. QED
    BY <2>2, <2>3 DEF Settling
<1>6. CASE Launch(j)
  <2>1. handler[j] = "validate" /\ "root" \in files[j]
    BY <1>6 DEF Launch, Settling, Standing, Loading
  <2>2. io' = io /\ files' = files /\ handler'[j] \in {"discard", "done"}
    BY <1>6, <2>1 DEF Launch, EndHandler, diskVars
  <2>3. /\ job'[j].error = job[j].error /\ job'[j].outputs = job[j].outputs /\ job'[j].finished = job[j].finished
        /\ job'[j].cleanupError = job[j].cleanupError /\ job'[j].deleteRequested = job[j].deleteRequested
    <3>1. \/ job' = job \/ job' = [job EXCEPT ![j].status = "queued"]
          \/ job' = [job EXCEPT ![j].status = "queued", ![j].nativeActive = TRUE]
      BY <1>6 DEF Launch
    <3>2. \/ job'[j] = job[j] \/ job'[j] = [job[j] EXCEPT !.status = "queued"]
          \/ job'[j] = [job[j] EXCEPT !.status = "queued", !.nativeActive = TRUE]
      BY <3>1
    <3>. QED
      BY <3>2 DEF Fields
  <2>4. runner'[j] \in {"none", "poll"} /\ (loop' = loop \/ loop' = Append(loop, <<"poll", j>>))
    BY <1>1, <1>6 DEF Launch, Schedule
  <2>5. Ordered(loop, loop', j)
    <3>1. <<"poll", j>> \in Callbacks /\ <<"poll", j>> # <<"start", j>> /\ <<"poll", j>> # <<"io", j>>
      BY DEF Callbacks
    <3>2. Ordered(loop, Append(loop, <<"poll", j>>), j)
      BY <3>1, AppendOrdered
    <3>. QED
      BY <2>4, <3>2, OrderedSelf
  <2>6. Quiet(j)' /\ Decided(j)'
    BY <1>1, <1>2, <2>2, <2>3, <2>4, <2>5 DEF Settling, Quiet, Decided, Ordered
  <2>7. Standing(j)'
    BY <1>2, <2>1, <2>2, <2>3, <2>4 DEF Standing, Loading
  <2>. QED
    BY <2>6, <2>7 DEF Settling
<1>. QED
  BY <1>3, <1>4, <1>5, <1>6

LEMMA SettlingStart ==
  ASSUME IInv, NEW i \in Ids, Settling(i), WorkerStart
  PROVE  Settling(i)'
<1>. loop \in Seq(Callbacks)
  BY DEF IInv, TypeOK
<1>0. JobInv(i) /\ UNCHANGED <<job, handler, runner, io, files>>
  BY DEF IInv, WorkerStart, handlerVars, diskVars
<1>1. CASE Ordered(loop, loop', i)
  BY <1>0, <1>1, SparedStays DEF Spared, JobInv
<1>2. CASE ~Ordered(loop, loop', i)
  <2>1. running = i /\ loop' = Append(loop, <<"start", i>>)
    <3>1. loop' # loop
      BY <1>2, OrderedSelf
    <3>2. running \in Ids /\ loop' = Append(loop, <<"start", running>>)
      BY <3>1 DEF WorkerStart, Schedule, IInv, TypeOK
    <3>. QED
      BY <1>2, <3>2, OthersOrdered
  <2>2. runner[i] \in {"poll", "sleep"} /\ ~In(loop, <<"io", i>>)
    BY <1>0, <2>1 DEF JobInv, Running, Scheduled
  <2>3. Before(loop', i)
    BY <2>1, <2>2, AppendOrdered DEF Callbacks
  <2>4. Quiet(i)' /\ Decided(i)'
    BY <1>0, <2>2, <2>3 DEF Settling, Quiet, Decided
  <2>5. Standing(i)'
    BY <1>0 DEF Settling, Standing, Clean
  <2>. QED
    BY <2>4, <2>5 DEF Settling
<1>. QED
  BY <1>1, <1>2

\* The runner up to its removal of files.
LEMMA SettlingLoop ==
  ASSUME IInv, NEW j \in Ids, Settling(j), LoopEvent(j) \/ LoopIo(j)
  PROVE  Settling(j)'
<1>. /\ job \in [Ids -> Fields] /\ io \in [Ids -> SUBSET Operations] /\ loop \in Seq(Callbacks)
  BY DEF IInv, TypeOK
<1>0. JobInv(j)
  BY DEF IInv
<1>1. CASE LoopEvent(j)
  <2>1. /\ loop # <<>> /\ Head(loop) = <<"start", j>> /\ loop' = Tail(loop)
        /\ UNCHANGED <<handler, runner, io, files>>
    BY <1>1 DEF LoopEvent, handlerVars, diskVars
  <2>2. Ordered(loop, loop', j) /\ In(loop, <<"start", j>>)
    <3>1. Head(loop) # <<"io", j>>
      BY <2>1
    <3>2. Ordered(loop, Tail(loop), j)
      BY <2>1, <3>1, TailOrdered
    <3>3. In(loop, Head(loop))
      BY <2>1, TailIn
    <3>. QED
      BY <2>1, <3>2, <3>3
  <2>3. runner[j] \in {"none", "poll", "sleep", "results", "clear", "discard"}
    BY <1>0, <2>2 DEF Settling, Quiet, JobInv, Scheduled
  <2>4. /\ job'[j].error = job[j].error /\ job'[j].outputs = job[j].outputs /\ job'[j].finished = job[j].finished
        /\ job'[j].cleanupError = job[j].cleanupError /\ job'[j].deleteRequested = job[j].deleteRequested
    <3>1. job' = job \/ job' = [job EXCEPT ![j].status = "running"]
      BY <1>1 DEF LoopEvent
    <3>2. job'[j] = job[j] \/ job'[j] = [job[j] EXCEPT !.status = "running"]
      BY <3>1
    <3>. QED
      BY <3>2 DEF Fields
  <2>5. Quiet(j)'
    BY <2>1, <2>2 DEF Settling, Quiet, Ordered
  <2>6. ~job[j].finished
    BY <1>0, <2>3 DEF JobInv, Running
  <2>7. Decided(j)'
    BY <2>1, <2>2, <2>4, <2>6 DEF Settling, Decided
  <2>8. Standing(j)'
    BY <2>1, <2>3, <2>4 DEF Settling, Standing
  <2>. QED
    BY <2>5, <2>7, <2>8 DEF Settling
<1>2. CASE LoopIo(j)
  <2>1. /\ loop # <<>> /\ Head(loop) = <<"io", j>> /\ loop' = Tail(loop)
        /\ UNCHANGED <<job, handler, runner, files>>
    BY <1>2 DEF LoopIo, handlerVars
  <2>2. /\ Before(loop', j) /\ ~In(loop', <<"start", j>>) /\ In(loop, <<"io", j>>)
    BY <2>1, TailIn, TailOrdered DEF Settling, Quiet
  <2>3. runner[j] \in {"results", "clear", "discard"}
    BY <1>0, <2>2 DEF JobInv, Scheduled
  <2>4. "sweep" \in io'[j] => "sweep" \in io[j]
    BY <1>2, <2>3 DEF LoopIo
  <2>5. Quiet(j)' /\ Decided(j)'
    BY <2>1, <2>2 DEF Settling, Quiet, Decided
  <2>6. Standing(j)'
    BY <2>1, <2>4 DEF Settling, Standing, Clean
  <2>. QED
    BY <2>5, <2>6 DEF Settling
<1>. QED
  BY <1>1, <1>2

\* _finish begins: there are results, an error or a request to delete.
LEMMA SettlingFinish ==
  ASSUME IInv, NEW j \in Ids, Settling(j), NEW current \in [Ids -> Fields], NEW s \in Seq(Callbacks),
         Finish(j, current, s), runner[j] \in {"poll", "results"},
         Before(s, j), io'[j] \subseteq io[j], handler' = handler, files[j] \subseteq files'[j],
         current[j].deleteRequested = job[j].deleteRequested, ~current[j].finished,
         current[j].cleanupError = job[j].cleanupError,
         current[j].outputs \/ current[j].error \/ current[j].deleteRequested,
         current[j].outputs => ~current[j].error,
         "outputs" \in files'[j] /\ ~current[j].outputs =>
           current[j].status = "failed" /\ ~In(s, <<"start", j>>)
  PROVE  Settling(j)'
<1>. runner \in [Ids -> RunnerPlaces]
  BY DEF IInv, TypeOK
<1>0. JobInv(j) /\ handler[j] = "done"
  BY DEF IInv, JobInv, Uploading
<1>1. /\ runner'[j] \in {"clear", "discard"} /\ job'[j] = [current[j] EXCEPT !.expires = "armed"]
      /\ loop' = Append(s, <<"io", j>>)
  BY DEF Finish
<1>2. /\ job'[j].deleteRequested = job[j].deleteRequested /\ ~job'[j].finished
      /\ job'[j].cleanupError = job[j].cleanupError /\ job'[j].error = current[j].error
      /\ job'[j].outputs = current[j].outputs /\ job'[j].status = current[j].status
  BY <1>1 DEF Fields
<1>3. /\ Before(loop', j) /\ In(loop', <<"io", j>>)
      /\ In(loop', <<"start", j>>) => In(s, <<"start", j>>)
  <2>1. <<"io", j>> \in Callbacks
    BY DEF Callbacks
  <2>2. Ordered(s, loop', j) /\ In(loop', <<"io", j>>)
    BY <1>1, <2>1, AppendOrdered, AppendIn
  <2>. QED
    BY <2>2 DEF Ordered
<1>4. Quiet(j)'
  BY <1>3 DEF Quiet
<1>5. Decided(j)'
  BY <1>1, <1>2, <1>3 DEF Decided
<1>6. Standing(j)'
  BY <1>0, <1>1, <1>2 DEF Settling, Standing, Loading
<1>. QED
  BY <1>4, <1>5, <1>6 DEF Settling

LEMMA SettlingPoll ==
  ASSUME IInv, NEW j \in Ids, Settling(j), LoopPoll(j)
  PROVE  Settling(j)'
<1>. /\ job \in [Ids -> Fields] /\ runner \in [Ids -> RunnerPlaces] /\ loop \in Seq(Callbacks)
  BY DEF IInv, TypeOK
<1>. DEFINE ended == [job EXCEPT ![j].nativeActive = FALSE]
            failed == [ended EXCEPT ![j].status = "failed", ![j].error = TRUE]
            s == Tail(loop)
<1>1. loop # <<>> /\ Head(loop) = <<"poll", j>> /\ In(loop, <<"poll", j>>)
  BY TailIn DEF LoopPoll
<1>2. JobInv(j) /\ runner[j] = "poll" /\ handler[j] = "done" /\ ~job[j].finished /\ ~job[j].outputs
  BY <1>1 DEF IInv, JobInv, Uploading, Running, Scheduled
<1>3. ~job[j].error /\ "outputs" \notin files[j] /\ "root" \in files[j]
  BY <1>2 DEF Settling, Decided, Standing
<1>4. s \in Seq(Callbacks) /\ Before(s, j) /\ Ordered(loop, s, j)
  BY <1>1, TailIn, TailOrdered DEF Settling, Quiet
<1>5. /\ ended \in [Ids -> Fields] /\ ended[j].deleteRequested = job[j].deleteRequested
      /\ ended[j].finished = job[j].finished /\ ended[j].cleanupError = job[j].cleanupError
      /\ ended[j].outputs = job[j].outputs /\ ended[j].error = job[j].error /\ ended[j].status = job[j].status
  <2>1. ended \in [Ids -> Fields]
    BY FieldTypes
  <2>. QED
    BY <2>1 DEF Fields
<1>6. /\ failed \in [Ids -> Fields] /\ failed[j].deleteRequested = job[j].deleteRequested
      /\ failed[j].finished = job[j].finished /\ failed[j].cleanupError = job[j].cleanupError
      /\ failed[j].outputs = job[j].outputs /\ failed[j].error
  <2>. HIDE DEF ended
  <2>1. failed \in [Ids -> Fields]
    BY <1>5, FieldTypes DEF Statuses
  <2>. QED
    BY <1>5, <2>1 DEF Fields
<1>7. \/ Finish(j, ended, s) /\ job[j].deleteRequested
      \/ Finish(j, failed, s)
      \/ /\ job' = ended /\ runner' = [runner EXCEPT ![j] = "results"]
         /\ loop' = Append(s, <<"io", j>>)
      \/ runner' = [runner EXCEPT ![j] = "sleep"] /\ loop' = s /\ job' = job
  BY DEF LoopPoll
<1>8. UNCHANGED <<handler, io, files>>
  BY DEF LoopPoll, handlerVars, diskVars
<1>. HIDE DEF ended, failed, s
<1>9. CASE Finish(j, ended, s) /\ job[j].deleteRequested
  BY <1>2, <1>3, <1>4, <1>5, <1>8, <1>9, SettlingFinish
<1>10. CASE Finish(j, failed, s)
  BY <1>2, <1>3, <1>4, <1>6, <1>8, <1>10, SettlingFinish
<1>11. CASE /\ job' = ended /\ runner' = [runner EXCEPT ![j] = "results"]
            /\ loop' = Append(s, <<"io", j>>)
  <2>1. runner'[j] = "results"
    BY <1>11
  <2>2. Before(loop', j) /\ In(loop', <<"io", j>>)
    <3>1. <<"io", j>> \in Callbacks
      BY DEF Callbacks
    <3>. QED
      BY <1>4, <1>11, <3>1, AppendOrdered, AppendIn DEF Ordered
  <2>3. Quiet(j)' /\ Decided(j)'
    BY <1>2, <1>3, <1>5, <1>8, <1>11, <2>1, <2>2 DEF Quiet, Decided
  <2>4. Standing(j)'
    BY <1>2, <1>3, <1>5, <1>8, <1>11, <2>1 DEF Settling, Standing, Loading
  <2>. QED
    BY <2>3, <2>4 DEF Settling
<1>12. CASE runner' = [runner EXCEPT ![j] = "sleep"] /\ loop' = s /\ job' = job
  <2>1. Spared(j)
    BY <1>2, <1>4, <1>8, <1>12 DEF Spared
  <2>. QED
    BY <1>2, <2>1, SparedStays DEF JobInv
<1>. QED
  BY <1>7, <1>9, <1>10, <1>11, <1>12

LEMMA SettlingResults ==
  ASSUME IInv, NEW j \in Ids, Settling(j), ResultsDone(j)
  PROVE  Settling(j)'
<1>. /\ job \in [Ids -> Fields] /\ io \in [Ids -> SUBSET Operations] /\ files \in [Ids -> SUBSET Parts]
     /\ loop \in Seq(Callbacks)
  BY DEF IInv, TypeOK
<1>. DEFINE good == [job EXCEPT ![j].outputs = TRUE]
            bad == [job EXCEPT ![j].status = "failed", ![j].error = TRUE]
<1>1. JobInv(j) /\ runner[j] = "results" /\ ~In(loop, <<"io", j>>) /\ ~job[j].finished /\ ~job[j].outputs
  BY DEF IInv, JobInv, Running, Scheduled, ResultsDone
<1>2. ~job[j].error /\ Before(loop, j) /\ ~In(loop, <<"start", j>>)
  BY <1>1 DEF Settling, Quiet, Decided
<1>3. /\ good \in [Ids -> Fields] /\ good[j].deleteRequested = job[j].deleteRequested
      /\ good[j].finished = job[j].finished /\ good[j].cleanupError = job[j].cleanupError
      /\ good[j].outputs /\ good[j].error = job[j].error
  <2>1. good \in [Ids -> Fields]
    BY FieldTypes
  <2>. QED
    BY <2>1 DEF Fields
<1>4. /\ bad \in [Ids -> Fields] /\ bad[j].deleteRequested = job[j].deleteRequested
      /\ bad[j].finished = job[j].finished /\ bad[j].cleanupError = job[j].cleanupError
      /\ bad[j].outputs = job[j].outputs /\ bad[j].error /\ bad[j].status = "failed"
  <2>1. bad \in [Ids -> Fields]
    BY FieldTypes DEF Statuses
  <2>. QED
    BY <2>1 DEF Fields
<1>5. /\ Finish(j, good, loop) \/ Finish(j, bad, loop)
      /\ io'[j] \subseteq io[j] /\ files[j] \subseteq files'[j] /\ handler' = handler
  BY DEF ResultsDone, handlerVars
<1>. HIDE DEF good, bad
<1>6. CASE Finish(j, good, loop)
  BY <1>1, <1>2, <1>3, <1>5, <1>6, SettlingFinish
<1>7. CASE Finish(j, bad, loop)
  BY <1>1, <1>2, <1>4, <1>5, <1>7, SettlingFinish
<1>. QED
  BY <1>5, <1>6, <1>7

\* The removal of files at the end of a run, and the publication of its outcome.
LEMMA SettlingClear ==
  ASSUME IInv, NEW j \in Ids, Settling(j), ClearWork(j) \/ ClearDone(j)
  PROVE  Settling(j)'
<1>. /\ job \in [Ids -> Fields] /\ runner \in [Ids -> RunnerPlaces]
     /\ io \in [Ids -> SUBSET Operations] /\ files \in [Ids -> SUBSET Parts]
  BY DEF IInv, TypeOK
<1>1. CASE ClearWork(j)
  <2>1. JobInv(j) /\ runner[j] = "clear" /\ ~In(loop, <<"io", j>>) /\ handler[j] = "done"
    BY <1>1 DEF IInv, JobInv, Uploading, Running, Scheduled, ClearWork
  <2>2. /\ Before(loop, j) /\ ~In(loop, <<"start", j>>) /\ "root" \in files[j] /\ "sweep" \notin io[j]
        /\ job[j].cleanupError => job[j].deleteRequested
    BY <2>1 DEF Settling, Quiet, Standing
  <2>3. io'[j] \subseteq io[j] /\ UNCHANGED <<job, handler, loop>>
    BY <1>1 DEF ClearWork, handlerVars
  <2>4. \/ runner'[j] = "cleared" /\ files'[j] = Cleared(files[j], job[j].status)
        \/ runner'[j] = "uncleared" /\ files'[j] \in Leftovers(files[j])
    BY <1>1 DEF ClearWork
  <2>5. files'[j] \subseteq files[j]
    <3>1. Cleared(files[j], job[j].status) \subseteq files[j]
      BY DEF Cleared
    <3>2. \A left \in Leftovers(files[j]) : left \subseteq files[j]
      BY DEF Leftovers
    <3>. QED
      BY <2>4, <3>1, <3>2
  <2>6. /\ "root" \in files'[j] \/ job[j].status = "failed"
        /\ runner'[j] = "cleared" => Clean(j)'
    BY <2>2, <2>3, <2>4 DEF Cleared, Leftovers, Clean
  <2>7. Quiet(j)' /\ Decided(j)'
    BY <2>1, <2>2, <2>3, <2>4, <2>5 DEF Settling, Quiet, Decided
  <2>8. Standing(j)'
    BY <2>1, <2>2, <2>3, <2>4, <2>6 DEF Standing, Loading
  <2>. QED
    BY <2>7, <2>8 DEF Settling
<1>2. CASE ClearDone(j)
  <2>1. JobInv(j) /\ runner[j] \in {"cleared", "uncleared"} /\ ~In(loop, <<"io", j>>) /\ handler[j] = "done"
    BY <1>2 DEF IInv, JobInv, Uploading, Scheduled, ClearDone
  <2>2. Before(loop, j) /\ ~In(loop, <<"start", j>>) /\ "sweep" \notin io[j]
    BY <2>1 DEF Settling, Quiet, Standing
  <2>3. runner'[j] = "done" /\ UNCHANGED <<handler, io, files, loop>>
    BY <1>2 DEF ClearDone, handlerVars, diskVars
  <2>4. /\ job'[j].error = job[j].error /\ job'[j].outputs = job[j].outputs /\ job'[j].finished
        /\ job'[j].deleteRequested = job[j].deleteRequested
        /\ job'[j].cleanupError <=> (job[j].cleanupError \/ runner[j] = "uncleared")
        /\ job'[j].status = Outcome(job[j].status)
    <3>1. job' = Conclude([job EXCEPT ![j].cleanupError = @ \/ runner[j] = "uncleared"], j)
      BY <1>2 DEF ClearDone
    <3>. QED
      BY <3>1 DEF Conclude, Fields
  <2>5. Quiet(j)' /\ Decided(j)'
    BY <2>1, <2>2, <2>3, <2>4 DEF Settling, Quiet, Decided, Outcome, Terminal
  <2>6. Standing(j)'
    BY <2>1, <2>2, <2>3, <2>4 DEF Settling, Standing, Clean, Loading, Outcome
  <2>. QED
    BY <2>5, <2>6 DEF Settling
<1>. QED
  BY <1>1, <1>2

\* discard() and the sweeper.
LEMMA SettlingDiscard ==
  ASSUME IInv, NEW j \in Ids, Settling(j), DiscardStep(j)
  PROVE  Settling(j)'
<1>. /\ job \in [Ids -> Fields] /\ runner \in [Ids -> RunnerPlaces] /\ handler \in [Ids -> HandlerPlaces]
     /\ files \in [Ids -> SUBSET Parts]
  BY DEF IInv, TypeOK
<1>. DEFINE marked == [job EXCEPT ![j].deleteRequested = TRUE, ![j].cleanupError = TRUE]
<1>1. PICK caller \in Callers : DiscardDone(j, caller) \/ DiscardFailed(j, caller)
  BY DEF DiscardStep
<1>2. JobInv(j) /\ caller \in discarding[j]
  BY <1>1 DEF IInv, DiscardDone, DiscardFailed
<1>3. /\ handler[j] \in {"unmake", "discard", "done"} /\ runner[j] \in {"none", "done", "discard"}
      /\ runner[j] = "discard" <=> caller = "runner"
      /\ runner[j] # "none" => job[j].deleteRequested
      /\ caller = "runner" => ~In(loop, <<"io", j>>)
  BY <1>2 DEF JobInv, Removing, Scheduled
<1>4. /\ marked \in [Ids -> Fields] /\ marked[j].deleteRequested
      /\ marked[j].status = job[j].status /\ marked[j].outputs = job[j].outputs
      /\ marked[j].error = job[j].error /\ marked[j].finished = job[j].finished
  <2>1. marked \in [Ids -> Fields]
    BY FieldTypes
  <2>. QED
    BY <2>1 DEF Fields
<1>5. PICK current \in {job, marked} :
        AfterDiscard(j, caller, current) /\ files'[j] \subseteq files[j]
  BY <1>1, ClearedFiles DEF DiscardDone, DiscardFailed
<1>6. UNCHANGED <<io, loop>>
  BY <1>1 DEF DiscardDone, DiscardFailed
<1>7. /\ current \in [Ids -> Fields] /\ current[j].status = job[j].status
      /\ current[j].outputs = job[j].outputs /\ current[j].error = job[j].error
      /\ current[j].finished = job[j].finished
      /\ job[j].deleteRequested => current[j].deleteRequested
      /\ current[j].cleanupError => current[j].deleteRequested \/ runner[j] = "done"
  BY <1>4, <1>5 DEF Settling, Standing
<1>. HIDE DEF marked
<1>8. /\ handler'[j] \in {handler[j], "done"}
      /\ runner'[j] = IF caller = "runner" THEN "done" ELSE runner[j]
      /\ job' = IF caller = "runner" THEN Conclude(current, j) ELSE current
  BY <1>5 DEF AfterDiscard
<1>9. /\ job'[j].outputs = job[j].outputs /\ job'[j].error = job[j].error
      /\ job[j].deleteRequested => job'[j].deleteRequested
      /\ job'[j].cleanupError => job'[j].deleteRequested \/ runner[j] = "done"
      /\ job'[j].finished <=> (caller = "runner" \/ job[j].finished)
      /\ job'[j].status = IF caller = "runner" THEN Outcome(job[j].status) ELSE job[j].status
  <2>1. CASE caller = "runner"
    BY <1>7, <1>8, <2>1 DEF Conclude, Fields
  <2>2. CASE caller # "runner"
    BY <1>7, <1>8, <2>2
  <2>. QED
    BY <2>1, <2>2
<1>10. Quiet(j)'
  BY <1>3, <1>6, <1>8 DEF Settling, Quiet
<1>11. Decided(j)'
  BY <1>3, <1>5, <1>6, <1>8, <1>9 DEF Settling, Decided, Outcome, Terminal
<1>12. Standing(j)'
  BY <1>3, <1>6, <1>8, <1>9 DEF Settling, Standing, Loading
<1>. QED
  BY <1>10, <1>11, <1>12 DEF Settling

LEMMA SettlingSweep ==
  ASSUME IInv, NEW j \in Ids, Settling(j), SweepCleared(j) \/ (SweepVisit(j) /\ ~Due(j))
  PROVE  Settling(j)'
<1>. /\ job \in [Ids -> Fields] /\ io \in [Ids -> SUBSET Operations] /\ files \in [Ids -> SUBSET Parts]
  BY DEF IInv, TypeOK
<1>1. CASE SweepVisit(j) /\ ~Due(j)
  <2>1. /\ UNCHANGED <<job, handler, runner, files, loop>> /\ ~job[j].deleteRequested
        /\ io'[j] = io[j] \/ job[j].cleanupError
    BY <1>1 DEF SweepVisit, Due, Retried
  <2>2. Quiet(j)' /\ Decided(j)'
    BY <2>1 DEF Settling, Quiet, Decided
  <2>3. Standing(j)'
    BY <2>1 DEF Settling, Standing, Clean
  <2>. QED
    BY <2>2, <2>3 DEF Settling
<1>2. CASE SweepCleared(j)
  <2>1. JobInv(j) /\ runner[j] = "done"
    BY <1>2 DEF IInv, SweepCleared, Settling, Standing
  <2>2. handler[j] \notin Loading
    BY <2>1 DEF JobInv, Uploading, Loading
  <2>3. UNCHANGED <<handler, runner, loop>>
    BY <1>2 DEF SweepCleared, handlerVars
  <2>4. \/ files'[j] = Cleared(files[j], job[j].status)
        \/ files'[j] \in Leftovers(files[j]) /\ job' = [job EXCEPT ![j].cleanupError = TRUE]
    BY <1>2 DEF SweepCleared
  <2>5. /\ job'[j].error = job[j].error /\ job'[j].outputs = job[j].outputs /\ job'[j].finished = job[j].finished
        /\ job'[j].deleteRequested = job[j].deleteRequested /\ job'[j].status = job[j].status
    <3>1. \/ job' = job \/ job' = [job EXCEPT ![j].cleanupError = FALSE]
          \/ job' = [job EXCEPT ![j].cleanupError = TRUE]
      BY <1>2 DEF SweepCleared
    <3>2. \/ job'[j] = job[j] \/ job'[j] = [job[j] EXCEPT !.cleanupError = FALSE]
          \/ job'[j] = [job[j] EXCEPT !.cleanupError = TRUE]
      BY <3>1
    <3>. QED
      BY <3>2 DEF Fields
  <2>6. job'[j].cleanupError \/ files'[j] = Cleared(files[j], job[j].status)
    BY <2>4 DEF Fields
  <2>7. files'[j] \subseteq files[j]
    BY <2>4, ClearedFiles
  <2>8. "root" \in files[j] => "root" \in files'[j] \/ job[j].status = "failed"
    BY <2>4 DEF Cleared, Leftovers
  <2>9. Quiet(j)' /\ Decided(j)'
    BY <2>3, <2>5, <2>7 DEF Settling, Quiet, Decided
  <2>10. Standing(j)'
    <3>1. ~job[j].deleteRequested => "root" \in files'[j] \/ job'[j].status = "failed"
      BY <2>1, <2>5, <2>8 DEF Settling, Standing
    <3>2. ~job[j].deleteRequested /\ ~job'[j].cleanupError => Clean(j)'
      BY <2>5, <2>6, <3>1 DEF Clean, Cleared
    <3>. QED
      BY <2>1, <2>2, <2>3, <2>5, <3>1, <3>2 DEF Standing
  <2>. QED
    BY <2>9, <2>10 DEF Settling
<1>. QED
  BY <1>1, <1>2

\* Everything else leaves what Settling says alone.
LEMMA SettlingSpared ==
  ASSUME IInv, NEW i \in Ids, NEW j \in Ids,
         \/ ReceiveChunk(j) \/ Uploaded(j) \/ HandlerCancelled(j) \/ RunnerWake(j) \/ NativeDrop(j)
         \/ Delete(j) \/ ReaderOpen(j) \/ ReaderClose(j) \/ Expire(j)
         \/ (SweepVisit(j) /\ Due(j)) \/ CloseDelete(j)
         \/ WorkerTake \/ (\E o \in {"success", "error"} : WorkerDone(o)) \/ SweepStart
         \/ CloseStart \/ CloseStopped \/ CloseWait \/ CloseEnd \/ UNCHANGED vars
  PROVE  Spared(i)
<1>. /\ job \in [Ids -> Fields] /\ handler \in [Ids -> HandlerPlaces] /\ runner \in [Ids -> RunnerPlaces]
     /\ io \in [Ids -> SUBSET Operations] /\ loop \in Seq(Callbacks)
  BY DEF IInv, TypeOK
<1>1. CASE ReceiveChunk(j) \/ Uploaded(j) \/ HandlerCancelled(j)
  <2>1. /\ UNCHANGED <<runner, files, loop>> /\ ("sweep" \in io'[i] => "sweep" \in io[i])
        /\ handler'[i] \in Loading => handler[i] \in Loading
    BY <1>1 DEF ReceiveChunk, Uploaded, HandlerCancelled, EndHandler, Loading, diskVars
  <2>2. job' = job \/ (Uploaded(j) /\ job' = [job EXCEPT ![j].status = "preparing"])
    BY <1>1 DEF ReceiveChunk, Uploaded, HandlerCancelled
  <2>3. CASE job' = job
    BY <2>1, <2>3, OrderedSelf DEF Spared
  <2>4. CASE Uploaded(j) /\ job' = [job EXCEPT ![j].status = "preparing"]
    <3>1. job'[i] = IF i = j THEN [job[i] EXCEPT !.status = "preparing"] ELSE job[i]
      BY <2>4
    <3>2. i = j => runner[i] = "none"
      BY <2>4 DEF Uploaded, IInv, JobInv, Uploading
    <3>3. /\ job'[i].outputs = job[i].outputs /\ job'[i].error = job[i].error
          /\ job'[i].finished = job[i].finished /\ job'[i].cleanupError = job[i].cleanupError
          /\ job'[i].deleteRequested = job[i].deleteRequested
          /\ i = j \/ job'[i].status = job[i].status
      BY <3>1 DEF Fields
    <3>. QED
      BY <2>1, <3>2, <3>3, OrderedSelf DEF Spared
  <2>. QED
    BY <2>2, <2>3, <2>4
<1>2. CASE RunnerWake(j)
  <2>1. /\ UNCHANGED <<job, handler, io, files>> /\ loop' = Append(loop, <<"poll", j>>)
        /\ runner'[i] = runner[i] \/ {runner[i], runner'[i]} \subseteq {"poll", "sleep"}
    BY <1>2 DEF RunnerWake, Schedule, handlerVars, diskVars
  <2>2. Ordered(loop, loop', i)
    <3>1. <<"poll", j>> \in Callbacks /\ <<"poll", j>> # <<"start", i>> /\ <<"poll", j>> # <<"io", i>>
      BY DEF Callbacks
    <3>. QED
      BY <2>1, <3>1, AppendOrdered
  <2>. QED
    BY <2>1, <2>2 DEF Spared
<1>3. CASE Delete(j) \/ CloseDelete(j) \/ (SweepVisit(j) /\ Due(j)) \/ Expire(j)
  <2>1. UNCHANGED <<handler, runner, io, files, loop>>
    BY <1>3 DEF Delete, CloseDelete, SweepVisit, Expire, handlerVars, diskVars
  <2>2. \/ job' = [job EXCEPT ![j].deleteRequested = TRUE] \/ job' = [job EXCEPT ![j].expires = "passed"]
    BY <1>3 DEF Delete, CloseDelete, SweepVisit, Expire, MarkDeleted
  <2>3. \/ job'[i] = job[i] \/ job'[i] = [job[i] EXCEPT !.deleteRequested = TRUE]
        \/ job'[i] = [job[i] EXCEPT !.expires = "passed"]
    BY <2>2
  <2>4. /\ job'[i].outputs = job[i].outputs /\ job'[i].error = job[i].error
        /\ job'[i].finished = job[i].finished /\ job'[i].cleanupError = job[i].cleanupError
        /\ job[i].deleteRequested => job'[i].deleteRequested
        /\ job'[i].status = job[i].status
    BY <2>3 DEF Fields
  <2>. QED
    BY <2>1, <2>4, OrderedSelf DEF Spared
<1>4. CASE NativeDrop(j) \/ ReaderOpen(j) \/ ReaderClose(j)
  <2>1. UNCHANGED <<job, handler, runner, io, files, loop>>
    BY <1>4 DEF NativeDrop, ReaderOpen, ReaderClose, handlerVars, diskVars
  <2>. QED
    BY <2>1, OrderedSelf DEF Spared
<1>5. CASE \/ WorkerTake \/ (\E o \in {"success", "error"} : WorkerDone(o)) \/ SweepStart
           \/ CloseStart \/ CloseStopped \/ CloseWait \/ CloseEnd \/ UNCHANGED vars
  <2>1. UNCHANGED <<job, handler, runner, io, files, loop>>
    BY <1>5 DEF WorkerTake, WorkerDone, SweepStart, CloseStart, CloseStopped, CloseWait, CloseEnd,
                handlerVars, diskVars, vars
  <2>. QED
    BY <2>1, OrderedSelf DEF Spared
<1>. QED
  BY <1>1, <1>2, <1>3, <1>4, <1>5

LEMMA SettlingStep ==
  ASSUME IInv, \A i \in Ids : Settling(i), [Next]_vars, NEW i \in Ids
  PROVE  Settling(i)'
<1>0. Running(i)
  BY DEF IInv, JobInv
<1>1. CASE WorkerStart
  BY <1>1, SettlingStart
<1>2. ASSUME NEW j \in Ids,
             \/ Submit(j) \/ HandlerIoDone(j) \/ HandlerFails(j) \/ Launch(j)
             \/ LoopEvent(j) \/ LoopPoll(j) \/ LoopIo(j)
             \/ ResultsDone(j) \/ ClearWork(j) \/ ClearDone(j)
             \/ DiscardStep(j) \/ SweepCleared(j) \/ (SweepVisit(j) /\ ~Due(j))
      PROVE  Settling(i)'
  <2>1. CASE i = j
    BY <1>2, <2>1, SettlingUpload, SettlingLoop, SettlingPoll, SettlingResults, SettlingClear,
       SettlingDiscard, SettlingSweep
  <2>2. CASE i # j
    BY <1>0, <1>2, <2>2, OthersSpared, SparedStays DEF RunnerStep
  <2>. QED
    BY <2>1, <2>2
<1>3. ASSUME NEW j \in Ids,
             \/ ReceiveChunk(j) \/ Uploaded(j) \/ HandlerCancelled(j) \/ RunnerWake(j) \/ NativeDrop(j)
             \/ Delete(j) \/ ReaderOpen(j) \/ ReaderClose(j) \/ Expire(j)
             \/ (SweepVisit(j) /\ Due(j)) \/ CloseDelete(j)
      PROVE  Settling(i)'
  BY <1>0, <1>3, SettlingSpared, SparedStays
<1>4. CASE \/ WorkerTake \/ (\E o \in {"success", "error"} : WorkerDone(o)) \/ SweepStart
           \/ CloseStart \/ CloseStopped \/ CloseWait \/ CloseEnd \/ UNCHANGED vars
  BY <1>0, <1>4, SettlingSpared, SparedStays
<1>. QED
  BY <1>1, <1>2, <1>3, <1>4
  DEF Next, WorkerStep, LoopStep, HandlerStep, RunnerStep, CloseStep

\* A finished job that is neither to be deleted nor to be cleaned again holds the
\* results of a success and nothing of a failure; where a failure was published as
\* a success, its directory without inputs and without results.
THEOREM FilesSettle == Spec => []SettledFiles
<1>1. Init => \A j \in Ids : Settling(j)
  <2>. SUFFICES ASSUME Init, NEW j \in Ids PROVE Settling(j)
    OBVIOUS
  <2>1. /\ runner[j] = "none" /\ handler[j] = "none" /\ files[j] = {} /\ io[j] = {} /\ loop = <<>>
        /\ ~job[j].error /\ ~job[j].outputs /\ ~job[j].finished /\ ~job[j].cleanupError
    BY DEF Init, NewJob
  <2>2. Quiet(j) /\ Decided(j)
    BY <2>1 DEF Quiet, Decided, Before
  <2>3. Standing(j)
    BY <2>1 DEF Standing, Loading
  <2>. QED
    BY <2>2, <2>3 DEF Settling
<1>2. IInv /\ (\A j \in Ids : Settling(j)) /\ [Next]_vars => (\A j \in Ids : Settling(j))'
  BY SettlingStep
<1>3. IInv /\ (\A j \in Ids : Settling(j)) => SettledFiles
  <2>. SUFFICES ASSUME IInv, NEW j \in jobs, Settling(j),
                       job[j].finished, ~job[j].deleteRequested, ~job[j].cleanupError
                PROVE  \/ job[j].status = "failed" /\ files[j] = {}
                       \/ /\ job[j].status = "succeeded" /\ ~job[j].error
                          /\ job[j].outputs /\ files[j] = {"root", "outputs"}
                       \/ /\ job[j].status = "succeeded" /\ job[j].error
                          /\ ~job[j].outputs /\ files[j] = {"root"}
    BY DEF SettledFiles, IInv, TypeOK
  <2>1. JobInv(j) /\ files[j] \subseteq {"root", "inputs", "outputs"}
    BY DEF IInv, TypeOK, Parts
  <2>2. runner[j] = "done"
    BY <2>1 DEF JobInv, Running
  <2>3. Clean(j) /\ job[j].status \in {"succeeded", "failed"}
    BY <2>2 DEF Settling, Standing, Decided, Terminal
  <2>4. /\ job[j].outputs \/ job[j].error
        /\ job[j].outputs => ~job[j].error
        /\ "outputs" \in files[j] /\ ~job[j].outputs => job[j].status = "failed"
    BY <2>2 DEF Settling, Decided
  <2>5. job[j].outputs => "outputs" \in files[j]
    BY <2>1 DEF JobInv, Holding
  <2>6. CASE job[j].status = "failed"
    BY <2>3, <2>6 DEF Clean
  <2>7. CASE job[j].status = "succeeded"
    <3>1. "root" \in files[j] /\ "inputs" \notin files[j]
      BY <2>3, <2>7 DEF Clean
    <3>2. CASE job[j].outputs
      <4>1. files[j] = {"root", "outputs"}
        BY <2>1, <2>5, <3>1, <3>2
      <4>. QED
        BY <2>4, <2>7, <3>2, <4>1
    <3>3. CASE ~job[j].outputs
      <4>1. files[j] = {"root"}
        BY <2>1, <2>4, <2>7, <3>1, <3>3
      <4>. QED
        BY <2>4, <2>7, <3>3, <4>1
    <3>. QED
      BY <3>2, <3>3
  <2>. QED
    BY <2>3, <2>6, <2>7
<1>. QED
  BY <1>1, <1>2, <1>3, Invariant, PTL DEF Spec

-----------------------------------------------------------------------------
(* Shutdown: what is true once close() has its list of jobs to delete.      *)

Idle(j) == runner[j] = "none" /\ ~Receiving(j)
Over(j) == handler[j] = "done" /\ runner[j] \in {"none", "done"}
Deleting == closing \in {"deleting", "waiting", "released"}

CloseInv ==
  Deleting =>
    /\ \A j \in Ids : "sweep" \notin io[j]
    /\ \A j \in jobs : j \in closeTodo \/ j \in closePending \/ Idle(j)
    /\ closing # "deleting" => closeTodo = {}
    /\ closing = "released" => \A j \in closePending : Over(j)

LEMMA CloseFrame ==
  ASSUME CloseInv, closing' = closing, jobs' \subseteq jobs, jobs \subseteq Ids, closePending \subseteq Ids,
         UNCHANGED <<closeTodo, closePending>>,
         \A i \in Ids : "sweep" \in io'[i] => "sweep" \in io[i],
         \A i \in Ids : (Idle(i) => Idle(i)') /\ (Over(i) => Over(i)')
  PROVE  CloseInv'
<1>. SUFFICES ASSUME Deleting
              PROVE  /\ \A j \in Ids : "sweep" \notin io'[j]
                     /\ \A j \in jobs' : j \in closeTodo' \/ j \in closePending' \/ Idle(j)'
                     /\ closing' # "deleting" => closeTodo' = {}
                     /\ closing' = "released" => \A j \in closePending' : Over(j)'
  BY DEF CloseInv, Deleting
<1>1. /\ \A j \in Ids : "sweep" \notin io[j]
      /\ \A j \in jobs : j \in closeTodo \/ j \in closePending \/ Idle(j)
      /\ closing # "deleting" => closeTodo = {}
      /\ closing = "released" => \A j \in closePending : Over(j)
  BY DEF CloseInv
<1>. QED
  BY <1>1

LEMMA CloseInvStep ==
  ASSUME IInv, CloseInv, [Next]_vars
  PROVE  CloseInv'
<1>. SUFFICES ASSUME closing' \in {"deleting", "waiting", "released"} PROVE CloseInv'
  BY DEF CloseInv, Deleting
<1>. /\ jobs \subseteq Ids /\ closePending \subseteq Ids
     /\ handler \in [Ids -> HandlerPlaces] /\ runner \in [Ids -> RunnerPlaces]
     /\ io \in [Ids -> SUBSET Operations]
  BY DEF IInv, TypeOK
<1>. \A i \in Ids : Uploading(i) /\ Running(i) /\ Scheduled(i) /\ Removing(i)
  BY DEF IInv, JobInv
<1>a. loop # <<>> => In(loop, Head(loop))
  BY TailIn DEF IInv, TypeOK
<1>b. ASSUME closing' = closing, jobs' \subseteq jobs, UNCHANGED <<closeTodo, closePending, runner, handler, io>>
      PROVE  CloseInv'
  BY <1>b, CloseFrame DEF Idle, Over, Receiving
<1>1. ASSUME SweepStart \/ CloseStart
             \/ \E j \in Ids : Submit(j) \/ Delete(j) \/ ReaderOpen(j) \/ SweepVisit(j)
      PROVE  CloseInv'
  <2>1. closing = "no" \/ closing = "stuck" \/ closing' = "stopping"
    BY <1>1 DEF Submit, Delete, ReaderOpen, SweepVisit, SweepStart, CloseStart, Ready, Sweeping
  <2>2. closing' = closing \/ closing' = "stopping"
    BY <1>1 DEF Submit, Delete, ReaderOpen, SweepVisit, SweepStart, CloseStart, sweepVars
  <2>. QED
    BY <2>1, <2>2
<1>2. ASSUME NEW j \in Ids,
             ReceiveChunk(j) \/ Uploaded(j) \/ HandlerFails(j) \/ HandlerIoDone(j) \/ Launch(j) \/ HandlerCancelled(j)
      PROVE  CloseInv'
  <2>1. Receiving(j)
    BY <1>2 DEF ReceiveChunk, Uploaded, HandlerFails, HandlerIoDone, Launch, HandlerCancelled, HandlerThread,
                HandlerIo, Receiving, Uploading
  <2>2. \A i \in Ids : i # j => handler'[i] = handler[i] /\ runner'[i] = runner[i]
    BY <1>2 DEF ReceiveChunk, Uploaded, HandlerFails, HandlerIoDone, Launch, HandlerCancelled, EndHandler
  <2>3. \A i \in Ids : "sweep" \in io'[i] => "sweep" \in io[i]
    BY <1>2 DEF ReceiveChunk, Uploaded, HandlerFails, HandlerIoDone, Launch, HandlerCancelled, HandlerIo, diskVars
  <2>4. closing' = closing /\ jobs' = jobs /\ UNCHANGED <<closeTodo, closePending>>
    BY <1>2 DEF ReceiveChunk, Uploaded, HandlerFails, HandlerIoDone, Launch, HandlerCancelled, serverVars, sweepVars
  <2>5. \A i \in Ids : (Idle(i) => Idle(i)') /\ (Over(i) => Over(i)')
    BY <2>1, <2>2 DEF Idle, Over, Receiving
  <2>. QED
    BY <2>3, <2>4, <2>5, CloseFrame
<1>3. ASSUME NEW j \in Ids, RunnerStep(j) \/ LoopPoll(j)
      PROVE  CloseInv'
  <2>1. runner[j] \notin {"none", "done"}
    BY <1>3, <1>a DEF RunnerStep, RunnerWake, ResultsDone, ClearWork, ClearDone, LoopPoll, Scheduled, Running
  <2>2. handler' = handler /\ \A i \in Ids : i # j => runner'[i] = runner[i]
    BY <1>3 DEF RunnerStep, RunnerWake, ResultsDone, ClearWork, ClearDone, LoopPoll, Finish, handlerVars
  <2>3. \A i \in Ids : "sweep" \in io'[i] => "sweep" \in io[i]
    BY <1>3 DEF RunnerStep, RunnerWake, ResultsDone, ClearWork, ClearDone, LoopPoll, diskVars
  <2>4. closing' = closing /\ jobs' = jobs /\ UNCHANGED <<closeTodo, closePending>>
    BY <1>3 DEF RunnerStep, RunnerWake, ResultsDone, ClearWork, ClearDone, LoopPoll, serverVars, sweepVars
  <2>5. \A i \in Ids : (Idle(i) => Idle(i)') /\ (Over(i) => Over(i)')
    BY <2>1, <2>2 DEF Idle, Over, Receiving
  <2>. QED
    BY <2>3, <2>4, <2>5, CloseFrame
<1>4. ASSUME NEW j \in Ids, LoopIo(j)
      PROVE  CloseInv'
  <2>1. runner[j] # "sweep" /\ runner' = runner /\ handler' = handler
    BY <1>4 DEF LoopIo, RunnerPlaces, handlerVars
  <2>2. io' = io \/ io' = [io EXCEPT ![j] = @ \union {runner[j]}]
    BY <1>4 DEF LoopIo
  <2>3. \A i \in Ids : "sweep" \in io'[i] => "sweep" \in io[i]
    BY <2>1, <2>2
  <2>4. closing' = closing /\ jobs' = jobs /\ UNCHANGED <<closeTodo, closePending>>
    BY <1>4 DEF LoopIo, serverVars, sweepVars
  <2>. QED
    BY <2>1, <2>3, <2>4, CloseFrame DEF Idle, Over, Receiving
<1>5. ASSUME NEW j \in Ids, DiscardStep(j)
      PROVE  CloseInv'
  <2>1. PICK c \in Callers : c \in discarding[j] /\ (DiscardDone(j, c) \/ DiscardFailed(j, c))
    BY <1>5 DEF DiscardStep, DiscardDone, DiscardFailed
  <2>2. /\ handler' = IF c = "handler" THEN [handler EXCEPT ![j] = "done"] ELSE handler
        /\ runner' = IF c = "runner" THEN [runner EXCEPT ![j] = "done"] ELSE runner
        /\ io' = io /\ jobs' \subseteq jobs /\ UNCHANGED <<closeTodo, closePending>>
    BY <2>1 DEF DiscardDone, DiscardFailed, AfterDiscard, serverVars, sweepVars
  <2>3. closing' = closing
    BY <2>1 DEF DiscardDone, DiscardFailed, sweepVars
  <2>4. c = "runner" => runner[j] \notin {"none", "done"}
    BY <2>1 DEF Removing
  <2>5. \A i \in Ids : (Idle(i) => Idle(i)') /\ (Over(i) => Over(i)')
    BY <2>2, <2>4 DEF Idle, Over, Receiving
  <2>. QED
    BY <2>2, <2>3, <2>5, CloseFrame
<1>6. ASSUME NEW j \in Ids, SweepCleared(j)
      PROVE  CloseInv'
  <2>1. /\ \A i \in Ids : "sweep" \in io'[i] => "sweep" \in io[i]
        /\ jobs' = jobs /\ UNCHANGED <<closeTodo, closePending, runner, handler>>
    BY <1>6 DEF SweepCleared, handlerVars, serverVars
  <2>2. closing' = closing
    BY <1>6 DEF SweepCleared
  <2>. QED
    BY <2>1, <2>2, CloseFrame DEF Idle, Over, Receiving
<1>7. ASSUME NEW j \in Ids, LoopEvent(j) \/ NativeDrop(j) \/ ReaderClose(j) \/ Expire(j)
      PROVE  CloseInv'
  BY <1>7, <1>b DEF LoopEvent, NativeDrop, ReaderClose, Expire, serverVars, sweepVars, handlerVars, diskVars
<1>8. ASSUME WorkerStep \/ UNCHANGED vars
      PROVE  CloseInv'
  BY <1>8, <1>b DEF WorkerStep, WorkerTake, WorkerStart, WorkerDone, serverVars, sweepVars, handlerVars,
                    diskVars, vars
<1>9. CASE CloseStopped
  <2>1. closing' = "deleting" /\ closeTodo' = jobs' /\ io' = io /\ ~SweepBusy
    BY <1>9 DEF CloseStopped, diskVars, serverVars
  <2>2. \A i \in Ids : "sweep" \notin io'[i]
    BY <2>1 DEF SweepBusy
  <2>. QED
    BY <2>1, <2>2 DEF CloseInv, Deleting
<1>10. CASE CloseWait \/ CloseEnd
  <2>1. /\ UNCHANGED <<jobs, io, runner, handler, closeTodo, closePending>>
        /\ Deleting /\ closeTodo = {}
    BY <1>10 DEF CloseWait, CloseEnd, CloseInv, Deleting, serverVars, diskVars, handlerVars
  <2>2. closing' = "released" => \A j \in closePending' : Over(j)'
    BY <1>10, <2>1 DEF CloseWait, CloseEnd, KeepLock, Unfinished, Over
  <2>3. /\ \A j \in Ids : "sweep" \notin io'[j]
        /\ \A j \in jobs' : j \in closeTodo' \/ j \in closePending' \/ Idle(j)'
    BY <2>1 DEF CloseInv, Idle, Receiving
  <2>. QED
    BY <2>1, <2>2, <2>3 DEF CloseInv
<1>11. ASSUME NEW j \in Ids, CloseDelete(j)
       PROVE  CloseInv'
  <2>1. /\ UNCHANGED <<jobs, io, runner, handler, closing>> /\ closing = "deleting"
        /\ closeTodo' = closeTodo \ {j} /\ closePending \subseteq closePending'
        /\ runner[j] # "none" \/ Receiving(j) => j \in closePending'
    BY <1>11 DEF CloseDelete, serverVars, diskVars
  <2>2. \A i \in jobs : i \in closeTodo \/ i \in closePending \/ Idle(i)
    BY <2>1 DEF CloseInv, Deleting
  <2>3. \A i \in jobs' : i \in closeTodo' \/ i \in closePending' \/ Idle(i)'
    <3>. SUFFICES ASSUME NEW i \in jobs PROVE i \in closeTodo' \/ i \in closePending' \/ Idle(i)'
      BY <2>1
    <3>1. CASE i = j
      BY <2>1, <3>1 DEF Idle, Receiving
    <3>2. CASE i # j
      BY <2>1, <2>2, <3>2 DEF Idle, Receiving
    <3>. QED
      BY <3>1, <3>2
  <2>4. \A i \in Ids : "sweep" \notin io'[i]
    BY <2>1 DEF CloseInv, Deleting
  <2>. QED
    BY <2>1, <2>3, <2>4 DEF CloseInv
<1>. QED
  BY <1>1, <1>2, <1>3, <1>4, <1>5, <1>6, <1>7, <1>8, <1>9, <1>10, <1>11
     DEF Next, LoopStep, CloseStep, HandlerStep

\* When close() gives up the directory lock, nothing can touch a job's files.
THEOREM LockIsLast == Spec => []LockCoversUse
<1>1. Init => CloseInv
  BY DEF Init, CloseInv, Deleting
<1>2. IInv /\ CloseInv => LockCoversUse
  <2>. SUFFICES ASSUME IInv, CloseInv, closing = "released", NEW j \in Ids
                PROVE  io[j] = {} /\ ~InNative(j) /\ ~Receiving(j) /\ runner[j] \in {"none", "done"}
    BY DEF LockCoversUse
  <2>1. Uploading(j) /\ Running(j) /\ Holding(j) /\ io[j] \subseteq Operations
    BY DEF IInv, JobInv, TypeOK
  <2>2. ~Receiving(j) /\ runner[j] \in {"none", "done"}
    BY <2>1 DEF CloseInv, Deleting, Idle, Over, Holding, Receiving
  <2>3. ~InNative(j)
    BY <2>1, <2>2 DEF InNative, Queued, In, Running
  <2>4. "sweep" \notin io[j]
    BY DEF CloseInv, Deleting
  <2>5. io[j] = {}
    BY <2>1, <2>2, <2>4 DEF Uploading, Running, Receiving, Operations, HandlerIo
  <2>. QED
    BY <2>2, <2>3, <2>5
<1>3. IInv /\ CloseInv /\ [Next]_vars => CloseInv'
  BY CloseInvStep
<1>. QED
  BY <1>1, <1>2, <1>3, Invariant, PTL DEF Spec
=============================================================================
