------------------------------- MODULE JobApi -------------------------------
(***************************************************************************)
(* The temporary job API of comfyui_turing_utils/job_api: submission,      *)
(* execution, download, deletion and expiry of one process's jobs.         *)
(*                                                                         *)
(* Concurrency.  The handlers, the per-job runner, the sweeper and close() *)
(* are coroutines of one asyncio loop, so an action is the code between    *)
(* two awaits.  disk() runs in a thread: "io" names the threads that are   *)
(* touching a job's directory.  ComfyUI's prompt queue and its worker      *)
(* thread are external; only what service.py and progress.py observe of    *)
(* them is modelled.  "loop" holds the callbacks whose order matters: the  *)
(* worker's events, sent with call_soon_threadsafe, and the runner's own   *)
(* steps.                                                                  *)
(***************************************************************************)
EXTENDS Naturals, Sequences, FiniteSets

CONSTANTS
  Ids,         \* request identities (UUIDs) clients submit
  NoJob,       \* "the worker runs nothing"
  MaxReaders,  \* bound: simultaneous downloads of one job
  MaxFaults    \* bound: file removals that fail with OSError

ASSUME JobApiAssumption ==
  /\ NoJob \notin Ids
  /\ MaxReaders \in Nat
  /\ MaxFaults \in Nat

VARIABLES
  requests,    \* Jobs.requests: every identity begin() ever accepted
  jobs,        \* the identities in Jobs.jobs
  job,         \* the fields of each Job that several actors share
  readers,     \* Job.readers
  handler,     \* where the POST handler of a job stands
  cancelled,   \* a cancellation of that handler is still to be delivered
  runner,      \* where Jobs._execute of a job stands
  io,          \* file operations of a job running in a thread
  files,       \* what the job's directory holds
  discarding,  \* callers inside discard(), past the cleanup lock or queued on it
  loop,        \* callbacks scheduled on the event loop, in order
  foreign,     \* identities that native prompts of other clients carry
  queue,       \* native queue of waiting prompts
  running,     \* the prompt the native worker executes
  stage,       \* how far the native worker is with it
  interrupted, \* the native interrupt flag
  history,     \* the native history record of each prompt
  starts,      \* history variable: how often the worker took each prompt
  sweep,       \* jobs the current pass of _sweep has still to visit
  closing,     \* progress of Jobs.close
  closeTodo,   \* jobs close() has still to delete
  closePending,\* jobs whose tasks close() waits for
  faults       \* failed file removals so far

serverVars == <<requests, jobs>>
handlerVars == <<handler, cancelled>>
diskVars == <<io, files, faults>>
nativeVars == <<foreign, queue, running, stage, interrupted, history, starts>>
sweepVars == <<sweep, closing, closeTodo, closePending>>
vars == <<requests, jobs, job, readers, handler, cancelled, runner, io, files,
          discarding, loop, foreign, queue, running, stage, interrupted,
          history, starts, sweep, closing, closeTodo, closePending, faults>>

Statuses == {"receiving", "preparing", "queued", "running", "succeeded", "failed"}
Terminal == {"succeeded", "failed"}

Fields == [status: Statuses,
           expires: {"none", "armed", "passed"},
           outputs: BOOLEAN,          \* Job.outputs is not empty
           error: BOOLEAN,            \* Job.error is set
           cleanupError: BOOLEAN,
           deleteRequested: BOOLEAN,
           nativeActive: BOOLEAN,
           finished: BOOLEAN]         \* Progress.finished is set

NewJob == [status |-> "receiving", expires |-> "none", outputs |-> FALSE,
           error |-> FALSE, cleanupError |-> FALSE,
           deleteRequested |-> FALSE, nativeActive |-> FALSE, finished |-> FALSE]

Parts == {"root", "inputs", "outputs"}   \* inputs: uploads/ and work/

\* The await each coroutine is suspended in.
HandlerPlaces == {"none", "mkdir", "unmake", "receive", "write", "prepare",
                  "validate", "discard", "done"}
RunnerPlaces == {"none", "poll", "sleep", "results", "clear", "cleared",
                 "uncleared", "discard", "done"}
HandlerIo == {"mkdir", "input"}
Operations == HandlerIo \union {"results", "clear", "sweep"}
Callers == {"handler", "runner", "client", "reader", "sweeper", "close"}
Callbacks == {"start", "poll", "io"} \X Ids
Closing == {"no", "stopping", "stuck", "deleting", "waiting", "released", "kept"}

TypeOK ==
  /\ requests \subseteq Ids
  /\ jobs \subseteq Ids
  /\ job \in [Ids -> Fields]
  /\ readers \in [Ids -> Nat]
  /\ handler \in [Ids -> HandlerPlaces]
  /\ cancelled \in [Ids -> BOOLEAN]
  /\ runner \in [Ids -> RunnerPlaces]
  /\ io \in [Ids -> SUBSET Operations]
  /\ files \in [Ids -> SUBSET Parts]
  /\ discarding \in [Ids -> SUBSET Callers]
  /\ loop \in Seq(Callbacks)
  /\ foreign \subseteq Ids
  /\ queue \in Seq(Ids)
  /\ running \in Ids \union {NoJob}
  /\ stage \in {"idle", "taken", "started"}
  /\ interrupted \in BOOLEAN
  /\ history \in [Ids -> {"none", "success", "error"}]
  /\ starts \in [Ids -> Nat]
  /\ sweep \subseteq Ids
  /\ closing \in Closing
  /\ closeTodo \subseteq Ids
  /\ closePending \subseteq Ids
  /\ faults \in Nat

Init ==
  /\ requests = {} /\ jobs = {}
  /\ job = [j \in Ids |-> NewJob]
  /\ readers = [j \in Ids |-> 0]
  /\ handler = [j \in Ids |-> "none"]
  /\ cancelled = [j \in Ids |-> FALSE]
  /\ runner = [j \in Ids |-> "none"]
  /\ io = [j \in Ids |-> {}]
  /\ files = [j \in Ids |-> {}]
  /\ discarding = [j \in Ids |-> {}]
  /\ loop = <<>> /\ queue = <<>>
  /\ foreign \in SUBSET Ids
  /\ running = NoJob /\ stage = "idle" /\ interrupted = FALSE
  /\ history = [j \in Ids |-> "none"]
  /\ starts = [j \in Ids |-> 0]
  /\ sweep = {} /\ closing = "no" /\ closeTodo = {} /\ closePending = {}
  /\ faults = 0

-----------------------------------------------------------------------------
(* Conditions the handlers test.                                            *)

Ready == closing = "no"

Queued(j) == \E k \in 1..Len(queue) : queue[k] = j
InNative(j) == running = j \/ Queued(j)

\* The native queue or history already knows a prompt with this ID.
Conflict(j) == j \in foreign \/ InNative(j) \/ history[j] # "none"

\* The runner looks for its prompt in the native queue, not at its own flag.
MutStillNative(j) == job[j].nativeActive
StillNative(j) == InNative(j)

\* job.receiver is set and its task is not done.
Receiving(j) ==
  handler[j] \in {"mkdir", "unmake", "receive", "write", "prepare", "validate"}

\* job.native_active or the runner task is not done.
Working(j) == job[j].nativeActive \/ runner[j] \notin {"none", "done"}

\* disk() shields its thread: a cancelled handler resumes only after it.
HandlerThread(j) == io[j] \intersect HandlerIo # {}
MutJoined(j) == TRUE
Joined(j) == ~HandlerThread(j)

\* An identity is accepted once per process, even after its job is gone.
MutUnused(j) == j \notin jobs
Unused(j) == j \notin requests

Schedule(entry) == loop' = Append(loop, entry)

\* A download needs a result that is neither expired nor being deleted.
MutDownloadable(j) == job[j].status = "succeeded" /\ job[j].expires # "passed"
Downloadable(j) ==
  /\ job[j].status = "succeeded"
  /\ ~job[j].deleteRequested
  /\ job[j].expires # "passed"

\* Open downloads postpone discard().
MutPinned(n) == FALSE
Pinned(n) == n > 0

\* _finish() turns every status but "failed" into "succeeded".
MutOutcome(status) == IF status = "failed" THEN "failed" ELSE "deleting"
Outcome(status) == IF status = "failed" THEN "failed" ELSE "succeeded"

\* What _clear_work() leaves of a directory.
Cleared(parts, status) == IF status = "failed" THEN {} ELSE parts \ {"inputs"}

\* What a removal that raised OSError may leave: never less than the root.
Leftovers(parts) ==
  IF parts = {} THEN {{}} ELSE {left \in SUBSET parts : "root" \in left}

\* The queue without its first entry for j (delete_queue_item).
Without(q, j) ==
  IF \E k \in 1..Len(q) : q[k] = j
  THEN LET first == CHOOSE k \in 1..Len(q) :
                      q[k] = j /\ \A i \in 1..(k - 1) : q[i] # j
       IN  [i \in 1..(Len(q) - 1) |-> IF i < first THEN q[i] ELSE q[i + 1]]
  ELSE q

-----------------------------------------------------------------------------
(* Pieces that several handlers share.                                      *)

\* Jobs.interrupt: drop the job's queue entry, flag it if it is executing.
MutInterrupt(j) ==
  /\ queue' = Without(queue, j)
  /\ interrupted' = (interrupted \/ running # NoJob)
Interrupt(j) ==
  /\ queue' = Without(queue, j)
  /\ interrupted' = (interrupted \/ running = j)

\* The body of Jobs.delete once delete_requested is set: stop the upload (the
\* first time only), else stop native work, else discard unless pinned.
DeleteCall(j, caller) ==
  \/ /\ Receiving(j)
     /\ cancelled' = [cancelled EXCEPT ![j] = @ \/ ~job[j].deleteRequested]
     /\ UNCHANGED <<queue, interrupted, discarding>>
  \/ /\ ~Receiving(j) /\ Working(j)
     /\ Interrupt(j)
     /\ UNCHANGED <<cancelled, discarding>>
  \/ /\ ~Receiving(j) /\ ~Working(j)
     /\ discarding' = IF Pinned(readers'[j]) THEN discarding
                      ELSE [discarding EXCEPT ![j] = @ \union {caller}]
     /\ UNCHANGED <<cancelled, queue, interrupted>>

MarkDeleted(j) == job' = [job EXCEPT ![j].deleteRequested = TRUE]

\* The submit handler leaves through begin()'s except clause or through its
\* own finally clause, which clears job.receiver first; both discard the job.
EndHandler(j) ==
  /\ handler' = [handler EXCEPT ![j] = IF @ = "mkdir" THEN "unmake" ELSE "discard"]
  /\ cancelled' = [cancelled EXCEPT ![j] = FALSE]
  /\ discarding' = [discarding EXCEPT ![j] = @ \union {"handler"}]

\* First half of _finish: arm the expiry, forget the native history record and
\* hand the removal of files to a thread.
MutFinish(j, current, callbacks) ==
  /\ job' = [current EXCEPT ![j].expires = "armed"]
  /\ history' = [history EXCEPT ![j] = "none"]
  /\ runner' = [runner EXCEPT ![j] =
                  IF current[j].deleteRequested THEN "discard" ELSE "clear"]
  /\ loop' = <<<<"io", j>>>> \o callbacks
Finish(j, current, callbacks) ==
  /\ job' = [current EXCEPT ![j].expires = "armed"]
  /\ history' = [history EXCEPT ![j] = "none"]
  /\ runner' = [runner EXCEPT ![j] =
                  IF current[j].deleteRequested THEN "discard" ELSE "clear"]
  /\ loop' = Append(callbacks, <<"io", j>>)

\* Second half of _finish: publish the outcome.
Conclude(current, j) ==
  [current EXCEPT ![j].status = Outcome(@), ![j].finished = TRUE]

-----------------------------------------------------------------------------
(* POST /turing/jobs: begin, receive the upload, launch.                    *)

Submit(j) ==
  /\ Ready /\ Unused(j)
  /\ requests' = requests \union {j}
  /\ jobs' = jobs \union {j}
  /\ job' = [job EXCEPT ![j] = NewJob]
  /\ handler' = [handler EXCEPT ![j] = "mkdir"]
  /\ io' = [io EXCEPT ![j] = {"mkdir"}]
  /\ UNCHANGED <<readers, cancelled, runner, files, discarding, loop, faults,
                 nativeVars, sweepVars>>

\* The handler's thread ends; a cancelled handler is left where it waits.
HandlerIoDone(j) ==
  /\ HandlerThread(j)
  /\ io' = [io EXCEPT ![j] = @ \ HandlerIo]
  /\ files' = [files EXCEPT ![j] = @ \union {"root", "inputs"}]
  /\ handler' = [handler EXCEPT ![j] =
       CASE cancelled[j] -> @
         [] ~cancelled[j] /\ @ \in {"mkdir", "write"} -> "receive"
         [] ~cancelled[j] /\ @ = "prepare" -> "validate"
         [] OTHER -> @]
  /\ UNCHANGED <<serverVars, job, readers, cancelled, runner, discarding, loop,
                 faults, nativeVars, sweepVars>>

ReceiveChunk(j) ==
  /\ handler[j] = "receive" /\ ~cancelled[j]
  /\ handler' = [handler EXCEPT ![j] = "write"]
  /\ io' = [io EXCEPT ![j] = {"input"}]
  /\ UNCHANGED <<serverVars, job, readers, cancelled, runner, files, discarding,
                 loop, faults, nativeVars, sweepVars>>

\* Every declared file arrived: launch() starts and prepares in a thread.
Uploaded(j) ==
  /\ handler[j] = "receive" /\ ~cancelled[j]
  /\ job' = [job EXCEPT ![j].status = "preparing"]
  /\ handler' = [handler EXCEPT ![j] = "prepare"]
  /\ io' = [io EXCEPT ![j] = {"input"}]
  /\ UNCHANGED <<serverVars, readers, cancelled, runner, files, discarding, loop,
                 faults, nativeVars, sweepVars>>

\* The rest of launch() after validate_prompt, up to the handler's return.
Launch(j) ==
  /\ handler[j] = "validate" /\ ~cancelled[j]
  /\ \/ /\ job[j].deleteRequested \/ Conflict(j)
        /\ job' = IF job[j].deleteRequested THEN job
                  ELSE [job EXCEPT ![j].status = "queued"]
        /\ EndHandler(j)
        /\ UNCHANGED <<runner, loop, queue>>
     \/ /\ ~job[j].deleteRequested /\ ~Conflict(j)
        /\ job' = [job EXCEPT ![j].status = "queued", ![j].nativeActive = TRUE]
        /\ queue' = Append(queue, j)
        /\ runner' = [runner EXCEPT ![j] = "poll"]
        /\ Schedule(<<"poll", j>>)
        /\ handler' = [handler EXCEPT ![j] = "done"]
        /\ UNCHANGED <<cancelled, discarding>>
  /\ UNCHANGED <<serverVars, readers, diskVars, foreign, running, stage,
                 interrupted, history, starts, sweepVars>>

\* A timeout, a bad or oversized upload, a failed validation or an I/O error.
HandlerFails(j) ==
  /\ handler[j] \in {"mkdir", "receive", "write", "prepare", "validate"}
  /\ handler[j] \in {"receive", "validate"} => ~cancelled[j]
  /\ handler[j] \in {"mkdir", "write", "prepare"} => HandlerThread(j)
  /\ io' = [io EXCEPT ![j] = @ \ HandlerIo]
  /\ \E made \in IF handler[j] = "mkdir" THEN {{}, {"root"}} ELSE {files[j]} :
       files' = [files EXCEPT ![j] = made]
  /\ EndHandler(j)
  /\ UNCHANGED <<serverVars, job, readers, runner, loop, faults, nativeVars,
                 sweepVars>>

\* CancelledError is raised in the handler, once its thread has ended.
HandlerCancelled(j) ==
  /\ cancelled[j] /\ handler[j] \in {"mkdir", "receive", "write", "prepare", "validate"}
  /\ Joined(j)
  /\ EndHandler(j)
  /\ UNCHANGED <<serverVars, job, readers, runner, diskVars, loop, nativeVars,
                 sweepVars>>

-----------------------------------------------------------------------------
(* ComfyUI's worker and the native controls of other users (external).      *)

WorkerTake ==
  /\ running = NoJob /\ queue # <<>>
  /\ running' = Head(queue) /\ queue' = Tail(queue)
  /\ stage' = "taken"
  /\ starts' = [starts EXCEPT ![Head(queue)] = @ + 1]
  /\ UNCHANGED <<serverVars, job, readers, handlerVars, runner, diskVars,
                 discarding, loop, foreign, interrupted, history, sweepVars>>

\* The executor resets the interrupt flag and sends execution_start, which
\* Observer.send forwards to the loop while the job is known.
WorkerStart ==
  /\ stage = "taken"
  /\ stage' = "started"
  /\ interrupted' = FALSE
  /\ IF running \in jobs THEN Schedule(<<"start", running>>) ELSE UNCHANGED loop
  /\ UNCHANGED <<serverVars, job, readers, handlerVars, runner, diskVars,
                 discarding, foreign, queue, running, history, starts, sweepVars>>

\* task_done: the history record appears as the prompt leaves the worker.
WorkerDone(outcome) ==
  /\ stage = "started"
  /\ history' = [history EXCEPT ![running] = outcome]
  /\ running' = NoJob /\ stage' = "idle"
  /\ UNCHANGED <<serverVars, job, readers, handlerVars, runner, diskVars,
                 discarding, loop, foreign, queue, interrupted, starts, sweepVars>>

\* Another client of the server clears the native queue or the history.
NativeDrop(j) ==
  /\ \/ Queued(j) /\ queue' = Without(queue, j) /\ UNCHANGED history
     \/ /\ history[j] # "none"
        /\ history' = [history EXCEPT ![j] = "none"] /\ UNCHANGED queue
  /\ UNCHANGED <<serverVars, job, readers, handlerVars, runner, diskVars,
                 discarding, loop, foreign, running, stage, interrupted, starts, sweepVars>>

-----------------------------------------------------------------------------
(* Callbacks of the event loop and Jobs._execute.                           *)

\* asyncio.sleep(0.05) of the runner ends.
RunnerWake(j) ==
  /\ runner[j] = "sleep"
  /\ runner' = [runner EXCEPT ![j] = "poll"]
  /\ Schedule(<<"poll", j>>)
  /\ UNCHANGED <<serverVars, job, readers, handlerVars, diskVars, discarding,
                 nativeVars, sweepVars>>

\* Observer.event on execution_start: only Progress.finished holds it back.
LoopEvent(j) ==
  /\ loop # <<>> /\ Head(loop) = <<"start", j>>
  /\ loop' = Tail(loop)
  /\ job' = IF j \in jobs /\ ~job[j].finished
            THEN [job EXCEPT ![j].status = "running"] ELSE job
  /\ UNCHANGED <<serverVars, readers, handlerVars, runner, diskVars, discarding,
                 nativeVars, sweepVars>>

\* One turn of the polling loop: under the queue mutex it sees the history
\* record, or that the prompt is neither waiting nor running, or neither.
LoopPoll(j) ==
  /\ loop # <<>> /\ Head(loop) = <<"poll", j>>
  /\ LET ended  == [job EXCEPT ![j].nativeActive = FALSE]
         failed == [ended EXCEPT ![j].status = "failed", ![j].error = TRUE]
     IN  \/ /\ history[j] = "success"
            /\ IF job[j].deleteRequested
               THEN Finish(j, ended, Tail(loop))
               ELSE /\ job' = ended
                    /\ runner' = [runner EXCEPT ![j] = "results"]
                    /\ loop' = Append(Tail(loop), <<"io", j>>)
                    /\ UNCHANGED history
         \/ /\ history[j] = "error" \/ (history[j] = "none" /\ ~StillNative(j))
            /\ Finish(j, failed, Tail(loop))
         \/ /\ history[j] = "none" /\ StillNative(j)
            /\ runner' = [runner EXCEPT ![j] = "sleep"]
            /\ loop' = Tail(loop)
            /\ UNCHANGED <<job, history>>
  /\ UNCHANGED <<serverVars, readers, handlerVars, diskVars, discarding, foreign, queue,
                 running, stage, interrupted, starts, sweepVars>>

\* The runner's to_thread task starts, after the callbacks queued before it.
LoopIo(j) ==
  /\ loop # <<>> /\ Head(loop) = <<"io", j>>
  /\ loop' = Tail(loop)
  /\ IF runner[j] = "discard"
     THEN /\ discarding' = [discarding EXCEPT ![j] = @ \union {"runner"}]
          /\ UNCHANGED io
     ELSE /\ io' = [io EXCEPT ![j] = @ \union {runner[j]}]
          /\ UNCHANGED discarding
  /\ UNCHANGED <<serverVars, job, readers, handlerVars, runner, files, faults,
                 nativeVars, sweepVars>>

\* _results copied every output, or raised after copying some of them.
ResultsDone(j) ==
  /\ "results" \in io[j]
  /\ io' = [io EXCEPT ![j] = @ \ {"results"}]
  /\ files' = [files EXCEPT ![j] = @ \union {"outputs"}]
  /\ \/ Finish(j, [job EXCEPT ![j].outputs = TRUE], loop)
     \/ Finish(j, [job EXCEPT ![j].status = "failed", ![j].error = TRUE], loop)
  /\ UNCHANGED <<serverVars, readers, handlerVars, discarding, faults, foreign, queue,
                 running, stage, interrupted, starts, sweepVars>>

\* _clear_work reads job.status in its thread, and may raise OSError.
ClearWork(j) ==
  /\ "clear" \in io[j]
  /\ io' = [io EXCEPT ![j] = @ \ {"clear"}]
  /\ \/ /\ files' = [files EXCEPT ![j] = Cleared(@, job[j].status)]
        /\ runner' = [runner EXCEPT ![j] = "cleared"]
        /\ UNCHANGED faults
     \/ /\ faults < MaxFaults /\ faults' = faults + 1
        /\ \E left \in Leftovers(files[j]) :
             /\ Cleared(files[j], job[j].status) \subseteq left
             /\ files' = [files EXCEPT ![j] = left]
        /\ runner' = [runner EXCEPT ![j] = "uncleared"]
  /\ UNCHANGED <<serverVars, job, readers, handlerVars, discarding, loop, nativeVars,
                 sweepVars>>

\* The runner goes on after that thread: OSError becomes cleanup_error.
ClearDone(j) ==
  /\ runner[j] \in {"cleared", "uncleared"}
  /\ job' = Conclude([job EXCEPT ![j].cleanupError = @ \/ runner[j] = "uncleared"], j)
  /\ runner' = [runner EXCEPT ![j] = "done"]
  /\ UNCHANGED <<serverVars, readers, handlerVars, diskVars, discarding, loop,
                 nativeVars, sweepVars>>

-----------------------------------------------------------------------------
(* discard(): the only way a job leaves Jobs.jobs.                          *)

\* A cancelled caller removes the files but never reaches jobs.pop.
Popped(j, caller) ==
  /\ ~(caller = "handler" /\ cancelled[j])
  /\ ~(caller = "sweeper" /\ closing = "stopping")

AfterDiscard(j, caller, current) ==
  /\ handler' = IF caller = "handler" THEN [handler EXCEPT ![j] = "done"] ELSE handler
  /\ cancelled' = IF caller = "handler" THEN [cancelled EXCEPT ![j] = FALSE] ELSE cancelled
  /\ runner' = IF caller = "runner" THEN [runner EXCEPT ![j] = "done"] ELSE runner
  /\ job' = IF caller = "runner" THEN Conclude(current, j) ELSE current
  /\ discarding' = [discarding EXCEPT ![j] = @ \ {caller}]

DiscardDone(j, caller) ==
  /\ caller \in discarding[j]
  /\ files' = [files EXCEPT ![j] = {}]
  /\ jobs' = IF Popped(j, caller) THEN jobs \ {j} ELSE jobs
  /\ AfterDiscard(j, caller, job)
  /\ UNCHANGED <<requests, readers, io, faults, loop, nativeVars, sweepVars>>

\* rmtree raises OSError, on its own or because the sweeper's _clear_work is
\* removing the same files.  A swallowed cancellation leaves the sweeper alive.
DiscardFailed(j, caller) ==
  /\ caller \in discarding[j] /\ files[j] # {}
  /\ \/ "sweep" \in io[j] /\ UNCHANGED faults
     \/ faults < MaxFaults /\ faults' = faults + 1
  /\ \E left \in Leftovers(files[j]) : files' = [files EXCEPT ![j] = left]
  /\ AfterDiscard(j, caller, [job EXCEPT ![j].deleteRequested = TRUE,
                                         ![j].cleanupError = TRUE])
  /\ closing' = IF caller = "sweeper" /\ closing = "stopping" THEN "stuck" ELSE closing
  /\ UNCHANGED <<serverVars, readers, io, loop, nativeVars, sweep, closeTodo,
                 closePending>>

-----------------------------------------------------------------------------
(* DELETE, downloads, expiry and the sweeper.                               *)

Delete(j) ==
  /\ Ready /\ j \in jobs
  /\ MarkDeleted(j)
  /\ UNCHANGED readers
  /\ DeleteCall(j, "client")
  /\ UNCHANGED <<serverVars, handler, runner, diskVars, loop, foreign, running, stage,
                 history, starts, sweepVars>>

ReaderOpen(j) ==
  /\ Ready /\ j \in jobs /\ Downloadable(j) /\ job[j].outputs
  /\ readers[j] < MaxReaders
  /\ readers' = [readers EXCEPT ![j] = @ + 1]
  /\ UNCHANGED <<serverVars, job, handlerVars, runner, diskVars, discarding,
                 loop, nativeVars, sweepVars>>

ReaderClose(j) ==
  /\ readers[j] > 0
  /\ readers' = [readers EXCEPT ![j] = @ - 1]
  /\ IF job[j].deleteRequested THEN DeleteCall(j, "reader")
     ELSE UNCHANGED <<cancelled, queue, interrupted, discarding>>
  /\ UNCHANGED <<serverVars, job, handler, runner, diskVars, loop, foreign, running,
                 stage, history, starts, sweepVars>>

\* result_ttl seconds pass after _finish.
Expire(j) ==
  /\ job[j].expires = "armed"
  /\ job' = [job EXCEPT ![j].expires = "passed"]
  /\ UNCHANGED <<serverVars, readers, handlerVars, runner, diskVars, discarding,
                 loop, nativeVars, sweepVars>>

SweepBusy == \E j \in Ids : "sweeper" \in discarding[j] \/ "sweep" \in io[j]
Sweeping == closing \in {"no", "stuck"} /\ ~SweepBusy

SweepStart ==
  /\ Sweeping /\ sweep = {} /\ jobs # {}
  /\ sweep' = jobs
  /\ UNCHANGED <<serverVars, job, readers, handlerVars, runner, diskVars,
                 discarding, loop, nativeVars, closing, closeTodo, closePending>>

Retried(j) == job[j].cleanupError /\ job[j].status \in Terminal

\* The sweeper deletes what expired and retries what a delete left behind.
MutDue(j) == job[j].expires = "passed"
Due(j) == job[j].deleteRequested \/ job[j].expires = "passed"

SweepVisit(j) ==
  /\ Sweeping /\ j \in sweep
  /\ sweep' = sweep \ {j}
  /\ UNCHANGED readers
  /\ \/ /\ Due(j)
        /\ MarkDeleted(j)
        /\ DeleteCall(j, "sweeper")
        /\ UNCHANGED io
     \/ /\ ~Due(j)
        /\ io' = IF Retried(j) THEN [io EXCEPT ![j] = @ \union {"sweep"}] ELSE io
        /\ UNCHANGED <<job, cancelled, queue, interrupted, discarding>>
  /\ UNCHANGED <<serverVars, handler, runner, files, faults, loop, foreign, running,
                 stage, history, starts, closing, closeTodo, closePending>>

\* The sweeper's second attempt at _clear_work.
SweepCleared(j) ==
  /\ "sweep" \in io[j]
  /\ io' = [io EXCEPT ![j] = @ \ {"sweep"}]
  /\ \/ /\ files' = [files EXCEPT ![j] = Cleared(@, job[j].status)]
        /\ job' = IF closing = "stopping" THEN job
                  ELSE [job EXCEPT ![j].cleanupError = FALSE]
        /\ UNCHANGED <<faults, closing>>
     \/ /\ \/ discarding[j] # {} /\ UNCHANGED faults
           \/ faults < MaxFaults /\ faults' = faults + 1
        /\ \E left \in Leftovers(files[j]) :
             /\ Cleared(files[j], job[j].status) \subseteq left
             /\ files' = [files EXCEPT ![j] = left]
        /\ job' = [job EXCEPT ![j].cleanupError = TRUE]
        /\ closing' = IF closing = "stopping" THEN "stuck" ELSE closing
  /\ UNCHANGED <<serverVars, readers, handlerVars, runner, discarding, loop,
                 nativeVars, sweep, closeTodo, closePending>>

-----------------------------------------------------------------------------
(* close(): the plugin's part of an orderly shutdown.                       *)

\* The web server has ended its responses before it runs cleanup contexts, so
\* no download is open; submit handlers may still be ending.
CloseStart ==
  /\ Ready /\ \A j \in Ids : readers[j] = 0
  /\ closing' = "stopping"
  /\ UNCHANGED <<serverVars, job, readers, handlerVars, runner, diskVars,
                 discarding, loop, nativeVars, sweep, closeTodo, closePending>>

\* The cancelled sweeper has ended; every job it left is to be deleted.
CloseStopped ==
  /\ closing = "stopping" /\ ~SweepBusy
  /\ closing' = "deleting"
  /\ sweep' = {} /\ closeTodo' = jobs
  /\ UNCHANGED <<serverVars, job, readers, handlerVars, runner, diskVars,
                 discarding, loop, nativeVars, closePending>>

CloseBusy == \E j \in Ids : "close" \in discarding[j]

CloseDelete(j) ==
  /\ closing = "deleting" /\ ~CloseBusy /\ j \in closeTodo
  /\ closeTodo' = closeTodo \ {j}
  /\ closePending' = IF runner[j] # "none" \/ Receiving(j)
                     THEN closePending \union {j} ELSE closePending
  /\ MarkDeleted(j)
  /\ UNCHANGED readers
  /\ DeleteCall(j, "close")
  /\ UNCHANGED <<serverVars, handler, runner, diskVars, loop, foreign, running, stage,
                 history, starts, sweep, closing>>

CloseWait ==
  /\ closing = "deleting" /\ ~CloseBusy /\ closeTodo = {}
  /\ closing' = "waiting"
  /\ UNCHANGED <<serverVars, job, readers, handlerVars, runner, diskVars,
                 discarding, loop, nativeVars, sweep, closeTodo, closePending>>

\* After asyncio.wait: a task that outlived the timeout, or native work that
\* is still active, keeps the directory lock until the process exits.
Unfinished(j) == handler[j] # "done" \/ runner[j] \notin {"none", "done"}
MutKeepLock == \E j \in jobs : job[j].nativeActive
KeepLock ==
  /\ closePending # {}
  /\ \/ \E j \in closePending : Unfinished(j)
     \/ \E j \in jobs : job[j].nativeActive

CloseEnd ==
  /\ closing = "waiting"
  /\ closing' = IF KeepLock THEN "kept" ELSE "released"
  /\ UNCHANGED <<serverVars, job, readers, handlerVars, runner, diskVars,
                 discarding, loop, nativeVars, sweep, closeTodo, closePending>>

-----------------------------------------------------------------------------
HandlerStep(j) ==
  \/ HandlerIoDone(j) \/ Launch(j) \/ HandlerCancelled(j)
RunnerStep(j) ==
  \/ RunnerWake(j) \/ ResultsDone(j) \/ ClearWork(j) \/ ClearDone(j)
LoopStep == \E j \in Ids : LoopEvent(j) \/ LoopPoll(j) \/ LoopIo(j)
WorkerStep ==
  WorkerTake \/ WorkerStart \/ \E o \in {"success", "error"} : WorkerDone(o)
DiscardStep(j) == \E c \in Callers : DiscardDone(j, c) \/ DiscardFailed(j, c)
CloseStep ==
  \/ CloseStart \/ CloseStopped \/ CloseWait \/ CloseEnd
  \/ \E j \in Ids : CloseDelete(j)

Next ==
  \/ WorkerStep \/ LoopStep \/ SweepStart
  \/ \E j \in Ids :
       \/ Submit(j) \/ ReceiveChunk(j) \/ Uploaded(j) \/ HandlerFails(j)
       \/ HandlerStep(j) \/ RunnerStep(j) \/ DiscardStep(j) \/ NativeDrop(j)
       \/ Delete(j) \/ ReaderOpen(j) \/ ReaderClose(j) \/ Expire(j)
       \/ SweepVisit(j) \/ SweepCleared(j)
  \/ CloseStep

Spec == Init /\ [][Next]_vars

\* The loop, its threads and the worker run on.  An upload ends: it is bounded
\* in size and aborted after 120 idle seconds.  Downloads end and time passes.
Fairness ==
  /\ WF_vars(LoopStep) /\ WF_vars(WorkerStep) /\ WF_vars(SweepStart)
  /\ \A j \in Ids :
       /\ SF_vars(Uploaded(j) \/ HandlerFails(j))
       /\ WF_vars(HandlerStep(j)) /\ WF_vars(RunnerStep(j))
       /\ WF_vars(SweepVisit(j)) /\ WF_vars(SweepCleared(j))
       /\ WF_vars(ReaderClose(j)) /\ WF_vars(Expire(j))
       /\ \A c \in Callers : WF_vars(DiscardDone(j, c))

FairSpec == Spec /\ Fairness

-----------------------------------------------------------------------------
(* Properties.                                                              *)

\* While anyone is inside discard(), nothing else uses the job's directory: no
\* thread of the handler or the runner, no prompt that may still execute, no
\* download ("a cancelled handler must not remove files still owned by its I/O
\* thread").  The sweeper's own second _clear_work is the one exception.
RemovalExcludesUse ==
  \A j \in Ids : discarding[j] # {} =>
    /\ io[j] \subseteq {"sweep"}
    /\ ~InNative(j)
    /\ readers[j] = 0

\* A job that left Jobs.jobs, which is when DELETE answers 204, leaves nothing:
\* no file, no prompt, no history record, no coroutine that could make new ones.
GoneLeavesNothing ==
  \A j \in requests \ jobs :
    /\ files[j] = {} /\ io[j] \subseteq {"sweep"}
    /\ ~InNative(j) /\ history[j] = "none"
    /\ ~Receiving(j) /\ runner[j] \in {"none", "done"} /\ readers[j] = 0

\* An open download keeps its outputs through expiry, DELETE and sweeping.
LeaseHeld ==
  \A j \in Ids : readers[j] > 0 => j \in jobs /\ "outputs" \in files[j]

\* A finished job that reports no cleanup error holds exactly what its outcome
\* promises: its results after success, nothing after failure.  A failure that is
\* reported as success (see FailureIsReported) has no results; but what the thread
\* of _clear_work took for the outcome is what is published, so the directory that
\* such a job keeps is there, without its inputs.
SettledFiles ==
  \A j \in jobs :
    (job[j].finished /\ ~job[j].deleteRequested /\ ~job[j].cleanupError) =>
      \/ job[j].status = "failed" /\ files[j] = {}
      \/ /\ job[j].status = "succeeded" /\ ~job[j].error
         /\ job[j].outputs /\ files[j] = {"root", "outputs"}
      \/ /\ job[j].status = "succeeded" /\ job[j].error
         /\ ~job[j].outputs /\ files[j] = {"root"}

\* The native worker takes a request identity at most once per process, even
\* when its job failed or was deleted and the client submits it again.
StartedOnce == \A j \in Ids : starts[j] <= 1

\* The native interrupt flag is only raised against a prompt whose own job was
\* asked to be deleted, never against the job that happens to execute.
InterruptsOwn ==
  [][interrupted' /\ ~interrupted =>
       running # NoJob /\ job'[running].deleteRequested]_vars

\* Once close() gave up the directory lock, so that another process may erase
\* the session, no thread, runner or native prompt can touch a job's files.
LockCoversUse ==
  closing = "released" =>
    \A j \in Ids : io[j] = {} /\ ~InNative(j) /\ ~Receiving(j)
                   /\ runner[j] \in {"none", "done"}

\* Every accepted submission ends, unless the process shuts down before: it
\* reports an outcome or it is gone.
SubmissionSettles ==
  \A j \in Ids : j \in jobs ~> (job[j].finished \/ j \notin jobs \/ closing # "no")

\* No job is kept forever: its files and its entry go after deletion or expiry,
\* whatever removals failed on the way, unless the process shuts down before.
EveryJobLeaves == \A j \in Ids : j \in jobs ~> (j \notin jobs \/ closing # "no")

\* A job whose execution failed reports "failed" when it is finished.
FailureIsReported ==
  \A j \in jobs : job[j].finished /\ job[j].error => job[j].status = "failed"
=============================================================================
