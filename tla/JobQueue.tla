------------------------------ MODULE JobQueue ------------------------------
(***************************************************************************)
(* The background jobs of the main process: MainBackgroundJobRepository    *)
(* over JobsStore.  One action stands for what runs between two awaits of  *)
(* the TypeScript code, so every interleaving of the IPC handlers (start,  *)
(* cancel, clearCompleted, acknowledgeIssues), of the queue drainer, of    *)
(* the file system and of a crash with restart is a behaviour.             *)
(*                                                                         *)
(*   - JobsStore serialises its mutations on a promise chain (mutations):  *)
(*     the head reads the jobs file, edits it and renames a temporary file *)
(*     over it (Rename); later its promise settles and the caller goes on  *)
(*     (the Settle actions), or the file system fails (the Reject ones).   *)
(*   - oldestQueued reads the file OUTSIDE that chain: it waits for the    *)
(*     mutations already queued, and its read (Lookup) may then happen     *)
(*     before or after the rename of a younger mutation.                   *)
(*   - drainQueue is guarded by draining and running; every call that      *)
(*     passes the guard is a worker, so that one worker at a time is a     *)
(*     property of the guard and not of the model.                         *)
(***************************************************************************)
EXTENDS Naturals, Sequences, FiniteSets

CONSTANTS
  MaxJobs,       \* bound: start() calls, over all sessions of the application
  Workers,       \* invocations of drainQueue that may be past its guard at once
  MaxPending,    \* bound: mutations queued when an IPC call arrives
  MaxCancels,    \* bound: cancel() calls
  MaxCrashes,    \* bound: times the process dies
  MaxFaults      \* bound: failed file-system operations and activity appends

ASSUME JobQueueAssumption ==
  /\ MaxJobs \in Nat \ {0}
  /\ Workers # {}
  /\ {MaxPending, MaxCancels, MaxCrashes, MaxFaults} \subseteq Nat

Jobs == 1..MaxJobs       \* in the order of the start() calls
NoJob == 0

Final == {"cancelled", "failed", "interrupted", "succeeded"}
Issue == {"failed", "interrupted"}
Status == {"absent", "queued", "running"} \cup Final

Job == [status : Status, cancelRequested : BOOLEAN, acknowledged : BOOLEAN]
Absent == [status |-> "absent", cancelRequested |-> FALSE, acknowledged |-> FALSE]

MutationKind == {"add", "acknowledge", "cancelQueued", "cancelRunning", "clear",
                 "final", "interrupt", "progress", "run"}

Mutation == [kind : MutationKind, job : Jobs \cup {NoJob}, status : Status]
Of(kind, j) == [kind |-> kind, job |-> j, status |-> "absent"]
FinalUpdate(j, s) == [kind |-> "final", job |-> j, status |-> s]

(***************************************************************************)
(* A worker is one invocation of drainQueue with the runJob it is in:      *)
(*   idle      no invocation                                               *)
(*   lookup    in oldestQueued, `ahead` mutations still to settle, then    *)
(*             the file is read                                            *)
(*   found     the read is done, its result (job) not yet seen by the code *)
(*   starting  runJob awaits the update to status running                  *)
(*   work      the runner runs;   progress   it awaits a progress update   *)
(*   final     runJob awaits the final update                              *)
(*   log       runJob awaits recordFinalActivity                           *)
(* catching says that final and log are those of runJob's catch block.     *)
(***************************************************************************)
WorkerPc == {"idle", "lookup", "found", "starting", "work", "progress", "final", "log"}
Worker == [pc : WorkerPc, job : Jobs \cup {NoJob}, ahead : Nat,
           outcome : Status, catching : BOOLEAN]
Idle == [pc |-> "idle", job |-> NoJob, ahead |-> 0, outcome |-> "absent", catching |-> FALSE]
Looking(n) == [Idle EXCEPT !.pc = "lookup", !.ahead = n]

VARIABLES
  alive,         \* the main process is up
  file,          \* background-jobs.json: each job's record, or Absent
  started,       \* start() calls so far
  created,       \* createdAt, in milliseconds, of each job
  mutations,     \* JobsStore.mutationQueue: the operations not yet settled
  renamed,       \* the head of mutations has renamed its file into place
  touched,       \* the jobs the head's operation updated, once renamed
  running,       \* MainBackgroundJobRepository.running?.id, NoJob for null
  cancelFlag,    \* running.cancelRequested
  draining,      \* MainBackgroundJobRepository.draining
  worker,        \* the state of each invocation of drainQueue
  initPc,        \* initialize(): off, interrupting, logging
  initLeft,      \* the interrupted jobs initialize() has yet to record
  appends,       \* activity appends of cancel() and runJob under way, in call order
  log,           \* the activity log: for each job the outcomes recorded, in order
  executing,     \* history: the jobs a runner is executing
  executed,      \* history: the jobs whose runner was ever called
  budget         \* cancels, crashes and faults used, for the bounds

vars == <<alive, file, started, created, mutations, renamed, touched, running, cancelFlag,
          draining, worker, initPc, initLeft, appends, log, executing, executed, budget>>

starts == <<started, created>>
queue == <<mutations, renamed, touched>>
service == <<running, cancelFlag, draining, worker>>
initialising == <<initPc, initLeft>>
activity == <<appends, log>>
history == <<executing, executed>>

Entry == [job : Jobs, status : Status, from : {"cancel", "runJob"}]

TypeOK ==
  /\ alive \in BOOLEAN
  /\ file \in [Jobs -> Job]
  /\ started \in 0..MaxJobs
  /\ created \in [Jobs -> Nat]
  /\ mutations \in Seq(Mutation)
  /\ renamed \in BOOLEAN
  /\ touched \in SUBSET Jobs
  /\ running \in Jobs \cup {NoJob}
  /\ cancelFlag \in BOOLEAN
  /\ draining \in BOOLEAN
  /\ worker \in [Workers -> Worker]
  /\ initPc \in {"off", "interrupting", "logging"}
  /\ initLeft \in SUBSET Jobs
  /\ appends \in Seq(Entry)
  /\ log \in [Jobs -> Seq(Status)]
  /\ executing \in SUBSET Jobs
  /\ executed \in SUBSET Jobs
  /\ budget \in [cancels : Nat, crashes : Nat, faults : Nat]

Init ==
  /\ alive = FALSE
  /\ file = [j \in Jobs |-> Absent]
  /\ started = 0
  /\ created = [j \in Jobs |-> 0]
  /\ mutations = <<>> /\ renamed = FALSE /\ touched = {}
  /\ running = NoJob /\ cancelFlag = FALSE
  /\ draining = FALSE
  /\ worker = [w \in Workers |-> Idle]
  /\ initPc = "off" /\ initLeft = {}
  /\ appends = <<>>
  /\ log = [j \in Jobs |-> <<>>]
  /\ executing = {} /\ executed = {}
  /\ budget = [cancels |-> 0, crashes |-> 0, faults |-> 0]

-----------------------------------------------------------------------------
(***************************************************************************)
(* The jobs file and its mutations                                         *)
(***************************************************************************)

Present(j) == file[j].status # "absent"

\* Mutant: interruptActive overlooks the running job.
Active_QueuedOnly(j) == file[j].status = "queued"

\* What interruptActive() interrupts at a launch, and what it makes of it.
Active(j) == file[j].status \in {"queued", "running"}

\* Mutant: a launch puts the unfinished jobs back in the queue.
InterruptedStatus_Requeued == "queued"
InterruptedStatus == "interrupted"

\* Mutant: clearCompleted removes whatever is not queued.
Clearable_NotQueued(j) == file[j].status # "queued"

\* What clearCompleted() removes: isFinalStatus.
Clearable(j) == file[j].status \in Final

\* What cancel() cancels by its record alone.
Cancellable(j) == file[j].status = "queued"

\* oldestQueued: the least createdAt.  Records are kept newest first and the
\* insertion sort is stable, so among equal createdAt the YOUNGEST is first.
OldestQueued ==
  LET queued == {j \in Jobs : file[j].status = "queued"}
  IN {j \in queued : \A k \in queued \ {j} :
        created[j] < created[k] \/ (created[j] = created[k] /\ j > k)}

\* The record of job j after mutation m.
Edited(m, j) ==
  LET r == file[j] IN
  CASE m.kind = "add" /\ j = m.job -> [Absent EXCEPT !.status = "queued"]
    [] m.kind = "cancelRunning" /\ j = m.job /\ Present(j) ->
         [r EXCEPT !.cancelRequested = TRUE]
    [] m.kind = "cancelQueued" /\ j = m.job /\ Cancellable(j) ->
         [r EXCEPT !.cancelRequested = TRUE, !.status = "cancelled"]
    [] m.kind = "run" /\ j = m.job /\ Present(j) -> [r EXCEPT !.status = "running"]
    [] m.kind = "final" /\ j = m.job /\ Present(j) -> [r EXCEPT !.status = m.status]
    [] m.kind = "acknowledge" /\ j = m.job /\ r.status \in Issue ->
         [r EXCEPT !.acknowledged = TRUE]
    [] m.kind = "interrupt" /\ Active(j) -> [r EXCEPT !.status = InterruptedStatus]
    [] m.kind = "clear" /\ Clearable(j) -> Absent
    [] OTHER -> r

\* What the operation hands back to its caller: the record update() found, or
\* the records interruptActive() changed.
Touched(m) ==
  IF m.kind = "interrupt" THEN {j \in Jobs : Active(j)}
  ELSE {j \in Jobs : j = m.job /\ Present(j)}

\* The head's operation: read the file, edit, write a temporary file, rename it.
Rename ==
  /\ alive
  /\ mutations # <<>> /\ ~renamed
  /\ file' = [j \in Jobs |-> Edited(Head(mutations), j)]
  /\ touched' = Touched(Head(mutations))
  /\ renamed' = TRUE
  /\ UNCHANGED <<alive, starts, mutations, service, initialising, activity, history, budget>>

\* The head's promise settles; the workers waiting for it in oldestQueued are
\* one mutation nearer to their read.
Settles(kind) ==
  /\ alive
  /\ mutations # <<>> /\ renamed
  /\ Head(mutations).kind = kind
  /\ renamed' = FALSE /\ touched' = {}

\* The file system fails under the head's operation: no rename, the caller's
\* await throws.
Rejects(kinds) ==
  /\ alive
  /\ mutations # <<>> /\ ~renamed
  /\ Head(mutations).kind \in kinds
  /\ budget.faults < MaxFaults
  /\ budget' = [budget EXCEPT !.faults = @ + 1]
  /\ UNCHANGED <<renamed, touched>>

\* Mutant: every settled mutation counts, also one queued after the wait began.
Nearer_Always == [w \in Workers |-> [worker[w] EXCEPT !.ahead = @ - 1]]

Nearer ==
  [w \in Workers |-> IF worker[w].ahead > 0
                     THEN [worker[w] EXCEPT !.ahead = @ - 1]
                     ELSE worker[w]]

Rest == Tail(mutations)

Enqueue(m) == mutations' = Append(mutations, m)

-----------------------------------------------------------------------------
(***************************************************************************)
(* drainQueue and runJob                                                   *)
(***************************************************************************)

\* Line 146: if (this.draining || this.running) return.
DrainBusy == draining \/ running # NoJob

\* A call of drainQueue, up to its first await; `others` are the workers and
\* `pending` the mutations queued when it is made.
CallDrainQueue(others, pending) ==
  IF DrainBusy
  THEN worker' = others /\ UNCHANGED draining
  ELSE /\ draining' = TRUE
       /\ \E w \in Workers :
            /\ others[w].pc = "idle"
            /\ worker' = [others EXCEPT ![w] = Looking(Len(pending))]

\* The end of runJob (finally: running = null), and drainQueue's next turn.
NextTurn(w, others, pending) ==
  /\ running' = NoJob /\ cancelFlag' = FALSE
  /\ worker' = [others EXCEPT ![w] = Looking(Len(pending))]
  /\ UNCHANGED draining

\* runJob throws: drainQueue's finally clears draining and its promise rejects.
LeaveDrainQueue(w, others) ==
  /\ draining' = FALSE
  /\ worker' = [others EXCEPT ![w] = Idle]

\* oldestQueued reads the file, at any moment after the wait.
Lookup(w) ==
  /\ alive
  /\ worker[w].pc = "lookup" /\ worker[w].ahead = 0
  /\ \E j \in Jobs \cup {NoJob} :
       /\ OldestQueued = {j} \/ (OldestQueued = {} /\ j = NoJob)
       /\ worker' = [worker EXCEPT ![w].pc = "found", ![w].job = j]
  /\ UNCHANGED <<alive, file, starts, queue, running, cancelFlag, draining,
                 initialising, activity, history, budget>>

\* oldestQueued throws: the jobs file cannot be read.
LookupFails(w) ==
  /\ alive
  /\ worker[w].pc = "lookup" /\ worker[w].ahead = 0
  /\ budget.faults < MaxFaults
  /\ budget' = [budget EXCEPT !.faults = @ + 1]
  /\ LeaveDrainQueue(w, worker)
  /\ UNCHANGED <<alive, file, starts, queue, running, cancelFlag,
                 initialising, activity, history>>

\* Nothing queued: drainQueue returns.
FoundNothing(w) ==
  /\ alive
  /\ worker[w].pc = "found" /\ worker[w].job = NoJob
  /\ LeaveDrainQueue(w, worker)
  /\ UNCHANGED <<alive, file, starts, queue, running, cancelFlag,
                 initialising, activity, history, budget>>

\* runJob(next) up to its first await.
RunJob(w) ==
  LET j == worker[w].job IN
  /\ alive
  /\ worker[w].pc = "found" /\ j # NoJob
  /\ running' = j /\ cancelFlag' = FALSE
  /\ Enqueue(Of("run", j))
  /\ worker' = [worker EXCEPT ![w].pc = "starting"]
  /\ UNCHANGED <<alive, file, starts, renamed, touched, draining,
                 initialising, activity, history, budget>>

\* The job is marked running and the runner is called, or it was removed
\* meanwhile and runJob returns.
SettleRun ==
  /\ Settles("run")
  /\ mutations' = Rest
  /\ \E w \in Workers :
       /\ worker[w].pc = "starting" /\ worker[w].job = Head(mutations).job
       /\ \/ /\ touched # {}
             /\ worker' = [Nearer EXCEPT ![w].pc = "work"]
             /\ executing' = executing \cup {worker[w].job}
             /\ executed' = executed \cup {worker[w].job}
             /\ UNCHANGED <<running, cancelFlag, draining>>
          \/ /\ touched = {}
             /\ NextTurn(w, Nearer, Rest)
             /\ UNCHANGED history
  /\ UNCHANGED <<alive, file, starts, initialising, activity, budget>>

\* The first update fails OUTSIDE runJob's try: nothing clears running.
RejectRun ==
  /\ Rejects({"run"})
  /\ mutations' = Rest
  /\ \E w \in Workers :
       /\ worker[w].pc = "starting" /\ worker[w].job = Head(mutations).job
       /\ LeaveDrainQueue(w, Nearer)
  /\ UNCHANGED <<alive, file, starts, running, cancelFlag, initialising, activity, history>>

\* The runner reports progress and awaits the update of the record.
ReportProgress(w) ==
  /\ alive
  /\ worker[w].pc = "work"
  /\ Enqueue(Of("progress", worker[w].job))
  /\ worker' = [worker EXCEPT ![w].pc = "progress"]
  /\ UNCHANGED <<alive, file, starts, renamed, touched, running, cancelFlag, draining,
                 initialising, activity, history, budget>>

SettleProgress ==
  /\ Settles("progress")
  /\ mutations' = Rest
  /\ \E w \in Workers :
       /\ worker[w].pc = "progress" /\ worker[w].job = Head(mutations).job
       /\ worker' = [Nearer EXCEPT ![w].pc = "work"]
  /\ UNCHANGED <<alive, file, starts, running, cancelFlag, draining,
                 initialising, activity, history, budget>>

\* The runner is over with status s: the final update of the try block, or of
\* the catch block, is queued behind `pending`.
Finish(w, others, pending, s, inCatch) ==
  /\ worker' = [others EXCEPT ![w].pc = "final", ![w].outcome = s, ![w].catching = inCatch]
  /\ mutations' = Append(pending, FinalUpdate(worker[w].job, s))
  /\ executing' = executing \ {worker[w].job}
  /\ UNCHANGED executed

\* A progress update that fails makes the runner throw.
RejectProgress ==
  /\ Rejects({"progress"})
  /\ \E w \in Workers :
       /\ worker[w].pc = "progress" /\ worker[w].job = Head(mutations).job
       /\ Finish(w, Nearer, Rest, "failed", TRUE)
  /\ UNCHANGED <<alive, file, starts, running, cancelFlag, draining, initialising, activity>>

\* The runner returns.  It may have seen no cancellation although one was asked.
RunnerReturns(w) ==
  /\ alive
  /\ worker[w].pc = "work"
  /\ Finish(w, worker, mutations, IF cancelFlag THEN "cancelled" ELSE "succeeded", FALSE)
  /\ UNCHANGED <<alive, file, starts, renamed, touched, running, cancelFlag, draining,
                 initialising, activity, budget>>

\* The runner throws: JobCancelledError when its signal is set, or an error of
\* Firestore or of the file it reads or writes.
RunnerThrows(w) ==
  /\ alive
  /\ worker[w].pc = "work"
  /\ \/ cancelFlag /\ Finish(w, worker, mutations, "cancelled", TRUE)
     \/ Finish(w, worker, mutations, "failed", TRUE)
  /\ UNCHANGED <<alive, file, starts, renamed, touched, running, cancelFlag, draining,
                 initialising, activity, budget>>

\* Mutant: the entry forgets that the job was cancelled or failed.
FinalEntry_Success(j, s) == [job |-> j, status |-> "succeeded", from |-> "runJob"]

FinalEntry(j, s) == [job |-> j, status |-> s, from |-> "runJob"]

\* The final record is on disk: record it in the activity log.
SettleFinal ==
  /\ Settles("final")
  /\ mutations' = Rest
  /\ \E w \in Workers :
       /\ worker[w].pc = "final" /\ worker[w].job = Head(mutations).job
       /\ \/ /\ touched # {}
             /\ worker' = [Nearer EXCEPT ![w].pc = "log"]
             /\ appends' = Append(appends, FinalEntry(worker[w].job, worker[w].outcome))
             /\ UNCHANGED <<running, cancelFlag, draining>>
          \/ /\ touched = {}
             /\ NextTurn(w, Nearer, Rest)
             /\ UNCHANGED appends
  /\ UNCHANGED <<alive, file, starts, initialising, log, history, budget>>

\* In the try block the failure is caught and the job is rewritten as failed; in
\* the catch block it escapes runJob and drainQueue.
RejectFinal ==
  /\ Rejects({"final"})
  /\ \E w \in Workers :
       /\ worker[w].pc = "final" /\ worker[w].job = Head(mutations).job
       /\ \/ /\ ~worker[w].catching
             /\ Finish(w, Nearer, Rest, "failed", TRUE)
             /\ UNCHANGED <<running, cancelFlag, draining>>
          \/ /\ worker[w].catching
             /\ mutations' = Rest
             /\ running' = NoJob /\ cancelFlag' = FALSE
             /\ LeaveDrainQueue(w, Nearer)
             /\ UNCHANGED history
  /\ UNCHANGED <<alive, file, starts, initialising, activity>>

-----------------------------------------------------------------------------
(***************************************************************************)
(* recordFinalActivity: the appends of the activity log, oldest first      *)
(***************************************************************************)

Recorded(e) == log' = [log EXCEPT ![e.job] = Append(@, e.status)]

\* The entry of a cancelled queued job: cancel() is over.
LogCancel ==
  /\ alive
  /\ appends # <<>> /\ Head(appends).from = "cancel"
  /\ Recorded(Head(appends))
  /\ appends' = Tail(appends)
  /\ UNCHANGED <<alive, file, starts, queue, service, initialising, history, budget>>

\* The entry of the job just run: runJob is over.
LogFinal ==
  /\ alive
  /\ appends # <<>> /\ Head(appends).from = "runJob"
  /\ Recorded(Head(appends))
  /\ appends' = Tail(appends)
  /\ \E w \in Workers :
       /\ worker[w].pc = "log" /\ worker[w].job = Head(appends).job
       /\ NextTurn(w, worker, mutations)
  /\ UNCHANGED <<alive, file, starts, queue, initialising, history, budget>>

\* The append fails.  After a success or a cancellation the try block's catch
\* rewrites the job as failed; in the catch block runJob and drainQueue reject.
LogFails ==
  /\ alive
  /\ appends # <<>>
  /\ budget.faults < MaxFaults
  /\ budget' = [budget EXCEPT !.faults = @ + 1]
  /\ appends' = Tail(appends)
  /\ \/ /\ Head(appends).from = "cancel"
        /\ UNCHANGED <<mutations, service, history>>
     \/ /\ Head(appends).from = "runJob"
        /\ \E w \in Workers :
             /\ worker[w].pc = "log" /\ worker[w].job = Head(appends).job
             /\ \/ /\ ~worker[w].catching
                   /\ Finish(w, worker, mutations, "failed", TRUE)
                   /\ UNCHANGED <<running, cancelFlag, draining>>
                \/ /\ worker[w].catching
                   /\ running' = NoJob /\ cancelFlag' = FALSE
                   /\ LeaveDrainQueue(w, worker)
                   /\ UNCHANGED <<mutations, history>>
  /\ UNCHANGED <<alive, file, starts, renamed, touched, initialising, log>>

-----------------------------------------------------------------------------
(***************************************************************************)
(* The IPC calls of the renderer                                           *)
(***************************************************************************)

Room == Len(mutations) < MaxPending

\* start(request): two calls may fall in the same millisecond.
Start ==
  LET j == started + 1 IN
  /\ alive /\ Room
  /\ started < MaxJobs
  /\ started' = j
  /\ \E elapsed \in {0, 1} :
       created' = [created EXCEPT ![j] = elapsed + IF started = 0 THEN 0 ELSE created[started]]
  /\ Enqueue(Of("add", j))
  /\ UNCHANGED <<alive, file, renamed, touched, service, initialising,
                 activity, history, budget>>

\* The job is on disk: start() calls drainQueue and returns it.
SettleAdd ==
  /\ Settles("add")
  /\ mutations' = Rest
  /\ CallDrainQueue(Nearer, Rest)
  /\ UNCHANGED <<alive, file, starts, running, cancelFlag, initialising,
                 activity, history, budget>>

\* Which of cancel()'s two paths is taken is decided at the call.
CancelKind(j) ==
  \/ /\ running = j
     /\ cancelFlag' = TRUE
     /\ Enqueue(Of("cancelRunning", j))
  \/ /\ running # j
     /\ UNCHANGED cancelFlag
     /\ Enqueue(Of("cancelQueued", j))

\* cancel(id), for a job the renderer was told of.
Cancel(j) ==
  /\ alive /\ Room
  /\ Present(j)
  /\ budget.cancels < MaxCancels
  /\ budget' = [budget EXCEPT !.cancels = @ + 1]
  /\ CancelKind(j)
  /\ UNCHANGED <<alive, file, starts, renamed, touched, running, draining, worker,
                 initialising, activity, history>>

\* cancel() records the job if it is cancelled now, whoever cancelled it.
SettleCancelQueued ==
  /\ Settles("cancelQueued")
  /\ mutations' = Rest
  /\ worker' = Nearer
  /\ \/ \E j \in touched :
           /\ file[j].status = "cancelled"
           /\ appends' = Append(appends, [job |-> j, status |-> "cancelled", from |-> "cancel"])
     \/ /\ \A j \in touched : file[j].status # "cancelled"
        /\ UNCHANGED appends
  /\ UNCHANGED <<alive, file, starts, running, cancelFlag, draining, initialising,
                 log, history, budget>>

\* clearCompleted().
ClearCompleted ==
  /\ alive /\ Room
  /\ \E j \in Jobs : file[j].status \in Final
  /\ Enqueue(Of("clear", NoJob))
  /\ UNCHANGED <<alive, file, starts, renamed, touched, service, initialising,
                 activity, history, budget>>

\* acknowledgeIssues([id]), for a failed or interrupted job.
AcknowledgeIssue(j) ==
  /\ alive /\ Room
  /\ file[j].status \in Issue /\ ~file[j].acknowledged
  /\ Enqueue(Of("acknowledge", j))
  /\ UNCHANGED <<alive, file, starts, renamed, touched, service, initialising,
                 activity, history, budget>>

\* The other promises settle without a further await in their caller.
SettleQuietly ==
  /\ \E kind \in {"acknowledge", "cancelRunning", "clear"} : Settles(kind)
  /\ mutations' = Rest
  /\ worker' = Nearer
  /\ UNCHANGED <<alive, file, starts, running, cancelFlag, draining, initialising,
                 activity, history, budget>>

\* An IPC call rejects: a job whose add failed never reaches the file.
RejectCall ==
  /\ Rejects({"acknowledge", "add", "cancelQueued", "cancelRunning", "clear"})
  /\ mutations' = Rest
  /\ worker' = Nearer
  /\ UNCHANGED <<alive, file, starts, running, cancelFlag, draining, initialising,
                 activity, history>>

-----------------------------------------------------------------------------
(***************************************************************************)
(* The process starts, initialises and dies                                *)
(***************************************************************************)

\* registerIpcHandlers: initialize() queues its mutation before any IPC call
\* can arrive.
Launch ==
  /\ ~alive
  /\ alive' = TRUE
  /\ mutations' = <<Of("interrupt", NoJob)>>
  /\ initPc' = "interrupting"
  /\ UNCHANGED <<file, starts, renamed, touched, service, initLeft,
                 activity, history, budget>>

\* The interrupted jobs are recorded; with none, initialize() drains at once.
SettleInterrupt ==
  /\ Settles("interrupt")
  /\ mutations' = Rest
  /\ initLeft' = touched
  /\ \/ /\ touched # {}
        /\ initPc' = "logging"
        /\ worker' = Nearer
        /\ UNCHANGED draining
     \/ /\ touched = {}
        /\ initPc' = "off"
        /\ CallDrainQueue(Nearer, Rest)
  /\ UNCHANGED <<alive, file, starts, running, cancelFlag, activity, history, budget>>

\* initialize() rejects: what the last session left queued or running stays so.
RejectInterrupt ==
  /\ Rejects({"interrupt"})
  /\ mutations' = Rest
  /\ worker' = Nearer
  /\ initPc' = "off"
  /\ UNCHANGED <<alive, file, starts, running, cancelFlag, draining, initLeft,
                 activity, history>>

\* One interrupted job is recorded; after the last initialize() drains, unless
\* one of them failed.
LogInterrupted(j) ==
  /\ alive
  /\ j \in initLeft
  /\ initLeft' = initLeft \ {j}
  /\ log' = [log EXCEPT ![j] = Append(@, "interrupted")]
  /\ \/ /\ initPc = "logging" /\ initLeft = {j}
        /\ initPc' = "off"
        /\ CallDrainQueue(worker, mutations)
     \/ /\ initPc = "off" \/ initLeft # {j}
        /\ UNCHANGED <<initPc, draining, worker>>
  /\ UNCHANGED <<alive, file, starts, queue, running, cancelFlag, appends, history, budget>>

\* Promise.all rejects: initialize() does not drain.
LogInterruptedFails(j) ==
  /\ alive
  /\ j \in initLeft
  /\ budget.faults < MaxFaults
  /\ budget' = [budget EXCEPT !.faults = @ + 1]
  /\ initLeft' = initLeft \ {j}
  /\ initPc' = "off"
  /\ UNCHANGED <<alive, file, starts, queue, service, activity, history>>

\* The process dies, or the user quits: only the two files are left.
Crash ==
  /\ alive
  /\ budget.crashes < MaxCrashes
  /\ budget' = [budget EXCEPT !.crashes = @ + 1]
  /\ alive' = FALSE
  /\ mutations' = <<>> /\ renamed' = FALSE /\ touched' = {}
  /\ running' = NoJob /\ cancelFlag' = FALSE /\ draining' = FALSE
  /\ worker' = [w \in Workers |-> Idle]
  /\ initPc' = "off" /\ initLeft' = {} /\ appends' = <<>>
  /\ executing' = {}
  /\ UNCHANGED <<file, starts, log, executed>>

-----------------------------------------------------------------------------
WorkerStep(w) ==
  \/ Lookup(w) \/ LookupFails(w) \/ FoundNothing(w) \/ RunJob(w)
  \/ ReportProgress(w) \/ RunnerReturns(w) \/ RunnerThrows(w)

MutationStep ==
  \/ Rename
  \/ SettleAdd \/ SettleCancelQueued \/ SettleQuietly \/ SettleRun
  \/ SettleProgress \/ SettleFinal \/ SettleInterrupt
  \/ RejectCall \/ RejectRun \/ RejectProgress \/ RejectFinal \/ RejectInterrupt

ActivityStep ==
  \/ LogCancel \/ LogFinal \/ LogFails
  \/ \E j \in Jobs : LogInterrupted(j) \/ LogInterruptedFails(j)

CallStep ==
  \/ Start \/ ClearCompleted
  \/ \E j \in Jobs : Cancel(j) \/ AcknowledgeIssue(j)

Next ==
  \/ Launch \/ Crash
  \/ CallStep \/ MutationStep \/ ActivityStep
  \/ \E w \in Workers : WorkerStep(w)

Spec == Init /\ [][Next]_vars

(***************************************************************************)
(* Fairness: file operations, appends and reads end, and a runner that may *)
(* report progress again and again ends too (a collection is finite).  The *)
(* user is not fair, and nothing obliges the process to be relaunched or   *)
(* to die.                                                                 *)
(***************************************************************************)
Fairness ==
  /\ WF_vars(Rename)
  /\ WF_vars(SettleAdd \/ SettleCancelQueued \/ SettleQuietly \/ SettleRun
             \/ SettleProgress \/ SettleFinal \/ SettleInterrupt)
  /\ WF_vars(LogCancel \/ LogFinal \/ \E j \in Jobs : LogInterrupted(j))
  /\ \A w \in Workers :
       /\ WF_vars(Lookup(w)) /\ WF_vars(FoundNothing(w)) /\ WF_vars(RunJob(w))
       /\ SF_vars(RunnerReturns(w) \/ RunnerThrows(w))

FairSpec == Spec /\ Fairness

-----------------------------------------------------------------------------
(***************************************************************************)
(* Properties                                                              *)
(***************************************************************************)

\* At most one invocation of drainQueue is past its guard, so two lookups never
\* race for the same job and two runners never write at once.
OneDrainer ==
  \A v, w \in Workers : worker[v].pc # "idle" /\ worker[w].pc # "idle" => v = w

\* While a runner executes a job, running names that job (so cancel reaches it)
\* and its record on disk says running (so a crash is found by initialize).
ExecutingIsDurable ==
  \A j \in executing : running = j /\ file[j].status = "running"

\* A record that says running belongs to the job the drainer is in, unless the
\* launch has not yet interrupted it or the file system failed.
NoOrphanRunning ==
  \A j \in Jobs :
    file[j].status = "running" =>
      \/ running = j
      \/ ~alive \/ initPc = "interrupting"
      \/ budget.faults > 0

\* When everything has settled, a final job's last activity entry tells its
\* status, unless the process died or something failed.
SettledIsLogged ==
  \A j \in Jobs :
    /\ alive /\ mutations = <<>> /\ appends = <<>> /\ initLeft = {}
    /\ running = NoJob
    /\ file[j].status \in Final
    /\ budget.faults = 0 /\ budget.crashes = 0
    => log[j] # <<>> /\ log[j][Len(log[j])] = file[j].status

\* The work of the jobs is that of a serial executor that runs nothing twice.
Serial == INSTANCE SerialExecutor
            WITH Jobs <- Jobs, executing <- executing, executed <- executed
SerialExecution == Serial!Spec

\* A running job ends, or the process dies under it.
RunningEnds ==
  \A j \in Jobs : file[j].status = "running" ~> (file[j].status # "running" \/ ~alive)

\* The test "cancels queued jobs without starting them".
CancelledNotStarted ==
  [][\A j \in executed' \ executed : "cancelled" \notin {log[j][i] : i \in DOMAIN log[j]}]_vars

\* The test "runs queued jobs one at a time": a queued job does not stay queued.
QueuedRuns ==
  \A j \in Jobs : file[j].status = "queued" ~> (file[j].status # "queued" \/ ~alive)

-----------------------------------------------------------------------------
(***************************************************************************)
(* The inductive invariant (JobQueueProofs proves it).  Each part names    *)
(* what the safety of the queue rests on.                                  *)
(***************************************************************************)

Holding == {"starting", "work", "progress", "final", "log"}
Runs == {"work", "progress"}
Owned == {"run", "progress", "final"}

\* draining is exactly "an invocation of drainQueue is past its guard".
DrainingMarks ==
  /\ OneDrainer
  /\ draining <=> \E w \in Workers : worker[w].pc # "idle"

\* running is set exactly while runJob is in progress (a rejected first update
\* leaves it set with no worker).
RunningMarks ==
  \A w \in Workers :
    /\ worker[w].pc \in {"idle", "lookup"} => worker[w].job = NoJob
    /\ worker[w].pc \in Holding => running = worker[w].job /\ worker[w].job # NoJob
    /\ worker[w].pc \in {"lookup", "found"} => running = NoJob
    /\ worker[w].job \in executing <=> worker[w].pc \in Runs

\* executing holds nothing but the job of the worker in its runner.
ExecutingOwned ==
  \A j \in executing : \E w \in Workers : worker[w].pc \in Runs /\ worker[w].job = j

\* A pending mutation of runJob belongs to the worker that awaits it.
MutationsOwned ==
  \A i \in DOMAIN mutations :
    LET m == mutations[i]
        Awaiting(pc) == \E w \in Workers : worker[w].pc = pc /\ worker[w].job = m.job
    IN /\ m.kind = "run" => Awaiting("starting")
       /\ m.kind = "progress" => Awaiting("progress")
       /\ m.kind = "final" => Awaiting("final")
       /\ m.kind = "final" => m.status \in Final

\* ... and there is at most one.
MutationsUnique ==
  \A i, k \in DOMAIN mutations :
    mutations[i].kind \in Owned /\ mutations[k].kind \in Owned => i = k

\* A pending add is that of a job nobody has seen, unless it is renamed already.
AddsFresh ==
  \A i \in DOMAIN mutations :
    LET j == mutations[i].job IN
    mutations[i].kind = "add" =>
      /\ j # NoJob /\ j <= started
      /\ \/ i = 1 /\ renamed
         \/ /\ file[j] = Absent
            /\ j \notin executed
            /\ \A w \in Workers : worker[w].job # j
      /\ \A k \in DOMAIN mutations : mutations[k].kind = "add" /\ mutations[k].job = j => k = i

\* A job not started yet is nowhere.
UnstartedUnknown ==
  \A j \in Jobs : j > started =>
    /\ file[j] = Absent
    /\ j \notin executed
    /\ \A w \in Workers : worker[w].job # j

\* initialize()'s mutation is the first of its session and precedes every
\* invocation of drainQueue.
InterruptFirst ==
  /\ \A i \in DOMAIN mutations :
       mutations[i].kind = "interrupt" =>
         i = 1 /\ initPc = "interrupting" /\ \A w \in Workers : worker[w].pc = "idle"
  /\ initPc = "interrupting" => initLeft = {}

\* A job that was executed, or is about to be, is not queued to be executed again.
NeverRequeued ==
  /\ \A j \in executed : file[j].status # "queued"
  /\ \A w \in Workers : worker[w].pc \in {"found", "starting"} => worker[w].job \notin executed

\* The update to running, once renamed, shows in the file what runJob will see.
RunShows ==
  renamed =>
    /\ mutations # <<>>
    /\ Head(mutations).kind = "run" /\ touched # {} =>
         file[Head(mutations).job].status = "running"

\* With the process down nothing volatile is left.
DeadIsEmpty ==
  ~alive =>
    /\ mutations = <<>> /\ ~renamed /\ initLeft = {}
    /\ running = NoJob /\ ~draining
    /\ \A w \in Workers : worker[w] = Idle

QueueInv ==
  /\ TypeOK
  /\ DrainingMarks /\ RunningMarks /\ ExecutingOwned /\ ExecutingIsDurable
  /\ MutationsOwned /\ MutationsUnique /\ AddsFresh /\ UnstartedUnknown
  /\ InterruptFirst /\ NeverRequeued /\ RunShows /\ DeadIsEmpty
  /\ executing \subseteq executed
=============================================================================
