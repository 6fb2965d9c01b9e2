----------------------------- MODULE ScriptRuns -----------------------------
(***************************************************************************)
(* JavaScript queries, from the tab that runs a script to the process that *)
(* executes it and back.  Three parties share no state: the renderer (the  *)
(* tabs), the main process (ProcessScriptRunnerRepository) and one child   *)
(* process per run.  Calls from the renderer arrive in order, and so do    *)
(* the events broadcast to it; the answer of a call is not ordered with    *)
(* the events, nor the exit of a child with its last messages.             *)
(* Runs are numbered in the order in which they are started.  What a       *)
(* script prints and what it yields is abstracted to the number of values  *)
(* it has yielded, and the text of a script is left out.                   *)
(***************************************************************************)
EXTENDS Naturals, Sequences, FiniteSets, SequencesExt

CONSTANTS
  Tabs,          \* the JavaScript query tabs
  MaxRuns,       \* bound: runs
  MaxOutputs,    \* bound: values a script yields
  MaxLogged,     \* MAX_LOGGED_RUN_IDS
  MaxFaults      \* bound: failures

ASSUME ScriptAssumption ==
  /\ {MaxRuns, MaxOutputs, MaxFaults} \subseteq Nat
  /\ MaxLogged \in Nat \ {0}

NoRun == 0
Runs == 1..MaxRuns

\* A ScriptRunResult, of the run it tells of: partial while events come in.
Kinds == {"partial", "success", "failure", "cancelled"}
Result == [run : Runs, kind : Kinds, stream : 0..MaxOutputs]
NoResult == [run |-> NoRun, kind |-> "partial", stream |-> 0]

VARIABLES
  owner,          \* the tab of each run so far
  active,         \* activeRuns of the renderer, by tab
  shown,          \* results, by tab
  logged,         \* loggedRunIds
  calls,          \* run and cancel calls on their way to the main process
  main,           \* where run() of each run is
  cancelledRuns,  \* cancelledRuns
  cancelling,     \* the active runs with ActiveRun.cancelled
  stream,         \* ActiveRun.stream of the active runs
  child,          \* the process of each run
  killed,         \* the processes sent a signal
  spared,         \* history: runs whose process should have got one, when kill() threw
  sent,           \* messages of each active run's child not yet handled
  events,         \* events on their way to the renderer
  answers,        \* answers of run calls on their way to the renderer
  refusals,       \* cancel calls that have been rejected, the same
  gone,           \* runs whose tab was closed or got another account since
  yielded,        \* history: values each script has yielded
  ended,          \* history: how each script ended
  log,            \* history: the entries of the activity log
  stopped,        \* history: runs the renderer has called cancel for
  faults          \* failures used, for the bound

renderer == <<owner, active, shown, logged, gone, log, stopped>>
repository == <<main, cancelledRuns, cancelling, stream, killed, spared>>
process == <<child, yielded, ended>>
channels == <<calls, events, answers, refusals>>

vars == <<renderer, repository, process, sent, channels, faults>>

\* Of a cancel call the renderer handles the rejection, of a clear call it does not.
Call == [type : {"run", "cancel", "clear"}, run : Runs]
Message == [type : {"output"}] \cup [type : {"result"}, kind : Kinds, stream : 0..MaxOutputs]
Event == [type : {"output"}, run : Runs] \cup [type : {"complete"}, result : Result]

TypeOK ==
  /\ owner \in Seq(Tabs) /\ Len(owner) <= MaxRuns
  /\ active \in [Tabs -> Runs \cup {NoRun}]
  /\ shown \in [Tabs -> Result \cup {NoResult}]
  /\ logged \in Seq(Runs) /\ Len(logged) <= MaxLogged
  /\ calls \in Seq(Call)
  /\ main \in [Runs -> {"none", "resolving", "active", "settled"}]
  /\ {cancelledRuns, cancelling, killed, spared, refusals, gone, stopped} \subseteq SUBSET Runs
  /\ stream \in [Runs -> 0..MaxOutputs] /\ yielded \in [Runs -> 0..MaxOutputs]
  /\ child \in [Runs -> {"none", "running", "exiting", "dead"}]
  /\ sent \in [Runs -> Seq(Message)]
  /\ events \in Seq(Event)
  /\ answers \subseteq Result
  /\ ended \in [Runs -> {"no", "success", "failure", "broken"}]
  /\ log \in Seq([run : Runs, kind : Kinds])
  /\ faults \in 0..MaxFaults

Init ==
  /\ owner = <<>> /\ logged = <<>> /\ calls = <<>> /\ events = <<>> /\ log = <<>>
  /\ active = [t \in Tabs |-> NoRun]
  /\ shown = [t \in Tabs |-> NoResult]
  /\ main = [r \in Runs |-> "none"]
  /\ cancelledRuns = {} /\ cancelling = {} /\ killed = {} /\ spared = {} /\ refusals = {}
  /\ gone = {} /\ stopped = {}
  /\ stream = [r \in Runs |-> 0] /\ yielded = [r \in Runs |-> 0]
  /\ child = [r \in Runs |-> "none"]
  /\ sent = [r \in Runs |-> <<>>]
  /\ answers = {}
  /\ ended = [r \in Runs |-> "no"]
  /\ faults = 0

Fault == faults < MaxFaults /\ faults' = faults + 1

-----------------------------------------------------------------------------
(***************************************************************************)
(* The renderer: what the user does                                        *)
(***************************************************************************)

\* Mutant: the ids are never cut.
Recorded_KeepsAll(r, kind) ==
  IF r \in ToSet(logged) THEN UNCHANGED <<log, logged>>
  ELSE /\ log' = Append(log, [run |-> r, kind |-> kind])
       /\ logged' = Append(logged, r)

\* recordScriptActivityOnce; jsQueryRunActivityRecorded keeps the latest ids.
Recorded(r, kind) ==
  IF r \in ToSet(logged) THEN UNCHANGED <<log, logged>>
  ELSE /\ log' = Append(log, [run |-> r, kind |-> kind])
       /\ LET ids == Append(logged, r)
          IN logged' = IF Len(ids) > MaxLogged THEN Tail(ids) ELSE ids

\* jsQueryRunSucceeded, jsQueryRunCancelled: the run of tab t is over.
Ends(t, result) ==
  /\ active' = [active EXCEPT ![t] = NoRun]
  /\ shown' = [shown EXCEPT ![t] = result]
  /\ Recorded(active[t], result.kind)

\* Mutant: the result of the run before stays.
Cleared_Never(t) == UNCHANGED shown

Cleared(t) == shown' = [shown EXCEPT ![t] = NoResult]

\* runJsQueryCommand; the shell cancels instead while the tab has a run.
Run(t) ==
  /\ active[t] = NoRun /\ Len(owner) < MaxRuns
  /\ LET r == Len(owner) + 1 IN
       /\ owner' = Append(owner, t)
       /\ active' = [active EXCEPT ![t] = r]
       /\ Cleared(t)
       /\ calls' = Append(calls, [type |-> "run", run |-> r])
  /\ UNCHANGED <<logged, gone, log, stopped, repository, process, sent, events, answers, refusals,
                 faults>>

CallCancel(type, r) ==
  /\ calls' = Append(calls, [type |-> type, run |-> r])
  /\ stopped' = stopped \cup {r}

\* cancelJsQueryCommand: what has come in so far stays.
CancelRun(t) ==
  /\ active[t] # NoRun
  /\ Ends(t, [run |-> active[t], kind |-> "cancelled", stream |-> shown[t].stream])
  /\ CallCancel("cancel", active[t])
  /\ UNCHANGED <<owner, gone, repository, process, sent, events, answers, refusals, faults>>

CallCancelIfRunning(t) ==
  IF active[t] # NoRun THEN CallCancel("clear", active[t]) ELSE UNCHANGED <<calls, stopped>>

\* clearJsQueryTabCommand and clearJsQueryTabRuntimeCommand: the tab is closed or
\* gets another account.  Its run is not recorded.
ClearTab(t) ==
  /\ active[t] # NoRun \/ shown[t] # NoResult
  /\ CallCancelIfRunning(t)
  /\ active' = [active EXCEPT ![t] = NoRun]
  /\ Cleared(t)
  /\ gone' = gone \cup {r \in DOMAIN owner : owner[r] = t}
  /\ UNCHANGED <<owner, logged, log, repository, process, sent, events, answers, refusals, faults>>

-----------------------------------------------------------------------------
(***************************************************************************)
(* The main process: ProcessScriptRunnerRepository                         *)
(***************************************************************************)

\* run() up to its await.  Its checks find nothing: ids are fresh, and a run is
\* called before its cancel.
ReceiveRun ==
  /\ calls # <<>> /\ Head(calls).type = "run"
  /\ main' = [main EXCEPT ![Head(calls).run] = "resolving"]
  /\ calls' = Tail(calls)
  /\ UNCHANGED <<renderer, cancelledRuns, cancelling, stream, killed, spared, process, sent, events,
                 answers, refusals, faults>>

\* Mutant: a cancel that comes before the process is forgotten.
CancelEarly_Forgets(r) == UNCHANGED cancelledRuns

CancelEarly(r) == cancelledRuns' = cancelledRuns \cup {r}

\* cancel()
ReceiveCancel ==
  /\ calls # <<>> /\ Head(calls).type \in {"cancel", "clear"}
  /\ LET r == Head(calls).run IN
       \/ /\ main[r] = "active"
          /\ cancelling' = cancelling \cup {r}
          /\ killed' = killed \cup {r}
          /\ UNCHANGED cancelledRuns
       \/ /\ main[r] # "active"
          /\ CancelEarly(r)
          /\ UNCHANGED <<cancelling, killed>>
  /\ calls' = Tail(calls)
  /\ UNCHANGED <<renderer, main, stream, spared, process, sent, events, answers, refusals, faults>>

\* child.kill() throws, and so the call is rejected.
CancelRejects ==
  /\ calls # <<>> /\ Head(calls).type \in {"cancel", "clear"}
  /\ LET r == Head(calls).run IN
       /\ main[r] = "active"
       /\ cancelling' = cancelling \cup {r}
       /\ refusals' = refusals \cup {c \in {r} : Head(calls).type = "cancel"}
  /\ calls' = Tail(calls)
  /\ Fault
  /\ UNCHANGED <<renderer, main, cancelledRuns, stream, killed, spared, process, sent, events, answers>>

Answer(r, kind, n) == [run |-> r, kind |-> kind, stream |-> n]

\* Mutant: the process of a run that is over is left to itself.
Kills_Never(r, used) == faults' = used /\ UNCHANGED <<killed, spared>>

\* killChild, but not for a process that has exited: it catches what kill() throws.
\* used: the failures so far, those of this step included.
Kills(r, used) ==
  \/ /\ killed' = IF child[r] = "dead" THEN killed ELSE killed \cup {r}
     /\ faults' = used
     /\ UNCHANGED spared
  \/ /\ child[r] # "dead" /\ r \notin killed /\ used < MaxFaults
     /\ spared' = spared \cup {r}
     /\ faults' = used + 1
     /\ UNCHANGED killed

\* finish(): the run leaves activeRuns, and its process is not listened to any more.
Finish(r, kind, n, used) ==
  /\ main' = [main EXCEPT ![r] = "settled"]
  /\ cancelling' = cancelling \ {r}
  /\ stream' = [stream EXCEPT ![r] = 0]
  /\ sent' = [sent EXCEPT ![r] = <<>>]
  /\ Kills(r, used)
  /\ events' = Append(events, [type |-> "complete", result |-> Answer(r, kind, n)])
  /\ answers' = answers \cup {Answer(r, kind, n)}

\* run() after its await: cancelled meanwhile, or the process is forked.
Resolve(r) ==
  /\ main[r] = "resolving"
  /\ \/ /\ r \in cancelledRuns
        /\ cancelledRuns' = cancelledRuns \ {r}
        /\ main' = [main EXCEPT ![r] = "settled"]
        /\ answers' = answers \cup {Answer(r, "cancelled", 0)}
        /\ UNCHANGED child
     \/ /\ r \notin cancelledRuns
        /\ main' = [main EXCEPT ![r] = "active"]
        /\ child' = [child EXCEPT ![r] = "running"]
        /\ UNCHANGED <<cancelledRuns, answers>>
  /\ UNCHANGED <<renderer, cancelling, stream, killed, spared, sent, yielded, ended, calls, events,
                 refusals, faults>>

\* The connection is not found, or cannot be decrypted: run() rejects.
ResolveFails(r) ==
  /\ main[r] = "resolving"
  /\ Fault
  /\ main' = [main EXCEPT ![r] = "settled"]
  /\ answers' = answers \cup {Answer(r, "failure", 0)}
  /\ UNCHANGED <<renderer, cancelledRuns, cancelling, stream, killed, spared, process, sent, calls,
                 events, refusals>>

\* The stream of a result that the repository makes up itself.
Partial(r) == stream[r]

\* handleMessage: an event is passed on, a result finishes the run.
HandleMessage(r) ==
  /\ main[r] = "active" /\ sent[r] # <<>>
  /\ LET message == Head(sent[r]) IN
       \/ /\ message.type = "output"
          /\ stream' = [stream EXCEPT ![r] = @ + 1]
          /\ events' = Append(events, [type |-> "output", run |-> r])
          /\ sent' = [sent EXCEPT ![r] = Tail(@)]
          /\ UNCHANGED <<main, cancelling, killed, spared, answers, faults>>
       \/ /\ message.type = "result"
          /\ Finish(r, message.kind, message.stream, faults)
  /\ UNCHANGED <<renderer, cancelledRuns, process, calls, refusals>>

\* handleError, or a run request that cannot be sent.
HandleError(r) ==
  /\ main[r] = "active"
  /\ faults < MaxFaults
  /\ Finish(r, "failure", Partial(r), faults + 1)
  /\ UNCHANGED <<renderer, cancelledRuns, process, calls, refusals>>

\* Mutant: the exit of a process that was not cancelled is not looked at.
HandleExit_OnlyCancelled(r) ==
  /\ main[r] = "active" /\ child[r] = "dead" /\ r \in cancelling
  /\ Finish(r, "cancelled", Partial(r), faults)
  /\ UNCHANGED <<renderer, cancelledRuns, process, calls, refusals>>

\* handleExit: messages that are still on their way are lost.
HandleExit(r) ==
  /\ main[r] = "active" /\ child[r] = "dead"
  /\ Finish(r, IF r \in cancelling THEN "cancelled" ELSE "failure", Partial(r), faults)
  /\ UNCHANGED <<renderer, cancelledRuns, process, calls, refusals>>

-----------------------------------------------------------------------------
(***************************************************************************)
(* The child process                                                       *)
(***************************************************************************)

\* process.send; nobody listens once the run is over.
Send(r, message) ==
  sent' = IF main[r] = "active" THEN [sent EXCEPT ![r] = Append(@, message)] ELSE sent

\* The script yields a value.
Yield(r) ==
  /\ child[r] = "running" /\ yielded[r] < MaxOutputs
  /\ yielded' = [yielded EXCEPT ![r] = @ + 1]
  /\ Send(r, [type |-> "output"])
  /\ UNCHANGED <<renderer, repository, child, ended, channels, faults>>

\* The worker sends a result and waits until all it sent is written.
SendsResult(r, end, n) ==
  /\ child[r] = "running"
  /\ child' = [child EXCEPT ![r] = "exiting"]
  /\ ended' = [ended EXCEPT ![r] = end]
  /\ Send(r, [type |-> "result", stream |-> n,
               kind |-> IF end = "success" THEN "success" ELSE "failure"])
  /\ UNCHANGED <<renderer, repository, yielded, channels>>

\* The script returns or throws (runUserScript).
ScriptEnds(r) ==
  /\ \E end \in {"success", "failure"} : SendsResult(r, end, yielded[r])
  /\ UNCHANGED faults

\* runScriptInWorker throws: the clients cannot be set up, or not be closed after
\* the script (failedResult, with an empty stream).
WorkerFails(r) ==
  /\ Fault
  /\ SendsResult(r, "broken", 0)

\* The process exits: it has sent all, was killed, or crashes.
Die(r) ==
  /\ child[r] \in {"running", "exiting"}
  /\ \/ (child[r] = "exiting" \/ r \in killed) /\ UNCHANGED faults
     \/ child[r] = "running" /\ r \notin killed /\ Fault
  /\ child' = [child EXCEPT ![r] = "dead"]
  /\ UNCHANGED <<renderer, repository, sent, yielded, ended, channels>>

-----------------------------------------------------------------------------
(***************************************************************************)
(* The renderer: what comes back                                           *)
(***************************************************************************)

\* receiveJsQueryEventCommand
ReceiveEvent ==
  /\ events # <<>>
  /\ LET event == Head(events)
         r == IF event.type = "output" THEN event.run ELSE event.result.run
         t == owner[r]
     IN \/ active[t] # r /\ UNCHANGED <<active, shown, logged, log>>
        \/ /\ active[t] = r /\ event.type = "output"
           /\ shown' = [shown EXCEPT ![t] =
                          [run |-> r, kind |-> "partial", stream |-> shown[t].stream + 1]]
           /\ UNCHANGED <<active, logged, log>>
        \/ active[t] = r /\ event.type = "complete" /\ Ends(t, event.result)
  /\ events' = Tail(events)
  /\ UNCHANGED <<owner, gone, stopped, repository, process, sent, calls, answers, refusals, faults>>

\* Mutant: the answer of any run of the tab ends the run it has.
Awaited_AnyRun(t, r) == active[t] # NoRun

\* The answer is that of the run the tab still has.
Awaited(t, r) == active[t] = r

\* applyScriptFinalResult and applyScriptFailure
ReceiveAnswer ==
  /\ \E answer \in answers :
       LET t == owner[answer.run] IN
         /\ \/ Awaited(t, answer.run) /\ Ends(t, answer)
            \/ ~Awaited(t, answer.run) /\ UNCHANGED <<active, shown, logged, log>>
         /\ answers' = answers \ {answer}
  /\ UNCHANGED <<owner, gone, stopped, repository, process, sent, calls, events, refusals, faults>>

\* jsQueryCancelFailed: a result that says cancelled says failed instead.
ReceiveRefusal ==
  /\ \E r \in refusals :
       LET t == owner[r]
           applies == /\ r \notin gone
                      /\ shown[t].kind = "cancelled"
                      /\ active[t] \in {r, NoRun}
       IN /\ shown' = IF applies THEN [shown EXCEPT ![t].kind = "failure"] ELSE shown
          /\ refusals' = refusals \ {r}
  /\ UNCHANGED <<owner, active, logged, gone, log, stopped, repository, process, sent, calls, events,
                 answers, faults>>

-----------------------------------------------------------------------------
Next ==
  \/ \E t \in Tabs : Run(t) \/ CancelRun(t) \/ ClearTab(t)
  \/ ReceiveRun \/ ReceiveCancel \/ CancelRejects
  \/ ReceiveEvent \/ ReceiveAnswer \/ ReceiveRefusal
  \/ \E r \in Runs : \/ Resolve(r) \/ ResolveFails(r)
                     \/ HandleMessage(r) \/ HandleError(r) \/ HandleExit(r)
                     \/ Yield(r) \/ ScriptEnds(r) \/ WorkerFails(r) \/ Die(r)

Spec == Init /\ [][Next]_vars

\* Calls, events and answers arrive, awaits and messages are handled, and a process
\* that was killed or is through with its work exits.  A script need not end.
Fairness ==
  /\ WF_vars(ReceiveRun) /\ WF_vars(ReceiveCancel)
  /\ WF_vars(ReceiveEvent) /\ WF_vars(ReceiveAnswer)
  /\ \A r \in Runs :
       /\ WF_vars(Resolve(r))
       /\ WF_vars(HandleMessage(r) \/ HandleExit(r))
       /\ WF_vars(Die(r) /\ UNCHANGED faults)

FairSpec == Spec /\ Fairness

-----------------------------------------------------------------------------
(***************************************************************************)
(* Properties                                                              *)
(***************************************************************************)

LatestRun(t) == LET own == {r \in DOMAIN owner : owner[r] = t}
                IN IF own = {} THEN NoRun ELSE CHOOSE r \in own : \A q \in own : q <= r

\* A tab shows nothing but the run it last started, whatever answers and events of
\* earlier ones still come in: partial results while that run is under way, success
\* only if the script ended so, with all it yielded, and never more than it yielded.
ShowsItsRun ==
  \A t \in Tabs :
    /\ active[t] \in {NoRun, LatestRun(t)}
    /\ LET result == shown[t]
       IN result # NoResult =>
            /\ result.run = LatestRun(t)
            /\ (result.kind = "partial") = (active[t] = result.run)
            /\ result.stream <= yielded[result.run]
            /\ result.kind = "success" => /\ ended[result.run] = "success"
                                         /\ result.stream = yielded[result.run]
            /\ result.kind = "cancelled" => result.run \in stopped

\* A run whose tab does not have it any more, and was not cleared, is in the activity
\* log once, though its end is heard of by an event and by an answer and though only
\* MaxLogged ids are remembered; no run is there twice.  The entry says success or
\* cancelled only of a script that ended so, or a run that was cancelled.
LogTells ==
  \A r \in DOMAIN owner :
    LET entries == {i \in DOMAIN log : log[i].run = r}
    IN /\ Cardinality(entries) <= 1
       /\ active[owner[r]] # r /\ r \notin gone => entries # {}
       /\ \A i \in entries : /\ log[i].kind = "success" => ended[r] = "success"
                             /\ log[i].kind = "cancelled" => r \in stopped
                             /\ log[i].kind # "partial"

\* A run that is over leaves no process behind: there is none, it is dead, or it has
\* been sent a signal.  The one exception is a signal that fails: finish() catches what
\* kill() throws and does not try again.
NoStray ==
  \A r \in Runs :
    main[r] = "settled" => child[r] \in {"none", "dead"} \/ r \in killed \cup spared

\* "Returned and yielded values append to a single result stream instead of replacing
\* each other": what a tab shows of a run never gets less.  Violated when the worker
\* fails after the script has yielded: failedResult has an empty stream, and
\* resultWithPartial takes it for the result's own.
OutputKept ==
  [][\A t \in Tabs :
       shown[t] # NoResult /\ shown'[t].run = shown[t].run
         => shown'[t].stream >= shown[t].stream]_vars

\* A run that its tab does not have any more, because it was cancelled, even before its
\* process existed, because the tab was cleared, or because it is over, comes to its end
\* in the main process and so does its process, unless the signal itself fails: then
\* the process runs on until its script ends.
AbandonedStops ==
  \A r \in Runs :
    (r \in DOMAIN owner /\ active[owner[r]] # r)
      ~> \/ /\ main[r] = "settled"
            /\ child[r] \in {"none", "dead"} \/ (child[r] = "running" /\ r \in spared)
         \/ r \in cancelling \ killed

\* When the process of a run is dead, or the run is over for the main process, its tab
\* hears of it.
EndIsShown ==
  \A r \in Runs :
    (child[r] = "dead" \/ main[r] = "settled") ~> (\A t \in Tabs : active[t] # r)
=============================================================================
