----------------------------- MODULE Workbench -----------------------------
(***************************************************************************)
(* The shell of the renderer with its tabs (createAppShellController, the  *)
(* tabs store) and the FDQL and SQL tabs among them: their compilations    *)
(* and runs, whose answers and events come in after whatever the user has  *)
(* done meanwhile.  The two kinds keep stores of their own, by tab: here   *)
(* they are one, since a tab stays of its kind.  The main process is seen  *)
(* by its answers: a run gives rows, and ends.  A query tab has its draft  *)
(* here; FirestoreTab has its runs.                                        *)
(***************************************************************************)
EXTENDS Workspace

CONSTANTS
  Workspaces,    \* bound: the workspaces that are restored at first
  MaxTabs,       \* bound: tabs opened, beside those restored
  MaxUses,       \* bound: what the user does with the workspace
  MaxRuns,       \* bound: runs started
  MaxRows        \* bound: rows of a run

ASSUME WorkbenchAssumption ==
  /\ {MaxTabs, MaxUses, MaxRuns, MaxRows} \subseteq Nat
  /\ \A w \in Workspaces : WellFormed(w)

VARIABLES
  workspace,     \* tabsStore
  tabCounter,    \* tabs opened since the launch: a restored workspace does not count
  available,     \* the accounts there are
  closing,       \* the dialog that asks whether to close, if it is open: the tabs, and
                 \* the workspace it was opened in
  compiling,     \* calls of compile: the tab, and what runFdqlCommand remembers of it
  activeRuns,    \* activeRuns of FdqlState and FirestoreSqlState, by tab
  results,       \* their results: how many rows, and whether they are all there is
  runs,          \* calls of run: whose they are, and how far the main process is
  events,        \* events on their way
  answers,       \* answers of run on their way
  uses,
  hasty          \* history: runs that were started for a tab gone elsewhere, or displaced

runVars == <<compiling, activeRuns, results, runs, events, answers, hasty>>
workbenchVars == <<workspace, tabCounter, available, closing, uses, runVars>>

RunKinds == {"fdql", "firestore-sql"}

InitWorkbench ==
  /\ workspace \in Workspaces /\ tabCounter = 0
  /\ available = Accounts /\ closing = {} /\ uses = 0
  /\ compiling = <<>> /\ events = <<>> /\ answers = {} /\ runs = <<>> /\ hasty = {}
  /\ activeRuns = <<>> /\ results = <<>>

-----------------------------------------------------------------------------
(***************************************************************************)
(* The state of FDQL and SQL tabs                                          *)
(***************************************************************************)

\* tabIsCurrent of useFdqlTabState and useFirestoreSqlTabState.
TabIsCurrent(t, account) == t \in TabIds(workspace) /\ PlaceOf(workspace, t).account = account

IsBusy(t) == t \in DOMAIN activeRuns
Running(t, r) == IsBusy(t) /\ activeRuns[t] = r
Without(byTab, ids) == Restrict(byTab, DOMAIN byTab \ ids)
With(byTab, t, value) ==
  [u \in DOMAIN byTab \cup {t} |-> IF u = t THEN value ELSE byTab[u]]
RowsOf(t) == IF t \in DOMAIN results THEN results[t].rows ELSE 0

\* env.cancel for the runs of these tabs.
Cancels(ids) ==
  runs' = [r \in DOMAIN runs |-> IF Running(runs[r].tab, r) /\ runs[r].tab \in ids
                                 THEN [runs[r] EXCEPT !.cancelled = TRUE] ELSE runs[r]]

\* Mutant: a run that is no longer shown goes on.
ClearsRuntime_NoCancel(ids) ==
  /\ UNCHANGED runs
  /\ activeRuns' = Without(activeRuns, ids) /\ results' = Without(results, ids)

\* clearFdqlTabRuntimeCommand, and clearFdqlTabCommand when it is closed;
\* clearFirestoreSqlTabCommand, which drops the statement as well.
ClearsRuntime(ids) ==
  /\ Cancels(ids)
  /\ activeRuns' = Without(activeRuns, ids) /\ results' = Without(results, ids)

\* fdqlRunFinished, firestoreSqlRunFinished
Finishes(t, result) ==
  /\ activeRuns' = Without(activeRuns, {t})
  /\ results' = With(results, t, result)

-----------------------------------------------------------------------------
(***************************************************************************)
(* What the user does; a dialog keeps everything else from being used      *)
(***************************************************************************)

Uses == uses < MaxUses /\ closing = {} /\ uses' = uses + 1
Active == workspace.active
ActivePlace == PlaceOf(workspace, Active)

\* nextTabId, and what the transitions make of it.
CountsTab == tabCounter < MaxTabs /\ tabCounter' = tabCounter + 1
NextTabId(kind) == UniqueTabId(workspace, kind, tabCounter + 1)

\* The tree, the activity drawer and the tool items open a place, or select
\* the tab that has it, and record that.
OpenPlace(place, newTab) ==
  /\ Uses
  /\ IF ~newTab /\ Matching(workspace, place) # {}
     THEN /\ workspace' = LET id == FindOpen(workspace, place)
                          IN Recorded(Selected(workspace, id), id, place)
          /\ UNCHANGED tabCounter
     ELSE /\ CountsTab
          /\ workspace' = LET id == NextTabId(place.kind)
                          IN Recorded(Opened(workspace, place, id), id, place)
  /\ UNCHANGED <<available, closing, runVars>>

\* onNewTab: a tab of the same kind and account, which is not recorded.
NewTab ==
  /\ Uses /\ Active # NoTab /\ ActivePlace.account \in available /\ CountsTab
  /\ workspace' = Opened(workspace, ActivePlace, NextTabId(ActivePlace.kind))
  /\ UNCHANGED <<available, closing, runVars>>

\* The source of a query is copied; no result is.
DuplicateTab(t) ==
  /\ Uses /\ CountsTab
  /\ workspace' = LET place == PlaceOf(workspace, t)
                      id == NextTabId(place.kind)
                  IN Recorded(Duplicated(workspace, t, id), id, place)
  /\ UNCHANGED <<available, closing, runVars>>

SelectTab(t) ==
  /\ Uses
  /\ workspace' = LET place == PlaceOf(workspace, t)
                  IN Recorded([Selected(workspace, t) EXCEPT !.item = place], t, place)
  /\ UNCHANGED <<tabCounter, available, closing, runVars>>

\* An item of the tree that opens nothing is selected.
SelectItem(account) ==
  /\ Uses /\ Active # NoTab
  /\ workspace' = Recorded(workspace, Active, [kind |-> "project", account |-> account, path |-> ""])
  /\ UNCHANGED <<tabCounter, available, closing, runVars>>

EditPath(path) ==
  /\ Uses /\ Active # NoTab /\ ActivePlace.kind = "firestore-query" /\ path # ActivePlace.path
  /\ workspace' = DraftEdited(workspace, path)
  /\ UNCHANGED <<tabCounter, available, closing, runVars>>

\* submitQuery records where the query was run; FirestoreTab has the rest of it.
RunQueryTab ==
  /\ Uses /\ Active # NoTab /\ ActivePlace.kind = "firestore-query"
  /\ ActivePlace.account \in available
  /\ workspace' = Recorded(workspace, Active, workspace.item)
  /\ UNCHANGED <<tabCounter, available, closing, runVars>>

\* clearConnectionScopedTabState, of a tab that has runs.
Leaves(t) == ClearsRuntime(IF PlaceOf(workspace, t).kind \in RunKinds THEN {t} ELSE {})

\* handleActiveProjectChange
ChangeAccount(account) ==
  /\ Uses /\ Active # NoTab /\ account \in available \ {ActivePlace.account}
  /\ Leaves(Active)
  /\ workspace' = LET updated == ConnectionUpdated(workspace, account)
                  IN Recorded(updated, Active, updated.item)
  /\ UNCHANGED <<tabCounter, available, closing, compiling, events, answers, hasty>>

\* handleBackInteraction and handleForwardInteraction.  When the entry is of
\* another account than the tab has, prepareInteractionRestore clears the tab.
Restores(moved) ==
  /\ Uses
  /\ workspace' = moved.state
  /\ IF moved.entry # 0 /\ PlaceOf(moved.from, moved.state.active).account
                             # PlaceOf(moved.state, moved.state.active).account
     THEN Leaves(moved.state.active)
     ELSE UNCHANGED <<activeRuns, results, runs>>
  /\ UNCHANGED <<tabCounter, available, closing, compiling, events, answers, hasty>>
Back == Restores(MovedBack(workspace, available))
Forward == Restores(MovedForward(workspace, available))

\* removeProject: its tabs stay.
RemoveAccount(account) ==
  /\ Uses /\ account \in available /\ available' = available \ {account}
  /\ UNCHANGED <<workspace, tabCounter, closing, runVars>>

\* Close tab, others, those to the left or to the right, or all.
Closes(i) ==
  LET all == DOMAIN workspace.tabs
  IN {{i}, all \ {i}, {j \in all : j < i}, {j \in all : j > i}, all} \ {{}}
RequestClose(positions) ==
  /\ Uses
  /\ closing' = {[tabs |-> {workspace.tabs[i].id : i \in positions}, in |-> workspace]}
  /\ UNCHANGED <<workspace, tabCounter, available, runVars>>

\* closeTabsWithCleanup, with the workspace as it was when the dialog opened.
ConfirmClose ==
  /\ closing' = {}
  /\ \E dialog \in closing :
       LET ids == {t \in dialog.tabs : ~IsBusy(t)}
       IN workspace' = TabsClosed(dialog.in, ids) /\ ClearsRuntime(ids)
  /\ UNCHANGED <<tabCounter, available, uses, compiling, events, answers, hasty>>
DismissClose ==
  /\ closing # {} /\ closing' = {}
  /\ UNCHANGED <<workspace, tabCounter, available, uses, runVars>>

-----------------------------------------------------------------------------
(***************************************************************************)
(* FDQL and SQL                                                            *)
(***************************************************************************)

\* What a command remembers of the tab it is for.
ForActive == [tab |-> Active, account |-> ActivePlace.account, item |-> workspace.item]

\* A run starts, wherever the tab it was asked for in is by now.
Starts(c) ==
  LET r == Len(runs) + 1
  IN /\ Len(runs) < MaxRuns
     /\ runs' = Append(runs, [tab |-> c.tab, account |-> c.account, rows |-> 0,
                              cancelled |-> FALSE, over |-> FALSE])
     /\ activeRuns' = With(activeRuns, c.tab, r)
     /\ results' = Without(results, {c.tab})
     /\ workspace' = Recorded(workspace, c.tab, c.item)
     /\ hasty' = hasty \cup {q \in DOMAIN runs : Running(c.tab, q)}
                       \cup {q \in {r} : ~TabIsCurrent(c.tab, c.account)}

\* runFdqlCommand compiles before it runs.
RunFdql ==
  /\ Uses /\ Active # NoTab /\ ActivePlace.kind = "fdql" /\ ~IsBusy(Active)
  /\ results' = Without(results, {Active})
  /\ compiling' = Append(compiling, ForActive)
  /\ UNCHANGED <<workspace, tabCounter, available, closing, activeRuns, runs,
                 events, answers, hasty>>

\* runFirestoreSqlCommand runs at once.
RunSqlTab ==
  /\ Uses /\ Active # NoTab /\ ActivePlace.kind = "firestore-sql" /\ ~IsBusy(Active)
  /\ Starts(ForActive)
  /\ UNCHANGED <<tabCounter, available, closing, compiling, events, answers>>

\* handleRunFdql and handleRunSql, when a run is shown: cancelFdqlCommand and
\* cancelFirestoreSqlCommand.
CancelActive ==
  /\ Uses /\ Active # NoTab /\ IsBusy(Active)
  /\ Cancels({Active})
  /\ Finishes(Active, [run |-> activeRuns[Active], rows |-> RowsOf(Active), whole |-> FALSE])
  /\ UNCHANGED <<workspace, tabCounter, available, closing, compiling, events, answers, hasty>>

\* The compilation is answered.
Compiled ==
  /\ compiling # <<>> /\ Starts(Head(compiling))
  /\ compiling' = Tail(compiling)
  /\ UNCHANGED <<tabCounter, available, closing, uses, events, answers>>
NotCompiled ==
  /\ compiling # <<>> /\ compiling' = Tail(compiling)
  /\ UNCHANGED <<workspace, tabCounter, available, closing, uses,
                 activeRuns, results, runs, events, answers, hasty>>

\* The main process returns a row, or is through; the run may also just be rejected.
GiveRow(r) ==
  /\ ~runs[r].over /\ runs[r].rows < MaxRows
  /\ runs' = [runs EXCEPT ![r].rows = @ + 1]
  /\ events' = Append(events, [run |-> r, type |-> "row"])
  /\ UNCHANGED <<workspace, tabCounter, available, closing, uses,
                 compiling, activeRuns, results, answers, hasty>>
EndRun(r, rejected) ==
  /\ ~runs[r].over
  /\ runs' = [runs EXCEPT ![r].over = TRUE]
  /\ answers' = answers \cup {[run |-> r, rejected |-> rejected]}
  /\ events' = IF rejected THEN events ELSE Append(events, [run |-> r, type |-> "end"])
  /\ UNCHANGED <<workspace, tabCounter, available, closing, uses,
                 compiling, activeRuns, results, hasty>>

\* Mutant: whatever its tab looks at now, a run is shown in it.
IsShown_AnyAccount(r) == Running(runs[r].tab, r)

\* tabForRun, or the look at activeRuns when run is answered, and tabIsCurrent.
IsShown(r) == Running(runs[r].tab, r) /\ TabIsCurrent(runs[r].tab, runs[r].account)

Whole(r) == [run |-> r, rows |-> runs[r].rows, whole |-> TRUE]

\* fdqlEventReceived, firestoreSqlEventReceived
ReceiveEvent ==
  /\ events # <<>> /\ events' = Tail(events)
  /\ LET e == Head(events)  t == runs[e.run].tab
     IN CASE ~IsShown(e.run) -> UNCHANGED <<activeRuns, results>>
          [] IsShown(e.run) /\ e.type = "row" ->
               /\ results' = With(results, t, [run |-> e.run, rows |-> RowsOf(t) + 1, whole |-> FALSE])
               /\ UNCHANGED activeRuns
          [] IsShown(e.run) /\ e.type = "end" -> Finishes(t, Whole(e.run))
  /\ UNCHANGED <<workspace, tabCounter, available, closing, uses,
                 compiling, runs, answers, hasty>>

\* The then and the catch of env.run.
ReceiveAnswer(a) ==
  /\ answers' = answers \ {a}
  /\ LET t == runs[a.run].tab
     IN IF ~IsShown(a.run) THEN UNCHANGED <<activeRuns, results>>
        ELSE Finishes(t, IF a.rejected THEN [run |-> a.run, rows |-> RowsOf(t), whole |-> FALSE]
                         ELSE Whole(a.run))
  /\ UNCHANGED <<workspace, tabCounter, available, closing, uses,
                 compiling, runs, events, hasty>>

WorkbenchUser ==
  \/ \E place \in Places, newTab \in BOOLEAN :
       place.account \in available /\ OpenPlace(place, newTab)
  \/ NewTab
  \/ \E t \in TabIds(workspace) : DuplicateTab(t) \/ SelectTab(t)
  \/ \E a \in available : SelectItem(a) \/ ChangeAccount(a) \/ RemoveAccount(a)
  \/ \E p \in Paths : EditPath(p)
  \/ RunQueryTab \/ RunFdql \/ RunSqlTab \/ CancelActive \/ Back \/ Forward
  \/ \E i \in DOMAIN workspace.tabs : \E positions \in Closes(i) : RequestClose(positions)
  \/ ConfirmClose \/ DismissClose

WorkbenchNext ==
  \/ WorkbenchUser \/ Compiled \/ NotCompiled
  \/ \E r \in DOMAIN runs : GiveRow(r) \/ \E rejected \in BOOLEAN : EndRun(r, rejected)
  \/ ReceiveEvent \/ \E a \in answers : ReceiveAnswer(a)

-----------------------------------------------------------------------------
\* Types, and the references of the workspace.
WorkbenchTypeOK ==
  /\ WellFormed(workspace)
  /\ DOMAIN activeRuns \cup DOMAIN results \subseteq AllTabs
  /\ Range(activeRuns) \subseteq DOMAIN runs
  /\ Range(results) \subseteq [run : DOMAIN runs, rows : 0..MaxRows, whole : BOOLEAN]
  /\ hasty \subseteq DOMAIN runs /\ available \subseteq Accounts

\* After Back, Forward leads to the very view that Back left - the tab, the
\* account and the path it had then, and the item of the tree - whatever tabs
\* were opened, edited and closed before, unless its account was removed.
ViewReturns ==
  [][Back /\ Active # NoTab /\ ActivePlace.account \in available
       /\ MovedBack(workspace, available).entry # 0 =>
     LET again == MovedForward(workspace', available').state
     IN /\ again.active = Active /\ again.item = workspace.item
        /\ PlaceOf(again, again.active) = ActivePlace]_workbenchVars

\* An FDQL or SQL tab shows only rows of a run started in it, or in a closed tab of
\* its id (ids are used again after a restart), for the account it has now, no more
\* than the run gave, and all of them when it ended well, in whatever order events
\* and answers of earlier runs come in.  A cancellation without rows it may show of
\* a run for its former account.
ShowsItsAccount ==
  \A t \in DOMAIN results : results[t].rows > 0 \/ results[t].whole =>
    LET r == runs[results[t].run]
    IN /\ r.tab = t /\ TabIsCurrent(t, r.account)
       /\ results[t].rows <= r.rows
       /\ results[t].whole => r.over /\ results[t].rows = r.rows

\* A run that goes on is shown as running in its tab, which has the account of
\* the run and cannot be closed, or its cancellation has been asked for; unless
\* it was started after its tab had gone elsewhere, or was displaced.
NoRunUnattended ==
  \A r \in DOMAIN runs : ~runs[r].over /\ ~runs[r].cancelled /\ r \notin hasty => IsShown(r)
=============================================================================
