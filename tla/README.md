# Firebase Desk: models and proofs

Firebase Desk is an Electron application for Firestore, Firebase Auth, FDQL and
JavaScript queries. This directory holds TLA+ models of its stateful parts, the
TLC configurations that check them on small instances, and proofs of the most
important results for every value of the constants. `PROJECT.json` maps each
definition to the lines it stands for.

## The system and its parts

The renderer (`apps/desktop/src/renderer`) keeps the tabs and calls the main
process (`apps/desktop/src/main`) over IPC. The main process holds one
repository per concern; each call of the renderer is one call of a repository.
Everything runs on one thread: two calls interleave at their awaits only, but
they do so at every await.

| Part | State it keeps | Operations | What is hard | What makes it correct |
|---|---|---|---|---|
| Background job queue (`main/jobs/background-job-repository.ts`, `main/storage/jobs-store.ts`) | `background-jobs.json`; the mutation chain; `running`, `draining` | start, cancel, clearCompleted, acknowledgeIssues, initialize; drainQueue, runJob | calls against the drainer at every await, crash and restart, failing writes | one job at a time, none twice, records true to what runs, outcomes logged, nothing stuck |
| Collection job runner (`main/jobs/firestore-collection-job-runner.ts`) | nested generators, chunk, pending batch, progress, files | delete, copy/duplicate, export (JSONL, CSV), import | paging through what it changes, batch splits, cancellation, other clients, missing documents | complete when it succeeds, recoverable when it does not, collision policies kept |
| Activity log (`main/storage/activity-log-store.ts`, `main/activity`) | `activity-log.jsonl`, a mutation chain | append, list, export, clear, prune | rewrite in place, size limit, invalid lines | no entry lost but by pruning, oldest pruned first |
| Settings (`main/storage/settings-store.ts`, `main/settings`) | `settings.json`, a cache | load, save of a patch | first loads against saves, unserialised writes | no saved patch lost |
| Projects and credentials (`main/projects`, `main/storage/{projects,credentials}-store.ts`) | two files | add, update, remove | concurrent changes, removal in two steps | unique ids, no credential without its project |
| Script runner (`packages/script-runner`) | active runs, cancelled run ids, a child process each | run, cancel, events | cancel against fork, exit against result | each run settles once |
| JavaScript query, FDQL and SQL tabs (`renderer/app-core/{js-query,fdql,firestore-sql}`) | per tab: active run, result, events | run, cancel, clear, duplicate, late events and results | late or reordered answers, two runs of a tab | a tab shows the run it last started |
| FDQL repository and executor (`packages/repo-firebase/src/fdql-repository.ts`, `packages/fdql-core`) | active runs; row pipeline, statistics, the cache of a run | compile, run, cancel, clearCache | timeout, budget and cancellation against reads; caches shared by runs | a completed run gives what its query means, a cancelled one does nothing more |
| FDQL persistent cache (`main/storage/fdql-persistent-cache.ts`) | an SQLite table | get, set, clear, evict | expiry and eviction between a look and a store | it holds whole answers only |
| Firestore connections (`packages/repo-firebase/src/admin-firestore-provider.ts`) | cached Admin apps | get, invalidate, clear | await between lookup and insert | a connection has the project's host and credential |
| Firestore queries and writes (`renderer/app-core/firestore`, `product-ui/.../FirestoreQuerySurface.tsx`, `packages/repo-firebase/src/{firestore-repository,cursor-cache}.ts`) | draft, pages, cursors, stale marks, conflict dialogs | run, refresh, load more; create, save, patch, delete | late pages and write results, other clients | rows of the tab's query, no lost update, stale rows marked |
| Workspace (`renderer/app/appShellOrchestrator.ts`, `renderer/app-core/workspace`, `renderer/app/stores`) | tabs, accounts, selection, interaction history | open, duplicate, select, edit, close, change account, back, forward | dialogs and answers that come back to a workspace changed meanwhile | Forward undoes Back, no run left behind |
| Saved workspace (`renderer/app/workspacePersistence.ts`, `renderer/app/hooks/usePersistedWorkspaceState.ts`) | `workspaceState` of the settings, when it was cleared; a timer, a queue of saves | load, migrate, save after a while or at once | a late load against edits, the timer against the queue, saves that fail, the date | the next window restores what this one showed |
| Firestore SQL (`packages/firestore-sql`, `packages/repo-firebase/src/firestore-sql-repository.ts`) | a run's stage, rows and counters | compile, run, cancel | limits and field masks pushed down, reads at different times, stops between documents | a run that was not stopped gives the rows its statement means |
| Authentication users (`renderer/app-core/auth`, `packages/repo-firebase/src/auth-repository.ts`) | pages, filter, saved claims | load, search, load more, refresh, save claims | answers that cross changes of filter, refreshes and saves | the users of the filter shown, none twice |
| Updates, window state, notifications, IPC, user interface, mocks | little | | | not modelled, see below |

The parts meet as follows. `ipc/registry.ts` builds the repositories and calls
the job repository's `initialize()` without awaiting it. The job repository
calls the runner with a cancellation signal and a progress sink; both lead back
into the repository (`running.cancelRequested`, `updateJob`), and from there into
the jobs file. It appends the outcome of each job to the activity log. The
runner takes its database from the connection provider. Job events go to the
renderer and to the notifier.

The handlers of `ipc/registry.ts` resolve a connection through the projects and
credentials stores and the connection provider, and take the limits of the activity
log from the settings. Runs of JavaScript, FDQL and SQL answer with the promise of
their call and with events, which the renderer sorts out by run id. FDQL runs share
the persistent cache; query tabs share the documents of Firestore with each other,
with the collection jobs and with other clients.

The hazards, each at its line, are in `PROJECT.json`.

## Modules

| Module | What it is |
|---|---|
| `SerialExecutor` | abstract specification: jobs begin and end one at a time, none begins twice |
| `JobQueue` | the job queue in detail; implements `SerialExecutor` |
| `JobQueueProofs` | the proofs about `JobQueue`: its inductive invariant, the refinement, its records and the activity log |
| `MCJobQueue` | its instance |
| `FirestoreTree` | documents, nested collections and the three queries of the runner |
| `CollectionJob` | one call of the collection job runner |
| `CollectionJobProofs` | the proofs about `CollectionJob` |
| `MCCollectionJob` | its instance |
| `ScriptRuns` | the JavaScript query tabs, the script runner of the main process and its child processes |
| `ScriptRunsProofs` | the proofs about `ScriptRuns` |
| `MCScriptRuns` | its instances |
| `FdqlRun` | runs of FDQL queries in the main process, with the caches |
| `FdqlRunProofs` | the proofs about `FdqlRun` |
| `MCFdqlRun` | its instance |
| `DesktopCalls` | the IPC calls as the stores see them: their arrival, their steps, failures |
| `SettingsAndActivity` | the settings and the activity log |
| `ProjectsAndConnections` | projects, credentials and the Admin apps opened with them |
| `SqlQueries` | Firestore SQL as functions: expressions, plans, what is asked of Firestore |
| `SqlRun` | a run of a SQL statement, step by step |
| `SqlRunProofs` | the proofs about the operators of `SqlQueries` and a run of SQL |
| `DesktopMain` | the composition of the three with crashes |
| `DesktopMainProofs` | the proofs about the stores, and with `SqlRunProofs` the SQL runs, for the specification of `DesktopMain` |
| `MCDesktopMain` | its instance |
| `FirestoreDocuments` | the documents of Firestore, the repository that reads and writes them, its cursors, other clients |
| `FirestoreTab` | a query tab: its rows, its writes, its dialogs |
| `FirestoreTabProofs` | the proofs about `FirestoreTab` and the documents |
| `Workspace` | the transitions of the workspace as functions: tabs and the history |
| `Workbench` | the shell around them, with the FDQL and SQL tabs |
| `UsersTab` | the list of Authentication users of a project |
| `SavedWorkspace` | the workspace as it is saved in the settings and restored in the next window |
| `Renderer` | the composition of query tab, workspace, users tab and saved workspace |
| `RendererProofs` | the proofs about `SavedWorkspace`, `Workspace`, `Workbench` and `UsersTab`, and those of all the tabs, for the specification of `Renderer` |
| `MCRenderer` | its instance |

A definition whose comment begins with `Mutant:` is a plausible bug. No
specification uses it; `PROJECT.json` names, for each property, the definition
that is to be replaced by a mutant to see the property fail.

### JobQueue

One action is what runs between two awaits. `JobsStore` serialises its mutations
on a promise chain, here the sequence `mutations`: `Rename` is the effect of the
head on the file, and a Settle or Reject action is its promise settling, upon
which the caller goes on. `oldestQueued` waits for the mutations that were queued
when it was called (`ahead`) and then reads the file outside the chain, so its
read and its return are two actions (`Lookup`, then `RunJob` or `FoundNothing`).
Each invocation of `drainQueue` past its guard is a member of `Workers`: that there
is at most one is a result, not an assumption. `Crash` leaves the jobs file and the
activity log only, and `Launch` queues the mutation of `initialize()`. The file
keeps each job's status, `cancelRequested` and acknowledgement; titles, summaries,
timestamps other than `createdAt` and progress numbers are left out. The runner is
abstract here: it reports progress some number of times, and returns or throws.

### CollectionJob

The generators that delegate to one another are a stack of frames, each with its
collection, its cursor, the rest of its page and the subcollections it has still
to enter. The consumers (`deleteCollection`, `copyCollection`, `exportCollection`,
`exportCsv`, `importCollection`) are the disjuncts of `Give` and the actions on
`chunk`. `BatchWriter` is `pending` and `committing`: the batches that
`commitOperations` still has to commit, the halves of a split batch replacing it
at the front. `Asserts` collects the places where the code looks at the
cancellation signal; an action guarded by `NotCancelled` stands for a piece of code
that begins with such a look, and `SeesCancel` is the throw. `Rejects`,
`CommitOversized` and `CommitFails` are the failures; a failed commit may or may
not have been applied. Documents are numbers in the order of their ids; documents'
contents are abstracted to the number under which they were read (`line`), which
is what tells overwritten targets apart. Duplicating is copying, as in the code.
`OutsideChange` is another client of the database.

### ScriptRuns

Three parties that share no state, and the channels between them. The renderer's
variables are those of `JsQueryState` (`active`, `shown`, `logged`), with the tab of
each run; `Ends` is what every end of a run does there, `ClearTab` the closing of a
tab or a change of its account. The main process is `main` (where `run()` stands),
`cancelledRuns` and the fields of `ActiveRun`; its actions are `run()` up to and after
its await, `cancel()`, and the three handlers of a child. A child yields, ends by
itself, breaks (`WorkerFails`: an error of the worker and not of the script), is
killed or crashes. Calls arrive in the order in which they are made, and events
likewise; answers and rejections of calls are not ordered with events, nor a child's
exit with its last messages. A script's output is the number of values yielded.
A rejection of `cancel()` is dropped after `ClearTab`, since the code then asks whether
the tab still has the account; an account changed away and back in the meantime is
left out. When a run is over, `finish()` signals its process and forgets it; `kill()` may throw,
which `killChild` swallows (`Kills`, one of the failures that are counted): such a process runs on
until its script ends, and `NoStray` and `AbandonedStops` allow it by name (`spared`).
`yielded`, `ended`, `log`, `stopped`, `killed` and `spared` are history.

### FdqlRun

One piece of code runs at a time in the main process: a run holds `turn` from the
answer of a request to the next request it sends, and nothing but the clock moves
meanwhile. What a run waits for is `connectRead` or `connectAggregate` (the connection to the
project), `paging` (a page of a read) or `aggregating` (counts and extremes); there
cancellations, the deadline, other runs and other clients get in. A read looks at the signal
after it has got its connection (`Connected`, then `Ask`), but `aggregateFirestore` sends its
first request before the race looks at it (`fdql-repository.ts:252`): `CancelStops` allows a cancelled run that one
request, whose answer nobody waits for. `raceWithReadControls` is the race of `PageArrives` or `AggregateArrives` with
`Abandon`, which may win although the answer is there. `Step` is one step of the
executor: a branch, a stage, a row of a lookup, the end of a read. A plan is a record of
what the compiler produces: branches with a read limit and a sequence of local stages.
The cache of the run and the persistent cache differ in who sees them and in when they
forget: `store` keeps rows, expiry and last access of an entry; eviction is by bytes,
least recently used first, as in the code. A collection is the number of its documents
that match, and a lookup gives the number of documents it attached: this is what
limits, budgets, pages and caches can get wrong. Three history flags mark runs that the
code does not answer in full (`bent`), or whose collections changed under them
(`disturbed`), and entries that are older than a write (`stale`).

`CompletedIsAnswer` compares the rows of a completed run with `Answer`, a definition of
the query as a function of the documents, without pages, caches, budget or time. It holds
in every state as long as the collections do not change: a write of another client marks
every run that has begun, also one that is over (`OutsideWrite`). It leaves out the `bent` runs, all of
which complete without a word: a cached answer cut to the budget that is left
(`lookup.ts:84` and `96`); a lookup asked when the budget is used up, which reads with a
limit of 0 and takes none for the answer (`lookup.ts:62`, `fdql-repository.ts:264`);
a `lookup one` that finds the two rows a `lookup many` with `fs limit 2` has cached under
the same key; and a `lookup one` without a limit that is served as many cached rows as the
budget left has it look for: the second row, which would make it fail, is then not looked
for. The last was found by the proof, whose invariant fails without it; `Bends` names it.
Other observations that contradict no line of the docs: a lookup stopped
by the budget drops the rows it has computed; an aggregate without `by` over no rows
gives no row since a stage without rows is the last (`local-stages.ts:181`); a clearing
of the cache that throws leaves its run registered as active (`fdql-repository.ts:112`);
a cancellation before the run has arrived is lost (line 175).

### DesktopMain: SettingsAndActivity, ProjectsAndConnections, SqlRun

A handler of the main process is an entry of `call`: its request, where it stands, and
its locals. `DesktopCalls` starts them in the order they arrive; from then on each step
is what a handler does between two awaits, and all steps interleave. A mishap is either a
file operation that rejects or a crash, after which only the files are left.

`SettingsAndActivity` has `SettingsStore`, whose save changes the cache at once and
renames a file later, whose first load fills the cache when its read returns, and which
moves a corrupt file away; and `ActivityLogStore`, whose mutations run one after the
other on `queue`, rewrite the log in place and repair torn lines as they read. Settings
are a theme, the size limit of the log and whether it is kept; an entry has a size.
`saved` and `kept` are the settings and the log as they would be with atomic operations.
A patch has the limits of the log as a whole (`activityLog`), as the repository merges them.
`SettingsKept` says that the cache is `saved`, and so is the file once the latest save is over.
It leaves out two things in which a patch is lost. `raced`: a first load that ends after a save
puts older settings back into the cache (`settings-store.ts:44`). `outdated` (for the
file only): the writes of overlapping saves are in no queue (line 50), so the older may be the
last to rename its file, and a restart then loses the newer patch; likewise if the latest save
fails, or a backup moves its file away. `LogKept` leaves out what `peeked` marks: a listing that repairs the log
while a mutation queued meanwhile rewrites it (`activity-log-store.ts:37`).

`ProjectsAndConnections` has the list of projects, a credential file for each, and the
Admin apps by name and by key (host, and whether there is a credential). Adding and
removing take several steps in files, and a connection is opened from what was read
before an await. `tangled` marks projects whose adds and removes overlap, which the code
does not prevent (`main-projects-repository.ts:33`); connections that were being opened
across an invalidation (`late`, `disturbed`; `admin-firestore-provider.ts:58` and `68`)
are cached although they are outdated, and `ConnectionIsCurrent` leaves them out.
A `terminate()` that throws fails the handler after the connection has left the cache (`CloseFails`).

`SqlQueries` and `SqlRun` are the executor of Firestore SQL. A document is the function
from the paths of its leaves to numbers, so that field masks, nested paths and wildcards
mean what they mean in the code; `Mask` and `ReadLimit` are what is pushed down to
Firestore. A run goes from stage to stage and collects a source's documents one by one,
looking at its budget, its deadline and its signal before each; every request may be
answered after a write of another client. `CompletesWithItsRows` compares the rows with
`Meant`, computed from whole documents as each source held them when it was read. Two kinds
of statements have no such meaning, and are left out by name. `NamesItsSources`: a bare field
of the primary source that has the name of an alias is taken for that alias where fields are
collected for the masks (`executor.ts:1284`), also if that source is joined later; the
analyzer compares only paths of more than one part with the aliases (`analyzer.ts:344`).
`ComparesItsRows`: a missing value is neither less nor more than a number
(`compareValues`, `executor.ts:1560`), although `docs/firestore-sql.md:383` says that it is
sorted last; then two rows may tie with a third and not with each other, and where the
insertion sort puts them depends on the order of insertion. Runs
that were stopped are not in it: they skip their remaining stages, filter and joins
included (`executor.ts:370`), and put out what they have. Also, a budget that is met
exactly is reported as a stop (line 1428), and a request's budget comes before the
statement's own clause, which `docs/firestore-sql.md:738` has the other way round (line 1110).

### Renderer: FirestoreTab and FirestoreDocuments, Workspace and Workbench, UsersTab, SavedWorkspace

`FirestoreDocuments` has documents with a version (one for each write), the cursors of
pages with their limited number and age, and the calls under way: `Serve` takes them in
any order, and conflicts are found as the repository finds them, by update times.
`FirestoreTab` is the tab: a query runs under the draft, the request id and the epoch it
started with (`IsCurrentExecution`), pages, refreshed pages and failures are matched
against them, and results of writes are shown, dropped or make the rows stale
(`Disposition`). Saves of whole documents, patches of fields with the base value taken
from the row, merged conflicts, confirmed patches, creation and deletion are actions of
their own. `blind` marks documents whose update time cannot tell versions apart: two writes
within a millisecond (`firestore-repository.ts:294`), a row read back after a deletion,
a patch whose base value is not what the editor was opened on, an unconditional
deletion. `NoSilentOverwrite` leaves these out and nothing else.

`view` is what surrounds the tab: whether it is open, what is shown (the tab itself, another
Firestore tab with another query, a tab of another kind) and whether its account is still among the
projects. `FirestoreQuerySurface` is one component for all Firestore tabs. It stays mounted from
one to the next, with its dialogs dismissed when the query changes, and is unmounted for a tab of
another kind: answers to calls it made until then find it gone (`view.calls`, `Mounted`), though
what they do to the tab's results still happens. From the other query one comes back to this tab
before one goes to a tab of another kind. Removing an account leaves its tabs open: calls are then refused
by the main process (`Posted`), and a query does not start (`Submit`). `StaleIsMarked` leaves out the two
ways in which the tab loses its mark there (`unmarked`): the surface takes the mark away before
`submitQuery` finds the account gone and returns (`FirestoreQuerySurface.tsx:509`,
`useFirestoreTabState.ts:278`), so the old rows pass for fresh; and the answer of a create marks the
results of the Firestore tab that is shown by then, not of the tab that wrote (line 331).
A query that starts later puts an end to either.

`Workspace` is `workspaceTransitions.ts` as functions on the state of the tabs store, the
interaction history included. A tab's id is made of its kind, the number of tabs opened so
far and, if there is such a tab already, a further number (`UniqueTabId`); the count starts
at 0 after a restart, whatever was restored, so ids of closed tabs come back. `Workbench`
adds what the shell does around a transition (`createAppShellController`: cancelling and
clearing of tabs that close or change their account), and the FDQL and SQL tabs: `compile`
(FDQL only) and `run` are awaited, events and answers come in any order and are matched by
tab, account and run. `hasty` marks runs that start although their tab has closed or moved
while `compile` was awaited, or that displace another run of the tab (`fdqlCommands.ts:67`):
nobody cancels those, and `NoRunUnattended` leaves them out. Such a run may be shown in a
later tab of the same id and account. `ViewReturns` leaves out Back from a tab whose account
was removed, which skips an entry. Three more observations are not in any property: an
interaction recorded after an await is recorded for whatever tab the command was for, and
the selected tree item with it; closing dialogs store the workspace they were opened on, so
what was recorded since is gone; and a SQL tab that changes its account loses its statement,
which an FDQL tab does not.

`UsersTab` is `AuthRuntimeState` of one project (`usersTab`, `updatedUsers`) with the effect
that loads what the filter asks for whenever the filter or the tab changes, in the same turn
as the change. The main process takes the calls in any order, one at a time
(`withAuthEmulatorHost`), and answers them in the order it has taken them. A filter is the
user whose id it is, claims are versions of claims, and `since` remembers what was saved
or refreshed. `ShowsItsUsers` is about the moments when nothing is on its way and no error
is shown. It leaves out two things that the code does not guard. A further page is appended
without a look at the list it continues (`authTransitions.ts:86`), also after a refresh or a
search has replaced that list or has failed: `mixed` marks a list such a page may
be in. And a filter that is taken back while another one is being loaded counts as loaded
(`authCommands.ts:86`), so that nothing is asked for and the answer of the other one is
accepted: `takenBack` marks that until the next load of the filter shown. A refresh makes no promise about users whose
claims are being saved when it starts: it has dropped the updates by then, the answer
of the save is one again, and it covers what the refresh reads.

`SavedWorkspace` has `usePersistedWorkspaceState`, `usePersistWorkspaceSnapshot` and the queue
of `workspacePersistence.ts`, with the part of the settings they read and write (`stored`).
What the tabs show, their texts included, is a number; `Empty` is no tabs. A window loads the
workspace, and restores it unless the tabs have been touched meanwhile (`LoadReturns`); version
1 is saved as version 2 at once, a newer version is never saved over, and anything else counts
as none and is saved over (version 0 stands for what does not parse). After that every change is a snapshot (`QueueSnapshot`): no tabs
are saved at once, tabs when the timer of 300 ms ends (`DebounceEnds`), and in the queue a
snapshot replaces one that waits behind the save under way (`Enqueued`). A failed save or load
is a lapse, and so is a date that is set back: a clearing and a save are told apart by their
times (`Counts`). `CloseWindow` is the end of the process at any moment: what is not sent is
lost. `OpenWindow` assumes that a window takes longer to open than recorded times may
be ahead of the date, which is a millisecond for each edit within the same millisecond.
`SavedIsShown` leaves out what follows from a clearing in an earlier window when the date is set
back afterwards: the mark `workspaceStateClearedAt` is never taken back, so that what is saved
until that date is reached again is not restored.

The four keep stores of their own: a behaviour of `Renderer` is about one of them (`focus`),
which keeps their product out of the state space.

## Runs

| Run | Instance and bounds | What it shows |
|---|---|---|
| `job_queue` | 2 jobs, 2 invocations of drainQueue, 2 pending mutations at a call, 1 cancellation, 1 crash, 1 fault | the safety of the queue and the refinement of `SerialExecutor` |
| `job_queue_ends` | the same with 1 pending mutation at a call and no fault | a running job ends |
| `job_queue_cancelled` | violation | a cancelled job is executed |
| `job_queue_runs` | violation | a queued job stays queued |
| `collection_job` | 6 documents on three levels, pages, batches and chunks of 2, 3 bytes a batch, 1 outside change, 2 faults, one cancellation at any time; all kinds, policies and options | what each kind of job promises, and that it ends |
| `collection_job_nothing_left` | violation | a recursive deletion leaves documents below missing ones |
| `script_runs` | 1 tab, 2 runs, 1 value each, 1 failure | a tab shows the run it last started, each run is logged once and truly, leaves no process, and keeps its output |
| `script_runs_ends` | 1 tab, 1 run, 2 values, 2 failures | what is cancelled or cleared stops, and what is over is heard of |
| `script_runs_output` | violation | a failing worker empties the stream the tab shows |
| `fdql_run` | 2 runs of nine plans, time up to 2 with a timeout of 1 and entries that live for 2, 5 bytes of cache, 1 write of another client, 1 failure | completed runs give what their query means, the persistent cache holds whole answers, cancelled runs are quiet, every run ends |
| `desktop_main` | 3 calls of 7 to the settings and the log, 3 of 5 to a project and two scripts of 4, 1 mishap; nine SQL statements, 1 write of another client | nothing saved, logged or added is lost, connections are current, SQL gives the rows it means |
| `renderer` | a tab with 2 documents of 2 fields, 3 acts of the user, 1 cursor, 1 write of others or failure; four workspaces, 3 uses, 2 runs of 1 row; 3 users in pages of 1, 4 visits, 1 change by others, 1 failure; saved workspaces of five kinds, 2 windows, 3 changes, 2 contents, 1 lapse, dates up to 4 | tabs show what they should, nothing unseen is overwritten, no run is left behind, Forward undoes Back, the next window restores what is shown |

The bounds are the smallest at which the cases meet. Two jobs suffice for the
queue since its races are between the job that is being picked and one call: a
second invocation of the drainer, a cancellation, a crash and a fault may fall on
any await of either. In `collection_job` a collection of three documents with pages
of two has a full and a short page, batches fill both by number and by bytes (the
third document is as large as a whole batch), a batch of two splits into single
operations, and two faults allow a split and then a failure. The three source
contents have no missing document, one missing at the second level, and one missing
at the first. The import files repeat a document within a batch and across chunks,
and contain a line that does not parse. In `script_runs` the second run is the one that
late events, answers, rejections and exits of the first may disturb; tabs share nothing
but the list of logged run ids, which one remembered id cuts as soon as there are two
runs. Runs share only the order of their calls and events, hence one run for liveness.

In `fdql_run` the plans are lookups of each mode and cache policy under a wide and a tight
budget, a union, provider aggregates at the source and in a stage, a query that does not
compile, and a clearing of the cache as second run. Of three source documents, read in
pages of two, two look up the same key and one has no value to look up. Two runs are what the
persistent cache needs: one stores, the other reads, clears or evicts. Five bytes hold
two entries and not three; a lifetime longer than the timeout lets an entry survive its
run and expire within the next.
In `desktop_main` three calls are two that race and one that sees what they left; the two
scripts of four reopen a project that was removed and added again, or updated between two
openings. Its SQL statements differ in which of order, filter, join, subcollection, union
and limit they have, and one has a budget below its documents; the documents have nested
fields, a missing one, and fields of the same name in both sources of a join; expressions
are nested three deep (`MaxNesting`), which is what these statements have.
In `renderer` three acts (showing another tab and removing the account are acts as well; coming back is not) are an editor opened, something that changes the document, and
what is done in the editor; fields are symmetric. One write of others or one failure is enough
since the tab's own earlier writes do to a row what others' do. The four workspaces are one tab alone of either kind,
a tab that has changed its account, and three tabs in the middle of a history, since
reaching them would take the steps that are wanted for what follows. Three users in pages of
one have a first, a middle and a last page; four visits are a load, a page, a save or a search, and what
crosses them. Three changes of the tabs in two windows are an edit, the closing of all tabs and a new
tab before anything of it is saved, or some of them in the next window; two contents tell an old snapshot
from a new one.

The configurations of the queue do not check for deadlock: once every job is done
or cleared and the bounds are used up the application is idle. That no drainer and
no job is stuck is what `RunningEnds` says instead. `CollectionJob` checks for
deadlock; a job that is over is the only state that may stop (`Over`).
`ScriptRuns` stops once its runs are used up and nothing is on its way, so its
configurations do not check for deadlock; that no tab waits is `EndIsShown`.
The last three runs stop in the same way when their calls, acts, uses and runs are used up;
that no FDQL run hangs is `RunEnds`.

### Findings

- `CancelledNotStarted`: a job cancelled while the drainer's lookup is under way is
  stored and logged as cancelled, and then executed.
- `QueuedRuns`: a job stored while the drainer's last, empty lookup returns stays
  queued until something else starts the drainer.
- `NothingLeft`: deleting "including subcollections" leaves what lies below missing
  documents. Copies and exports overlook the same documents.
- `OutputKept`: when the worker fails after its script has yielded, for instance because
  a client cannot be closed, the values shown in the tab are replaced by none.

Two smaller observations on `ScriptRuns` contradict no statement of the repository and
are hazards without a property: an exit handled before the last messages makes a script
that succeeded a failure, and a late rejection of a cancel marks the cancelled result of
the tab's next run as failed.

### Fairness

`JobQueue!Fairness`: file operations, appends and awaited reads settle (weak
fairness). The runner is strongly fair to return or throw, because it may report
progress between and each report is another step; the number of documents of a
collection is finite. Calls of the user, crashes, launches and failures are not
fair. `CollectionJob!FairSpec`: the promises the job awaits settle.
`ScriptRuns!FairSpec`: calls, events and answers arrive, the connection is resolved, a
child's messages or its exit are handled, and a child that was signalled or has sent its
result exits; a signal that throws is a failure and not fair. Scripts are not fair: one may run for ever. `FdqlRun!FairSpec`: time passes,
the run that has the turn goes on, a connection that is awaited is there or fails (it is read from
files or from the cache of apps), and a request whose run was cancelled or is out of time is
abandoned. That Firestore ever answers is not assumed: `RunEnds` holds by the
deadline alone. None assumes
anything the event loop does not give: no action that stays enabled is postponed
for ever.

## Proofs

`JobQueueProofs` proves for every value of the constants allowed by
`JobQueueAssumption`:

- `QueueInvariant`: `QueueInv` is an invariant;
- `TypeCorrect`, `AtMostOneDrainer`, `DurableExecution`: its consequences;
- `ImplementsSerialExecutor`: every behaviour of `JobQueue` is one of
  `SerialExecutor`, where `executing` and `executed` are the abstract state.

`DurableExecution` is not inductive by itself. That a record says running while
its job is executed rests on no other mutation changing it: cancel on a running
job only sets its flag, clearing removes final records, and interrupting happens
only before the first drainer of a session (`InterruptFirst`). That `running`
names the job needs one drainer (`DrainingMarks`), each pending mutation of runJob
being awaited by that drainer (`MutationsOwned`, `MutationsUnique`). That no job
runs twice needs that an executed job is never queued again (`NeverRequeued`),
which in turn needs that a pending add is for a job nobody knows (`AddsFresh`,
`UnstartedUnknown`). `DeadIsEmpty` and `RunShows` tie the volatile state to a
crash and to the file. The proof has a step per action and, under it, one per
part of the invariant.

A further part goes on from `QueueInv`:

- `RunningIsHeld`: `NoOrphanRunning` is an invariant;
- `OutcomesAreLogged`: `SettledIsLogged` is an invariant.

Both rest on what the file shows between the rename of an operation and the moment its
caller goes on (`HeadShows`): a final operation that was renamed has taken its job out of
running before the next drainer can begin one, and the interruption of a launch has done
so before anything else of that session (`InterruptPending`). `RecordsInv` is that, with
`QueueInv`, and is inductive. `SettledIsLogged` says nothing until all has settled, so
`LogInv` says where an outcome is on its way until then (`LogFollows`): the log has it
(`Told`), or the caller that will append it is between its mutation and its append
(`Telling`). That the mutation which writes an outcome is the one whose caller tells it
needs what the operation at the head touches (`HeadTouches`) and with what outcome the
drainer asked for it (`OutcomeAgrees`). Its parts hold while there has been no fault,
and hence only in the first launch (`FirstLaunch`).

`CollectionJobProofs` proves, for every value of the constants allowed by
`TreeAssumption` and `JobAssumption`:

- `JobInvariant`: `CollectionJobInv` is an invariant;
- `JobTypeCorrect`: every variable keeps its type;
- `ExistingKept`: a target document present at the call is never overwritten under
  the policies skip and fail;
- `CancelledStopsWrites`: a cancelled job starts no commit. It needs no invariant:
  only `WriteNext` and `Finish` hand a batch to Firestore, and both are guarded.

`KeepsExisting` is not inductive by itself. `SparesExisting` adds that what the target
held at the call is still there when a chunk is looked up, so that `writable` names
none of it, and neither does an operation that is pending or being committed, through
overflows, halves and retries; `PushesHead` that what `Push` adds is the writable head
of the chunk. `KindShapes` says that a kind which never looks its targets up
overwrites, and that a generator that is awaited is on the stack; `CursorsKnown` that
a generator which waits for another has given a document, so that a deletion gives an
existing path after its subcollections. The last two are needed for the types.

Its second part strengthens this to an invariant that follows every document to where it
ends:

- `JobStaysComplete`: `WholeJobInv` is an invariant;
- `DeletionKeepsReach`, `CopiesAreComplete`, `ProgressTellsCommitted`, `ExportsAreWhole`:
  its consequences `DeletesScope`, `TargetComplete`, `ReportsCommitted` and `NoPartialFile`.

A job that returns has an empty stack, chunk and writer, so it is complete if at every
instant each document of its scope that no other client touched is either dealt with or in
one of these places. `NoneMissed` says this: the document was given to the consumer and is
done, in the chunk, pending or in a batch (`Given`, `InFlight`), or it is still ahead of one of
the suspended generators (`Ahead`). Ahead means that the generator will come to it by itself
or by a document it is nested under: through its page, the pages after it, the subcollections
not yet listed, or those listed and not yet entered. This is where the shape of the stack is
needed (`StackShape`: each generator but the innermost is at one of the subcollections of its
cursor), and that of the chunk in each phase (`ChunkShape`), and the facts about `Ancestors`,
a recursive function on a tree that has no least counterexample (`NoLeast`): each document's
chain begins in `Root`, and of two documents on it one is above the other. A deletion needs
that none of the documents above one still there is gone, or subcollections would not be
found: `InOrder` says that in chunk, pending operations and batches a document comes after
those below it. That the one given after its subcollections is not too early is because
nothing below it is ahead by then (`NothingBelowAhead`), so all of it has been given.

`Queue` numbers the operations: with the lengths of the batches still to be committed, and of
what is pending, the number committed adds up to the number written, and halving a batch
splits its interval. For an import that overwrites, the operation with a number has the line
with that number (`InLine`), and lines committed, in flight, in the chunk and still in the file
are those of the file in their order (`LinesInOrder`), so that the last write of a document is
that of its last line. `Tally`, `LinesKnown`, `RootOnly`, `SourceKept` and `FilesShape` are the
parts about counters, deletions without subcollections, and files. TLC checked every part
on the instance of `collection_job` before it was proved.

`ScriptRunsProofs` proves, for every value of the constants allowed by
`ScriptAssumption`:

- `ScriptInvariant`: `ScriptInv` is an invariant;
- `NoneStray`: a run that is over leaves no process that was not sent a signal, or whose
  signal failed;
- `ResultInvariant`: `ResultInv` is an invariant;
- `TypesKept`, `ItsRunShown`, `EachRunLogged`: its consequences, the other three safety
  properties.

`NoStray` alone does not survive a cancel or a failure before the fork: that there is no
process yet then is `ForkedWhenActive`, and that no run begins when it has begun already
is `RunCallsFresh` with `UnnumberedUnknown`, the uniqueness of run ids.

What a tab shows has reached it message by message, so `ResultInv` has to say of every message
on its way, between the child and the window, that it is true of its run: `ResultsTrue` of the
answers and events to the tabs, `MessagesTrue` of what a child has sent. They stay true whatever
happens meanwhile, because what they are measured by only grows (`Later`), and a script that
has ended yields nothing more (`EndsOnce`). `OutputsYielded` counts: the values a tab shows,
those in the events to it and those in the messages of the child are together no more than the
script has yielded, so a success shows exactly all. `CancelsAsked` says that cancelled is only
said of a run for which the user asked it, `ActiveOwned` that a tab has its own run, and
`LogOnce` that the log has no run twice, none before its tab has given it up, and all that is
remembered as logged, so the end that arrives second finds no active run and logs nothing,
whatever has been forgotten. TLC checked the invariant, on one tab with two runs and a failure
and on two tabs without, before it was proved.

`FdqlRunProofs` proves, for every value of the constants allowed by `FdqlAssumption`,
`DocsAssumption` and `PlanAssumption`:

- `CancelInvariant`: `CancelInv` is an invariant;
- `CancelledIsQuiet`: a cancelled run shows no further row, stores nothing, does not end as
  completed, and sends no request but the first one of an aggregate that had yet to get its
  connection;
- `FdqlInvariant`: `FdqlInv` is an invariant;
- `StoredAnswersAreWhole` and `FdqlTypesKept`: its consequences, `PersistedIsWhole` and, with
  `CancelInv`, the type;
- `CompletedRunsReturnTheirAnswer`: `CompletedIsAnswer`, from `MeantInv`, which is inductive
  together with `FdqlInv` and `CancelInv`.

A cancellation reaches a run only while it waits, for only then the main process does
anything else: a run waits exactly when it has not the turn. After the answer the first
thing the code does is to look at the signal, and so it does after a connection, but for the
aggregate. So a cancelled run is in one of a few places
(`AbortedPcs`), and from none of them a step leads to a row or a store, nor to a request, except
from `connectAggregate`.

An answer may be stored when a read is over, and a read is over for five reasons: it has what
it asked for, the last page was short or empty, the budget is used up, the run was cancelled,
or its time has run out. So `PagesRead` says what a read has in hand as long as nobody else
writes: never more than there is, with the rest of the page never more than it asked for, and
when it is over and the run need not stop, all there is up to `max`. `max` is the least of the
limit of the stage, the cap of a `lookup one` and the budget that was left (`WithinBudget`),
and here the key of the cache matters: it has the limit of the stage, not the `max`. The two
agree because a lookup that reads on has not used up the budget, so a read that got all of `max`
was not held back by it; an unlimited `lookup many` is stored only if it got less than `max`
(`shouldPersistLookupRows`), and the key of an unlimited `lookup one` has its `max`
(`cacheReadLimit`). An aggregate is not bounded by the budget and reads its count first
(`CountRead`). The assumption `MaxDocs <= NoLimit` is what "no limit" means. Between the pages
other clients write: then the run is `disturbed`, what it stores is marked `stale` and nothing
is claimed of it. The types need that every stage makes rows of rows: sorting, filtering and
grouping are folds, whose definition in the community modules is a recursive function, and
`FoldSolved` and `FoldIn` say for any fold that there is such a function and that it stays where
its steps stay. TLC checked `FdqlInv` on the instance of the run `fdql_run` before it was proved.

`MeantInv` says of a run that is not `bent`, not `disturbed` and has not used up its budget how
far it is from its answer (`UnderWay`). What it remembers is the answer of its key
(`MemoryMeant`). A source read in pages has a row for each document read, reads on only with
budget left, and when it is over has all there is up to its limit, or as many as the budget allows,
and then the run ends as stopped (`SourceMeant`). At a stage, the rows it has made,
followed by what the stage means of the rows still to do, are the rows of the stage by
definition (`StageMeant`); the same holds of the rows shown and the rows to show, with the
branches before (`ShownMeant`). So a step that deals with one row only moves it across
(`NextStageMeant`, `NextRowMeant`), and the work is in the lookups: that the rows served by either cache or
read within a budget are those of the definition unless `Bends` says so. The rows of a
plan are defined by recursion along its stages, and `FlattenSeq` along the sequences it puts
together; both are solved and unique by induction along numbers (`Walked`, `FlattenBy`).

`FirestoreTabProofs` proves about `FirestoreTabSpec`, the tab alone with its documents, for
every value of the constants allowed by `DocumentsAssumption` and `TabAssumption`:

- `FirestoreInvariant`: `FirestoreInv` is an invariant;
- `TabKeepsItsType`, `TabShowsItsQuery`, `TabMarksStale`, `TabOverwritesNothingUnseen`: its
  consequences, the type and the three safety properties of the tab.

Between a step of the repository and the tab there is a call, and between the tab and its next
write a dialog. So the invariant says of each row anywhere, in a page, an answer, a dialog or
the base of a write, that it is `Known`: no newer than its document, and if it has the
document's update time it is what the document is, unless the document is in `blind`. This is
what makes a comparison of update times enough for `NoSilentOverwrite`. It survives whatever is
written, because versions and times only grow (`Later`); a lemma for each kind of call and
dialog says so, and one for each operation of the repository that its answer is good (`GoodRead`,
`GoodWrite`, `TrueAnswer`). The value a patch removes is the one its editor was opened on, or
its document is in `blind` (`GoodPatch`); the patch that is repeated after a confirmation has
that value in the remote document, too.

`ShowsItsQuery` needs that the pages a read has collected go on one after another (`Chained`)
and that the cursor of a page leads to what is after it as long as the cache has it
(`Continues`). `ReadsFit` says that at most one read is for the execution shown, the first
while it loads, a further one while it is fetching, and after the last page there is then:
that is why an answer need only be compared with the execution. It also says that this read
holds nothing older than what the tab was told of since, or the results are marked, or have
lost their mark (`unmarked`, which a new execution ends); together
with `SettledWritten`, that the tab is told only of what has been written, this is what
`StaleIsMarked` needs when the pages arrive. TLC checked all parts of the invariant on the tab of
the run `renderer`, with one mishap, before they were proved.

`RendererProofs` begins with `SavedWorkspaceSpec`, the saved workspace alone, for every value of
the constants allowed by `SavedWorkspaceAssumption`:

- `SavedInvariant`: `SavedInv` is an invariant;
- `ShownIsRestored`: `SavedIsShown`, that the next window restores what this one shows.

When the last save ends, what it wrote must count against the last clearing. So the invariant
says which of the two is later all the way from the edit to the settings: a clearing under way
is of a recorded time and before whatever is queued behind it (`ClearingsOrdered`, from
`nextRecordedAtMs`), and tabs that wait are later than the clearing in the settings
(`LaterThanCleared`), for that was recorded by this window, or before the window was opened
(`ClearingKnown`). The rest says that the last snapshot under way is what is shown
(`LastIsShown`), and that a window that has not loaded saves nothing (`QueuesRest`,
`HeldAsFound`, `KeptUntouched`). It starts with a date after the times in the settings found.
TLC found no violation of `SavedInv` before it was proved.

`RendererProofs` then proves about `Spec` of `Renderer`, for every value of the constants allowed by
`WorkbenchAssumption`, which says of the workspaces restored at first that their references
are in order, as `tabsRestored` leaves them (`workspaceTransitions.ts:52`):

- `WorkbenchInvariant`: `WorkbenchInv` is an invariant;
- `TabShowsItsAccount`, `EachRunAttended`: its consequences `ShowsItsAccount` and
  `NoRunUnattended`;
- `BackAndForwardReturn`: the action property `ViewReturns`;
- `UsersInvariant` and `TabShowsItsUsers`, from the lemmas on the users tab;
- `TabsKeepTheirPromises`: what is proved of `FirestoreTabSpec` and `SavedWorkspaceSpec` holds of
  this composition, since a step of it is a step of each part or leaves it alone (`TabsTheirOwn`);
- `TypesKept`: `TypeOK`, of all the parts.

Most of it is about the operators of `Workspace`. `WellFormed` is a statement on sets of tabs;
`Sound` says the same by positions, which is what an insertion, a removal or a change of a place
is about (`SoundIsWellFormed`). Each transition of the tabs store has a lemma: the result is
sound, and which tabs look at the places they looked at before (`Keeps`). Two of them fold over
a sequence, the sanitising of the history and the closing of tabs one after another. Their
lemmas go along the sequence by the values of the fold (`FoldIsThere`, `FoldAlong`), since
recursion over data is out of the provers' reach otherwise: what is kept of a history is, in order, what
is open and available (`HistoryIsKept`). `ViewReturns` is the one property of values: the
snapshot before Back is the last entry of what is kept, and after Back nothing more is dropped
(`BackAndForward`).

The runs need little of this: that tabs with runs stay where they are, or are cleared
(`WorkspaceMoves`, `WorkspaceLeaves`). `ShowsItsAccount` is about rows shown; it is inductive with
the rows on their way (`RowsGiven`), with what the answers say (`MessagesTrue`: what is
answered is over), and with the result being of the active run if there is one (`ResultTrue`). A
dialog that closes tabs stores the workspace it was opened on; `DialogTrue` says that
the tabs in it are those there are, because nothing else can be used while it is open. TLC
checked `WorkbenchInv` on the instance of the run `renderer` before it was proved. For the proofs
the model got three changes that say the same in other words: the sanitising of a history is a
fold, as the loop in the code is, a tab that is not open is not closed (`workspaceTransitions.ts:180`),
and `WellFormed` has the kinds of ids.

It also has the users tab (the sections whose titles begin with Users), for every value of the constants allowed by `UsersAssumption`.
`ShowsItsUsers` only speaks of a tab that rests; `UsersInv` is what leads there. A load is shown
only if it is the active one, which has the largest number there is (`ActiveUnderway`), and what
loads or was loaded is what the filter asks for (`FilterLoaded`), because the effect runs in the
same turn. A further page is not compared with anything: it goes on with the list because
there is one at most, for the cursor of the list, and no load beside it (`MoreFits`), or the
history variable `mixed` says that they crossed. That claims are no older than what the tab was
told rests on the main process answering as it executes: what was saved is answered in the
order of the saves (`SavesNew`), the active load is no older than what was shown when it was sent
(`ActiveNew`), and rows that are older are hidden behind what was saved (`RowsNew`, `AnswersNew`).
TLC checked the parts of `UsersInv` on the instance of the run `renderer` before they were proved.

`DesktopMainProofs` proves about `Spec` of `DesktopMain`, for any calls, files found, failures and
crashes:

- `DesktopInvariant`: `DesktopInv` is an invariant;
- `StoresTypesKept`, `EachSettingKept`, `LogIsKept`, `CredentialsHeld`: its consequences `TypeOK`,
  `SettingsKept`, `LogKept` and `CredentialHeld`;
- `ConnectionsAreCurrent`: the action property `ConnectionIsCurrent`;
- `RowsAreMeant`: `CompletesWithItsRows`, with `InvCompletes` of `SqlRunProofs`.

It assumes `StoresAssumption`: null is none of the things stored, requests are as their schemas
say, and the files found were written by these stores, so the ids in `projects.json` differ
and a project that is listed with a credential has one; and `SqlAssumption`. It says of the
statements what the planner makes of them: limits and budgets are numbers, the first source is
a collection or a collection group, a subcollection is joined to an alias from before, field paths are
not empty, and the branches of a statement share their read budget (no clause sets it, so
`executionStage` gives each branch the default or that of the request). Of the documents it says that
there are finitely many collections, and that data is a function on the paths of leaves.

Each store keeps its own part of the invariant, about its variables and about the calls that are at one of
its steps; a step of one store leaves the parts of the others alone (`SettingsStay`, `LogStays`,
`ProjectsStay`, `SqlStays`), so each action has one lemma that speaks of one store.

- Settings: of the saves under way the latest is `saved` (`SaveTrue`); the file is the latest, or
  its save is under way, or `outdated` says what became of it (`LatestInFile`); and as long as nothing
  is loaded every load has read the file as it is, or an invalid one that was moved away meanwhile
  (`LoadTrue`, `NotLoaded`). That makes the first load harmless unless `raced` records it.
- Log: the queue has exactly the mutations that are not settled, each once, and only the one at
  its head has read the log (`QueueTrue`). So what it is going to write is what its mutation makes of the log as
  it is kept, and a repair writes what is kept (`OutTrue`), as long as no listing repairs at
  the same time, which `peeked` records.
- Projects: what is written to the file is the list in the cache, or the calls of its projects have
  crossed (`Changing`); the file may have a project that the cache has not only while it is being
  removed (`FileTrue`). An added project gets an id that is in no list, which needs that `UniqueId`
  finds a free number (`UniqueIdIsFree`): clearing and storing its credential
  therefore touches no listed project. A removal takes the credential after the file has lost the project.
- Connections: an opening that nothing has disturbed has found the project as it is, and after it was unlocked the
  credential it has (`Opening`); a connection that was not opened late has the credential of its
  project (`ConnectedTrue`). Its key has the host, so reusing it by the key is enough. Projects whose
  calls crossed, or whose removal failed, are in `tangled`, which only grows.
- SQL: `SqlInv`, the next section.

TLC checked `DesktopInv` without `SqlMeant` on the instance of the run `desktop_main` before it was
proved. `SqlMeant` chooses a function of the rows joined so far among all there are, which TLC cannot
enumerate; there it checked `CompletesWithItsRows`, what `SqlMeant` is for. For the proofs the
models got definitions that say the same in other words: expressions are evaluated by a
recursive function on their parts (`Parts`, nested at most `MaxNesting` deep), where a
recursive operator was; `Find` and `WithoutProject` take the place of an id, as no id is in a list
twice; and a pruned log starts at the least position that fits. In `SqlQueries` and `SqlRun` the steps of
a stage, the masks and the sort got names of their own.

`SqlRunProofs` proves, under the same `SqlAssumption`, for any statements, documents, writes of
other clients and stops:

- `EvaluateKept`: an expression has the same value on rows whose documents keep, of each
  source, the fields the expression names: what a mask leaves out, nothing asks for;
- `EndMeans`: filtering, sorting and limiting masked rows gives the rows that filtering, sorting
  and limiting the whole ones gives, with a limit pushed down only where neither is in between;
- `SortRowsIs`: the insertion sort puts each row where the rows that are sooner leave it
  (`Ranked`, a definition by counting), if the rows can be compared;
- `InvCompletes`: `CompletesWithItsRows` follows from `SqlInv`.

`CompletesWithItsRows` speaks of a run that is done, so the invariant says what the rows are at
every step before. `SqlPlaced` is where the run is: at a stage of the plan of its branch, with no
more read than its budget unless it stops (`SqlSound`). `SqlMeant` is about a run that was not stopped:
what it has put out is what its finished branches mean (`OutputsMeant`), and at a stage its
rows are the rows meant there, masked, and cut to the limit that was pushed down
(`BranchSound`, `RowsAt`, `Read`). The join of a subcollection is half-way with some rows
joined and the others waiting (`LeftSound`); a request half-way has some of the documents
that were there when it was answered, and the others follow (`Gathering`). `Meant` is computed
from what the run has seen, and each new answer adds to that, so `Unread` says that nothing is
recorded of what is still to come: then what was meant of the earlier sources stays as it is.

The rows of a plan are defined by recursion along its joins, and the parts of an expression by
recursion on their nesting. Induction over data is out of the provers' reach, but induction along the
numbers up to a given one is not: a set of numbers that has 0 and is closed under the
steps has all of them (`StepsReach`, from the least number that would be missing), and with it
there is exactly one function that takes the steps (`StepsSolved`, `JoinsSolved`).

Only model-checked: the liveness properties (`RunningEnds`, `JobEnds`, `AbandonedStops`, `EndIsShown`,
`RunEnds`), which need fairness and ENABLED. Every other property of the runs that pass is proved.

## Not modelled

Most of the repository's lines are of three kinds that have no state to speak of: the
languages (parsers, analyzers, compilers, completion and formatting of FDQL and Firestore
SQL, which are functions from text to syntax trees to text), the React components, which
draw the state the modelled code keeps, and the in-memory doubles of the mock
repositories. They are left to their unit tests. Further:

- Job queue: `list()` and the notifier, which only read. Job runner: the CSV columns, the
  encodings of values and the back-pressure of file streams.
- FDQL: expressions, projections, lineage, the binding of targets. SQL: functions on numbers
  and texts, `unnest`, `entries` and `subcollections()`, and lineage. FDQL and SQL tabs: the text of a
  query, its diagnostics and the aliases of a statement.
- Main process: the provider of Auth connections (the same cache again), encryption and
  validation of credentials, the export of the log, a corrupt file of projects, window
  state, updates and notifications (small, and mostly system calls).
- Query tab: selections, lists of collections and subcollections, entries of the activity
  log. Workspace: reordering and sorting of tabs, inspectors, the sanitising of saved tabs.
- A switch of the data mode. It opens the shell anew on the same tabs store; since there are
  tabs, the saved workspace is not restored (`usePersistedWorkspaceState.ts:69`), the stores of
  scripts and sources start empty, and the first snapshot saves that (`useAppShellController.ts:278`).
  Texts of tabs are not modelled, so no property speaks of it; it is listed as a hazard.
- Authentication users: the dialog for claims, which can be closed while it saves, the selected
  user and the entries of the activity log.

## Plan

Done: the job queue with its abstract specification, the collection job runner, the
JavaScript query tab and its runner, FDQL runs, the stores and connections of the main
process, SQL runs, the query tab, the workspace with the FDQL and SQL
tabs, the users tab, and the saved workspace. What would come next:

1. The texts of tabs as part of the workspace, with the data mode.
2. An abstract specification of a script run that settles once, which `ScriptRuns` implements.
3. The refinement of a store of one variable by the settings file and its cache, for the
   behaviours without a race.
