---------------------------- MODULE FirestoreTab ----------------------------
(***************************************************************************)
(* A Firestore query tab: the runtime state of its queries and the         *)
(* transitions on it, the dialogs its documents are written from, and the  *)
(* calls of both to the repository, whose answers come back in any order.  *)
(* A draft is the page limit of a query of the collection, 0 for a query   *)
(* of its first document; two drafts have the same fingerprint if they are *)
(* equal.  Selections and lists of subcollections are left out.            *)
(***************************************************************************)
EXTENDS FirestoreDocuments

CONSTANTS
  Drafts,        \* the drafts the user edits
  StaleBehaviors,\* settings firestoreWrites.fieldStaleBehavior
  MaxActs        \* bound: what the user does with the tab

ASSUME TabAssumption ==
  /\ Drafts \subseteq Nat /\ Drafts # {}
  /\ StaleBehaviors \subseteq {"save-and-notify", "confirm", "block"}
  /\ MaxActs \in Nat
  /\ None \notin [id : Nat, epoch : Nat, draft : Nat]     \* of an execution

VARIABLES
  view,          \* whether it is there, what is shown, whether its account is in the list of projects
  draft,         \* its draft
  tabEpoch,      \* tabEpochs of the tab
  nextRequestId,
  queryRequest,  \* queryRequests of the tab
  result,        \* resultsByTab of the tab
  fieldEditor,   \* FieldEditModal: the document, the field and the value it was opened with
  conflictMerge, \* ConflictMergeModal: the remote document
  stalePatch,    \* pendingStaleFieldPatch: the call to repeat, on the remote document
  job,           \* what a collection job wrote, before the tab is told that it succeeded
  acts,          \* what the user did so far
  settled        \* history: by draft, the version of each document the tab was told of

dialogVars == <<fieldEditor, conflictMerge, stalePatch>>
queryVars == <<tabEpoch, nextRequestId, queryRequest, result>>
tabVars == <<view, draft, queryVars, dialogVars, job, acts, settled>>
firestoreVars == <<docVars, tabVars>>

\* emptyFirestoreQueryResultState.  History: the results may be stale and not say so, since the
\* mark was taken away by a query that did not start, or given to the tab shown instead.
EmptyResult == [status |-> "idle", execution |-> None, pages |-> <<>>, hasMore |-> FALSE,
                fetching |-> FALSE, stale |-> FALSE, unmarked |-> FALSE]

InitFirestoreTab ==
  /\ InitDocuments
  /\ view = [open |-> TRUE, at |-> "here", account |-> TRUE, calls |-> 0]
  /\ draft \in Drafts /\ tabEpoch = 0 /\ nextRequestId = 1
  /\ queryRequest = None /\ result = EmptyResult
  /\ fieldEditor = None /\ conflictMerge = None /\ stalePatch = None /\ job = None /\ acts = 0
  /\ settled = [q \in Drafts |-> [d \in Docs |-> 0]]

\* The rows shown; those of a page are in query order.
Rows == UNION {page.items : page \in ToSet(result.pages)}

\* An execution is its id, which no other has, the epoch of the tab and its draft.
\* Mutant: any execution of this tab that was not invalidated is current.
IsCurrentExecution_ByEpoch(e) == e.epoch = tabEpoch /\ queryRequest # None

IsCurrentExecution(e) == e.epoch = tabEpoch /\ queryRequest = e
IsCurrentResult(e) == IsCurrentExecution(e) /\ result.execution = e

\* A call, with what only some operations use.
Call(op, execution) ==
  [op |-> op, stage |-> "asked", exec |-> execution, answer |-> None, pages |-> <<>>, left |-> 1,
   cursor |-> None, doc |-> 0, base |-> None, field |-> None, value |-> Gone, seen |-> Gone,
   removes |-> FALSE, stale |-> None, draft |-> draft, closes |-> {}]
Done == [op |-> "done", stage |-> "done"]

\* The main process knows no account that was removed.
Posted(call) == IF view.account THEN call ELSE [call EXCEPT !.stage = "answered", !.answer = Failed]
Ask(call) == calls' = Append(calls, Posted(call))
Repository == <<documents, clock, cursors, nextToken, mishaps, lost>>
OnlyCalls == UNCHANGED <<Repository, blind, job>>

Answered(c, op) == calls[c].stage = "answered" /\ calls[c].op \in op
Ends(c) == calls' = [calls EXCEPT ![c] = Done]

\* What the user does; a dialog is modal, and one that is saving does not save again.
Acts == view.open /\ acts < MaxActs /\ acts' = acts + 1
NoDialog == fieldEditor = None /\ conflictMerge = None /\ stalePatch = None
AtTab == Acts /\ NoDialog /\ view.at = "here"

\* FirestoreQuerySurface stays mounted from one Firestore tab to the next, but not when a tab
\* of another kind is shown: the calls it made until then find it gone.
Mounted(c) == c > view.calls
Saving(dialog) ==
  \E c \in DOMAIN calls : Mounted(c) /\ calls[c].stage # "done" /\ dialog \in calls[c].closes

-----------------------------------------------------------------------------
(***************************************************************************)
(* Queries                                                                 *)
(***************************************************************************)

\* firestoreQueryStarted and executeFirestoreQueryCommand up to its first read.
Start(q, pagesToLoad) ==
  LET e == [id |-> nextRequestId, epoch |-> tabEpoch, draft |-> q] IN
  /\ nextRequestId' = nextRequestId + 1
  /\ queryRequest' = e
  /\ result' = [EmptyResult EXCEPT !.status = "loading", !.execution = e]
  /\ Ask([Call(IF q = 0 THEN "document" ELSE "query", e) EXCEPT !.left = pagesToLoad])

\* submitQuery starts nothing without the account; the surface has taken the mark away by then
\* (refreshResults, runQuery).
Submit(q, pagesToLoad) ==
  IF view.account
  THEN Start(q, pagesToLoad)
  ELSE /\ result' = [result EXCEPT !.stale = FALSE, !.unmarked = @ \/ result.stale]
       /\ UNCHANGED <<nextRequestId, queryRequest, calls>>

RunQuery ==
  /\ AtTab /\ Submit(draft, 1)
  /\ OnlyCalls /\ UNCHANGED <<view, draft, tabEpoch, dialogVars, settled>>

\* refreshQuery: as many pages as there are, of the query they are of.
RefreshQuery ==
  /\ AtTab
  /\ LET loaded == IF result.execution # None /\ result.execution.draft = 0 /\ Rows = {}
                   THEN 0 ELSE Len(result.pages)
     IN Submit(IF result.execution = None THEN draft ELSE result.execution.draft,
               IF loaded = 0 THEN 1 ELSE loaded)
  /\ OnlyCalls /\ UNCHANGED <<view, draft, tabEpoch, dialogVars, settled>>

\* firestoreLoadMoreStarted.
MayLoadMore ==
  /\ queryRequest # None /\ result.status \notin {"idle", "loading"}
  /\ result.execution = queryRequest /\ ~result.fetching /\ result.hasMore
  /\ Last(result.pages).next # None

LoadMore ==
  /\ AtTab /\ result.execution # None /\ result.execution.draft # 0 /\ MayLoadMore
  /\ result' = [result EXCEPT !.fetching = TRUE, !.status = "success"]
  /\ Ask([Call("more", result.execution) EXCEPT !.cursor = Last(result.pages).next])
  /\ OnlyCalls
  /\ UNCHANGED <<view, draft, tabEpoch, nextRequestId, queryRequest, dialogVars, settled>>

\* matchingResultExecution: what was marked while the query ran stays marked.
StaleOf(e) == result.execution = e /\ result.stale
UnmarkedOf(e) == result.execution = e /\ result.unmarked

\* completeExecutedFirestoreQuery: firestoreQuerySucceeded, firestoreRefreshSucceeded or
\* firestoreQueryFailed.
Complete(e, status, pages) ==
  IF IsCurrentExecution(e)
  THEN result' = [status |-> status, execution |-> e, pages |-> pages,
                  hasMore |-> e.draft # 0 /\ pages # <<>> /\ Last(pages).next # None,
                  fetching |-> FALSE, stale |-> StaleOf(e), unmarked |-> UnmarkedOf(e)]
  ELSE UNCHANGED result

\* loadQueryPages goes on until it has its pages, whatever happened to the tab.
PageArrives(c) ==
  /\ Answered(c, {"query", "document"})
  /\ LET call == calls[c]
         page == call.answer.page
         pages == IF page = None THEN <<>> ELSE Append(call.pages, page)
     IN CASE call.answer.status = "error" -> Complete(call.exec, "error", <<>>) /\ Ends(c)
          [] call.answer.status = "page" /\ pages # <<>> /\ Last(pages).next # None
               /\ Len(pages) < call.left ->
               /\ calls' = [calls EXCEPT ![c] = Posted([call EXCEPT !.stage = "asked",
                                 !.answer = None, !.pages = pages, !.cursor = page.next])]
               /\ UNCHANGED result
          [] OTHER -> Complete(call.exec, "success", pages) /\ Ends(c)
  /\ OnlyCalls
  /\ UNCHANGED <<view, draft, tabEpoch, nextRequestId, queryRequest, dialogVars, acts, settled>>

\* firestoreLoadMoreFailed keeps the pages there are.
MoreFailed == [result EXCEPT !.fetching = FALSE, !.status = "error"]

\* firestoreLoadMoreSucceeded.
MoreArrives(c) ==
  /\ Answered(c, {"more"}) /\ Ends(c)
  /\ LET answer == calls[c].answer IN
     result' = CASE ~IsCurrentResult(calls[c].exec) -> result
                 [] IsCurrentResult(calls[c].exec) /\ answer.status = "error" ->
                      MoreFailed
                 [] OTHER ->
                      [result EXCEPT !.fetching = FALSE, !.status = "success",
                         !.pages = Append(@, answer.page), !.hasMore = answer.page.next # None]
  /\ OnlyCalls
  /\ UNCHANGED <<view, draft, tabEpoch, nextRequestId, queryRequest, dialogVars, acts, settled>>

\* firestoreTabRuntimeInvalidated and firestoreTabCleared.
Invalidate ==
  /\ tabEpoch' = tabEpoch + 1
  /\ queryRequest' = None
  /\ result' = EmptyResult

\* editDraft with another fingerprint, and the effect on targetScopeKey: the dialogs close.
EditDraft(q) ==
  /\ AtTab /\ q # draft /\ draft' = q
  /\ Invalidate
  /\ OnlyCalls /\ UNCHANGED <<view, nextRequestId, calls, dialogVars, settled>>

\* A tab that is loading is not closed.
CloseTab ==
  /\ Acts /\ NoDialog /\ view' = [view EXCEPT !.open = FALSE]
  /\ result.status # "loading" /\ ~result.fetching
  /\ Invalidate
  /\ OnlyCalls /\ UNCHANGED <<draft, nextRequestId, calls, dialogVars, settled>>

\* A tab of another kind is shown, or another Firestore tab with another query; the dialogs
\* are gone then, and when the tab is shown again; from the other query the user comes back.
Elsewhere(places) ==
  view.open /\ view.at \in places /\ UNCHANGED <<docVars, draft, queryVars, job, settled>>
Dismissed == fieldEditor' = None /\ conflictMerge' = None /\ stalePatch' = None

Leave(to) ==
  /\ Acts /\ Elsewhere({"here", "other kind"} \ {to}) /\ Dismissed
  /\ view' = [view EXCEPT !.at = to, !.calls = IF to = "other kind" THEN Len(calls) ELSE @]

Return ==
  /\ Elsewhere({"other query", "other kind"}) /\ Dismissed
  /\ view' = [view EXCEPT !.at = "here"]
  /\ UNCHANGED acts

\* removeProjectCommand leaves the tabs of the project; one added later may have its id.
ProjectRemoved ==
  /\ Acts /\ NoDialog /\ view.account /\ view' = [view EXCEPT !.account = FALSE]
  /\ UNCHANGED <<docVars, draft, queryVars, dialogVars, job, settled>>

ProjectAdded ==
  /\ ~view.account /\ view' = [view EXCEPT !.account = TRUE]
  /\ UNCHANGED <<docVars, draft, queryVars, dialogVars, job, acts, settled>>

-----------------------------------------------------------------------------
(***************************************************************************)
(* Writes                                                                  *)
(***************************************************************************)

\* Nothing of the query changes while the user writes.
Writes == OnlyCalls /\ UNCHANGED <<view, draft, queryVars, settled>>

\* The document editor saves the whole document it was opened with.
SaveDocument ==
  /\ AtTab
  /\ \E row \in Rows, f \in Fields :
       Ask([Call("save", result.execution) EXCEPT !.doc = row.doc, !.base = row, !.field = f])
  /\ Writes /\ UNCHANGED dialogVars

DeleteDocument ==
  /\ AtTab
  /\ \E row \in Rows : Ask([Call("delete", result.execution) EXCEPT !.doc = row.doc])
  /\ Writes /\ UNCHANGED dialogVars

CreateDocument ==
  /\ AtTab
  /\ \E d \in Docs : Ask([Call("create", result.execution) EXCEPT !.doc = d])
  /\ Writes /\ UNCHANGED dialogVars

EditField ==
  /\ view.open /\ view.at = "here" /\ acts < MaxActs /\ NoDialog
  /\ \E row \in Rows, f \in Fields :
       fieldEditor' = [doc |-> row.doc, field |-> f, seen |-> row.values[f]]
  /\ Writes /\ UNCHANGED <<calls, conflictMerge, stalePatch, acts>>

BaseValue(row, f) == row.values[f]

\* saveField and deleteField: the base is the row there is by now, which an earlier write of
\* the tab may have replaced since the editor was opened.
SaveField ==
  /\ Acts /\ fieldEditor # None /\ ~Saving("field")
  /\ \E row \in Rows, behavior \in StaleBehaviors, removes \in BOOLEAN :
       LET f == fieldEditor.field IN
       /\ row.doc = fieldEditor.doc
       /\ Ask([Call("patch", result.execution) EXCEPT
                 !.doc = row.doc, !.base = row, !.field = f, !.value = BaseValue(row, f),
                 !.seen = fieldEditor.seen, !.removes = removes, !.stale = behavior,
                 !.closes = {"field"}])
       /\ blind' = IF row.values[f] = fieldEditor.seen THEN blind ELSE blind \cup {row.doc}
  /\ UNCHANGED <<Repository, view, draft, queryVars, settled, dialogVars, job>>

\* saveMergedConflict: the whole document, on the remote one the user was shown.
SaveMerged ==
  /\ Acts /\ conflictMerge # None /\ conflictMerge.remote # None /\ ~Saving("merge")
  /\ \E f \in Fields :
       Ask([Call("save", result.execution) EXCEPT
              !.doc = conflictMerge.remote.doc, !.base = conflictMerge.remote, !.field = f,
              !.closes = conflictMerge.closes \cup {"merge"}])
  /\ Writes /\ UNCHANGED dialogVars

\* confirmStaleFieldPatch.
ConfirmPatch ==
  /\ Acts /\ stalePatch # None
  /\ Ask([stalePatch EXCEPT !.stage = "asked", !.exec = result.execution, !.answer = None,
                            !.base = stalePatch.answer.remote, !.stale = "confirm"])
  /\ stalePatch' = None
  /\ Writes /\ UNCHANGED <<fieldEditor, conflictMerge>>

\* A dialog is closed without writing; after a conflict also by a refresh.
CloseDialog ==
  /\ fieldEditor # None \/ conflictMerge # None \/ stalePatch # None
  /\ fieldEditor' = None /\ conflictMerge' = None /\ stalePatch' = None
  /\ Writes /\ UNCHANGED <<calls, acts>>

\* firestoreResultsMarkedStale.
MarkedStale == [result EXCEPT !.stale = TRUE]

\* Mutant: a write answered after its results were replaced is none of the tab's business.
Disposition_OnlyOwn(e) ==
  IF e # None /\ IsCurrentResult(e) /\ result.status = "success" THEN "apply" ELSE "ignore"

\* firestoreWriteResultDisposition; a tab without results has nothing to apply it to.
Disposition(e) ==
  CASE e = None -> "ignore"
    [] e # None /\ IsCurrentResult(e) ->
         IF result.status = "success" THEN "apply" ELSE "mark-stale"
    [] OTHER -> IF result.execution # None /\ result.execution.draft = e.draft
                THEN "mark-stale" ELSE "ignore"

WithItems(Change(_)) ==
  LET pages == result.pages
  IN [result EXCEPT !.stale = TRUE,
        !.pages = [i \in DOMAIN pages |-> [pages[i] EXCEPT !.items = Change(pages[i].items)]]]
Replaced(row) == WithItems(LAMBDA items : {IF x.doc = row.doc THEN row ELSE x : x \in items})
Removed(d) == WithItems(LAMBDA items : {x \in items : x.doc # d})

ToldOf(e, d, version) ==
  settled' = IF e = None THEN settled
             ELSE [settled EXCEPT ![e.draft][d] = IF @ > version THEN @ ELSE version]
ToldAll(d, version) ==
  settled' = [q \in Drafts |-> [settled[q] EXCEPT ![d] = IF @ > version THEN @ ELSE version]]

\* firestoreResultDocumentSaved and firestoreResultDocumentDeleted.
Applied(e, change) ==
  result' = CASE Disposition(e) = "apply" -> change
              [] Disposition(e) = "mark-stale" -> MarkedStale
              [] OTHER -> result

\* The answer to a write reaches the surface; a dialog opens only while its draft is shown.  A
\* create marks the results of the tab the surface shows by then, or showed last.
WriteSettles(c) ==
  /\ Answered(c, {"save", "patch", "delete", "create"}) /\ Ends(c)
  /\ LET call == calls[c]
         answer == call.answer
         shown == view.open /\ view.at = "here" /\ Mounted(c) /\ call.draft = draft
         closes == IF Mounted(c) THEN call.closes ELSE {}
     IN
     \/ /\ answer.status = "error"
        /\ UNCHANGED <<result, dialogVars, settled>>
     \/ /\ answer.status = "conflict"
        /\ conflictMerge' = IF shown THEN [remote |-> answer.remote, closes |-> call.closes]
                              ELSE conflictMerge
        /\ UNCHANGED <<result, fieldEditor, stalePatch, settled>>
     \/ /\ answer.status = "document-changed"
        /\ stalePatch' = IF shown /\ call.stale = "confirm" THEN call ELSE stalePatch
        /\ UNCHANGED <<result, fieldEditor, conflictMerge, settled>>
     \/ /\ answer.status = "saved" /\ call.op \in {"save", "patch"}
        /\ Applied(call.exec, Replaced(answer.row))
        /\ ToldOf(call.exec, call.doc, answer.row.version)
        /\ fieldEditor' = IF "field" \in closes THEN None ELSE fieldEditor
        /\ conflictMerge' = IF "merge" \in closes THEN None ELSE conflictMerge
        /\ UNCHANGED stalePatch
     \/ /\ answer.status = "saved" /\ call.op = "create"
        /\ result' = IF view.at = "other query" /\ Mounted(c)
                     THEN [result EXCEPT !.unmarked = TRUE] ELSE MarkedStale
        /\ ToldAll(call.doc, answer.row.version)
        /\ UNCHANGED dialogVars
     \/ /\ answer.status = "deleted"
        /\ Applied(call.exec, Removed(call.doc))
        /\ ToldOf(call.exec, call.doc, answer.version)
        /\ UNCHANGED dialogVars
  /\ OnlyCalls /\ UNCHANGED <<view, draft, tabEpoch, nextRequestId, queryRequest, acts>>

\* A collection job sets whole documents; the tab is told once it has succeeded.
JobWrites(d) ==
  /\ job = None /\ JobSets(d)
  /\ job' = [doc |-> d, version |-> clock.version + 1]
  /\ UNCHANGED <<view, draft, queryVars, dialogVars, acts, settled>>

\* firestoreCollectionJobSucceeded, for a job whose target overlaps the path of the query.
JobMarks == result.execution # None /\ IsCurrentResult(result.execution)

JobSucceeded ==
  /\ job # None /\ job' = None
  /\ result' = IF JobMarks THEN MarkedStale ELSE result
  /\ ToldAll(job.doc, job.version)
  /\ UNCHANGED <<docVars, view, draft, tabEpoch, nextRequestId, queryRequest, dialogVars, acts>>

-----------------------------------------------------------------------------
FirestoreTabUser ==
  \/ RunQuery \/ RefreshQuery \/ LoadMore \/ CloseTab
  \/ SaveDocument \/ DeleteDocument \/ CreateDocument \/ EditField
  \/ SaveField \/ SaveMerged \/ ConfirmPatch \/ CloseDialog
  \/ Return \/ ProjectRemoved \/ ProjectAdded
  \/ \E to \in {"other query", "other kind"} : Leave(to)
  \/ \E q \in Drafts : EditDraft(q)

FirestoreTabNext ==
  \/ FirestoreTabUser
  \/ \E c \in DOMAIN calls : PageArrives(c) \/ MoreArrives(c) \/ WriteSettles(c)
  \/ (\E c \in DOMAIN calls : Serve(c)) /\ UNCHANGED tabVars
  \/ (Expire \/ \E d \in Docs : OtherClient(d)) /\ UNCHANGED tabVars
  \/ JobSucceeded \/ \E d \in Docs : JobWrites(d)

FirestoreTabSpec == InitFirestoreTab /\ [][FirestoreTabNext]_firestoreVars

-----------------------------------------------------------------------------
Views == [open : BOOLEAN, at : {"here", "other query", "other kind"}, account : BOOLEAN, calls : Nat]
Executions == [id : Nat, epoch : Nat, draft : Drafts]
Pages == [items : SUBSET Row, after : Docs \cup {0}, last : Docs \cup {0}, next : Nat \cup {None}]

\* The state of the tab: only results that have loaded and go on can be fetching more, and a
\* query that is loading shows nothing (firestoreLoadMoreStarted, firestoreQueryStarted).
FirestoreTabTypeOK ==
  /\ view \in Views /\ draft \in Drafts /\ tabEpoch \in Nat /\ nextRequestId \in Nat
  /\ queryRequest \in Executions \cup {None}
  /\ result.status \in {"idle", "loading", "success", "error"}
  /\ result.pages \in Seq(Pages)
  /\ result.fetching => result.status = "success" /\ result.hasMore
  /\ result.status \in {"idle", "loading"} => result.pages = <<>>

\* The rows a tab shows are those of the query it ran last: results that come late, for an
\* earlier query, for a draft that has been edited since or for a closed tab are dropped, and
\* pages loaded more than once, or of two queries, never meet.  Each page goes on where the one
\* before it ended (isCurrentFirestoreQueryExecution, firestoreLoadMoreSucceeded).
ShowsItsQuery ==
  /\ result.execution = queryRequest
  /\ queryRequest # None => view.open /\ queryRequest.draft = draft /\ queryRequest.id = nextRequestId - 1
  /\ \A i \in DOMAIN result.pages :
       /\ result.pages[i].after = IF i = 1 THEN 0 ELSE result.pages[i - 1].last
       /\ queryRequest.draft # 0 => Cardinality(result.pages[i].items) <= queryRequest.draft

\* A tab that was told of a write shows the document as of that write or later, or says that
\* its results are stale, whatever query was running meanwhile; so for every write of the tab
\* for the same query (firestoreWriteResultDisposition) and every collection job that writes
\* where the query reads (firestoreCollectionJobSucceeded).  Two things take the mark from the
\* tab: a query that does not start, for want of the account, once the mark has been removed;
\* and a create answered while another query is shown, whose results it marks (refreshResults,
\* setResultsStaleState).
StaleIsMarked ==
  result.execution # None /\ ~result.stale /\ ~result.unmarked =>
    \A row \in Rows : row.version >= settled[result.execution.draft][row.doc]

\* A document or a field is not written over what another client wrote unless the writer was
\* shown it, with a conflict, a stale patch to confirm or the row (saveDocument,
\* updateDocumentFields); but for documents whose update time cannot tell.
NoSilentOverwrite == lost \subseteq blind
=============================================================================
