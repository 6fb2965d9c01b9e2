------------------------- MODULE FirestoreDocuments -------------------------
(***************************************************************************)
(* The documents of one collection, and what the main process does with    *)
(* them for a tab: FirebaseFirestoreRepository and its cursor cache.       *)
(* A document is written by its version, which every write of it renews; a *)
(* field has the version of the write that gave it its value.  Firestore's *)
(* update time is finer than the milliseconds the repository compares, so  *)
(* several writes may share a time.  Documents are in query order.         *)
(***************************************************************************)
EXTENDS Integers, SequencesExt, FiniteSetsExt, Functions

CONSTANTS
  LastDoc,       \* the documents are 1..LastDoc
  Fields,        \* their fields
  None,          \* a model value
  MaxCursors,    \* maxEntries of the cursor cache
  MaxMishaps     \* bound: writes of other clients, failures of Firestore, cursors that expire

ASSUME DocumentsAssumption ==
  /\ {LastDoc, MaxMishaps} \subseteq Nat /\ LastDoc > 0
  /\ MaxCursors \in Nat \ {0} /\ Fields # {}

Docs == 1..LastDoc
NoTime == 0
Gone == 0                      \* the version of a field that is not there

VARIABLES
  documents,     \* each document: whether it exists, and the version and the time of its last write
  clock,         \* the last version, and the millisecond it was written in
  cursors,       \* FirestoreCursorCache.entries: least recently used first, each by its token
  nextToken,     \* cursors made so far
  calls,         \* calls of the tab, in the order they were made
  mishaps,       \* how many of them so far
  lost,          \* history: documents whose writer did not see what was written over
  blind          \* history: documents whose update time did not tell two versions apart

docVars == <<documents, clock, cursors, nextToken, calls, mishaps, lost, blind>>

Row == [doc : Docs, version : Nat, time : Nat, values : [Fields -> Nat]]

\* documentResult: a document that is not there is one without fields or time.
RowOf(d) ==
  IF documents[d].exists
  THEN [doc |-> d, version |-> documents[d].version, time |-> documents[d].time,
        values |-> documents[d].values]
  ELSE [doc |-> d, version |-> documents[d].version, time |-> NoTime,
        values |-> [f \in Fields |-> Gone]]

InitDocuments ==
  /\ documents = [d \in Docs |-> [exists |-> TRUE, version |-> 1, time |-> 1,
                                  values |-> [f \in Fields |-> 1]]]
  /\ clock = [version |-> 1, time |-> 1]
  /\ cursors = <<>> /\ nextToken = 1 /\ calls = <<>>
  /\ mishaps = 0 /\ lost = {} /\ blind = {}

Mishap == mishaps < MaxMishaps /\ mishaps' = mishaps + 1

\* A write of d, in the millisecond of the last write or a later one.
Write(d, exists, Values(_)) ==
  \E t \in clock.time .. (clock.time + 1) :
    /\ clock' = [version |-> clock.version + 1, time |-> t]
    /\ documents' = [documents EXCEPT ![d] =
         [exists |-> exists, version |-> clock.version + 1, time |-> t,
          values |-> Values(clock.version + 1)]]
    /\ blind' = IF t = documents[d].time THEN blind \cup {d} ELSE blind

Answer(c, answer) ==
  calls' = [calls EXCEPT ![c].stage = "answered", ![c].answer = answer]
Failed == [status |-> "error"]

Asked(c, op) == calls[c].stage = "asked" /\ calls[c].op \in op

-----------------------------------------------------------------------------
(***************************************************************************)
(* Queries and their cursors                                               *)
(***************************************************************************)

\* FirestoreCursorCache.create and pruneLru, after get moved what it found to the end.
Cached(entries, last) ==
  LET all == Append(entries, [token |-> nextToken, after |-> last])
  IN SubSeq(all, 1 + Len(all) - (IF Len(all) > MaxCursors THEN MaxCursors ELSE Len(all)), Len(all))
Recent(entries, i) == Append(RemoveAt(entries, i), entries[i])

\* The documents of a page, and its last one.
FoundAfter(after) == {d \in Docs : d > after /\ documents[d].exists}
Limited(found, limit) == {d \in found : Cardinality({e \in found : e <= d}) <= limit}
LastOf(shown, after) == IF shown = {} THEN after ELSE Max(shown)

\* pageFromSnapshots: one document more than the limit was read.
PageAfter(after, limit, entries) ==
  LET found == FoundAfter(after)
      shown == Limited(found, limit)
      last == LastOf(shown, after)
      more == Cardinality(found) > limit
  IN [page |-> [items |-> {RowOf(d) : d \in shown}, after |-> after, last |-> last,
                next |-> IF more THEN nextToken ELSE None],
      entries |-> IF more THEN Cached(entries, last) ELSE entries,
      token |-> IF more THEN nextToken + 1 ELSE nextToken]

ServePage(c) ==
  /\ Asked(c, {"query", "more"})
  /\ LET call == calls[c]
         Serves(after, entries) ==
           LET found == PageAfter(after, call.exec.draft, entries)
           IN /\ Answer(c, [status |-> "page", page |-> found.page])
              /\ cursors' = found.entries /\ nextToken' = found.token
         held == {i \in DOMAIN cursors : cursors[i].token = call.cursor}
     IN \/ call.cursor = None /\ Serves(0, cursors)
        \/ call.cursor # None /\ \E i \in held : Serves(cursors[i].after, Recent(cursors, i))
        \/ /\ call.cursor # None /\ held = {}
           /\ Answer(c, Failed) /\ UNCHANGED <<cursors, nextToken>>
  /\ UNCHANGED <<documents, clock, mishaps, lost, blind>>

\* getDocument.
ServeDocument(c) ==
  /\ Asked(c, {"document"})
  /\ Answer(c, IF documents[1].exists
               THEN [status |-> "page", page |-> [items |-> {RowOf(1)}, after |-> 0,
                                                  last |-> 1, next |-> None]]
               ELSE [status |-> "page", page |-> None])
  /\ UNCHANGED <<documents, clock, cursors, nextToken, mishaps, lost, blind>>

-----------------------------------------------------------------------------
(***************************************************************************)
(* Writes: the transaction, then the document is read back                 *)
(***************************************************************************)

Written(c) == calls' = [calls EXCEPT ![c].stage = "written"]
Conflict(d) ==
  [status |-> "conflict", remote |-> IF documents[d].exists THEN RowOf(d) ELSE None]
Unwritten == UNCHANGED <<documents, clock, lost, blind>>
TimeOf(d) == IF documents[d].exists THEN documents[d].time ELSE NoTime

\* Mutant: the save does not look at the update time.
SaveConflicts_Never(call) == FALSE

\* saveDocument: the times are compared only when the caller has one.
SaveConflicts(call) == call.base.time # NoTime /\ TimeOf(call.doc) # call.base.time

CommitSave(c) ==
  /\ Asked(c, {"save"})
  /\ LET call == calls[c] d == call.doc IN
     IF SaveConflicts(call)
     THEN Answer(c, Conflict(d)) /\ Unwritten
     ELSE /\ Write(d, TRUE, LAMBDA v : [call.base.values EXCEPT ![call.field] = v])
          /\ Written(c)
          /\ lost' = IF documents[d].version = call.base.version THEN lost ELSE lost \cup {d}
  /\ UNCHANGED <<cursors, nextToken, mishaps>>

\* updateDocumentFields; the value the field had when it was edited is call.seen.
CommitPatch(c) ==
  /\ Asked(c, {"patch"})
  /\ LET call == calls[c] d == call.doc
         changed == call.base.time # NoTime /\ TimeOf(d) # call.base.time
         field == documents[d].values[call.field]
     IN CASE ~documents[d].exists \/ (changed /\ field # call.value) ->
               Answer(c, Conflict(d)) /\ Unwritten
          [] documents[d].exists /\ changed /\ field = call.value
               /\ call.stale # "save-and-notify" ->
               Answer(c, [status |-> "document-changed", remote |-> RowOf(d)]) /\ Unwritten
          [] OTHER ->
               /\ Write(d, TRUE, LAMBDA v : [documents[d].values EXCEPT
                                               ![call.field] = IF call.removes THEN Gone ELSE v])
               /\ Written(c)
               /\ lost' = IF field = call.seen THEN lost ELSE lost \cup {d}
  /\ UNCHANGED <<cursors, nextToken, mishaps>>

\* createDocument; it refuses a document that is there.
CommitCreate(c) ==
  /\ Asked(c, {"create"})
  /\ IF documents[calls[c].doc].exists
     THEN Answer(c, Failed) /\ UNCHANGED <<documents, clock, blind>>
     ELSE Write(calls[c].doc, TRUE, LAMBDA v : [f \in Fields |-> v]) /\ Written(c)
  /\ UNCHANGED <<cursors, nextToken, mishaps, lost>>

\* deleteDocument, whatever the document has become.
CommitDelete(c) ==
  /\ Asked(c, {"delete"})
  /\ Write(calls[c].doc, FALSE, LAMBDA v : [f \in Fields |-> Gone])
  /\ Answer(c, [status |-> "deleted", version |-> clock.version + 1])
  /\ UNCHANGED <<cursors, nextToken, mishaps, lost>>

\* A document read back after somebody deleted it has no update time to compare later.
ReadBack(c) ==
  /\ calls[c].stage = "written"
  /\ LET d == calls[c].doc
         there == documents[d].exists
     IN /\ Answer(c, IF calls[c].op = "patch" /\ ~there THEN Conflict(d)
                     ELSE [status |-> "saved", row |-> RowOf(d)])
        /\ blind' = IF there THEN blind ELSE blind \cup {d}
  /\ UNCHANGED <<documents, clock, cursors, nextToken, mishaps, lost>>

\* Firestore fails, before the write or between the write and its reading back.
Fail(c) ==
  /\ calls[c].stage \in {"asked", "written"}
  /\ Answer(c, Failed) /\ Mishap
  /\ UNCHANGED <<documents, clock, cursors, nextToken, lost, blind>>

\* pruneExpired, or a read with that cursor after its time.
Expire ==
  /\ cursors # <<>> /\ cursors' = Tail(cursors) /\ Mishap
  /\ UNCHANGED <<documents, clock, nextToken, calls, lost, blind>>

Serve(c) ==
  \/ ServePage(c) \/ ServeDocument(c) \/ CommitSave(c) \/ CommitPatch(c) \/ CommitCreate(c)
  \/ CommitDelete(c) \/ ReadBack(c) \/ Fail(c)

\* A collection job is another client that sets whole documents.
JobSets(d) ==
  /\ Mishap
  /\ Write(d, TRUE, LAMBDA v : [f \in Fields |-> v])
  /\ UNCHANGED <<cursors, nextToken, calls, lost>>

\* Another client sets a field of a document, creates one or deletes one.
OtherClient(d) ==
  /\ Mishap
  /\ \/ /\ documents[d].exists
        /\ \E f \in Fields : Write(d, TRUE, LAMBDA v : [documents[d].values EXCEPT ![f] = v])
     \/ documents[d].exists /\ Write(d, FALSE, LAMBDA v : [f \in Fields |-> Gone])
     \/ ~documents[d].exists /\ Write(d, TRUE, LAMBDA v : [f \in Fields |-> v])
  /\ UNCHANGED <<cursors, nextToken, calls, lost>>
=============================================================================
