--------------------------- MODULE CollectionJob ---------------------------
(***************************************************************************)
(* One call of FirestoreCollectionJobRunner.run: a collection is deleted,  *)
(* copied (or duplicated), exported as JSON lines or CSV, or imported.     *)
(* The documents come one by one from nested generators (a stack of frames *)
(* here) or from the lines of a file, and the consumer batches its writes  *)
(* (BatchWriter).  An action is what runs between two awaits, or a part of *)
(* it; between any two the user may cancel, other clients may change the   *)
(* collection and the next await may reject.                               *)
(*                                                                         *)
(* pc, the await the job is at:                                            *)
(*   count    the count() of the top frame's collection, or the counting   *)
(*            of the lines of the import file                              *)
(*   query    the next page of the top frame                               *)
(*   next     the next document of the page, or line of the file           *)
(*   list     listCollections() of the document last read                  *)
(*   subs     the loop over those subcollections                           *)
(*   check    writableTargetPaths of a full chunk, or of the last one      *)
(*   write    the loop over the chunk (a deletion's chunk is one document) *)
(*   push     BatchWriter.set or delete, past commitBeforeOverflow         *)
(*   finish   the stream has ended: the last commit, or the end of a file  *)
(*   convert  writeCsvFromTemp                                             *)
(*   report   the last progress update                                     *)
(*   over     run() has returned or thrown                                 *)
(***************************************************************************)
EXTENDS FirestoreTree, Sequences, SequencesExt

CONSTANTS
  Limit,         \* WRITE_BATCH_LIMIT, of a batch and of a chunk
  Size,          \* the estimated bytes of each document's write
  MaxBytes,      \* writeBatchMaxBytes
  Sources,       \* bound: what the collection may hold at the call
  Targets,       \* bound: what the target may hold at the call
  Files,         \* bound: import files, a line being its document, or Bad
  MaxOutside,    \* bound: changes by other clients during the job
  MaxFaults      \* bound: rejected awaits, oversized batches included

Bad == 0         \* a line parseImportLine rejects

ASSUME JobAssumption ==
  /\ Limit \in Nat \ {0}
  /\ Size \in [Docs -> Nat]
  /\ {MaxBytes, MaxOutside, MaxFaults} \subseteq Nat
  /\ Sources \subseteq SUBSET Docs /\ Targets \subseteq SUBSET Docs
  /\ Files \subseteq Seq(Docs \cup {Bad})

Exports == {"exportJsonl", "exportCsv"}
Request == [kind : {"delete", "copy", "import"} \cup Exports,
            include : BOOLEAN,                        \* includeSubcollections
            policy : {"skip", "overwrite", "fail"}]   \* collisionPolicy

Frame == [coll : Collections, cursor : Nat, page : SUBSET Docs, more : BOOLEAN,
          subs : SUBSET Collections]
FrameOf(c) == [coll |-> c, cursor |-> 0, page |-> {}, more |-> TRUE, subs |-> {}]

Op == [doc : Docs, line : Nat]   \* a set writes what was read as number `line`

File == [there : BOOLEAN, docs : SUBSET Docs]
NoFile == [there |-> FALSE, docs |-> {}]
Created == [there |-> TRUE, docs |-> {}]

VARIABLES
  request,     \* the job's request
  source,      \* the documents below Root
  target,      \* the documents below the target collection, by the same names
  line,        \* history: which document or line read was last written there
  pc,
  stack,       \* the suspended generators, the innermost last
  lines,       \* the import file's lines not yet read
  chunk,       \* chunk
  writable,    \* the writable target paths of the chunk
  pending,     \* BatchWriter.pendingOperations
  committing,  \* the batches commitOperations has yet to commit
  progress,    \* progressCounter(), as last reported
  files,       \* the export's output file and temporary file
  cancelled,   \* signal.isCancelled()
  outcome,     \* run(): running, returned, cancelled or failed
  committed,   \* history: operations whose commit succeeded
  begun,       \* history: source, target and file at the call
  touched,     \* history: documents changed by other clients
  faults       \* faults used, for the bound

vars == <<request, source, target, line, pc, stack, lines, chunk, writable, pending,
          committing, progress, files, cancelled, outcome, committed, begun, touched, faults>>

db == <<source, target, line>>
reader == <<stack, lines>>
batcher == <<chunk, writable, pending, committing>>
world == <<request, cancelled, begun, touched>>

Pc == {"count", "query", "next", "list", "subs", "check", "write", "push", "finish",
       "convert", "report", "over"}
Counter == {"total", "read", "skipped", "written", "deleted"}

TypeOK ==
  /\ request \in Request
  /\ source \subseteq Docs /\ target \subseteq Docs
  /\ line \in [Docs -> Nat]
  /\ pc \in Pc
  /\ stack \in Seq(Frame)
  /\ lines \in Seq(Docs \cup {Bad})
  /\ chunk \in Seq(Docs)
  /\ writable \subseteq Docs
  /\ pending \in Seq(Op)
  /\ committing \in Seq(Seq(Op))
  /\ progress \in [Counter -> Nat]
  /\ files \in [{"output", "temp"} -> File]
  /\ cancelled \in BOOLEAN
  /\ outcome \in {"running", "returned", "cancelled", "failed"}
  /\ committed \in Nat
  /\ begun \in [source : SUBSET Docs, target : SUBSET Docs, lines : Seq(Docs \cup {Bad})]
  /\ touched \subseteq Docs
  /\ faults \in Nat

Kind == request.kind

\* What the kind of the job does not look at is fixed, to keep the runs small.
Init ==
  /\ request \in Request
  /\ Kind = "import" => ~request.include
  /\ Kind \notin {"copy", "import"} => request.policy = "overwrite"
  /\ source \in (IF Kind = "import" THEN {{}} ELSE Sources)
  /\ target \in (IF Kind \in {"copy", "import"} THEN Targets ELSE {{}})
  /\ lines \in (IF Kind = "import" THEN Files ELSE {<<>>})
  /\ line = [d \in Docs |-> 0]
  /\ pc = "count"
  /\ stack = IF Kind = "import" THEN <<>> ELSE <<FrameOf(Root)>>
  /\ chunk = <<>> /\ writable = {} /\ pending = <<>> /\ committing = <<>>
  /\ progress = [c \in Counter |-> 0]
  /\ files = [output |-> IF Kind = "exportJsonl" THEN Created ELSE NoFile,
              temp |-> IF Kind = "exportCsv" THEN Created ELSE NoFile]
  /\ cancelled = FALSE /\ outcome = "running"
  /\ committed = 0 /\ touched = {} /\ faults = 0
  /\ begun = [source |-> source, target |-> target, lines |-> lines]

-----------------------------------------------------------------------------
(***************************************************************************)
(* How run() ends                                                          *)
(***************************************************************************)

Ends(how) == pc' = "over" /\ outcome' = how

\* Mutant: a failed CSV export leaves its temporary file.
Cleaned_NoTemp == [files EXCEPT !.output = NoFile]

\* The catch blocks of the exports unlink both files.
Cleaned == [files EXCEPT !.output = NoFile, !.temp = NoFile]

Throws(how) == Ends(how) /\ files' = IF Kind \in Exports THEN Cleaned ELSE files

\* An awaited promise of the job settles.
At(where) == pc = where /\ committing = <<>>

Fault == faults < MaxFaults /\ faults' = faults + 1

\* A read, a progress update or the parsing of a line rejects.
Rejects ==
  /\ pc # "over" /\ committing = <<>>
  /\ Fault
  /\ Throws("failed")
  /\ UNCHANGED <<db, reader, batcher, progress, committed, world>>

Top == Last(stack)

\* Mutant: the last commit is not preceded by assertNotCancelled.
Asserts_NotLast ==
  \/ pc \in {"count", "query"}
  \/ pc = "write" /\ chunk # <<>>
  \/ pc = "next" /\ (lines # <<>> \/ (stack # <<>> /\ Top.page # {}))

\* Where the code calls assertNotCancelled next.
Asserts ==
  \/ pc \in {"count", "query"}
  \/ pc = "write" /\ chunk # <<>>
  \/ pc = "next" /\ (lines # <<>> \/ (stack # <<>> /\ Top.page # {}))
  \/ pc = "finish" /\ Kind \notin Exports

NotCancelled == ~(Asserts /\ cancelled)

\* assertNotCancelled throws JobCancelledError.
SeesCancel ==
  /\ committing = <<>>
  /\ ~NotCancelled
  /\ Throws("cancelled")
  /\ UNCHANGED <<db, reader, batcher, progress, committed, world, faults>>

-----------------------------------------------------------------------------
(***************************************************************************)
(* The generators                                                          *)
(***************************************************************************)

SetTop(frame) == Append(Front(stack), frame)

\* Mutant: what is done is taken off the counter.
Count_Down(counter, n) == [progress EXCEPT ![counter] = @ - n]

\* One of the counters of progressCounter() grows.
Count(counter, n) == [progress EXCEPT ![counter] = @ + n]

\* countDirectCollectionDocuments: count() of a collection's own documents.
Counted == Cardinality(Direct(source, Top.coll))

\* countCollectionIfRequested: the count is added to the total and reported.
CountCollection ==
  /\ At("count") /\ Kind # "import" /\ NotCancelled
  /\ progress' = Count("total", Counted)
  /\ pc' = "query"
  /\ UNCHANGED <<db, reader, batcher, files, outcome, committed, world, faults>>

\* What follows the stream: the last chunk, if there is one.
Ended == IF chunk = <<>> THEN "finish" ELSE "check"

\* A generator returns, to the generator that delegated to it or to run().
Return ==
  /\ stack' = Front(stack)
  /\ pc' = IF Len(stack) = 1 THEN Ended ELSE "subs"

\* A full page may be followed by another.
More(page) == Cardinality(page) >= PageSize

\* A page is read.
FetchPage ==
  /\ At("query") /\ NotCancelled
  /\ LET page == Page(source, Top.coll, Top.cursor) IN
       \/ page = {} /\ Return
       \/ /\ page # {}
          /\ stack' = SetTop([Top EXCEPT !.page = page, !.more = More(page)])
          /\ pc' = "next"
  /\ UNCHANGED <<db, lines, batcher, progress, files, outcome, committed, world, faults>>

\* The page is used up: the next one is read, unless this one was short.
EndPage ==
  /\ At("next") /\ Kind # "import" /\ Top.page = {}
  /\ \/ Top.more /\ pc' = "query" /\ UNCHANGED stack
     \/ ~Top.more /\ Return
  /\ UNCHANGED <<db, lines, batcher, progress, files, outcome, committed, world, faults>>

\* Mutant: a document is given before its subcollections are deleted.
ListsBefore_Never == FALSE

\* A deletion goes through the subcollections before the document itself, the
\* other jobs after it.
ListsBefore == Kind = "delete" /\ request.include

\* The generator runs on after it gave a document.
Resumed == IF request.include /\ ~ListsBefore THEN "list" ELSE "next"

\* What each consumer does with document d: a deletion writes, a copy fills its
\* chunk, an export writes a line and reports it.
Give(d) ==
  \/ /\ Kind = "delete"
     /\ chunk' = <<d>> /\ writable' = {d} /\ pc' = "write"
     /\ UNCHANGED <<progress, files>>
  \/ /\ Kind = "copy"
     /\ chunk' = Append(chunk, d)
     /\ pc' = IF Len(chunk') < Limit THEN Resumed ELSE "check"
     /\ UNCHANGED <<writable, progress, files>>
  \/ /\ Kind \in Exports
     /\ LET f == IF Kind = "exportCsv" THEN "temp" ELSE "output"
        IN files' = [files EXCEPT ![f].docs = @ \cup {d}]
     /\ progress' = Count("read", 1)
     /\ pc' = Resumed
     /\ UNCHANGED <<chunk, writable>>

\* The next document of the page.
NextDocument ==
  /\ At("next") /\ Kind # "import" /\ Top.page # {} /\ NotCancelled
  /\ LET d == First(Top.page) IN
       /\ stack' = SetTop([Top EXCEPT !.cursor = d, !.page = @ \ {d}])
       /\ \/ ListsBefore /\ pc' = "list" /\ UNCHANGED <<chunk, writable, progress, files>>
          \/ ~ListsBefore /\ Give(d)
  /\ UNCHANGED <<db, lines, pending, committing, outcome, committed, world, faults>>

ListSubcollections ==
  /\ At("list")
  /\ stack' = SetTop([Top EXCEPT !.subs = Subcollections(source, Top.cursor)])
  /\ pc' = "subs"
  /\ UNCHANGED <<db, lines, batcher, progress, files, outcome, committed, world, faults>>

\* yield*: the generator of one of the subcollections.
Descend ==
  /\ At("subs")
  /\ \E c \in Top.subs :
       stack' = Append(SetTop([Top EXCEPT !.subs = @ \ {c}]), FrameOf(c))
  /\ pc' = "count"
  /\ UNCHANGED <<db, lines, batcher, progress, files, outcome, committed, world, faults>>

\* No subcollection is left.
EndSubcollections ==
  /\ At("subs") /\ Top.subs = {}
  /\ \/ ListsBefore /\ Give(Top.cursor)
     \/ ~ListsBefore /\ pc' = "next" /\ UNCHANGED <<chunk, writable, progress, files>>
  /\ UNCHANGED <<db, reader, pending, committing, outcome, committed, world, faults>>

-----------------------------------------------------------------------------
(***************************************************************************)
(* The import file                                                         *)
(***************************************************************************)

CountLines ==
  /\ At("count") /\ Kind = "import" /\ NotCancelled
  /\ progress' = Count("total", Len(lines))
  /\ pc' = "next"
  /\ UNCHANGED <<db, reader, batcher, files, outcome, committed, world, faults>>

NextLine ==
  /\ At("next") /\ Kind = "import" /\ NotCancelled
  /\ \/ /\ lines = <<>>
        /\ pc' = Ended
        /\ UNCHANGED <<lines, chunk, outcome, files>>
     \/ /\ lines # <<>> /\ Head(lines) = Bad
        /\ Throws("failed")
        /\ UNCHANGED <<lines, chunk>>
     \/ /\ lines # <<>> /\ Head(lines) # Bad
        /\ lines' = Tail(lines)
        /\ chunk' = Append(chunk, Head(lines))
        /\ pc' = IF Len(chunk') < Limit THEN "next" ELSE "check"
        /\ UNCHANGED <<outcome, files>>
  /\ UNCHANGED <<db, stack, writable, pending, committing, progress, committed, world, faults>>

-----------------------------------------------------------------------------
(***************************************************************************)
(* The chunk and its writes                                                *)
(***************************************************************************)

\* Mutant: only the first target of a chunk is looked up.
Existing_First == target \cap {Head(chunk)}

\* existingTargetPaths: getAll of the chunk's targets.
Existing == target \cap ToSet(chunk)

\* writableTargetPaths, and the throw of policy fail.
CheckTargets ==
  /\ At("check")
  /\ \/ /\ request.policy = "fail" /\ Existing # {}
        /\ Throws("failed")
        /\ UNCHANGED writable
     \/ /\ request.policy # "fail" \/ Existing = {}
        /\ writable' = ToSet(chunk) \ (IF request.policy = "overwrite" THEN {} ELSE Existing)
        /\ pc' = "write"
        /\ UNCHANGED <<outcome, files>>
  /\ UNCHANGED <<db, reader, chunk, pending, committing, progress, committed, world, faults>>

Bytes(ops) == FoldLeft(LAMBDA sum, op : sum + Size[op.doc], 0, ops)

\* The condition of commitBeforeOverflow.
Overflows(d) ==
  pending # <<>> /\ (Len(pending) >= Limit \/ Bytes(pending) + Size[d] > MaxBytes)

\* Mutant: the pending operations are not taken out.
Flush_Keeps ==
  /\ pending' = pending
  /\ committing' = IF pending = <<>> THEN <<>> ELSE <<pending>>

\* BatchWriter.commit: the pending operations are taken out and committed.
Flush ==
  /\ pending' = <<>>
  /\ committing' = IF pending = <<>> THEN <<>> ELSE <<pending>>

\* After the loop over the chunk.
Continue == IF stack = <<>> /\ lines = <<>> THEN "finish" ELSE Resumed

\* One turn of the loop over the chunk, up to the await in BatchWriter.
WriteNext ==
  /\ At("write") /\ NotCancelled
  /\ \/ /\ chunk = <<>>
        /\ pc' = Continue
        /\ UNCHANGED <<batcher, progress>>
     \/ /\ chunk # <<>> /\ Head(chunk) \notin writable
        /\ chunk' = Tail(chunk)
        /\ progress' = [Count("read", 1) EXCEPT !.skipped = @ + 1]
        /\ UNCHANGED <<pc, writable, pending, committing>>
     \/ /\ chunk # <<>> /\ Head(chunk) \in writable
        /\ progress' = Count("read", 1)
        /\ pc' = "push"
        /\ \/ Overflows(Head(chunk)) /\ Flush
           \/ ~Overflows(Head(chunk)) /\ UNCHANGED <<pending, committing>>
        /\ UNCHANGED <<chunk, writable>>
  /\ UNCHANGED <<db, reader, files, outcome, committed, world, faults>>

\* The operation is pending, counted and reported.
Push ==
  /\ At("push")
  /\ pending' = Append(pending, [doc |-> Head(chunk), line |-> progress.read])
  /\ progress' = Count(IF Kind = "delete" THEN "deleted" ELSE "written", 1)
  /\ chunk' = Tail(chunk)
  /\ pc' = "write"
  /\ UNCHANGED <<db, reader, writable, committing, files, outcome, committed, world, faults>>

\* The lines of a batch's operations about document d, in the batch's order.
About(batch, d) == {i \in DOMAIN batch : batch[i].doc = d}
LastAbout(batch, d) == batch[CHOOSE i \in About(batch, d) : \A k \in About(batch, d) : k <= i].line

\* Firestore applies a batch as a whole, its operations in order.
Applied(batch) ==
  LET docs == {batch[i].doc : i \in DOMAIN batch} IN
  \/ /\ Kind = "delete"
     /\ source' = source \ docs
     /\ UNCHANGED <<target, line>>
  \/ /\ Kind # "delete"
     /\ target' = target \cup docs
     /\ line' = [d \in Docs |-> IF d \in docs THEN LastAbout(batch, d) ELSE line[d]]
     /\ UNCHANGED source

\* Mutant: the second half is committed first.
Halves_Swapped(batch) ==
  LET k == (Len(batch) + 1) \div 2
  IN <<SubSeq(batch, k + 1, Len(batch)), SubSeq(batch, 1, k)>>

\* commitOperations splits a batch Firestore calls too large.
Halves(batch) ==
  LET k == (Len(batch) + 1) \div 2
  IN <<SubSeq(batch, 1, k), SubSeq(batch, k + 1, Len(batch))>>

\* The commit of the first batch succeeds.
Commit ==
  /\ committing # <<>>
  /\ Applied(Head(committing))
  /\ committing' = Tail(committing)
  /\ committed' = committed + Len(Head(committing))
  /\ UNCHANGED <<pc, reader, chunk, writable, pending, progress, files, outcome, world, faults>>

\* It is too large: halved, or for one operation an error that names it.
CommitOversized ==
  /\ committing # <<>>
  /\ Fault
  /\ \/ /\ Len(Head(committing)) = 1
        /\ Throws("failed")
        /\ committing' = <<>>
     \/ /\ Len(Head(committing)) > 1
        /\ committing' = Halves(Head(committing)) \o Tail(committing)
        /\ UNCHANGED <<pc, outcome, files>>
  /\ UNCHANGED <<db, reader, chunk, writable, pending, progress, committed, world>>

\* It fails: the answer may be lost after Firestore applied the batch.
CommitFails ==
  /\ committing # <<>>
  /\ Fault
  /\ Throws("failed")
  /\ committing' = <<>>
  /\ Applied(Head(committing)) \/ UNCHANGED db
  /\ UNCHANGED <<reader, chunk, writable, pending, progress, committed, world>>

-----------------------------------------------------------------------------
(***************************************************************************)
(* The end of the stream                                                   *)
(***************************************************************************)

\* The last commit, if anything is pending.
Finish ==
  /\ At("finish") /\ Kind \notin Exports /\ NotCancelled
  /\ Flush
  /\ pc' = "report"
  /\ UNCHANGED <<db, reader, chunk, writable, progress, files, outcome, committed, world, faults>>

\* endStream; for CSV the output file is then created for its header.
EndFile ==
  /\ At("finish") /\ Kind \in Exports
  /\ \/ Kind = "exportJsonl" /\ pc' = "report" /\ UNCHANGED files
     \/ /\ Kind = "exportCsv"
        /\ pc' = "convert"
        /\ files' = [files EXCEPT !.output = Created]
  /\ UNCHANGED <<db, reader, batcher, progress, outcome, committed, world, faults>>

\* Mutant: every line is taken for the first.
Unconverted_All == files.temp.docs

\* The lines of the temporary file not yet converted.
Unconverted == files.temp.docs \ files.output.docs

\* writeCsvFromTemp, line by line, then the temporary file is unlinked.
Convert ==
  /\ At("convert")
  /\ \/ /\ Unconverted # {}
        /\ files' = [files EXCEPT !.output.docs = @ \cup {First(Unconverted)}]
        /\ UNCHANGED pc
     \/ Unconverted = {} /\ files' = [files EXCEPT !.temp = NoFile] /\ pc' = "report"
  /\ UNCHANGED <<db, reader, batcher, progress, outcome, committed, world, faults>>

\* The last update is stored and run() returns.
Report ==
  /\ At("report")
  /\ Ends("returned")
  /\ UNCHANGED <<db, reader, batcher, progress, files, committed, world, faults>>

-----------------------------------------------------------------------------
(***************************************************************************)
(* The user and the other clients                                          *)
(***************************************************************************)

own == <<request, target, line, pc, stack, lines, chunk, writable, pending, committing,
         progress, files, outcome, committed, begun, faults>>

Cancel ==
  /\ pc # "over" /\ ~cancelled
  /\ cancelled' = TRUE
  /\ UNCHANGED <<own, source, touched>>

\* Another client deletes or creates a document of the collection being read.
OutsideChange(d) ==
  /\ pc # "over" /\ Kind # "import"
  /\ Cardinality(touched) < MaxOutside
  /\ touched' = touched \cup {d}
  /\ source' = IF d \in source THEN source \ {d} ELSE source \cup {d}
  /\ UNCHANGED <<own, cancelled>>

Over == pc = "over" /\ UNCHANGED vars

JobStep ==
  \/ SeesCancel
  \/ CountCollection \/ FetchPage \/ EndPage \/ NextDocument
  \/ ListSubcollections \/ Descend \/ EndSubcollections
  \/ CountLines \/ NextLine
  \/ CheckTargets \/ WriteNext \/ Push \/ Commit
  \/ Finish \/ EndFile \/ Convert \/ Report

Failure == Rejects \/ CommitOversized \/ CommitFails

Next ==
  \/ JobStep \/ Failure
  \/ Cancel \/ \E d \in Docs : OutsideChange(d)
  \/ Over

Spec == Init /\ [][Next]_vars

\* Every promise the job awaits settles; nobody is obliged to do anything else.
FairSpec == Spec /\ WF_vars(JobStep)

-----------------------------------------------------------------------------
(***************************************************************************)
(* Properties                                                              *)
(***************************************************************************)

\* The documents the queries can reach from Root, and of them those no other
\* client changed, nor a document above them.
Scope ==
  {d \in begun.source : CollOf[d] = Root \/ (request.include /\ Ancestors[d] \subseteq begun.source)}
Steady == {d \in Scope : ({d} \cup Ancestors[d]) \cap touched = {}}

Returned(kinds) == outcome = "returned" /\ Kind \in kinds

\* At every instant of a recursive deletion, also when it stops halfway, what is
\* left is still reachable: no document is deleted before those below it.  One that
\* returns has deleted its whole scope, and none ever deletes a document of a
\* subcollection it was not asked to include.
DeletesScope ==
  /\ Kind = "delete" /\ request.include =>
       \A d \in Steady \cap source : Ancestors[d] \subseteq source
  /\ Returned({"delete"}) => Steady \cap source = {}
  /\ ~request.include =>
       \A d \in begun.source \ touched : CollOf[d] # Root => d \in source

\* A copy that returns has left a target document for each of its scope, and each
\* document read was written or skipped.  An import that overwrites and returns leaves
\* each document as the last line about it says, across batches and split batches.
TargetComplete ==
  /\ Returned({"copy"}) =>
       /\ Steady \subseteq target
       /\ progress.read = progress.written + progress.skipped
       /\ \A d \in Steady \ begun.target : line[d] # 0
  /\ Returned({"import"}) /\ request.policy = "overwrite" =>
       \A d \in Docs :
         LET about == {i \in DOMAIN begun.lines : begun.lines[i] = d}
         IN line[d] = IF about = {} THEN 0 ELSE CHOOSE i \in about : \A k \in about : k <= i

\* Under the policies skip and fail no document the target held at the call is
\* ever overwritten, however chunks, batches and retries interleave.
KeepsExisting ==
  request.policy # "overwrite" => \A d \in begun.target : line[d] = 0

\* The progress never tells less than what Firestore has committed, and at the
\* end of a job that returns exactly that.
ReportsCommitted ==
  /\ committed <= progress.written + progress.deleted
  /\ outcome = "returned" => committed = progress.written + progress.deleted

\* An export leaves a file only if it returns, and then one with its whole
\* scope; a temporary file never stays.
NoPartialFile ==
  pc = "over" /\ Kind \in Exports =>
    /\ files.output.there <=> outcome = "returned"
    /\ outcome = "returned" => Steady \subseteq files.output.docs
    /\ ~files.temp.there

\* Once cancelled, a job starts no commit: it ends the one under way, if any.
CancelStopsWrites ==
  [][cancelled /\ committing = <<>> => committing' = <<>>]_vars

\* The job ends: its generators and split batches do not go on for ever.
JobEnds == <>(pc = "over")

\* The confirmation of a deletion says "including subcollections": nothing that
\* was below the collection and that nobody else touched is left of it.
NothingLeft ==
  Returned({"delete"}) /\ request.include => source \cap begun.source \subseteq touched

-----------------------------------------------------------------------------
(***************************************************************************)
(* The inductive invariant (CollectionJobProofs proves it)                 *)
(***************************************************************************)

\* What the request fixes of the generators: an import has none, the other jobs
\* no lines, and only copies and imports have a policy but overwrite.
KindShapes ==
  /\ Kind = "import" =>
       /\ ~request.include
       /\ stack = <<>>
       /\ pc \notin {"query", "list", "subs"}
  /\ Kind # "import" =>
       /\ lines = <<>>
       /\ pc \in {"count", "query", "next", "list", "subs"} => stack # <<>>
  /\ Kind \notin {"copy", "import"} => request.policy = "overwrite"

\* A generator that is past its first document knows which one it gave last.
CursorsKnown ==
  \A i \in DOMAIN stack :
    stack[i].cursor \in Docs \/ (i = Len(stack) /\ pc \in {"count", "query", "next", "over"})

\* A document is pushed only when it is the writable head of the chunk.
PushesHead == pc = "push" => chunk # <<>> /\ Head(chunk) \in writable

\* Nothing that is writable, pending or being committed names a document the
\* target held at the call, unless such documents are to be overwritten.
SparesExisting ==
  request.policy # "overwrite" =>
    /\ begun.target \subseteq target
    /\ pc \in {"write", "push"} => writable \cap begun.target = {}
    /\ \A i \in DOMAIN pending : pending[i].doc \notin begun.target
    /\ \A i \in DOMAIN committing : \A k \in DOMAIN committing[i] :
         committing[i][k].doc \notin begun.target

CollectionJobInv ==
  /\ TypeOK
  /\ KindShapes /\ CursorsKnown /\ PushesHead /\ SparesExisting /\ KeepsExisting
=============================================================================
