------------------------- MODULE FirestoreTabProofs -------------------------
(* What a query tab shows and writes: FirestoreInv is inductive, for any
   documents, fields, drafts and cursors, any number of calls answered in
   any order, other clients, jobs and failures.  From it: ShowsItsQuery,
   StaleIsMarked and NoSilentOverwrite. *)
EXTENDS FirestoreTab, FiniteSetTheorems, SequenceTheorems, WellFoundedInduction, TLAPS

----------------
(* The invariant *)

DocumentsTyped ==
  /\ documents \in [Docs -> [exists : BOOLEAN, version : Nat, time : Nat, values : [Fields -> Nat]]]
  /\ clock \in [version : Nat, time : Nat]
  /\ cursors \in Seq([token : Nat, after : Docs \cup {0}]) /\ nextToken \in Nat
  /\ \A i \in DOMAIN cursors : cursors[i].token < nextToken
  /\ \A d \in Docs : /\ documents[d].version <= clock.version
                     /\ NoTime < documents[d].time /\ documents[d].time <= clock.time

\* A row somebody has is no newer than its document; if it has the time of the document it is
\* what the document is, unless that time could not tell.
Known(row) ==
  /\ row \in Row /\ row.version <= documents[row.doc].version
  /\ row.doc \notin blind =>
       /\ row.time # NoTime /\ row.time <= documents[row.doc].time
       /\ row.time = documents[row.doc].time => row = RowOf(row.doc)

\* The cursor of a page leads to what is after it.
Continues(page) ==
  page.next # None =>
    /\ page.next < nextToken
    /\ \A i \in DOMAIN cursors : cursors[i].token = page.next => cursors[i].after = page.last

GoodPage(page) ==
  /\ page \in Pages /\ IsFiniteSet(page.items) /\ Continues(page)
  /\ \A row \in page.items : Known(row)
GoodPages(pages) == pages \in Seq(Pages) /\ \A i \in DOMAIN pages : GoodPage(pages[i])

\* Each page goes on where the one before it ended.
EndOf(pages) == IF pages = <<>> THEN 0 ELSE Last(pages).last
Within(page, limit) == limit # 0 => Cardinality(page.items) <= limit
Chained(pages, limit) ==
  \A i \in DOMAIN pages : /\ pages[i].after = IF i = 1 THEN 0 ELSE pages[i - 1].last
                          /\ Within(pages[i], limit)

Reads == {"query", "document", "more"}
Edits == {"save", "patch"}

CallFields ==
  {"op", "stage", "exec", "answer", "pages", "left", "cursor", "doc", "base", "field", "value",
   "seen", "removes", "stale", "draft", "closes"}

\* A call that was answered with a page; a document that is not there gives none.
HasPage(call) ==
  /\ call.stage = "answered" /\ call.answer.status = "page"
  /\ call.op = "document" => call.answer.page # None

\* A read has its pages, and its answer goes on after them.
GoodRead(call) ==
  /\ call.exec \in Executions /\ call.stage # "written"
  /\ call.stage = "answered" => call.answer.status \in {"page", "error"}
  /\ GoodPages(call.pages) /\ Chained(call.pages, call.exec.draft)
  /\ call.pages # <<>> => call.op = "query" /\ call.cursor = Last(call.pages).next
  /\ call.cursor = None <=> (call.op # "more" /\ call.pages = <<>>)
  /\ HasPage(call) =>
       /\ GoodPage(call.answer.page) /\ Within(call.answer.page, call.exec.draft)
       /\ call.op # "more" => call.answer.page.after = EndOf(call.pages)
       /\ call.op = "document" => call.answer.page.next = None

\* The value a patch removes is the one it was made for.
GoodPatch(call) ==
  /\ call.op = "patch" /\ call.doc \in Docs /\ call.field \in Fields
  /\ call.doc \notin blind => call.value = call.seen

\* The answer to a write gives rows that are known, and the version it wrote.
TrueAnswer(call) ==
  LET answer == call.answer IN
  /\ answer.status = "conflict" /\ answer.remote # None => Known(answer.remote)
  /\ answer.status = "document-changed" =>
       /\ call.op = "patch" /\ Known(answer.remote)
       /\ answer.remote.doc = call.doc /\ answer.remote.values[call.field] = call.value
  /\ answer.status = "saved" => Known(answer.row) /\ answer.row.doc = call.doc
  /\ answer.status = "deleted" =>
       answer.version \in Nat /\ answer.version <= documents[call.doc].version

\* A write is based on a row somebody was shown, and tells what it has done.
GoodWrite(call) ==
  /\ call.op \in Edits \cup {"create", "delete"} /\ call.doc \in Docs
  /\ call.op \in Edits =>
       /\ Known(call.base) /\ call.base.doc = call.doc /\ call.field \in Fields
  /\ call.op = "patch" => GoodPatch(call) /\ call.base.values[call.field] = call.value
  /\ call.stage = "answered" => TrueAnswer(call)

GoodCall(call) ==
  /\ DOMAIN call = CallFields /\ call.stage \in {"asked", "written", "answered"}
  /\ call.exec \in Executions \cup {None}
  /\ call.exec # None => call.exec.id < nextRequestId
  /\ call.op \in Reads => GoodRead(call)
  /\ call.op \notin Reads => GoodWrite(call)

CallsGood ==
  /\ calls \in Seq(ToSet(calls))
  /\ \A c \in DOMAIN calls : calls[c] = Done \/ GoodCall(calls[c])

Results == [status : {"idle", "loading", "success", "error"},
            execution : Executions \cup {None}, pages : Seq(Pages),
            hasMore : BOOLEAN, fetching : BOOLEAN, stale : BOOLEAN, unmarked : BOOLEAN]

TabTyped ==
  /\ view \in Views /\ draft \in Drafts /\ tabEpoch \in Nat /\ nextRequestId \in Nat
  /\ queryRequest \in Executions \cup {None}
  /\ result \in Results
  /\ settled \in [Drafts -> [Docs -> Nat]]

ResultGood ==
  /\ GoodPages(result.pages)
  /\ result.execution = None => result.pages = <<>>
  /\ result.execution # None =>
       result.execution.epoch = tabEpoch /\ Chained(result.pages, result.execution.draft)
  /\ result.fetching => result.status = "success" /\ result.hasMore
  /\ result.status \in {"idle", "loading"} => result.pages = <<>>
  /\ result.hasMore => result.pages # <<>> /\ Last(result.pages).next # None
  /\ result.execution = queryRequest
  /\ queryRequest # None =>
       view.open /\ queryRequest.draft = draft /\ queryRequest.id = nextRequestId - 1

DialogsGood ==
  /\ fieldEditor # None => fieldEditor.field \in Fields /\ fieldEditor.doc \in Docs
  /\ conflictMerge # None /\ conflictMerge.remote # None => Known(conflictMerge.remote)
  /\ stalePatch # None =>
       /\ DOMAIN stalePatch = CallFields /\ GoodPatch(stalePatch)
       /\ Known(stalePatch.answer.remote) /\ stalePatch.answer.remote.doc = stalePatch.doc
       /\ stalePatch.answer.remote.values[stalePatch.field] = stalePatch.value

\* What the tab was told of has been written.
SettledWritten ==
  /\ \A q \in Drafts, d \in Docs : settled[q][d] <= documents[d].version
  /\ job # None => /\ job.doc \in Docs /\ job.version \in Nat
                   /\ job.version <= documents[job.doc].version

\* A row of the draft that is as new as what the tab was told of it.
Fresh(row) == row.version >= settled[result.execution.draft][row.doc]

\* The one read there is for the current execution loads it, or more of it; what it has is as
\* new as what the tab was told, or the results are marked.
CurrentRead(c) == calls[c].op \in Reads /\ calls[c].exec = result.execution
ReadsFit ==
  \A c \in DOMAIN calls : CurrentRead(c) =>
    /\ \A b \in DOMAIN calls : CurrentRead(b) => b = c
    /\ calls[c].op # "more" => result.status = "loading"
    /\ calls[c].op = "more" =>
         /\ result.fetching /\ calls[c].cursor = Last(result.pages).next
         /\ HasPage(calls[c]) => calls[c].answer.page.after = Last(result.pages).last
    /\ ~result.stale /\ ~result.unmarked =>
         /\ \A i \in DOMAIN calls[c].pages : \A row \in calls[c].pages[i].items : Fresh(row)
         /\ HasPage(calls[c]) => \A row \in calls[c].answer.page.items : Fresh(row)

FirestoreInv ==
  /\ DocumentsTyped /\ CallsGood /\ TabTyped /\ ResultGood /\ DialogsGood /\ SettledWritten
  /\ ReadsFit /\ StaleIsMarked /\ NoSilentOverwrite

\* What a sequence of anything becomes when something is appended.
LEMMA AppendAny ==
  ASSUME NEW q, q \in Seq(ToSet(q)), NEW e
  PROVE  /\ Append(q, e) \in Seq(ToSet(Append(q, e)))
         /\ Len(q) \in Nat /\ DOMAIN q = 1..Len(q) /\ DOMAIN Append(q, e) = 1..(Len(q) + 1)
         /\ Append(q, e)[Len(q) + 1] = e
         /\ \A i \in DOMAIN q : i \in DOMAIN Append(q, e) /\ Append(q, e)[i] = q[i]
         /\ \A i \in DOMAIN Append(q, e) : i \in DOMAIN q \/ i = Len(q) + 1
<1> DEFINE S == ToSet(q) \cup {e}
           a == Append(q, e)
<1>1. q \in Seq(S) /\ e \in S BY SeqMonotonic
<1>2. Len(q) \in Nat /\ DOMAIN q = 1..Len(q) BY <1>1, LenProperties
<1>3. a \in Seq(S) /\ Len(a) = Len(q) + 1 /\ DOMAIN a = 1..(Len(q) + 1) BY <1>1, <1>2
<1>4. a[Len(q) + 1] = e /\ \A i \in DOMAIN q : a[i] = q[i] BY <1>1, <1>2
<1> HIDE DEF a, S
<1>5. \A i \in DOMAIN a : a[i] \in ToSet(a) BY DEF ToSet
<1>6. a \in [1..Len(a) -> ToSet(a)] BY <1>2, <1>3, <1>5, LenProperties
<1>7. a \in Seq(ToSet(a)) BY <1>2, <1>3, <1>6, SeqDef
<1> QED BY <1>2, <1>3, <1>4, <1>7 DEF a

\* What it becomes when a value is replaced.
LEMMA ExceptAny ==
  ASSUME NEW q, q \in Seq(ToSet(q)), NEW c \in DOMAIN q, NEW e
  PROVE  /\ [q EXCEPT ![c] = e] \in Seq(ToSet([q EXCEPT ![c] = e]))
         /\ DOMAIN [q EXCEPT ![c] = e] = DOMAIN q
         /\ [q EXCEPT ![c] = e][c] = e
         /\ \A i \in DOMAIN q : i # c => [q EXCEPT ![c] = e][i] = q[i]
<1> DEFINE a == [q EXCEPT ![c] = e]
<1>1. Len(q) \in Nat /\ DOMAIN q = 1..Len(q) BY LenProperties
<1>2. DOMAIN a = 1..Len(q) /\ a = [i \in 1..Len(q) |-> a[i]] BY <1>1
<1>3. a[c] = e /\ \A i \in DOMAIN q : i # c => a[i] = q[i] OBVIOUS
<1> HIDE DEF a
<1>5. \A i \in DOMAIN a : a[i] \in ToSet(a) BY DEF ToSet
<1>6. a \in [1..Len(q) -> ToSet(a)] BY <1>2, <1>5
<1>7. a \in Seq(ToSet(a)) BY <1>1, <1>6, SeqDef
<1> QED BY <1>1, <1>2, <1>3, <1>7 DEF a

\* Documents are finitely many, and any of them have a last one.
LEMMA DocsFinite == IsFiniteSet(Docs) /\ Docs \subseteq Nat /\ 0 \notin Docs
<1>1. LastDoc \in Nat BY DocumentsAssumption
<1> QED BY <1>1, FS_Interval DEF Docs

\* The maximum of some documents is the last of them.
LEMMA MaxOfDocs ==
  ASSUME NEW S \in SUBSET Docs, S # {}
  PROVE  Max(S) \in S /\ \A d \in S : d <= Max(S)
<1> DEFINE R == {LastDoc - d : d \in S}
<1>1. LastDoc \in Nat BY DocumentsAssumption
<1>2. R \subseteq Nat /\ R # {} BY <1>1 DEF Docs
<1>3. PICK m \in R : \A n \in R : ~(<<n, m>> \in OpToRel(<, Nat))
  <2> HIDE DEF R
  <2> QED BY <1>2, NatLessThanWellFounded, WFMin
<1>4. PICK x \in S : m = LastDoc - x OBVIOUS
<1>5. \A d \in S : x >= d
  <2> SUFFICES ASSUME NEW d \in S, x < d PROVE FALSE BY <1>1 DEF Docs
  <2>1. LastDoc - d \in R /\ LastDoc - d \in Nat /\ m \in Nat BY <1>2
  <2>2. LastDoc - d < m BY <1>1, <1>4 DEF Docs
  <2>3. <<LastDoc - d, m>> \in OpToRel(<, Nat) BY <2>1, <2>2 DEF OpToRel
  <2> QED BY <1>3, <2>1, <2>3
<1>6. Max(S) \in S /\ \A d \in S : Max(S) >= d BY <1>4, <1>5 DEF Max
<1> QED BY <1>6, DocsFinite

\* What a function gives on a finite set is no more than it has.
LEMMA ImageFinite ==
  ASSUME NEW S, IsFiniteSet(S), NEW f, f \in [S -> {f[x] : x \in S}]
  PROVE  IsFiniteSet({f[x] : x \in S}) /\ Cardinality({f[x] : x \in S}) <= Cardinality(S)
<1> DEFINE T == {f[x] : x \in S}
<1>1. f \in Surjection(S, T) BY DEF Surjection
<1> QED BY <1>1, FS_Surjection

\* A page has no more than its limit, of what there is after it.
LEMMA PageLimited ==
  ASSUME NEW found \in SUBSET Docs, NEW limit \in Nat
  PROVE  /\ Limited(found, limit) \subseteq found /\ IsFiniteSet(Limited(found, limit))
         /\ Cardinality(Limited(found, limit)) <= limit
<1> DEFINE S == Limited(found, limit)
<1>1. S \subseteq found BY DEF Limited
<1>2. IsFiniteSet(S) BY <1>1, DocsFinite, FS_Subset
<1>3. CASE S = {} BY <1>1, <1>3, FS_EmptySet
<1>4. CASE S # {}
  <2> DEFINE m == Max(S)
             B == {e \in found : e <= m}
  <2>1. m \in S /\ \A d \in S : d <= m BY <1>1, <1>4, MaxOfDocs
  <2>2. Cardinality(B) <= limit BY <2>1 DEF Limited
  <2>3. S \subseteq B BY <1>1, <2>1
  <2>4. IsFiniteSet(B) BY DocsFinite, FS_Subset
  <2> HIDE DEF S, B, m
  <2>5. Cardinality(S) <= Cardinality(B) /\ Cardinality(S) \in Nat /\ Cardinality(B) \in Nat
    BY <2>3, <2>4, <1>2, FS_Subset, FS_CardinalityType
  <2> QED BY <1>1, <1>2, <2>2, <2>5 DEF S
<1> QED BY <1>3, <1>4

\* The end of a page is its last document, or where it began.
LEMMA LastOfPage ==
  ASSUME NEW S \in SUBSET Docs, NEW after \in Docs \cup {0}
  PROVE  LastOf(S, after) \in Docs \cup {0}
BY MaxOfDocs DEF LastOf

\* The cursors there are after one was moved to the end, and after one was made.
CursorEntry == [token : Nat, after : Docs \cup {0}]

\* A cursor moved to the end of the cache leaves the cursors there are.
LEMMA RecentEntries ==
  ASSUME NEW q \in Seq(CursorEntry), NEW i \in DOMAIN q
  PROVE  /\ Recent(q, i) \in Seq(CursorEntry)
         /\ \A k \in DOMAIN Recent(q, i) : \E j \in DOMAIN q : Recent(q, i)[k] = q[j]
<1> DEFINE E == {q[j] : j \in DOMAIN q}
           a == SubSeq(q, 1, i - 1)
           b == SubSeq(q, i + 1, Len(q))
<1>1. Len(q) \in Nat /\ DOMAIN q = 1..Len(q) /\ i \in Nat BY LenProperties
<1>2. a \in Seq(E)
  <2>1. \A j \in 1..(i - 1) : q[j] \in E BY <1>1
  <2> HIDE DEF E
  <2> QED BY <1>1, <2>1, SubSeqProperties
<1>3. b \in Seq(E)
  <2>1. \A j \in (i + 1)..Len(q) : q[j] \in E BY <1>1
  <2> HIDE DEF E
  <2> QED BY <1>1, <2>1, SubSeqProperties
<1>4. a \o b \in Seq(E)
  <2> HIDE DEF a, b, E
  <2> QED BY <1>2, <1>3, ConcatProperties
<1>5. q[i] \in E OBVIOUS
<1>6. Recent(q, i) \in Seq(E)
  <2>1. RemoveAt(q, i) = a \o b BY DEF RemoveAt
  <2> HIDE DEF a, b, E
  <2> QED BY <1>4, <1>5, <2>1 DEF Recent
<1>7. E \subseteq CursorEntry BY <1>1, ElementOfSeq
<1>8. \A k \in DOMAIN Recent(q, i) : Recent(q, i)[k] \in E
  <2> HIDE DEF E
  <2> QED BY <1>6, LenProperties, ElementOfSeq
<1> QED BY <1>6, <1>7, <1>8, SeqMonotonic

\* A cursor added to the cache is there with those that were, but for the pruned ones.
LEMMA CachedEntries ==
  ASSUME NEW q \in Seq(CursorEntry), nextToken \in Nat, NEW last \in Docs \cup {0}
  PROVE  /\ Cached(q, last) \in Seq(CursorEntry)
         /\ \A k \in DOMAIN Cached(q, last) :
              \/ \E j \in DOMAIN q : Cached(q, last)[k] = q[j]
              \/ Cached(q, last)[k] = [token |-> nextToken, after |-> last]
<1> DEFINE n == [token |-> nextToken, after |-> last]
           E == {q[j] : j \in DOMAIN q} \cup {n}
           all == Append(q, n)
           low == 1 + Len(all) - (IF Len(all) > MaxCursors THEN MaxCursors ELSE Len(all))
<1>1. Len(q) \in Nat /\ DOMAIN q = 1..Len(q) /\ n \in CursorEntry BY LenProperties DEF CursorEntry
<1>2. all \in Seq(CursorEntry) /\ Len(all) = Len(q) + 1 /\ DOMAIN all = 1..Len(all) BY <1>1
<1>3. \A j \in DOMAIN all : all[j] \in E BY <1>1, <1>2
<1>4. Cached(q, last) = SubSeq(all, low, Len(all)) BY DEF Cached
<1>5. E \subseteq CursorEntry BY <1>1, ElementOfSeq
<1> HIDE DEF all
<1>6. low \in Int /\ low >= 1 /\ Len(all) \in Int BY <1>1, <1>2, DocumentsAssumption
<1> HIDE DEF n, E, low
<1>7. Cached(q, last) \in Seq(E)
  <2>1. \A j \in low..Len(all) : all[j] \in E BY <1>2, <1>3, <1>6
  <2>2. SubSeq(all, low, Len(all)) \in Seq(E) BY <1>6, <2>1, SubSeqProperties
  <2> QED BY <1>4, <2>2
<1>8. \A k \in DOMAIN Cached(q, last) : Cached(q, last)[k] \in E
  BY <1>7, LenProperties, ElementOfSeq
<1>9. Cached(q, last) \in Seq(CursorEntry) BY <1>5, <1>7, SeqMonotonic
<1> QED BY <1>8, <1>9 DEF E, n

----------------
(* What stays true of rows, pages and calls *)

\* Documents get newer versions and later times, and cursors only new tokens.
Later ==
  /\ nextToken' \in Nat /\ nextToken <= nextToken' /\ blind \subseteq blind'
  /\ \A i \in DOMAIN cursors' :
       (\E j \in DOMAIN cursors : cursors'[i] = cursors[j]) \/ cursors'[i].token >= nextToken
  /\ \A d \in Docs :
       /\ documents[d].version <= documents'[d].version
       /\ d \notin blind' =>
            /\ documents[d].time <= documents'[d].time
            /\ documents[d].time = documents'[d].time => documents'[d] = documents[d]

\* A write of d with these values.
WriteOf(d, exists, values) ==
  \E t \in clock.time .. (clock.time + 1) :
    /\ clock' = [version |-> clock.version + 1, time |-> t]
    /\ documents' = [documents EXCEPT ![d] =
         [exists |-> exists, version |-> clock.version + 1, time |-> t, values |-> values]]
    /\ blind' = IF t = documents[d].time THEN blind \cup {d} ELSE blind

\* A row that is read is known.
LEMMA RowOfKnown ==
  ASSUME DocumentsTyped, NEW d \in Docs
  PROVE  /\ RowOf(d) \in Row /\ RowOf(d).doc = d /\ RowOf(d).version = documents[d].version
         /\ documents[d].exists \/ d \in blind => Known(RowOf(d))
BY DEF DocumentsTyped, RowOf, Row, NoTime, Gone, Known

\* A row that is known stays known, whatever is written later.
LEMMA KnownLater ==
  ASSUME DocumentsTyped, DocumentsTyped', Later, NEW row, Known(row)
  PROVE  Known(row)'
<1> DEFINE d == row.doc
<1>1. row \in Row /\ d \in Docs /\ row.version \in Nat /\ row.time \in Nat BY DEF Known, Row
<1>2. /\ documents[d].version \in Nat /\ documents'[d].version \in Nat
      /\ documents[d].time \in Nat /\ documents'[d].time \in Nat
  BY <1>1 DEF DocumentsTyped
<1>3. row.version <= documents'[d].version BY <1>1, <1>2 DEF Known, Later
<1>4. ASSUME d \notin blind'
      PROVE  /\ row.time # NoTime /\ row.time <= documents'[d].time
             /\ row.time = documents'[d].time => row = RowOf(d)'
  BY <1>1, <1>2, <1>4 DEF Later, Known, RowOf
<1> QED BY <1>1, <1>3, <1>4 DEF Known

\* So does a page, whose cursor still leads to what is after it,
LEMMA GoodPageLater ==
  ASSUME DocumentsTyped, DocumentsTyped', Later, NEW page, GoodPage(page)
  PROVE  GoodPage(page)'
<1>1. page \in Pages /\ IsFiniteSet(page.items) BY DEF GoodPage
<1>2. \A row \in page.items : Known(row)' BY KnownLater DEF GoodPage
<1>3. Continues(page)'
  <2> SUFFICES ASSUME page.next # None
               PROVE  /\ page.next < nextToken'
                      /\ \A i \in DOMAIN cursors' : cursors'[i].token = page.next =>
                           cursors'[i].after = page.last
    BY DEF Continues
  <2>1. page.next \in Nat BY <1>1 DEF Pages
  <2>2. /\ page.next < nextToken
        /\ \A i \in DOMAIN cursors : cursors[i].token = page.next => cursors[i].after = page.last
    BY DEF GoodPage, Continues
  <2>3. nextToken \in Nat /\ nextToken' \in Nat /\ nextToken <= nextToken'
    BY DEF DocumentsTyped, Later
  <2>4. ASSUME NEW i \in DOMAIN cursors', cursors'[i].token = page.next
        PROVE  cursors'[i].after = page.last
    BY <2>1, <2>2, <2>3, <2>4 DEF Later
  <2> QED BY <2>1, <2>2, <2>3, <2>4
<1> QED BY <1>1, <1>2, <1>3 DEF GoodPage, Pages

\* and so do the pages of a query.
LEMMA GoodPagesLater ==
  ASSUME DocumentsTyped, DocumentsTyped', Later, NEW pages, GoodPages(pages)
  PROVE  GoodPages(pages)'
BY GoodPageLater DEF GoodPages, Pages

\* A read stays good while documents are written.
LEMMA GoodReadLater ==
  ASSUME DocumentsTyped, DocumentsTyped', Later, NEW call, GoodRead(call)
  PROVE  GoodRead(call)'
BY GoodPagesLater, GoodPageLater DEF GoodRead, HasPage, Chained, Within, EndOf, Executions

\* A patch still removes the value it was made for, or its document is blind.
LEMMA GoodPatchLater ==
  ASSUME Later, NEW call, GoodPatch(call)
  PROVE  GoodPatch(call)'
BY DEF GoodPatch, Later

\* What a write was answered with stays true.
LEMMA TrueAnswerLater ==
  ASSUME DocumentsTyped, DocumentsTyped', Later, NEW call, TrueAnswer(call), call.doc \in Docs
  PROVE  TrueAnswer(call)'
<1> DEFINE answer == call.answer
<1>1. /\ answer.status = "conflict" /\ answer.remote # None => Known(answer.remote)'
      /\ answer.status = "document-changed" => Known(answer.remote)'
      /\ answer.status = "saved" => Known(answer.row)'
  BY KnownLater DEF TrueAnswer
<1>2. answer.status = "deleted" =>
        answer.version \in Nat /\ answer.version <= documents'[call.doc].version
  BY DEF DocumentsTyped, Later, TrueAnswer
<1> QED BY <1>1, <1>2 DEF TrueAnswer

\* A write stays good while documents are written,
LEMMA GoodWriteLater ==
  ASSUME DocumentsTyped, DocumentsTyped', Later, NEW call, GoodWrite(call)
  PROVE  GoodWrite(call)'
BY KnownLater, GoodPatchLater, TrueAnswerLater DEF GoodWrite

\* and so does any call, while requests are made.
LEMMA GoodCallLater ==
  ASSUME DocumentsTyped, DocumentsTyped', Later, NEW call, GoodCall(call),
         nextRequestId \in Nat, nextRequestId' \in Nat, nextRequestId <= nextRequestId'
  PROVE  GoodCall(call)'
BY GoodReadLater, GoodWriteLater DEF GoodCall, Executions

\* What a write does to the documents.
LEMMA WriteLater ==
  ASSUME DocumentsTyped, NEW d \in Docs, NEW exists \in BOOLEAN,
         NEW values \in [Fields -> Nat], WriteOf(d, exists, values),
         UNCHANGED <<cursors, nextToken>>
  PROVE  /\ DocumentsTyped' /\ Later
         /\ documents'[d].version = clock.version + 1
<1> DEFINE D == [exists : BOOLEAN, version : Nat, time : Nat, values : [Fields -> Nat]]
<1>0. /\ documents \in [Docs -> D] /\ documents[d] \in D
      /\ clock.version \in Nat /\ clock.time \in Nat BY DEF DocumentsTyped
<1>1. PICK t \in clock.time .. (clock.time + 1) :
        /\ clock' = [version |-> clock.version + 1, time |-> t]
        /\ documents' = [documents EXCEPT ![d] =
             [exists |-> exists, version |-> clock.version + 1, time |-> t, values |-> values]]
        /\ blind' = IF t = documents[d].time THEN blind \cup {d} ELSE blind
  BY DEF WriteOf
<1>2. t \in Nat /\ clock.time <= t BY <1>0
<1>3. clock' \in [version : Nat, time : Nat] /\ clock'.version = clock.version + 1
      /\ clock'.time = t BY <1>0, <1>1, <1>2
<1>4. documents'[d] = [exists |-> exists, version |-> clock.version + 1, time |-> t, values |-> values]
  BY <1>0, <1>1
<1>5. documents' \in [Docs -> D]
  <2>1. [exists |-> exists, version |-> clock.version + 1, time |-> t, values |-> values] \in D
    BY <1>0, <1>2
  <2> HIDE DEF D
  <2> QED BY <1>0, <1>1, <2>1
<1>6. \A e \in Docs : e # d => documents'[e] = documents[e] BY <1>0, <1>1
<1>7. \A e \in Docs :
        /\ documents[e].version \in Nat /\ documents[e].time \in Nat
        /\ documents[e].version <= clock.version
        /\ NoTime < documents[e].time /\ documents[e].time <= clock.time
  BY DEF DocumentsTyped
<1>8. \A e \in Docs :
        /\ documents'[e].version <= clock'.version
        /\ NoTime < documents'[e].time /\ documents'[e].time <= clock'.time
  <2> TAKE e \in Docs
  <2>1. CASE e = d BY <1>0, <1>2, <1>3, <1>4, <1>7, <2>1 DEF NoTime
  <2>2. CASE e # d BY <1>0, <1>2, <1>3, <1>6, <1>7, <2>2 DEF NoTime
  <2> QED BY <2>1, <2>2
<1>9. DocumentsTyped' BY <1>3, <1>5, <1>8 DEF DocumentsTyped
<1>10. \A e \in Docs :
         /\ documents[e].version <= documents'[e].version
         /\ e \notin blind' =>
              /\ documents[e].time <= documents'[e].time
              /\ documents[e].time = documents'[e].time => documents'[e] = documents[e]
  <2> TAKE e \in Docs
  <2>1. CASE e = d BY <1>0, <1>1, <1>2, <1>4, <1>7, <2>1
  <2>2. CASE e # d BY <1>6, <1>7, <2>2
  <2> QED BY <2>1, <2>2
<1>11. blind \subseteq blind' BY <1>1
<1>12. nextToken' \in Nat /\ nextToken <= nextToken' BY DEF DocumentsTyped
<1>13. \A i \in DOMAIN cursors' : \E j \in DOMAIN cursors : cursors'[i] = cursors[j] OBVIOUS
<1> QED BY <1>4, <1>9, <1>10, <1>11, <1>12, <1>13 DEF Later

\* Nothing happens to the documents but that some are no longer told apart.
LEMMA SameDocuments ==
  ASSUME DocumentsTyped, UNCHANGED <<documents, clock, cursors, nextToken>>, blind \subseteq blind'
  PROVE  DocumentsTyped' /\ Later
BY DEF DocumentsTyped, Later

----------------
(* What serving a call does *)

\* What a call asks for.
SameAsked(a, b) ==
  /\ a.op = b.op /\ a.exec = b.exec /\ a.pages = b.pages /\ a.cursor = b.cursor
  /\ a.doc = b.doc /\ a.base = b.base /\ a.field = b.field /\ a.value = b.value /\ a.seen = b.seen

\* Only one call changes.
Others(c) ==
  /\ calls' \in Seq(ToSet(calls')) /\ DOMAIN calls' = DOMAIN calls
  /\ \A i \in DOMAIN calls : i # c => calls'[i] = calls[i]

\* An answer changes nothing of what the call asks for, nor any other call.
LEMMA AnswerCall ==
  ASSUME calls \in Seq(ToSet(calls)), NEW c \in DOMAIN calls, DOMAIN calls[c] = CallFields,
         NEW answer, Answer(c, answer)
  PROVE  /\ Others(c) /\ DOMAIN calls'[c] = CallFields /\ SameAsked(calls'[c], calls[c])
         /\ calls'[c].stage = "answered" /\ calls'[c].answer = answer
<1> DEFINE q == [calls EXCEPT ![c].stage = "answered"]
<1>1. q \in Seq(ToSet(q)) /\ DOMAIN q = DOMAIN calls /\ q[c] = [calls[c] EXCEPT !.stage = "answered"]
      /\ \A i \in DOMAIN calls : i # c => q[i] = calls[i]
  BY ExceptAny
<1>2. calls' = [q EXCEPT ![c] = [q[c] EXCEPT !.answer = answer]] BY DEF Answer
<1>3. DOMAIN q[c] = CallFields /\ SameAsked(q[c], calls[c]) /\ q[c].stage = "answered"
  BY <1>1 DEF CallFields, SameAsked
<1> HIDE DEF q
<1> DEFINE e == [q[c] EXCEPT !.answer = answer]
<1>4. Others(c) /\ calls'[c] = e
  <2>1. calls' = [q EXCEPT ![c] = e] BY <1>2
  <2> HIDE DEF e
  <2> QED BY <1>1, <2>1, ExceptAny DEF Others
<1>5. /\ DOMAIN calls'[c] = CallFields /\ SameAsked(calls'[c], q[c])
      /\ calls'[c].stage = q[c].stage /\ calls'[c].answer = answer
  BY <1>3, <1>4 DEF CallFields, SameAsked
<1> QED BY <1>3, <1>4, <1>5 DEF SameAsked

\* Nor does the commit of its write.
LEMMA WrittenCall ==
  ASSUME calls \in Seq(ToSet(calls)), NEW c \in DOMAIN calls, DOMAIN calls[c] = CallFields,
         Written(c)
  PROVE  /\ Others(c) /\ DOMAIN calls'[c] = CallFields /\ SameAsked(calls'[c], calls[c])
         /\ calls'[c].stage = "written"
<1>1. calls' = [calls EXCEPT ![c] = [calls[c] EXCEPT !.stage = "written"]] BY DEF Written
<1>2. Others(c) /\ calls'[c] = [calls[c] EXCEPT !.stage = "written"] BY <1>1, ExceptAny DEF Others
<1> QED BY <1>2 DEF CallFields, SameAsked

\* A call that is not done.
LEMMA GoodOf ==
  ASSUME CallsGood, NEW c \in DOMAIN calls, calls[c].stage # "done"
  PROVE  GoodCall(calls[c]) /\ DOMAIN calls[c] = CallFields /\ calls \in Seq(ToSet(calls))
<1>1. calls[c] # Done BY DEF Done
<1> QED BY <1>1 DEF CallsGood, GoodCall

\* A page goes on after the cursor it was asked with; its rows are those of the documents.
LEMMA PageAfterGood ==
  ASSUME DocumentsTyped, NEW after \in Docs \cup {0}, NEW limit \in Nat,
         NEW entries \in Seq(CursorEntry),
         \A k \in DOMAIN entries : \E j \in DOMAIN cursors : entries[k] = cursors[j],
         NEW page, page = PageAfter(after, limit, entries).page,
         cursors' = PageAfter(after, limit, entries).entries,
         nextToken' = PageAfter(after, limit, entries).token,
         UNCHANGED <<documents, clock, blind>>
  PROVE  /\ DocumentsTyped' /\ Later /\ GoodPage(page)' /\ page.after = after
         /\ Cardinality(page.items) <= limit
         /\ \A row \in page.items : row.version = documents[row.doc].version
<1> DEFINE found == FoundAfter(after)
           shown == Limited(found, limit)
           last == LastOf(shown, after)
           more == Cardinality(found) > limit
<1>1. found \in SUBSET Docs /\ \A d \in found : documents[d].exists BY DEF FoundAfter
<1>2. /\ shown \subseteq found /\ IsFiniteSet(shown) /\ Cardinality(shown) <= limit
  <2> HIDE DEF found
  <2> QED BY <1>1, PageLimited
<1>3. last \in Docs \cup {0}
  <2> HIDE DEF found, shown
  <2> QED BY <1>1, <1>2, LastOfPage
<1>4. /\ page = [items |-> {RowOf(d) : d \in shown}, after |-> after, last |-> last,
                 next |-> IF more THEN nextToken ELSE None]
      /\ cursors' = IF more THEN Cached(entries, last) ELSE entries
      /\ nextToken' = IF more THEN nextToken + 1 ELSE nextToken
  BY DEF PageAfter
<1> DEFINE items == {RowOf(d) : d \in shown}
<1>5. /\ page.items = items /\ page.after = after /\ page.last = last
      /\ page.next = IF more THEN nextToken ELSE None
  BY <1>4
<1>6. nextToken \in Nat /\ cursors \in Seq(CursorEntry)
      /\ \A i \in DOMAIN cursors : cursors[i].token < nextToken /\ cursors[i] \in CursorEntry
  <2>1. cursors \in Seq(CursorEntry) /\ nextToken \in Nat BY DEF DocumentsTyped, CursorEntry
  <2>2. \A i \in DOMAIN cursors : cursors[i].token < nextToken BY DEF DocumentsTyped
  <2>3. \A i \in DOMAIN cursors : cursors[i] \in CursorEntry BY <2>1, ElementOfSeq, LenProperties
  <2> QED BY <2>1, <2>2, <2>3
<1> HIDE DEF found, shown, last, more
<1>7. \A d \in shown : d \in Docs /\ documents[d].exists BY <1>1, <1>2
<1>8. \A row \in items : Known(row) /\ row \in Row /\ row.version = documents[row.doc].version
  BY <1>7, RowOfKnown
<1>9. IsFiniteSet(items) /\ Cardinality(items) <= limit
  <2>1. IsFiniteSet(items) /\ Cardinality(items) <= Cardinality(shown)
    <3> DEFINE f == [d \in shown |-> RowOf(d)]
    <3>1. items = {f[d] : d \in shown} /\ f \in [shown -> {f[d] : d \in shown}] BY DEF items
    <3> HIDE DEF f
    <3>2. /\ IsFiniteSet({f[d] : d \in shown})
          /\ Cardinality({f[d] : d \in shown}) <= Cardinality(shown)
      BY <1>2, <3>1, ImageFinite
    <3> QED BY <3>1, <3>2
  <2>2. Cardinality(items) \in Nat /\ Cardinality(shown) \in Nat BY <1>2, <2>1, FS_CardinalityType
  <2> HIDE DEF items
  <2> QED BY <1>2, <2>1, <2>2
<1> HIDE DEF items
<1>10. page \in Pages BY <1>3, <1>4, <1>6, <1>8 DEF items, Pages
<1>11. cursors' \in Seq(CursorEntry)
       /\ \A k \in DOMAIN cursors' :
            \/ \E j \in DOMAIN cursors : cursors'[k] = cursors[j]
            \/ more /\ cursors'[k] = [token |-> nextToken, after |-> last]
  <2>1. CASE more
    <3>1. cursors' = Cached(entries, last) BY <1>4, <2>1
    <3>2. /\ Cached(entries, last) \in Seq(CursorEntry)
          /\ \A k \in DOMAIN Cached(entries, last) :
               \/ \E j \in DOMAIN entries : Cached(entries, last)[k] = entries[j]
               \/ Cached(entries, last)[k] = [token |-> nextToken, after |-> last]
      BY <1>3, <1>6, CachedEntries
    <3> QED BY <2>1, <3>1, <3>2
  <2>2. CASE ~more BY <1>4, <2>2
  <2> QED BY <2>1, <2>2
<1>12. nextToken' \in Nat /\ nextToken <= nextToken' /\ (more => nextToken' = nextToken + 1)
  BY <1>4, <1>6
<1>13. \A k \in DOMAIN cursors' : cursors'[k].token < nextToken'
  <2> TAKE k \in DOMAIN cursors'
  <2>1. CASE \E j \in DOMAIN cursors : cursors'[k] = cursors[j]
    <3>1. PICK j \in DOMAIN cursors : cursors'[k] = cursors[j] BY <2>1
    <3>2. cursors[j].token < nextToken /\ cursors[j].token \in Nat BY <1>6 DEF CursorEntry
    <3> QED BY <1>6, <1>12, <3>1, <3>2
  <2>2. CASE more /\ cursors'[k] = [token |-> nextToken, after |-> last] BY <1>6, <1>12, <2>2
  <2> QED BY <1>11, <2>1, <2>2
<1>14. DocumentsTyped' BY <1>11, <1>12, <1>13 DEF DocumentsTyped, CursorEntry
<1>15. Later
  <2>1. \A i \in DOMAIN cursors' :
          (\E j \in DOMAIN cursors : cursors'[i] = cursors[j]) \/ cursors'[i].token >= nextToken
    BY <1>6, <1>11
  <2>2. \A d \in Docs : documents[d].version \in Nat /\ documents[d].time \in Nat
    BY DEF DocumentsTyped
  <2> QED BY <1>12, <2>1, <2>2 DEF Later
<1>16. Continues(page)'
  <2>1. ASSUME more
        PROVE  /\ page.next < nextToken'
               /\ \A i \in DOMAIN cursors' : cursors'[i].token = page.next =>
                    cursors'[i].after = page.last
    <3>1. page.next = nextToken BY <1>5, <2>1
    <3>2. page.next < nextToken' BY <1>6, <1>12, <2>1, <3>1
    <3>3. ASSUME NEW i \in DOMAIN cursors', cursors'[i].token = page.next
          PROVE  cursors'[i].after = page.last
      <4>1. ~\E j \in DOMAIN cursors : cursors'[i] = cursors[j]
        <5> SUFFICES ASSUME NEW j \in DOMAIN cursors, cursors'[i] = cursors[j] PROVE FALSE OBVIOUS
        <5>1. cursors[j].token < nextToken /\ cursors[j].token \in Nat BY <1>6 DEF CursorEntry
        <5> QED BY <1>6, <3>1, <3>3, <5>1
      <4>2. cursors'[i] = [token |-> nextToken, after |-> last] BY <1>11, <4>1
      <4> QED BY <1>5, <4>2
    <3> QED BY <3>2, <3>3
  <2> QED BY <1>5, <2>1 DEF Continues
<1>17. \A row \in items : Known(row)' BY <1>8, <1>14, <1>15, KnownLater
<1>18. GoodPage(page)' BY <1>5, <1>9, <1>10, <1>16, <1>17 DEF GoodPage, Pages
<1> QED BY <1>5, <1>8, <1>9, <1>14, <1>15, <1>18

\* The last element of a sequence is one of its own.
LEMMA LastIn ==
  ASSUME NEW S, NEW q \in Seq(S), q # <<>>
  PROVE  Len(q) \in DOMAIN q /\ Last(q) = q[Len(q)] /\ Last(q) \in S
BY LenProperties, EmptySeq, ElementOfSeq DEF Last

\* What a read is answered with is what the documents are, after its cursor.
PageServed(c, call) ==
  HasPage(call) =>
    /\ \A row \in call.answer.page.items : row.version = documents[row.doc].version
    /\ call.cursor # None => \A page : page.next = call.cursor /\ Continues(page) =>
                                         call.answer.page.after = page.last

\* A page served for a query, or for more of it, is good, after the pages there are.
LEMMA ServePageGood ==
  ASSUME DocumentsTyped, CallsGood, TabTyped, NoSilentOverwrite, NEW c \in DOMAIN calls,
         ServePage(c), UNCHANGED tabVars, NEW call, call = calls'[c]
  PROVE  /\ DocumentsTyped' /\ Later /\ Others(c) /\ SameAsked(call, calls[c])
         /\ GoodCall(call)' /\ NoSilentOverwrite' /\ PageServed(c, call)
<1> DEFINE old == calls[c]
<1>1. old.stage = "asked" /\ old.op \in {"query", "more"} BY DEF ServePage, Asked
<1>2. GoodCall(old) /\ DOMAIN old = CallFields /\ calls \in Seq(ToSet(calls)) BY <1>1, GoodOf
<1>3. GoodRead(old) /\ old.exec \in Executions BY <1>1, <1>2 DEF GoodCall, GoodRead, Reads
<1>4. old.exec.draft \in Nat /\ nextRequestId \in Nat /\ nextRequestId' = nextRequestId
  BY <1>3, TabAssumption DEF Executions, TabTyped, tabVars, queryVars
<1>5. cursors \in Seq(CursorEntry) BY DEF DocumentsTyped, CursorEntry
<1>6. ASSUME NEW after \in Docs \cup {0}, NEW entries \in Seq(CursorEntry),
             \A k \in DOMAIN entries : \E j \in DOMAIN cursors : entries[k] = cursors[j],
             old.cursor = None => after = 0,
             old.cursor # None => \E i \in DOMAIN cursors :
                cursors[i].token = old.cursor /\ after = cursors[i].after,
             Answer(c, [status |-> "page", page |-> PageAfter(after, old.exec.draft, entries).page]),
             cursors' = PageAfter(after, old.exec.draft, entries).entries,
             nextToken' = PageAfter(after, old.exec.draft, entries).token
      PROVE  /\ DocumentsTyped' /\ Later /\ Others(c) /\ SameAsked(call, calls[c])
             /\ GoodCall(call)' /\ NoSilentOverwrite' /\ PageServed(c, call)
  <2>1. PICK page : page = PageAfter(after, old.exec.draft, entries).page OBVIOUS
  <2>2. UNCHANGED <<documents, clock, mishaps, lost, blind>> BY DEF ServePage
  <2>3. /\ DocumentsTyped' /\ Later /\ GoodPage(page)' /\ page.after = after
        /\ Cardinality(page.items) <= old.exec.draft
        /\ \A row \in page.items : row.version = documents[row.doc].version
    <3>1. PICK limit \in Nat : limit = old.exec.draft BY <1>4
    <3>2. page = PageAfter(after, limit, entries).page BY <2>1, <3>1
    <3>3. cursors' = PageAfter(after, limit, entries).entries BY <1>6, <3>1
    <3>4. nextToken' = PageAfter(after, limit, entries).token BY <1>6, <3>1
    <3>5. \A k \in DOMAIN entries : \E j \in DOMAIN cursors : entries[k] = cursors[j] BY <1>6
    <3>6. UNCHANGED <<documents, clock, blind>> BY <2>2
    <3> HIDE DEF old
    <3> QED BY <3>1, <3>2, <3>3, <3>4, <3>5, <3>6, PageAfterGood
  <2>4. /\ Others(c) /\ DOMAIN call = CallFields /\ SameAsked(call, old)
        /\ call.stage = "answered" /\ call.answer = [status |-> "page", page |-> page]
    BY <1>2, <1>6, <2>1, AnswerCall
  <2>5. GoodPages(call.pages)' BY <1>3, <2>3, <2>4, GoodPagesLater DEF GoodRead, SameAsked
  <2>6. \A p : p.next = old.cursor /\ old.cursor # None /\ Continues(p) => after = p.last
    BY <1>6 DEF Continues
  <2>7. call.op = "query" => page.after = EndOf(call.pages)
    BY <1>3, <1>6, <2>3, <2>4, <2>6, LastIn DEF GoodRead, EndOf, SameAsked, GoodPages, GoodPage
  <2>8. Within(page, call.exec.draft) BY <2>3, <2>4 DEF Within, SameAsked
  <2>9. GoodRead(call)'
    <3>1. /\ call.op = old.op /\ call.exec = old.exec /\ call.pages = old.pages
          /\ call.cursor = old.cursor BY <2>4 DEF SameAsked
    <3>2. call.answer.page = page /\ call.answer.status = "page" BY <2>4
    <3>3. call.exec \in Executions /\ call.stage # "written" /\ Chained(call.pages, call.exec.draft)
          /\ (call.pages # <<>> => call.op = "query" /\ call.cursor = Last(call.pages).next)
          /\ (call.cursor = None <=> (call.op # "more" /\ call.pages = <<>>))
      BY <1>3, <2>4, <3>1 DEF GoodRead
    <3>4. call.op # "more" => call.answer.page.after = EndOf(call.pages) BY <1>1, <2>7, <3>1, <3>2
    <3>5. call.answer.status \in {"page", "error"} BY <3>2
    <3> QED BY <1>1, <2>3, <2>5, <2>8, <3>1, <3>2, <3>3, <3>4, <3>5
      DEF GoodRead, HasPage, Chained, Within, EndOf, Executions
  <2>10. GoodCall(call)' BY <1>1, <1>2, <1>4, <2>4, <2>9 DEF GoodCall, SameAsked, Reads, Executions
  <2>11. PageServed(c, call) BY <2>3, <2>4, <2>6 DEF PageServed, SameAsked
  <2>12. NoSilentOverwrite' BY <2>2 DEF NoSilentOverwrite
  <2> QED BY <2>3, <2>4, <2>10, <2>11, <2>12
<1>7. CASE old.cursor = None BY <1>5, <1>6, <1>7 DEF ServePage
<1>8. CASE /\ old.cursor # None
           /\ \E i \in DOMAIN cursors : cursors[i].token = old.cursor
  <2>1. PICK i \in DOMAIN cursors :
          /\ cursors[i].token = old.cursor
          /\ Answer(c, [status |-> "page",
               page |-> PageAfter(cursors[i].after, old.exec.draft, Recent(cursors, i)).page])
          /\ cursors' = PageAfter(cursors[i].after, old.exec.draft, Recent(cursors, i)).entries
          /\ nextToken' = PageAfter(cursors[i].after, old.exec.draft, Recent(cursors, i)).token
    BY <1>8 DEF ServePage
  <2>2. cursors[i].after \in Docs \cup {0}
    <3>1. cursors[i] \in CursorEntry BY <1>5, ElementOfSeq, LenProperties
    <3> QED BY <3>1 DEF CursorEntry
  <2>3. PICK entries : entries = Recent(cursors, i) OBVIOUS
  <2>4. /\ entries \in Seq(CursorEntry)
        /\ \A k \in DOMAIN entries : \E j \in DOMAIN cursors : entries[k] = cursors[j]
    BY <1>5, <2>3, RecentEntries
  <2>5. PICK after : after = cursors[i].after OBVIOUS
  <2> QED BY <1>6, <1>8, <2>1, <2>2, <2>3, <2>4, <2>5
<1>9. CASE /\ old.cursor # None
           /\ ~\E i \in DOMAIN cursors : cursors[i].token = old.cursor
  <2>1. Answer(c, Failed) /\ UNCHANGED <<cursors, nextToken>> BY <1>9 DEF ServePage
  <2>2. UNCHANGED <<documents, clock, mishaps, lost, blind>> BY DEF ServePage
  <2>3. DocumentsTyped' /\ Later BY <2>1, <2>2, SameDocuments
  <2>4. /\ Others(c) /\ DOMAIN call = CallFields /\ SameAsked(call, old)
        /\ call.stage = "answered" /\ call.answer = Failed
    BY <1>2, <2>1, AnswerCall
  <2>5. ~HasPage(call) BY <2>4 DEF HasPage, Failed
  <2>6. GoodPages(call.pages)' BY <1>3, <2>3, <2>4, GoodPagesLater DEF GoodRead, SameAsked
  <2>7. GoodRead(call)'
    <3>1. /\ call.op = old.op /\ call.exec = old.exec /\ call.pages = old.pages
          /\ call.cursor = old.cursor BY <2>4 DEF SameAsked
    <3>2. call.answer.status \in {"page", "error"} BY <2>4 DEF Failed
    <3> QED BY <1>3, <2>4, <2>5, <2>6, <3>1, <3>2
      DEF GoodRead, HasPage, Chained, Within, EndOf, Executions
  <2>8. GoodCall(call)' BY <1>1, <1>2, <1>4, <2>4, <2>7 DEF GoodCall, SameAsked, Reads, Executions
  <2> QED BY <2>2, <2>3, <2>4, <2>5, <2>8 DEF PageServed, NoSilentOverwrite
<1> QED BY <1>7, <1>8, <1>9

\* The document of a query of one document: it is known, and there is no more.
LEMMA ServeDocumentGood ==
  ASSUME DocumentsTyped, CallsGood, TabTyped, NoSilentOverwrite, NEW c \in DOMAIN calls,
         ServeDocument(c), UNCHANGED tabVars, NEW call, call = calls'[c]
  PROVE  /\ DocumentsTyped' /\ Later /\ Others(c) /\ SameAsked(call, calls[c])
         /\ GoodCall(call)' /\ NoSilentOverwrite' /\ PageServed(c, call)
<1> DEFINE old == calls[c]
<1>0. PICK row, page : /\ row = RowOf(1)
                       /\ page = [items |-> {row}, after |-> 0, last |-> 1, next |-> None]
  OBVIOUS
<1>1. old.stage = "asked" /\ old.op = "document" BY DEF ServeDocument, Asked
<1>2. GoodCall(old) /\ DOMAIN old = CallFields /\ calls \in Seq(ToSet(calls)) BY <1>1, GoodOf
<1>3. GoodRead(old) /\ old.exec \in Executions BY <1>1, <1>2 DEF GoodCall, GoodRead, Reads
<1>4. nextRequestId \in Nat /\ nextRequestId' = nextRequestId BY DEF TabTyped, tabVars, queryVars
<1>5. UNCHANGED <<documents, clock, cursors, nextToken, mishaps, lost, blind>> BY DEF ServeDocument
<1>6. DocumentsTyped' /\ Later BY <1>5, SameDocuments
<1>7. PICK answer :
        /\ Answer(c, answer) /\ answer.status = "page"
        /\ answer.page # None => documents[1].exists /\ answer.page = page
  BY <1>0 DEF ServeDocument
<1>8. /\ Others(c) /\ DOMAIN call = CallFields /\ SameAsked(call, old)
      /\ call.stage = "answered" /\ call.answer = answer
  BY <1>2, <1>7, AnswerCall
<1>9. /\ call.op = old.op /\ call.exec = old.exec /\ call.pages = old.pages
      /\ call.cursor = old.cursor BY <1>8 DEF SameAsked
<1>10. old.pages = <<>> /\ old.cursor = None BY <1>1, <1>3 DEF GoodRead
<1>11. GoodPages(call.pages)' BY <1>3, <1>6, <1>9, GoodPagesLater DEF GoodRead
<1>12. ASSUME HasPage(call)
       PROVE  /\ GoodPage(call.answer.page)' /\ call.answer.page.after = 0
              /\ call.answer.page.next = None
              /\ Within(call.answer.page, call.exec.draft)
              /\ \A r \in call.answer.page.items : r.version = documents[r.doc].version
  <2>1. documents[1].exists /\ call.answer.page = page BY <1>1, <1>7, <1>8, <1>9, <1>12 DEF HasPage
  <2>2. 1 \in Docs BY DocumentsAssumption DEF Docs
  <2>3. row \in Row /\ row.version = documents[row.doc].version /\ Known(row)
    BY <1>0, <2>1, <2>2, RowOfKnown
  <2>4. page.items = {row} /\ page.after = 0 /\ page.next = None BY <1>0
  <2>5. page \in Pages BY <1>0, <2>2, <2>3 DEF Pages
  <2>6. IsFiniteSet(page.items) /\ Cardinality(page.items) = 1 BY <2>4, FS_Singleton
  <2>7. Known(row)' BY <1>6, <2>3, KnownLater
  <2>8. GoodPage(page)' BY <2>4, <2>5, <2>6, <2>7 DEF GoodPage, Continues, Pages
  <2>9. Within(page, call.exec.draft)
    <3>1. call.exec.draft \in Nat BY <1>3, <1>9, TabAssumption DEF Executions
    <3> QED BY <2>6, <3>1 DEF Within
  <2> QED BY <2>1, <2>3, <2>4, <2>8, <2>9
<1>13. GoodRead(call)' BY <1>1, <1>3, <1>7, <1>8, <1>9, <1>10, <1>11, <1>12
    DEF GoodRead, HasPage, Chained, Within, EndOf, Executions
<1>14. GoodCall(call)' BY <1>1, <1>2, <1>4, <1>8, <1>9, <1>13 DEF GoodCall, Reads, Executions
<1>15. PageServed(c, call) BY <1>9, <1>10, <1>12 DEF PageServed
<1> QED BY <1>5, <1>6, <1>8, <1>14, <1>15 DEF NoSilentOverwrite

\* A write stays good, whatever it is answered with that is true.
LEMMA WriteServed ==
  ASSUME DocumentsTyped, DocumentsTyped', Later, TabTyped, UNCHANGED tabVars,
         NEW old, GoodCall(old), old.op \notin Reads,
         NEW call, DOMAIN call = CallFields, SameAsked(call, old),
         call.stage \in {"written", "answered"}, call.stage = "answered" => TrueAnswer(call)'
  PROVE  GoodCall(call)'
<1>1. /\ call.op = old.op /\ call.exec = old.exec /\ call.doc = old.doc /\ call.base = old.base
      /\ call.field = old.field /\ call.value = old.value /\ call.seen = old.seen
  BY DEF SameAsked
<1>2. GoodWrite(old) BY DEF GoodCall
<1>3. GoodWrite(old)' BY <1>2, GoodWriteLater
<1>4. GoodWrite(call)' BY <1>1, <1>3 DEF GoodWrite, GoodPatch
<1>5. nextRequestId' = nextRequestId BY DEF tabVars, queryVars
<1> QED BY <1>1, <1>4, <1>5 DEF GoodCall, Executions

\* What is needed of a write that is served.
LEMMA WriteOld ==
  ASSUME CallsGood, NEW c \in DOMAIN calls, calls[c].stage \in {"asked", "written"},
         calls[c].op \notin Reads
  PROVE  /\ GoodCall(calls[c]) /\ DOMAIN calls[c] = CallFields /\ calls \in Seq(ToSet(calls))
         /\ GoodWrite(calls[c]) /\ calls[c].doc \in Docs
BY GoodOf DEF GoodCall, GoodWrite

\* A save that commits was based on what the document is, or the document is blind.
LEMMA CommitSaveGood ==
  ASSUME DocumentsTyped, CallsGood, TabTyped, NoSilentOverwrite, NEW c \in DOMAIN calls,
         CommitSave(c), UNCHANGED tabVars, NEW call, call = calls'[c]
  PROVE  /\ DocumentsTyped' /\ Later /\ Others(c) /\ SameAsked(call, calls[c])
         /\ GoodCall(call)' /\ NoSilentOverwrite'
<1> DEFINE old == calls[c]
           d == old.doc
<1>1. old.stage = "asked" /\ old.op = "save" BY DEF CommitSave, Asked
<1>2. /\ GoodCall(old) /\ DOMAIN old = CallFields /\ calls \in Seq(ToSet(calls))
      /\ GoodWrite(old) /\ d \in Docs /\ old.op \notin Reads
  BY <1>1, WriteOld DEF Reads
<1>3. Known(old.base) /\ old.base.doc = d /\ old.field \in Fields BY <1>1, <1>2 DEF GoodWrite, Edits
<1>4. documents[d].version \in Nat /\ documents[d].time \in Nat /\ clock.version \in Nat
  BY <1>2 DEF DocumentsTyped
<1>5. CASE SaveConflicts(old)
  <2>1. /\ Answer(c, Conflict(d)) /\ UNCHANGED <<documents, clock, cursors, nextToken, lost, blind>>
    BY <1>5 DEF CommitSave, Unwritten
  <2>2. DocumentsTyped' /\ Later BY <2>1, SameDocuments
  <2>3. PICK answer : answer = Conflict(d) OBVIOUS
  <2>4. /\ Others(c) /\ DOMAIN call = CallFields /\ SameAsked(call, old)
        /\ call.stage = "answered" /\ call.answer = answer
    BY <1>2, <2>1, <2>3, AnswerCall
  <2>5. answer.status = "conflict" /\ (answer.remote # None => Known(answer.remote))
    BY <1>2, <2>3, RowOfKnown DEF Conflict
  <2>6. answer.status = "conflict" /\ (answer.remote # None => Known(answer.remote)')
    BY <2>2, <2>5, KnownLater
  <2>7. TrueAnswer(call)' BY <2>4, <2>6 DEF TrueAnswer
  <2>8. GoodCall(call)' BY <1>2, <2>2, <2>4, <2>7, WriteServed
  <2> QED BY <2>1, <2>2, <2>4, <2>8 DEF NoSilentOverwrite
<1>6. CASE ~SaveConflicts(old)
  <2> DEFINE values == [old.base.values EXCEPT ![old.field] = clock.version + 1]
  <2>1. /\ Written(c) /\ UNCHANGED <<cursors, nextToken>> /\ WriteOf(d, TRUE, values)
        /\ lost' = IF documents[d].version = old.base.version THEN lost ELSE lost \cup {d}
    BY <1>6 DEF CommitSave, Write, WriteOf
  <2>2. values \in [Fields -> Nat] BY <1>3, <1>4 DEF Known, Row
  <2> HIDE DEF values
  <2>3. DocumentsTyped' /\ Later BY <1>2, <2>1, <2>2, WriteLater
  <2>4. /\ Others(c) /\ DOMAIN call = CallFields /\ SameAsked(call, old)
        /\ call.stage = "written"
    BY <1>2, <2>1, WrittenCall
  <2>5. GoodCall(call)' BY <1>2, <2>3, <2>4, WriteServed
  <2>6. documents[d].version # old.base.version => d \in blind
    BY <1>2, <1>3, <1>6, RowOfKnown DEF SaveConflicts, Known, TimeOf
  <2>7. NoSilentOverwrite' BY <2>1, <2>3, <2>6 DEF NoSilentOverwrite, Later
  <2> QED BY <2>3, <2>4, <2>5, <2>7
<1> QED BY <1>5, <1>6

\* A patch that commits removes what it was made for, or the document is blind.
LEMMA CommitPatchGood ==
  ASSUME DocumentsTyped, CallsGood, TabTyped, NoSilentOverwrite, NEW c \in DOMAIN calls,
         CommitPatch(c), UNCHANGED tabVars, NEW call, call = calls'[c]
  PROVE  /\ DocumentsTyped' /\ Later /\ Others(c) /\ SameAsked(call, calls[c])
         /\ GoodCall(call)' /\ NoSilentOverwrite'
<1> DEFINE old == calls[c]
           d == old.doc
           changed == old.base.time # NoTime /\ TimeOf(d) # old.base.time
           field == documents[d].values[old.field]
<1>1. old.stage = "asked" /\ old.op = "patch" BY DEF CommitPatch, Asked
<1>2. /\ GoodCall(old) /\ DOMAIN old = CallFields /\ calls \in Seq(ToSet(calls))
      /\ GoodWrite(old) /\ d \in Docs /\ old.op \notin Reads
  BY <1>1, WriteOld DEF Reads
<1>3. /\ Known(old.base) /\ old.base.doc = d /\ old.field \in Fields
      /\ d \notin blind => old.value = old.seen
      /\ old.base.values[old.field] = old.value
  BY <1>1, <1>2 DEF GoodWrite, GoodPatch, Edits
<1>4. documents[d].values \in [Fields -> Nat] /\ clock.version \in Nat BY <1>2 DEF DocumentsTyped
<1>5. ASSUME NEW answer, Answer(c, answer), Unwritten,
             \/ answer = Conflict(d)
             \/ /\ answer = [status |-> "document-changed", remote |-> RowOf(d)]
                /\ documents[d].exists /\ field = old.value
      PROVE  /\ DocumentsTyped' /\ Later /\ Others(c) /\ SameAsked(call, calls[c])
             /\ GoodCall(call)' /\ NoSilentOverwrite'
  <2>1. UNCHANGED <<documents, clock, cursors, nextToken, lost, blind>>
    BY <1>5 DEF CommitPatch, Unwritten
  <2>2. DocumentsTyped' /\ Later BY <2>1, SameDocuments
  <2>3. /\ Others(c) /\ DOMAIN call = CallFields /\ SameAsked(call, old)
        /\ call.stage = "answered" /\ call.answer = answer
    BY <1>2, <1>5, AnswerCall
  <2>4. CASE answer = Conflict(d)
    <3>1. answer.status = "conflict" /\ (answer.remote # None => Known(answer.remote))
      BY <1>2, <2>4, RowOfKnown DEF Conflict
    <3>2. answer.remote # None => Known(answer.remote)' BY <2>2, <3>1, KnownLater
    <3>3. TrueAnswer(call)' BY <2>3, <3>1, <3>2 DEF TrueAnswer
    <3> QED BY <1>2, <2>1, <2>2, <2>3, <3>3, WriteServed DEF NoSilentOverwrite
  <2>5. CASE /\ answer = [status |-> "document-changed", remote |-> RowOf(d)]
             /\ documents[d].exists /\ field = old.value
    <3>1. PICK row : row = RowOf(d) OBVIOUS
    <3>2. Known(row) /\ row.doc = d /\ row.values = documents[d].values
      BY <1>2, <2>5, <3>1, RowOfKnown DEF RowOf
    <3>3. Known(row)' BY <2>2, <3>2, KnownLater
    <3>4. answer.status = "document-changed" /\ answer.remote = row BY <2>5, <3>1
    <3>5. call.op = "patch" /\ call.doc = d /\ call.field = old.field /\ call.value = old.value
      BY <1>1, <2>3 DEF SameAsked
    <3>6. TrueAnswer(call)' BY <2>3, <2>5, <3>2, <3>3, <3>4, <3>5 DEF TrueAnswer
    <3> QED BY <1>2, <2>1, <2>2, <2>3, <3>6, WriteServed DEF NoSilentOverwrite
  <2> QED BY <1>5, <2>4, <2>5
<1>6. CASE ~documents[d].exists \/ (changed /\ field # old.value) BY <1>5, <1>6 DEF CommitPatch
<1>7. CASE documents[d].exists /\ changed /\ field = old.value /\ old.stale # "save-and-notify"
  BY <1>5, <1>7 DEF CommitPatch
<1>8. CASE documents[d].exists /\ (~changed \/ (field = old.value /\ old.stale = "save-and-notify"))
  <2> DEFINE values == [documents[d].values EXCEPT
                          ![old.field] = IF old.removes THEN Gone ELSE clock.version + 1]
  <2>1. /\ Written(c) /\ UNCHANGED <<cursors, nextToken>> /\ WriteOf(d, TRUE, values)
        /\ lost' = IF field = old.seen THEN lost ELSE lost \cup {d}
    BY <1>8 DEF CommitPatch, Write, WriteOf
  <2>2. values \in [Fields -> Nat] BY <1>3, <1>4 DEF Gone
  <2> HIDE DEF values
  <2>3. DocumentsTyped' /\ Later BY <1>2, <2>1, <2>2, WriteLater
  <2>4. /\ Others(c) /\ DOMAIN call = CallFields /\ SameAsked(call, old)
        /\ call.stage = "written"
    BY <1>2, <2>1, WrittenCall
  <2>5. GoodCall(call)' BY <1>2, <2>3, <2>4, WriteServed
  <2>6. d \notin blind => field = old.seen BY <1>3, <1>8 DEF Known, RowOf, TimeOf
  <2>7. NoSilentOverwrite' BY <2>1, <2>3, <2>6 DEF NoSilentOverwrite, Later
  <2> QED BY <2>3, <2>4, <2>5, <2>7
<1> QED BY <1>6, <1>7, <1>8

\* A document is created only where there is none, so nothing is lost.
LEMMA CommitCreateGood ==
  ASSUME DocumentsTyped, CallsGood, TabTyped, NoSilentOverwrite, NEW c \in DOMAIN calls,
         CommitCreate(c), UNCHANGED tabVars, NEW call, call = calls'[c]
  PROVE  /\ DocumentsTyped' /\ Later /\ Others(c) /\ SameAsked(call, calls[c])
         /\ GoodCall(call)' /\ NoSilentOverwrite'
<1> DEFINE old == calls[c]
           d == old.doc
<1>1. old.stage = "asked" /\ old.op = "create" BY DEF CommitCreate, Asked
<1>2. /\ GoodCall(old) /\ DOMAIN old = CallFields /\ calls \in Seq(ToSet(calls))
      /\ d \in Docs /\ old.op \notin Reads
  BY <1>1, WriteOld DEF Reads
<1>3. CASE documents[d].exists
  <2>1. Answer(c, Failed) /\ UNCHANGED <<documents, clock, cursors, nextToken, lost, blind>>
    BY <1>3 DEF CommitCreate
  <2>2. DocumentsTyped' /\ Later BY <2>1, SameDocuments
  <2>3. /\ Others(c) /\ DOMAIN call = CallFields /\ SameAsked(call, old)
        /\ call.stage = "answered" /\ call.answer = Failed
    BY <1>2, <2>1, AnswerCall
  <2>4. TrueAnswer(call)' BY <2>3 DEF TrueAnswer, Failed
  <2> QED BY <1>2, <2>1, <2>2, <2>3, <2>4, WriteServed DEF NoSilentOverwrite
<1>4. CASE ~documents[d].exists
  <2> DEFINE values == [f \in Fields |-> clock.version + 1]
  <2>1. /\ Written(c) /\ UNCHANGED <<cursors, nextToken, lost>> /\ WriteOf(d, TRUE, values)
    BY <1>4 DEF CommitCreate, Write, WriteOf
  <2>2. values \in [Fields -> Nat] BY DEF DocumentsTyped
  <2> HIDE DEF values
  <2>3. DocumentsTyped' /\ Later BY <1>2, <2>1, <2>2, WriteLater
  <2>4. /\ Others(c) /\ DOMAIN call = CallFields /\ SameAsked(call, old)
        /\ call.stage = "written"
    BY <1>2, <2>1, WrittenCall
  <2>5. GoodCall(call)' BY <1>2, <2>3, <2>4, WriteServed
  <2> QED BY <2>1, <2>3, <2>4, <2>5 DEF NoSilentOverwrite, Later
<1> QED BY <1>3, <1>4

\* A deletion is answered with the version it wrote.
LEMMA CommitDeleteGood ==
  ASSUME DocumentsTyped, CallsGood, TabTyped, NoSilentOverwrite, NEW c \in DOMAIN calls,
         CommitDelete(c), UNCHANGED tabVars, NEW call, call = calls'[c]
  PROVE  /\ DocumentsTyped' /\ Later /\ Others(c) /\ SameAsked(call, calls[c])
         /\ GoodCall(call)' /\ NoSilentOverwrite'
<1> DEFINE old == calls[c]
           d == old.doc
           values == [f \in Fields |-> Gone]
<1>1. old.stage = "asked" /\ old.op = "delete" BY DEF CommitDelete, Asked
<1>2. /\ GoodCall(old) /\ DOMAIN old = CallFields /\ calls \in Seq(ToSet(calls))
      /\ d \in Docs /\ old.op \notin Reads
  BY <1>1, WriteOld DEF Reads
<1>3. PICK answer : answer = [status |-> "deleted", version |-> clock.version + 1] OBVIOUS
<1>4. /\ Answer(c, answer) /\ UNCHANGED <<cursors, nextToken, lost>>
      /\ WriteOf(d, FALSE, values)
  BY <1>3 DEF CommitDelete, Write, WriteOf
<1>5. values \in [Fields -> Nat] BY DEF Gone
<1>6. clock.version \in Nat BY DEF DocumentsTyped
<1> HIDE DEF values
<1>7. DocumentsTyped' /\ Later /\ documents'[d].version = clock.version + 1
  BY <1>2, <1>4, <1>5, WriteLater
<1>8. /\ Others(c) /\ DOMAIN call = CallFields /\ SameAsked(call, old)
      /\ call.stage = "answered" /\ call.answer = answer
  BY <1>2, <1>4, AnswerCall
<1>9. TrueAnswer(call)'
  <2>1. call.doc = d BY <1>8 DEF SameAsked
  <2> QED BY <1>3, <1>6, <1>7, <1>8, <2>1 DEF TrueAnswer
<1>10. GoodCall(call)' BY <1>2, <1>7, <1>8, <1>9, WriteServed
<1> QED BY <1>4, <1>7, <1>8, <1>10 DEF NoSilentOverwrite, Later

\* What is read back is known, or its document is blind.
LEMMA ReadBackGood ==
  ASSUME DocumentsTyped, CallsGood, TabTyped, NoSilentOverwrite, NEW c \in DOMAIN calls,
         ReadBack(c), UNCHANGED tabVars, NEW call, call = calls'[c]
  PROVE  /\ DocumentsTyped' /\ Later /\ Others(c) /\ SameAsked(call, calls[c])
         /\ GoodCall(call)' /\ NoSilentOverwrite' /\ call.op \notin Reads
<1> DEFINE old == calls[c]
           d == old.doc
           there == documents[d].exists
<1>1. old.stage = "written" BY DEF ReadBack
<1>2. old.op \notin Reads
  <2>1. GoodCall(old) BY <1>1, GoodOf
  <2> QED BY <1>1, <2>1 DEF GoodCall, GoodRead
<1>3. /\ GoodCall(old) /\ DOMAIN old = CallFields /\ calls \in Seq(ToSet(calls)) /\ d \in Docs
  BY <1>1, <1>2, WriteOld
<1>4. UNCHANGED <<documents, clock, cursors, nextToken, mishaps, lost>>
      /\ blind' = IF there THEN blind ELSE blind \cup {d}
  BY DEF ReadBack
<1>5. DocumentsTyped' /\ Later BY <1>4, SameDocuments
<1>6. PICK answer, row :
        /\ Answer(c, answer) /\ row = RowOf(d)
        /\ \/ ~there /\ answer.status = "conflict" /\ answer.remote = None
           \/ answer.status = "saved" /\ answer.row = row
  <2>1. PICK answer : answer = IF old.op = "patch" /\ ~there THEN Conflict(d)
                               ELSE [status |-> "saved", row |-> RowOf(d)] OBVIOUS
  <2>2. Answer(c, answer) BY <2>1 DEF ReadBack
  <2>3. \/ ~there /\ answer.status = "conflict" /\ answer.remote = None
        \/ answer.status = "saved" /\ answer.row = RowOf(d)
    BY <2>1 DEF Conflict
  <2> QED BY <2>2, <2>3
<1>7. Known(row)' /\ row.doc = d BY <1>3, <1>4, <1>5, <1>6, RowOfKnown, KnownLater DEF Row, Known
<1>8. /\ Others(c) /\ DOMAIN call = CallFields /\ SameAsked(call, old)
      /\ call.stage = "answered" /\ call.answer = answer
  BY <1>3, <1>6, AnswerCall
<1>9. call.doc = d /\ call.op = old.op BY <1>8 DEF SameAsked
<1>10. TrueAnswer(call)' BY <1>6, <1>7, <1>8, <1>9 DEF TrueAnswer
<1>11. GoodCall(call)' BY <1>2, <1>3, <1>5, <1>8, <1>10, WriteServed
<1> QED BY <1>2, <1>4, <1>5, <1>8, <1>9, <1>11 DEF NoSilentOverwrite, Later

\* A failure is an answer that claims nothing.
LEMMA FailGood ==
  ASSUME DocumentsTyped, CallsGood, TabTyped, NoSilentOverwrite, NEW c \in DOMAIN calls,
         Fail(c), UNCHANGED tabVars, NEW call, call = calls'[c]
  PROVE  /\ DocumentsTyped' /\ Later /\ Others(c) /\ SameAsked(call, calls[c])
         /\ GoodCall(call)' /\ NoSilentOverwrite' /\ ~HasPage(call)
<1>0. PICK old : old = calls[c] OBVIOUS
<1>1. old.stage \in {"asked", "written"} /\ Answer(c, Failed)
      /\ UNCHANGED <<documents, clock, cursors, nextToken, lost, blind>>
  BY <1>0 DEF Fail
<1>2. GoodCall(old) /\ DOMAIN old = CallFields /\ calls \in Seq(ToSet(calls)) BY <1>0, <1>1, GoodOf
<1>3. DocumentsTyped' /\ Later BY <1>1, SameDocuments
<1>4. /\ Others(c) /\ DOMAIN call = CallFields /\ SameAsked(call, old)
      /\ call.stage = "answered" /\ call.answer = Failed
  BY <1>0, <1>1, <1>2, AnswerCall
<1>5. ~HasPage(call) BY <1>4 DEF HasPage, Failed
<1>6. CASE old.op \notin Reads
  <2>1. TrueAnswer(call)' BY <1>4 DEF TrueAnswer, Failed
  <2>2. GoodCall(call)' BY <1>2, <1>3, <1>4, <1>6, <2>1, WriteServed
  <2> QED BY <1>0, <1>1, <1>3, <1>4, <1>5, <2>2 DEF NoSilentOverwrite
<1>7. CASE old.op \in Reads
  <2>1. nextRequestId \in Nat /\ nextRequestId' = nextRequestId BY DEF TabTyped, tabVars, queryVars
  <2>2. GoodRead(old) /\ GoodCall(old)' BY <1>2, <1>3, <1>7, <2>1, GoodCallLater DEF GoodCall
  <2>3. GoodRead(old)' BY <1>3, <2>2, GoodReadLater
  <2>4. /\ call.op = old.op /\ call.exec = old.exec /\ call.pages = old.pages
        /\ call.cursor = old.cursor BY <1>4 DEF SameAsked
  <2>5. GoodRead(call)'
    BY <1>4, <1>5, <2>3, <2>4 DEF GoodRead, HasPage, Chained, Within, EndOf, GoodPages, Failed
  <2>6. GoodCall(call)' BY <1>4, <1>7, <2>2, <2>4, <2>5 DEF GoodCall
  <2> QED BY <1>0, <1>1, <1>3, <1>4, <1>5, <2>6 DEF NoSilentOverwrite
<1> QED BY <1>6, <1>7

\* Serving a call, whatever it is.
LEMMA ServeGood ==
  ASSUME DocumentsTyped, CallsGood, TabTyped, NoSilentOverwrite, NEW c \in DOMAIN calls,
         Serve(c), UNCHANGED tabVars, NEW call, call = calls'[c]
  PROVE  /\ DocumentsTyped' /\ Later /\ Others(c) /\ SameAsked(call, calls[c])
         /\ GoodCall(call)' /\ NoSilentOverwrite'
         /\ call.op \in Reads => PageServed(c, call)
         /\ calls[c].stage # "done"
<1> USE DEF Asked
<1>1. CASE ServePage(c) BY <1>1, ServePageGood DEF ServePage
<1>2. CASE ServeDocument(c) BY <1>2, ServeDocumentGood DEF ServeDocument
<1>3. CASE CommitSave(c) BY <1>3, CommitSaveGood DEF CommitSave, SameAsked, Reads
<1>4. CASE CommitPatch(c) BY <1>4, CommitPatchGood DEF CommitPatch, SameAsked, Reads
<1>5. CASE CommitCreate(c) BY <1>5, CommitCreateGood DEF CommitCreate, SameAsked, Reads
<1>6. CASE CommitDelete(c) BY <1>6, CommitDeleteGood DEF CommitDelete, SameAsked, Reads
<1>7. CASE ReadBack(c) BY <1>7, ReadBackGood DEF ReadBack
<1>8. CASE Fail(c) BY <1>8, FailGood DEF Fail, PageServed
<1> QED BY <1>1, <1>2, <1>3, <1>4, <1>5, <1>6, <1>7, <1>8 DEF Serve

\* What other clients and time do.
LEMMA OthersGood ==
  ASSUME DocumentsTyped, NoSilentOverwrite,
         \/ Expire
         \/ \E d \in Docs : OtherClient(d)
         \/ \E d \in Docs : JobSets(d)
  PROVE  DocumentsTyped' /\ Later /\ NoSilentOverwrite' /\ UNCHANGED calls
<1>1. CASE Expire
  BY <1>1, HeadTailProperties, LenProperties DEF Expire, DocumentsTyped, CursorEntry, Later, NoSilentOverwrite
<1>2. ASSUME NEW d \in Docs, OtherClient(d) \/ JobSets(d)
      PROVE  DocumentsTyped' /\ Later /\ NoSilentOverwrite' /\ UNCHANGED calls
  <2>1. UNCHANGED <<cursors, nextToken, calls, lost>> BY <1>2 DEF OtherClient, JobSets
  <2>2. documents[d].values \in [Fields -> Nat] /\ clock.version + 1 \in Nat BY DEF DocumentsTyped
  <2>3. \E exists \in BOOLEAN, values \in [Fields -> Nat] : WriteOf(d, exists, values)
    <3> DEFINE all == [f \in Fields |-> clock.version + 1]
               none == [f \in Fields |-> Gone]
    <3>1. all \in [Fields -> Nat] /\ none \in [Fields -> Nat] BY <2>2 DEF Gone
    <3>2. CASE JobSets(d)
      <4>1. WriteOf(d, TRUE, all) BY <3>2 DEF JobSets, Write, WriteOf
      <4> HIDE DEF all
      <4> QED BY <3>1, <4>1
    <3>3. CASE \E f \in Fields :
                 Write(d, TRUE, LAMBDA v : [documents[d].values EXCEPT ![f] = v])
      <4>1. PICK f \in Fields : Write(d, TRUE, LAMBDA v : [documents[d].values EXCEPT ![f] = v])
        BY <3>3
      <4> DEFINE one == [documents[d].values EXCEPT ![f] = clock.version + 1]
      <4>2. WriteOf(d, TRUE, one) BY <4>1 DEF Write, WriteOf
      <4>3. one \in [Fields -> Nat] BY <2>2
      <4> HIDE DEF one
      <4> QED BY <4>2, <4>3
    <3>4. CASE Write(d, FALSE, LAMBDA v : [f \in Fields |-> Gone])
      <4>1. WriteOf(d, FALSE, none) BY <3>4 DEF Write, WriteOf
      <4> HIDE DEF none
      <4> QED BY <3>1, <4>1
    <3>5. CASE Write(d, TRUE, LAMBDA v : [f \in Fields |-> v])
      <4>1. WriteOf(d, TRUE, all) BY <3>5 DEF Write, WriteOf
      <4> HIDE DEF all
      <4> QED BY <3>1, <4>1
    <3> QED BY <1>2, <3>2, <3>3, <3>4, <3>5 DEF OtherClient
  <2>4. DocumentsTyped' /\ Later BY <2>1, <2>3, WriteLater
  <2> QED BY <2>1, <2>4 DEF NoSilentOverwrite, Later
<1> QED BY <1>1, <1>2

----------------
(* The tab, while documents are written and calls are served *)

\* The pages shown stay good while documents are written.
LEMMA ResultPagesLater ==
  ASSUME DocumentsTyped, DocumentsTyped', Later, GoodPages(result.pages), UNCHANGED result
  PROVE  GoodPages(result.pages)'
<1>1. PICK pages : pages = result.pages OBVIOUS
<1>2. GoodPages(pages)' BY <1>1, GoodPagesLater
<1> QED BY <1>1, <1>2

\* So do the dialogs.
LEMMA DialogsLater ==
  ASSUME DocumentsTyped, DocumentsTyped', Later, DialogsGood, UNCHANGED dialogVars
  PROVE  DialogsGood'
<1>1. PICK remote, stale, again :
        remote = conflictMerge.remote /\ stale = stalePatch /\ again = stalePatch.answer.remote
  OBVIOUS
<1>2. conflictMerge # None /\ conflictMerge.remote # None => Known(remote)'
  BY <1>1, KnownLater DEF DialogsGood
<1>3. stalePatch # None => GoodPatch(stale)' /\ Known(again)'
  BY <1>1, KnownLater, GoodPatchLater DEF DialogsGood
<1> QED BY <1>1, <1>2, <1>3 DEF DialogsGood, dialogVars

\* What the tab was told stays written.
LEMMA SettledLater ==
  ASSUME DocumentsTyped, DocumentsTyped', Later, TabTyped, SettledWritten,
         UNCHANGED <<settled, job>>
  PROVE  SettledWritten'
<1>1. \A d \in Docs : /\ documents[d].version \in Nat /\ documents'[d].version \in Nat
                      /\ documents[d].version <= documents'[d].version
  BY DEF DocumentsTyped, Later
<1>2. \A q \in Drafts, d \in Docs : settled[q][d] \in Nat BY DEF TabTyped
<1> QED BY <1>1, <1>2 DEF SettledWritten

\* The tab, when only documents, cursors and calls change.
LEMMA TabLater ==
  ASSUME DocumentsTyped, DocumentsTyped', Later, UNCHANGED tabVars,
         TabTyped, ResultGood, DialogsGood, SettledWritten, StaleIsMarked
  PROVE  TabTyped' /\ ResultGood' /\ DialogsGood' /\ SettledWritten' /\ StaleIsMarked'
<1> USE DEF tabVars, queryVars
<1>1. TabTyped' BY DEF TabTyped, Executions, Pages, Row
<1>2. GoodPages(result.pages)' BY ResultPagesLater DEF ResultGood
<1>3. ResultGood' BY <1>2 DEF ResultGood, Chained, Within
<1>4. DialogsGood' BY DialogsLater
<1>5. SettledWritten' BY SettledLater
<1>6. StaleIsMarked' BY DEF StaleIsMarked, Rows
<1> QED BY <1>1, <1>3, <1>4, <1>5, <1>6

\* The calls are good when the one that changed is.
LEMMA CallsLater ==
  ASSUME DocumentsTyped, DocumentsTyped', Later, CallsGood,
         nextRequestId \in Nat, nextRequestId' \in Nat, nextRequestId <= nextRequestId',
         NEW c \in DOMAIN calls, Others(c), NEW call, call = calls'[c],
         call = Done \/ GoodCall(call)'
  PROVE  CallsGood'
<1>1. \A i \in DOMAIN calls' : calls'[i] = Done \/ GoodCall(calls[i])' \/ i = c
  <2> TAKE i \in DOMAIN calls'
  <2>1. PICK old : old = calls[i] OBVIOUS
  <2>2. i \in DOMAIN calls /\ (i # c => calls'[i] = old) BY <2>1 DEF Others
  <2>3. old = Done \/ GoodCall(old)' BY <2>1, <2>2, GoodCallLater DEF CallsGood
  <2> QED BY <2>2, <2>3
<1> QED BY <1>1 DEF CallsGood, Others

\* Nothing happened to the calls.
LEMMA SameCallsLater ==
  ASSUME DocumentsTyped, DocumentsTyped', Later, CallsGood, UNCHANGED calls,
         nextRequestId \in Nat, nextRequestId' \in Nat, nextRequestId <= nextRequestId'
  PROVE  CallsGood'
<1>1. ASSUME NEW i \in DOMAIN calls
      PROVE  calls[i] = Done \/ GoodCall(calls[i])'
  <2>1. PICK old : old = calls[i] OBVIOUS
  <2>2. old = Done \/ GoodCall(old)' BY <2>1, GoodCallLater DEF CallsGood
  <2> QED BY <2>1, <2>2
<1> QED BY <1>1 DEF CallsGood

\* Serving a read leaves what it has fresh, and after the pages there are.
LEMMA ServedReadsFit ==
  ASSUME DocumentsTyped, CallsGood, TabTyped, ResultGood, SettledWritten, ReadsFit,
         NEW c \in DOMAIN calls, Others(c), UNCHANGED tabVars, calls[c].stage # "done",
         NEW call, call = calls'[c], SameAsked(call, calls[c]), GoodCall(call)',
         call.op \in Reads => PageServed(c, call)
  PROVE  ReadsFit'
<1> USE DEF tabVars, queryVars
<1>1. \A i \in DOMAIN calls' : CurrentRead(i)' => i \in DOMAIN calls /\ CurrentRead(i)
  BY DEF CurrentRead, Others, SameAsked
<1>2. ASSUME NEW i \in DOMAIN calls', CurrentRead(i)', i # c
      PROVE  /\ calls'[i] = calls[i] /\ CurrentRead(i) /\ i \in DOMAIN calls
  BY <1>1, <1>2 DEF Others
<1>3. ASSUME CurrentRead(c)'
      PROVE  /\ call.op # "more" => result.status = "loading"
             /\ call.op = "more" =>
                  /\ result.fetching /\ call.cursor = Last(result.pages).next
                  /\ HasPage(call) => call.answer.page.after = Last(result.pages).last
             /\ ~result.stale /\ ~result.unmarked =>
                  /\ \A i \in DOMAIN call.pages : \A row \in call.pages[i].items : Fresh(row)
                  /\ HasPage(call) => \A row \in call.answer.page.items : Fresh(row)
  <2>1. CurrentRead(c) /\ c \in DOMAIN calls' BY <1>1, <1>3 DEF Others
  <2>2. /\ calls[c].op # "more" => result.status = "loading"
        /\ calls[c].op = "more" => result.fetching /\ calls[c].cursor = Last(result.pages).next
        /\ ~result.stale /\ ~result.unmarked =>
             \A i \in DOMAIN calls[c].pages : \A row \in calls[c].pages[i].items : Fresh(row)
    BY <2>1 DEF ReadsFit
  <2>3. /\ call.op = calls[c].op /\ call.exec = calls[c].exec /\ call.pages = calls[c].pages
        /\ call.cursor = calls[c].cursor
    BY DEF SameAsked
  <2>4. call.op \in Reads /\ call.exec = result.execution BY <2>1, <2>3 DEF CurrentRead
  <2>5. GoodRead(call)' /\ PageServed(c, call) BY <2>4 DEF GoodCall
  <2>6. call.op = "more" => call.cursor # None BY <2>5 DEF GoodRead
  <2>7. ASSUME call.op = "more", HasPage(call)
        PROVE  call.answer.page.after = Last(result.pages).last
    BY <2>2, <2>3, <2>5, <2>6, <2>7, LastIn DEF ResultGood, GoodPages, GoodPage, PageServed
  <2>8. ASSUME HasPage(call), NEW row \in call.answer.page.items
        PROVE  Fresh(row)
    <3>1. row.version = documents[row.doc].version BY <2>5, <2>8 DEF PageServed
    <3>2. GoodPage(call.answer.page)' BY <2>5, <2>8 DEF GoodRead, HasPage
    <3>3. row \in Row /\ row.doc \in Docs BY <3>2 DEF GoodPage, Pages, Row
    <3>4. result.execution.draft \in Drafts BY <2>4, <2>5 DEF GoodRead, Executions
    <3>5. settled[result.execution.draft][row.doc] \in Nat BY <3>3, <3>4 DEF TabTyped
    <3>6. documents[row.doc].version \in Nat BY <3>3 DEF DocumentsTyped
    <3> QED BY <3>1, <3>3, <3>4, <3>5, <3>6 DEF SettledWritten, Fresh
  <2> QED BY <2>2, <2>3, <2>7, <2>8
<1>4. \A row : Fresh(row)' <=> Fresh(row) BY DEF Fresh
<1>5. \A i \in DOMAIN calls' : CurrentRead(i)' =>
        \A b \in DOMAIN calls' : CurrentRead(b)' => b = i
  BY <1>1 DEF ReadsFit
<1>6. ASSUME NEW i \in DOMAIN calls', CurrentRead(i)'
      PROVE  /\ calls'[i].op # "more" => result'.status = "loading"
             /\ calls'[i].op = "more" =>
                  /\ result'.fetching /\ calls'[i].cursor = Last(result'.pages).next
                  /\ HasPage(calls'[i]) => calls'[i].answer.page.after = Last(result'.pages).last
             /\ ~result'.stale /\ ~result'.unmarked =>
                  /\ \A k \in DOMAIN calls'[i].pages : \A row \in calls'[i].pages[k].items : Fresh(row)'
                  /\ HasPage(calls'[i]) => \A row \in calls'[i].answer.page.items : Fresh(row)'
  BY <1>2, <1>3, <1>4, <1>6 DEF ReadsFit
<1>7. \A i : HasPage(calls[i])' <=> HasPage(calls'[i]) BY DEF HasPage
<1> QED BY <1>5, <1>6, <1>7 DEF ReadsFit

\* Served calls keep the invariant.
LEMMA ServeKeeps ==
  ASSUME FirestoreInv, NEW c \in DOMAIN calls, Serve(c), UNCHANGED tabVars
  PROVE  FirestoreInv'
<1> USE DEF FirestoreInv
<1>1. PICK call : call = calls'[c] OBVIOUS
<1>2. /\ DocumentsTyped' /\ Later /\ Others(c) /\ SameAsked(call, calls[c])
      /\ GoodCall(call)' /\ NoSilentOverwrite'
      /\ call.op \in Reads => PageServed(c, call)
      /\ calls[c].stage # "done"
  BY <1>1, ServeGood
<1>3. TabTyped' /\ ResultGood' /\ DialogsGood' /\ SettledWritten' /\ StaleIsMarked'
  BY <1>2, TabLater
<1>4. CallsGood' BY <1>1, <1>2, CallsLater DEF TabTyped, tabVars, queryVars
<1>5. ReadsFit' BY <1>1, <1>2, ServedReadsFit
<1> QED BY <1>2, <1>3, <1>4, <1>5

\* Nothing but the documents and their cursors changes.
LEMMA SameReadsFit ==
  ASSUME ReadsFit, UNCHANGED <<calls, result, settled>>
  PROVE  ReadsFit'
BY DEF ReadsFit, CurrentRead, HasPage, Fresh

\* Other clients and cursors that expire keep the invariant.
LEMMA OthersKeep ==
  ASSUME FirestoreInv, Expire \/ \E d \in Docs : OtherClient(d), UNCHANGED tabVars
  PROVE  FirestoreInv'
<1> USE DEF FirestoreInv
<1>1. DocumentsTyped' /\ Later /\ NoSilentOverwrite' /\ UNCHANGED calls BY OthersGood
<1>2. TabTyped' /\ ResultGood' /\ DialogsGood' /\ SettledWritten' /\ StaleIsMarked'
  BY <1>1, TabLater
<1>3. nextRequestId \in Nat /\ nextRequestId' = nextRequestId BY DEF TabTyped, tabVars, queryVars
<1>4. CallsGood' BY <1>1, <1>3, SameCallsLater
<1>5. ReadsFit' BY <1>1, SameReadsFit DEF tabVars, queryVars
<1> QED BY <1>1, <1>2, <1>4, <1>5

----------------
(* What the user does *)

\* The rows shown are known.
LEMMA RowsKnown ==
  ASSUME ResultGood, NEW row \in Rows
  PROVE  Known(row) /\ row \in Row /\ row.doc \in Docs /\ row.values \in [Fields -> Nat]
<1>1. PICK i \in DOMAIN result.pages : row \in result.pages[i].items BY DEF Rows, ToSet
<1>2. Known(row) BY <1>1 DEF ResultGood, GoodPages, GoodPage
<1> QED BY <1>2 DEF Known, Row

\* A call for an account that was removed is answered with a failure, and good as it was.
LEMMA SentGood ==
  ASSUME NEW call, GoodCall(call), NEW sent, sent = Posted(call)
  PROVE  /\ GoodCall(sent) /\ sent.op = call.op /\ sent.exec = call.exec
         /\ sent.pages = call.pages /\ sent.cursor = call.cursor
         /\ call.stage = "asked" => ~HasPage(sent)
<1>1. CASE view.account BY <1>1 DEF Posted, HasPage
<1>2. CASE ~view.account
  <2>1. sent = [call EXCEPT !.stage = "answered", !.answer = Failed] BY <1>2 DEF Posted
  <2>2. DOMAIN call = CallFields BY DEF GoodCall
  <2>3. /\ DOMAIN sent = CallFields /\ sent.stage = "answered" /\ sent.answer = Failed
        /\ \A field \in CallFields \ {"stage", "answer"} : sent[field] = call[field]
    BY <2>1, <2>2 DEF CallFields
  <2>4. /\ sent.op = call.op /\ sent.exec = call.exec /\ sent.pages = call.pages
        /\ sent.cursor = call.cursor /\ sent.doc = call.doc /\ sent.base = call.base
        /\ sent.field = call.field /\ sent.value = call.value /\ sent.seen = call.seen
    BY <2>3 DEF CallFields
  <2>5. ~HasPage(sent) BY <2>3 DEF HasPage, Failed
  <2>6. call.op \in Reads => GoodRead(sent) BY <2>3, <2>4, <2>5 DEF GoodCall, GoodRead, Failed
  <2>7. call.op \notin Reads => GoodWrite(sent)
    BY <2>3, <2>4 DEF GoodCall, GoodWrite, GoodPatch, TrueAnswer, Failed
  <2> QED BY <2>3, <2>4, <2>5, <2>6, <2>7 DEF GoodCall
<1> QED BY <1>1, <1>2

\* So it is of the documents as they are then.
LEMMA SentGoodLater ==
  ASSUME NEW call, GoodCall(call)', NEW sent, sent = Posted(call)
  PROVE  /\ GoodCall(sent)' /\ sent.op = call.op /\ sent.exec = call.exec
         /\ sent.pages = call.pages /\ sent.cursor = call.cursor
         /\ call.stage = "asked" => ~HasPage(sent)
<1>1. CASE view.account BY <1>1 DEF Posted, HasPage
<1>2. CASE ~view.account
  <2>1. sent = [call EXCEPT !.stage = "answered", !.answer = Failed] BY <1>2 DEF Posted
  <2>2. DOMAIN call = CallFields BY DEF GoodCall
  <2>3. /\ DOMAIN sent = CallFields /\ sent.stage = "answered" /\ sent.answer = Failed
        /\ \A field \in CallFields \ {"stage", "answer"} : sent[field] = call[field]
    BY <2>1, <2>2 DEF CallFields
  <2>4. /\ sent.op = call.op /\ sent.exec = call.exec /\ sent.pages = call.pages
        /\ sent.cursor = call.cursor /\ sent.doc = call.doc /\ sent.base = call.base
        /\ sent.field = call.field /\ sent.value = call.value /\ sent.seen = call.seen
    BY <2>3 DEF CallFields
  <2>5. ~HasPage(sent) /\ ~HasPage(sent)' BY <2>3 DEF HasPage, Failed
  <2>6. call.op \in Reads => GoodRead(sent)' BY <2>3, <2>4, <2>5 DEF GoodCall, GoodRead, Failed
  <2>7. call.op \notin Reads => GoodWrite(sent)'
    BY <2>3, <2>4 DEF GoodCall, GoodWrite, GoodPatch, TrueAnswer, Failed
  <2> QED BY <2>3, <2>4, <2>5, <2>6, <2>7 DEF GoodCall
<1> QED BY <1>1, <1>2

\* A call that is asked is good if it was when it was made.
LEMMA AskedGood ==
  ASSUME DocumentsTyped, DocumentsTyped', Later, CallsGood,
         nextRequestId \in Nat, nextRequestId' \in Nat, nextRequestId <= nextRequestId',
         NEW call, Ask(call), GoodCall(call)'
  PROVE  CallsGood'
<1>0. PICK sent : sent = Posted(call) OBVIOUS
<1>1. /\ calls' \in Seq(ToSet(calls')) /\ calls'[Len(calls) + 1] = sent
      /\ \A i \in DOMAIN calls : calls'[i] = calls[i]
      /\ \A i \in DOMAIN calls' : i \in DOMAIN calls \/ i = Len(calls) + 1
  BY <1>0, AppendAny DEF Ask, CallsGood
<1>3. GoodCall(sent)' BY <1>0, SentGoodLater
<1>2. ASSUME NEW i \in DOMAIN calls
      PROVE  calls'[i] = Done \/ GoodCall(calls[i])'
  <2>1. PICK old : old = calls[i] OBVIOUS
  <2>2. old = Done \/ GoodCall(old)' BY <2>1, GoodCallLater DEF CallsGood
  <2> QED BY <1>1, <2>1, <2>2
<1> QED BY <1>1, <1>2, <1>3 DEF CallsGood

\* A write that is asked for is none of the reads.
LEMMA AskedReadsFit ==
  ASSUME ReadsFit, CallsGood, NEW call, Ask(call), GoodCall(call)', call.op \notin Reads,
         UNCHANGED <<result, settled>>
  PROVE  ReadsFit'
<1>1. PICK sent : sent = Posted(call) OBVIOUS
<1>2. sent.op \notin Reads BY <1>1, SentGoodLater
<1>3. calls' = Append(calls, sent) BY <1>1 DEF Ask
<1> QED BY <1>2, <1>3, AppendAny DEF CallsGood, CurrentRead, ReadsFit, HasPage, Fresh

\* The execution a call is made for.
LEMMA ResultExecution ==
  ASSUME TabTyped, ResultGood
  PROVE  /\ result.execution \in Executions \cup {None} /\ nextRequestId \in Nat
         /\ result.execution # None =>
              result.execution.id < nextRequestId /\ result.execution.draft = draft
BY DEF TabTyped, Results, ResultGood

\* Asking for a write keeps the invariant, if the call is good.
LEMMA WriteAsked ==
  ASSUME FirestoreInv, OnlyCalls \/ (UNCHANGED <<Repository, job>> /\ blind \subseteq blind'),
         UNCHANGED <<view, draft, queryVars, settled>>, DialogsGood',
         NEW call, Ask(call), call.op \notin Reads, GoodCall(call)'
  PROVE  FirestoreInv'
<1> USE DEF FirestoreInv, OnlyCalls, Repository, queryVars
<1>1. UNCHANGED <<documents, clock, cursors, nextToken, lost, job>> /\ blind \subseteq blind'
  OBVIOUS
<1>2. DocumentsTyped' /\ Later BY <1>1, SameDocuments
<1>3. TabTyped' BY DEF TabTyped
<1>4. GoodPages(result.pages)' BY <1>2, ResultPagesLater DEF ResultGood
<1>5. ResultGood' BY <1>4 DEF ResultGood, Chained, Within
<1>6. SettledWritten' BY <1>1, <1>2, SettledLater
<1>7. StaleIsMarked' BY DEF StaleIsMarked, Rows
<1>8. nextRequestId \in Nat /\ nextRequestId' = nextRequestId BY DEF TabTyped
<1>9. CallsGood' BY <1>2, <1>8, AskedGood
<1>10. ReadsFit' BY AskedReadsFit
<1>11. NoSilentOverwrite' BY <1>1 DEF NoSilentOverwrite
<1> QED BY <1>2, <1>3, <1>5, <1>6, <1>7, <1>9, <1>10, <1>11

\* A document saved from the editor is based on a row that is shown.
LEMMA SaveDocumentKeeps ==
  ASSUME FirestoreInv, SaveDocument
  PROVE  FirestoreInv'
<1> USE DEF FirestoreInv
<1>1. PICK row \in Rows, f \in Fields :
        Ask([Call("save", result.execution) EXCEPT !.doc = row.doc, !.base = row, !.field = f])
  BY DEF SaveDocument
<1>2. PICK call : call = [Call("save", result.execution) EXCEPT
                            !.doc = row.doc, !.base = row, !.field = f] OBVIOUS
<1>3. /\ DOMAIN call = CallFields /\ call.op = "save" /\ call.stage = "asked"
      /\ call.exec = result.execution /\ call.doc = row.doc /\ call.base = row /\ call.field = f
  BY <1>2 DEF Call, CallFields
<1>4. UNCHANGED <<documents, clock, cursors, nextToken, blind, nextRequestId>> /\ OnlyCalls
      /\ UNCHANGED <<view, draft, queryVars, settled, dialogVars>>
  BY DEF SaveDocument, Writes, OnlyCalls, Repository, queryVars
<1>5. DocumentsTyped' /\ Later BY <1>4, SameDocuments
<1>6. Known(row) /\ row.doc \in Docs BY RowsKnown
<1>7. GoodWrite(call) BY <1>3, <1>6 DEF GoodWrite, Edits
<1>8. GoodCall(call) BY <1>3, <1>7, ResultExecution DEF GoodCall, Reads
<1>9. GoodCall(call)' BY <1>4, <1>5, <1>8, GoodCallLater, ResultExecution
<1>10. DialogsGood' BY <1>4, <1>5, DialogsLater
<1>11. Ask(call) /\ call.op \notin Reads BY <1>1, <1>2, <1>3 DEF Reads
<1> QED BY <1>4, <1>9, <1>10, <1>11, WriteAsked

\* A deletion is based on a row that is shown.
LEMMA DeleteDocumentKeeps ==
  ASSUME FirestoreInv, DeleteDocument
  PROVE  FirestoreInv'
<1> USE DEF FirestoreInv
<1>1. PICK row \in Rows : Ask([Call("delete", result.execution) EXCEPT !.doc = row.doc])
  BY DEF DeleteDocument
<1>2. PICK call : call = [Call("delete", result.execution) EXCEPT !.doc = row.doc] OBVIOUS
<1>3. /\ DOMAIN call = CallFields /\ call.op = "delete" /\ call.stage = "asked"
      /\ call.exec = result.execution /\ call.doc = row.doc
  BY <1>2 DEF Call, CallFields
<1>4. UNCHANGED <<documents, clock, cursors, nextToken, blind, nextRequestId>> /\ OnlyCalls
      /\ UNCHANGED <<view, draft, queryVars, settled, dialogVars>>
  BY DEF DeleteDocument, Writes, OnlyCalls, Repository, queryVars
<1>5. DocumentsTyped' /\ Later BY <1>4, SameDocuments
<1>6. row.doc \in Docs BY RowsKnown
<1>7. GoodWrite(call) BY <1>3, <1>6 DEF GoodWrite, Edits
<1>8. GoodCall(call) BY <1>3, <1>7, ResultExecution DEF GoodCall, Reads
<1>9. GoodCall(call)' BY <1>4, <1>5, <1>8, GoodCallLater, ResultExecution
<1>10. DialogsGood' BY <1>4, <1>5, DialogsLater
<1>11. Ask(call) /\ call.op \notin Reads BY <1>1, <1>2, <1>3 DEF Reads
<1> QED BY <1>4, <1>9, <1>10, <1>11, WriteAsked

\* A creation is based on no row.
LEMMA CreateDocumentKeeps ==
  ASSUME FirestoreInv, CreateDocument
  PROVE  FirestoreInv'
<1> USE DEF FirestoreInv
<1>1. PICK d \in Docs : Ask([Call("create", result.execution) EXCEPT !.doc = d])
  BY DEF CreateDocument
<1>2. PICK call : call = [Call("create", result.execution) EXCEPT !.doc = d] OBVIOUS
<1>3. /\ DOMAIN call = CallFields /\ call.op = "create" /\ call.stage = "asked"
      /\ call.exec = result.execution /\ call.doc = d
  BY <1>2 DEF Call, CallFields
<1>4. UNCHANGED <<documents, clock, cursors, nextToken, blind, nextRequestId>> /\ OnlyCalls
      /\ UNCHANGED <<view, draft, queryVars, settled, dialogVars>>
  BY DEF CreateDocument, Writes, OnlyCalls, Repository, queryVars
<1>5. DocumentsTyped' /\ Later BY <1>4, SameDocuments
<1>7. GoodWrite(call) BY <1>3 DEF GoodWrite, Edits
<1>8. GoodCall(call) BY <1>3, <1>7, ResultExecution DEF GoodCall, Reads
<1>9. GoodCall(call)' BY <1>4, <1>5, <1>8, GoodCallLater, ResultExecution
<1>10. DialogsGood' BY <1>4, <1>5, DialogsLater
<1>11. Ask(call) /\ call.op \notin Reads BY <1>1, <1>2, <1>3 DEF Reads
<1> QED BY <1>4, <1>9, <1>10, <1>11, WriteAsked

\* A merged document is based on the remote one the dialog shows.
LEMMA SaveMergedKeeps ==
  ASSUME FirestoreInv, SaveMerged
  PROVE  FirestoreInv'
<1> USE DEF FirestoreInv
<1>0. PICK remote : remote = conflictMerge.remote OBVIOUS
<1>1. PICK f \in Fields :
        Ask([Call("save", result.execution) EXCEPT
               !.doc = remote.doc, !.base = remote, !.field = f,
               !.closes = conflictMerge.closes \cup {"merge"}])
  BY <1>0 DEF SaveMerged
<1>2. PICK call : call = [Call("save", result.execution) EXCEPT
                            !.doc = remote.doc, !.base = remote, !.field = f,
                            !.closes = conflictMerge.closes \cup {"merge"}] OBVIOUS
<1>3. /\ DOMAIN call = CallFields /\ call.op = "save" /\ call.stage = "asked"
      /\ call.exec = result.execution /\ call.doc = remote.doc /\ call.base = remote
      /\ call.field = f
  BY <1>2 DEF Call, CallFields
<1>4. UNCHANGED <<documents, clock, cursors, nextToken, blind, nextRequestId>> /\ OnlyCalls
      /\ UNCHANGED <<view, draft, queryVars, settled, dialogVars>>
  BY DEF SaveMerged, Writes, OnlyCalls, Repository, queryVars
<1>5. DocumentsTyped' /\ Later BY <1>4, SameDocuments
<1>6. Known(remote) /\ remote.doc \in Docs
  <2>1. Known(remote) BY <1>0 DEF SaveMerged, DialogsGood
  <2> QED BY <2>1 DEF Known, Row
<1>7. GoodWrite(call) BY <1>3, <1>6 DEF GoodWrite, Edits
<1>8. GoodCall(call) BY <1>3, <1>7, ResultExecution DEF GoodCall, Reads
<1>9. GoodCall(call)' BY <1>4, <1>5, <1>8, GoodCallLater, ResultExecution
<1>10. DialogsGood' BY <1>4, <1>5, DialogsLater
<1>11. Ask(call) /\ call.op \notin Reads BY <1>1, <1>2, <1>3 DEF Reads
<1> QED BY <1>4, <1>9, <1>10, <1>11, WriteAsked

\* The value a patch is made for is the one the editor was opened with, or the document is one
\* whose writer did not see it.
LEMMA SaveFieldKeeps ==
  ASSUME FirestoreInv, SaveField
  PROVE  FirestoreInv'
<1> USE DEF FirestoreInv
<1>0. PICK editor : editor = fieldEditor OBVIOUS
<1>1. PICK row \in Rows, behavior \in StaleBehaviors, removes \in BOOLEAN :
        /\ row.doc = editor.doc
        /\ Ask([Call("patch", result.execution) EXCEPT
                  !.doc = row.doc, !.base = row, !.field = editor.field,
                  !.value = row.values[editor.field], !.seen = editor.seen, !.removes = removes,
                  !.stale = behavior, !.closes = {"field"}])
        /\ blind' = IF row.values[editor.field] = editor.seen THEN blind
                    ELSE blind \cup {row.doc}
  BY <1>0 DEF SaveField, BaseValue
<1>2. PICK call : call = [Call("patch", result.execution) EXCEPT
                  !.doc = row.doc, !.base = row, !.field = editor.field,
                  !.value = row.values[editor.field], !.seen = editor.seen, !.removes = removes,
                  !.stale = behavior, !.closes = {"field"}] OBVIOUS
<1>3. /\ DOMAIN call = CallFields /\ call.op = "patch" /\ call.stage = "asked"
      /\ call.exec = result.execution /\ call.doc = row.doc /\ call.base = row
      /\ call.field = editor.field /\ call.value = row.values[editor.field]
      /\ call.seen = editor.seen
  BY <1>2 DEF Call, CallFields
<1>4. UNCHANGED <<documents, clock, cursors, nextToken, job, nextRequestId>>
      /\ UNCHANGED <<Repository, view, draft, queryVars, settled, dialogVars>>
  BY DEF SaveField, Repository, queryVars
<1>5. blind \subseteq blind' BY <1>1
<1>6. DocumentsTyped' /\ Later BY <1>4, <1>5, SameDocuments
<1>7. Known(row) /\ row.doc \in Docs BY RowsKnown
<1>8. Known(row)' BY <1>6, <1>7, KnownLater
<1>9. editor.field \in Fields BY <1>0 DEF SaveField, DialogsGood
<1>10. GoodPatch(call)' BY <1>1, <1>3, <1>7, <1>9 DEF GoodPatch
<1>11. GoodWrite(call)' BY <1>3, <1>7, <1>8, <1>9, <1>10 DEF GoodWrite, Edits
<1>12. GoodCall(call)' BY <1>3, <1>4, <1>11, ResultExecution DEF GoodCall, Reads, Executions
<1>13. DialogsGood' BY <1>4, <1>6, DialogsLater
<1>14. Ask(call) /\ call.op \notin Reads BY <1>1, <1>2, <1>3 DEF Reads
<1> QED BY <1>4, <1>5, <1>12, <1>13, <1>14, WriteAsked

\* A confirmed patch is based on the remote document, whose value is the one it removes.
LEMMA ConfirmPatchKeeps ==
  ASSUME FirestoreInv, ConfirmPatch
  PROVE  FirestoreInv'
<1> USE DEF FirestoreInv
<1>0. PICK stale, remote : stale = stalePatch /\ remote = stalePatch.answer.remote OBVIOUS
<1>1. PICK call : call = [stale EXCEPT !.stage = "asked", !.exec = result.execution,
                            !.answer = None, !.base = remote, !.stale = "confirm"]
  OBVIOUS
<1>2. /\ DOMAIN stale = CallFields /\ GoodPatch(stale) /\ Known(remote)
      /\ remote.doc = stale.doc /\ remote.values[stale.field] = stale.value
  BY <1>0 DEF DialogsGood, ConfirmPatch
<1>3. /\ DOMAIN call = CallFields /\ call.op = "patch" /\ call.stage = "asked"
      /\ call.exec = result.execution /\ call.doc = stale.doc /\ call.base = remote
      /\ call.field = stale.field /\ call.value = stale.value /\ call.seen = stale.seen
  BY <1>1, <1>2 DEF CallFields, GoodPatch
<1>4. UNCHANGED <<documents, clock, cursors, nextToken, blind, nextRequestId>> /\ OnlyCalls
      /\ UNCHANGED <<view, draft, queryVars, settled, fieldEditor, conflictMerge>>
      /\ stalePatch' = None
  BY DEF ConfirmPatch, Writes, OnlyCalls, Repository, queryVars
<1>5. DocumentsTyped' /\ Later BY <1>4, SameDocuments
<1>6. GoodPatch(call) BY <1>2, <1>3 DEF GoodPatch
<1>7. GoodWrite(call) BY <1>2, <1>3, <1>6 DEF GoodWrite, Edits, GoodPatch
<1>8. GoodCall(call) BY <1>3, <1>7, ResultExecution DEF GoodCall, Reads
<1>9. GoodCall(call)' BY <1>4, <1>5, <1>8, GoodCallLater, ResultExecution
<1>10. DialogsGood'
  <2>1. PICK other : other = conflictMerge.remote OBVIOUS
  <2>2. conflictMerge # None /\ conflictMerge.remote # None => Known(other)'
    BY <1>5, <2>1, KnownLater DEF DialogsGood
  <2> QED BY <1>4, <2>1, <2>2 DEF DialogsGood
<1>11. Ask(call) /\ call.op \notin Reads BY <1>0, <1>1, <1>3 DEF Reads, ConfirmPatch
<1> QED BY <1>4, <1>9, <1>10, <1>11, WriteAsked

\* Dialogs that open or close, and what is shown while the tab is there, leave the rest.
LEMMA DialogKeeps ==
  ASSUME FirestoreInv, OnlyCalls, UNCHANGED <<draft, queryVars, settled, calls>>,
         view' \in Views, view'.open = view.open, DialogsGood'
  PROVE  FirestoreInv'
<1> USE DEF FirestoreInv, OnlyCalls, Repository, queryVars
<1>1. DocumentsTyped' /\ Later BY SameDocuments
<1>2. TabTyped' BY DEF TabTyped
<1>3. GoodPages(result.pages)' BY <1>1, ResultPagesLater DEF ResultGood
<1>4. ResultGood' BY <1>3 DEF ResultGood, Chained, Within
<1>5. SettledWritten' BY <1>1, SettledLater
<1>6. StaleIsMarked' BY DEF StaleIsMarked, Rows
<1>7. CallsGood' BY <1>1, SameCallsLater DEF TabTyped
<1>8. ReadsFit' BY SameReadsFit
<1>9. NoSilentOverwrite' BY DEF NoSilentOverwrite
<1> QED BY <1>1, <1>2, <1>4, <1>5, <1>6, <1>7, <1>8, <1>9

\* The field editor opens on a row that is shown.
LEMMA EditFieldKeeps ==
  ASSUME FirestoreInv, EditField
  PROVE  FirestoreInv'
<1> USE DEF FirestoreInv
<1>1. PICK row \in Rows, f \in Fields :
        fieldEditor' = [doc |-> row.doc, field |-> f, seen |-> row.values[f]]
  BY DEF EditField
<1>2. conflictMerge' = None /\ stalePatch' = None /\ Writes /\ UNCHANGED calls
  BY DEF EditField, NoDialog
<1>3. fieldEditor'.field \in Fields /\ fieldEditor'.doc \in Docs BY <1>1, RowsKnown
<1>4. DialogsGood' BY <1>2, <1>3 DEF DialogsGood
<1> QED BY <1>2, <1>4, DialogKeeps DEF Writes, FirestoreInv, TabTyped

\* A dialog that closes leaves nothing behind.
LEMMA CloseDialogKeeps ==
  ASSUME FirestoreInv, CloseDialog
  PROVE  FirestoreInv'
<1>1. DialogsGood' BY DEF CloseDialog, DialogsGood
<1> QED BY <1>1, DialogKeeps DEF CloseDialog, Writes, FirestoreInv, TabTyped

\* Another tab is shown, or this one again, without dialogs.
LEMMA ShownKeeps ==
  ASSUME FirestoreInv, Return \/ \E to \in {"other query", "other kind"} : Leave(to)
  PROVE  FirestoreInv'
<1> USE DEF Return, Leave, Elsewhere, Dismissed
<1>1. DialogsGood' BY DEF DialogsGood
<1>2. OnlyCalls /\ UNCHANGED <<draft, queryVars, settled, calls>> BY DEF OnlyCalls, Repository, docVars
<1>3. view \in Views /\ Len(calls) \in Nat
  <2>1. calls \in Seq(ToSet(calls)) BY DEF FirestoreInv, CallsGood
  <2> QED BY <2>1, LenProperties DEF FirestoreInv, TabTyped
<1>4. view' \in Views /\ view'.open = view.open BY <1>3 DEF Views
<1> QED BY <1>1, <1>2, <1>4, DialogKeeps

\* The project of the tab goes and comes, the tab stays as it is.
LEMMA ProjectKeeps ==
  ASSUME FirestoreInv, ProjectRemoved \/ ProjectAdded
  PROVE  FirestoreInv'
<1> USE DEF ProjectRemoved, ProjectAdded
<1>1. OnlyCalls /\ UNCHANGED <<documents, clock, cursors, nextToken, lost, blind, calls>>
      /\ UNCHANGED <<draft, queryVars, settled, dialogVars>>
  BY DEF OnlyCalls, Repository, docVars
<1>2. DocumentsTyped' /\ Later BY <1>1, SameDocuments DEF FirestoreInv
<1>3. DialogsGood' BY <1>1, <1>2, DialogsLater DEF FirestoreInv
<1>4. view \in Views BY DEF FirestoreInv, TabTyped
<1>5. view' \in Views /\ view'.open = view.open BY <1>4 DEF Views
<1> QED BY <1>1, <1>3, <1>5, DialogKeeps

\* An edited draft and a closed tab leave no results, and no read is for any.
LEMMA InvalidateKeeps ==
  ASSUME FirestoreInv, Invalidate, OnlyCalls,
         UNCHANGED <<nextRequestId, calls, dialogVars, settled>>,
         draft' \in Drafts, view' \in Views
  PROVE  FirestoreInv'
<1> USE DEF FirestoreInv, OnlyCalls, Repository
<1>1. DocumentsTyped' /\ Later BY SameDocuments
<1>2. /\ tabEpoch' = tabEpoch + 1 /\ queryRequest' = None /\ result' = EmptyResult
      /\ result'.execution = None /\ result'.pages = <<>> /\ result'.status = "idle"
      /\ ~result'.hasMore /\ ~result'.fetching
  BY DEF Invalidate, EmptyResult
<1>3. <<>> \in Seq(Pages) BY EmptySeq
<1>4. TabTyped' BY <1>2, <1>3 DEF EmptyResult, Results, TabTyped
<1>5. GoodPages(result.pages)' BY <1>2, <1>3 DEF GoodPages
<1>6. ResultGood' BY <1>2, <1>5 DEF ResultGood
<1>7. DialogsGood' BY <1>1, DialogsLater
<1>8. SettledWritten' BY <1>1, SettledLater
<1>9. StaleIsMarked' BY <1>2 DEF StaleIsMarked
<1>10. CallsGood' BY <1>1, SameCallsLater DEF TabTyped
<1>11. ReadsFit'
  <2>1. \A i \in DOMAIN calls : calls[i].op \in Reads => calls[i].exec # None
    <3> SUFFICES ASSUME NEW i \in DOMAIN calls, calls[i].op \in Reads PROVE calls[i].exec # None
      OBVIOUS
    <3>1. calls[i] # Done BY DEF Done, Reads
    <3>2. calls[i].exec \in Executions BY <3>1 DEF CallsGood, GoodCall, GoodRead
    <3> QED BY <3>2, TabAssumption DEF Executions
  <2> QED BY <1>2, <2>1 DEF ReadsFit, CurrentRead
<1>12. NoSilentOverwrite' BY DEF NoSilentOverwrite
<1> QED BY <1>1, <1>4, <1>6, <1>7, <1>8, <1>9, <1>10, <1>11, <1>12

\* Editing the draft invalidates what there is for it.
LEMMA EditDraftKeeps ==
  ASSUME FirestoreInv, NEW q \in Drafts, EditDraft(q)
  PROVE  FirestoreInv'
BY InvalidateKeeps DEF EditDraft, FirestoreInv, TabTyped

\* Closing the tab does too.
LEMMA CloseTabKeeps ==
  ASSUME FirestoreInv, CloseTab
  PROVE  FirestoreInv'
BY InvalidateKeeps DEF CloseTab, FirestoreInv, TabTyped, Views

\* A collection job writes, and the tab is told later.
LEMMA JobWritesKeeps ==
  ASSUME FirestoreInv, NEW d \in Docs, JobWrites(d)
  PROVE  FirestoreInv'
<1> USE DEF FirestoreInv
<1>1. DocumentsTyped' /\ Later /\ NoSilentOverwrite' /\ UNCHANGED calls BY OthersGood DEF JobWrites
<1>2. UNCHANGED <<view, draft, queryVars, dialogVars, settled>> BY DEF JobWrites
<1> USE DEF queryVars
<1>3. TabTyped' BY <1>2 DEF TabTyped
<1>4. GoodPages(result.pages)' BY <1>1, <1>2, ResultPagesLater DEF ResultGood
<1>5. ResultGood' BY <1>2, <1>4 DEF ResultGood, Chained, Within
<1>6. DialogsGood' BY <1>1, <1>2, DialogsLater
<1>7. StaleIsMarked' BY <1>2 DEF StaleIsMarked, Rows
<1>8. CallsGood' BY <1>1, <1>2, SameCallsLater DEF TabTyped
<1>9. ReadsFit' BY <1>1, <1>2, SameReadsFit
<1>10. SettledWritten'
  <2>1. \A e \in Docs : /\ documents[e].version \in Nat /\ documents'[e].version \in Nat
                        /\ documents[e].version <= documents'[e].version
    BY <1>1 DEF DocumentsTyped, Later
  <2>2. \A q \in Drafts, e \in Docs : settled[q][e] \in Nat /\ settled'[q][e] = settled[q][e]
    BY <1>2 DEF TabTyped
  <2>3. \A q \in Drafts, e \in Docs : settled'[q][e] <= documents'[e].version
    BY <2>1, <2>2 DEF SettledWritten
  <2>4. job'.doc = d /\ job'.version = clock.version + 1 BY DEF JobWrites
  <2>5. clock.version \in Nat BY DEF DocumentsTyped
  <2>6. documents'[d].version = clock.version + 1
    <3>1. PICK t \in clock.time .. (clock.time + 1) :
            documents' = [documents EXCEPT ![d] =
              [exists |-> TRUE, version |-> clock.version + 1, time |-> t,
               values |-> [f \in Fields |-> clock.version + 1]]]
      BY DEF JobWrites, JobSets, Write
    <3>2. DOMAIN documents = Docs BY DEF DocumentsTyped
    <3> QED BY <3>1, <3>2
  <2> QED BY <2>3, <2>4, <2>5, <2>6 DEF SettledWritten
<1> QED BY <1>1, <1>3, <1>5, <1>6, <1>7, <1>8, <1>9, <1>10

----------------
(* Queries that start *)

\* No read but its own is for an execution that has just begun.
LEMMA StartKeeps ==
  ASSUME FirestoreInv, NEW q, q = draft, NEW pagesToLoad, Start(q, pagesToLoad),
         view.open, view.account,
         OnlyCalls, UNCHANGED <<view, draft, tabEpoch, dialogVars, settled>>
  PROVE  FirestoreInv'
<1> USE DEF FirestoreInv, OnlyCalls, Repository
<1>1. DocumentsTyped' /\ Later BY SameDocuments
<1>2. draft \in Drafts /\ tabEpoch \in Nat /\ nextRequestId \in Nat BY DEF TabTyped
<1>3. PICK e : e = [id |-> nextRequestId, epoch |-> tabEpoch, draft |-> q] OBVIOUS
<1>4. e \in Executions /\ e # None /\ e.id = nextRequestId /\ e.epoch = tabEpoch /\ e.draft = q
  BY <1>2, <1>3, TabAssumption DEF Executions
<1>5. PICK call : call = [Call(IF q = 0 THEN "document" ELSE "query", e) EXCEPT !.left = pagesToLoad]
  OBVIOUS
<1>6. /\ DOMAIN call = CallFields /\ call.op \in {"document", "query"} /\ call.stage = "asked"
      /\ call.exec = e /\ call.pages = <<>> /\ call.cursor = None
  BY <1>5 DEF Call, CallFields
<1>7. /\ nextRequestId' = nextRequestId + 1 /\ queryRequest' = e /\ Ask(call)
      /\ result' = [EmptyResult EXCEPT !.status = "loading", !.execution = e]
      /\ calls' = Append(calls, call)
  BY <1>3, <1>5 DEF Start, Ask, Posted
<1>8. /\ result'.status = "loading" /\ result'.execution = e /\ result'.pages = <<>>
      /\ ~result'.hasMore /\ ~result'.fetching /\ ~result'.stale /\ ~result'.unmarked
  BY <1>7 DEF EmptyResult
<1>9. <<>> \in Seq(Pages) BY EmptySeq
<1>10. TabTyped'
  <2>1. result' = [status |-> "loading", execution |-> e, pages |-> <<>>, hasMore |-> FALSE,
                   fetching |-> FALSE, stale |-> FALSE, unmarked |-> FALSE]
    BY <1>7 DEF EmptyResult
  <2>2. result' \in Results BY <1>4, <1>9, <2>1 DEF Results
  <2> QED BY <1>2, <1>4, <1>7, <2>2 DEF TabTyped
<1>11. GoodPages(<<>>) /\ GoodPages(<<>>)' BY <1>9 DEF GoodPages
<1>12. ResultGood'
  <2>1. GoodPages(result.pages)' BY <1>8, <1>9 DEF GoodPages
  <2> QED BY <1>2, <1>4, <1>7, <1>8, <2>1 DEF ResultGood, Chained
<1>13. DialogsGood' BY <1>1, DialogsLater
<1>14. SettledWritten' BY <1>1, SettledLater
<1>15. StaleIsMarked'
  <2>1. Rows' = {} BY <1>8 DEF Rows, ToSet
  <2> QED BY <2>1 DEF StaleIsMarked
<1>16. GoodCall(call)'
  BY <1>2, <1>4, <1>6, <1>7, <1>11 DEF HasPage, GoodRead, Executions, Chained, GoodCall, Reads
<1>17. CallsGood' BY <1>1, <1>2, <1>7, <1>16, AskedGood
<1>18. ReadsFit'
  <2>1. /\ calls'[Len(calls) + 1] = call
        /\ \A i \in DOMAIN calls : calls'[i] = calls[i]
        /\ \A i \in DOMAIN calls' : i \in DOMAIN calls \/ i = Len(calls) + 1
    BY <1>7, AppendAny DEF CallsGood
  <2>2. \A i \in DOMAIN calls : calls[i].op \in Reads => calls[i].exec # e
    <3> SUFFICES ASSUME NEW i \in DOMAIN calls, calls[i].op \in Reads PROVE calls[i].exec # e
      OBVIOUS
    <3>1. calls[i] # Done BY DEF Done, Reads
    <3>2. GoodCall(calls[i]) /\ calls[i].exec \in Executions
      BY <3>1 DEF CallsGood, GoodCall, GoodRead
    <3>3. calls[i].exec # None BY <3>2, TabAssumption DEF Executions
    <3>4. calls[i].exec.id < nextRequestId BY <3>2, <3>3 DEF GoodCall
    <3> QED BY <1>2, <1>4, <3>4
  <2>3. \A i \in DOMAIN calls' : CurrentRead(i)' => i = Len(calls) + 1 /\ calls'[i] = call
    BY <1>8, <2>1, <2>2 DEF CurrentRead
  <2>4. ~HasPage(call) BY <1>6 DEF HasPage
  <2>5. DOMAIN call.pages = {} BY <1>6
  <2>6. \A i \in DOMAIN calls' : CurrentRead(i)' =>
          ~HasPage(calls[i])' /\ calls'[i].op # "more" /\ calls'[i].pages = <<>>
    BY <1>6, <2>3, <2>4 DEF HasPage
  <2> QED BY <1>8, <2>3, <2>6 DEF ReadsFit
<1>19. NoSilentOverwrite' BY DEF NoSilentOverwrite
<1> QED BY <1>1, <1>10, <1>12, <1>13, <1>14, <1>15, <1>17, <1>18, <1>19

\* More is loaded when nothing is, after the last page.
LEMMA LoadMoreKeeps ==
  ASSUME FirestoreInv, LoadMore
  PROVE  FirestoreInv'
<1> USE DEF FirestoreInv
<1>1. /\ result.execution # None /\ MayLoadMore /\ OnlyCalls
      /\ UNCHANGED <<view, draft, tabEpoch, nextRequestId, queryRequest, dialogVars, settled>>
  BY DEF LoadMore
<1> USE DEF OnlyCalls, Repository
<1>2. PICK call : call = [Call("more", result.execution) EXCEPT !.cursor = Last(result.pages).next]
  OBVIOUS
<1>3. /\ DOMAIN call = CallFields /\ call.op = "more" /\ call.stage = "asked"
      /\ call.exec = result.execution /\ call.pages = <<>>
      /\ call.cursor = Last(result.pages).next /\ call.cursor # None
  BY <1>1, <1>2 DEF Call, CallFields, MayLoadMore
<1>4. Ask(call) /\ result' = [result EXCEPT !.fetching = TRUE, !.status = "success"]
  BY <1>2 DEF LoadMore
<1>5. DocumentsTyped' /\ Later BY <1>1, SameDocuments
<1>6. result \in Results /\ result' \in Results /\ result'.fetching /\ result'.status = "success"
      /\ result'.pages = result.pages /\ result'.execution = result.execution
      /\ result'.hasMore = result.hasMore /\ result'.stale = result.stale
      /\ result'.unmarked = result.unmarked
  <2>1. result \in Results BY DEF TabTyped
  <2> QED BY <1>4, <2>1 DEF Results
<1>7. TabTyped' BY <1>1, <1>6 DEF TabTyped
<1>8. result.hasMore /\ result.status \notin {"idle", "loading"} /\ ~result.fetching
  BY <1>1 DEF MayLoadMore
<1>9. GoodPages(result.pages)'
  <2>1. PICK pages : pages = result.pages OBVIOUS
  <2>2. GoodPages(pages)' BY <1>5, <2>1, GoodPagesLater DEF ResultGood
  <2> QED BY <1>6, <2>1, <2>2
<1>10. ResultGood' BY <1>1, <1>6, <1>8, <1>9 DEF ResultGood, Chained, Within
<1>11. DialogsGood' BY <1>1, <1>5, DialogsLater
<1>12. SettledWritten' BY <1>1, <1>5, SettledLater
<1>13. StaleIsMarked' BY <1>1, <1>6 DEF StaleIsMarked, Rows
<1>14. result.execution \in Executions BY <1>1, <1>6 DEF Results
<1>15. GoodCall(call)
  BY <1>1, <1>3, <1>14, EmptySeq, ResultExecution DEF HasPage, GoodPages, GoodRead, Chained, GoodCall, Reads
<1>16. GoodCall(call)' BY <1>1, <1>5, <1>15, GoodCallLater DEF TabTyped
<1>17. CallsGood' BY <1>1, <1>4, <1>5, <1>16, AskedGood DEF TabTyped
<1>18. ReadsFit'
  <2>1. PICK sent : sent = Posted(call) OBVIOUS
  <2>2. /\ sent.op = "more" /\ sent.exec = result.execution /\ sent.pages = <<>>
        /\ sent.cursor = Last(result.pages).next /\ ~HasPage(sent)
    BY <1>3, <1>15, <2>1, SentGood
  <2>3. calls' = Append(calls, sent) BY <1>4, <2>1 DEF Ask
  <2> QED BY <1>6, <1>8, <2>2, <2>3, AppendAny DEF CallsGood, ReadsFit, CurrentRead, Reads, HasPage
<1>19. NoSilentOverwrite' BY <1>1 DEF NoSilentOverwrite
<1> QED BY <1>5, <1>7, <1>10, <1>11, <1>12, <1>13, <1>17, <1>18, <1>19

----------------
(* Reads that arrive *)

\* A call that ends is no call any more.
LEMMA EndedCall ==
  ASSUME CallsGood, NEW c \in DOMAIN calls, Ends(c)
  PROVE  Others(c) /\ calls'[c] = Done
BY ExceptAny DEF CallsGood, Ends, Others

\* An answer that arrives changes a call and the results of the execution there is.
LEMMA ArrivedKeeps ==
  ASSUME FirestoreInv, OnlyCalls,
         UNCHANGED <<view, draft, tabEpoch, nextRequestId, queryRequest, dialogVars, settled>>,
         NEW c \in DOMAIN calls, Others(c), NEW call, call = calls'[c],
         call = Done \/ GoodCall(call),
         result' \in Results, result'.execution = result.execution,
         NEW pages, pages = result'.pages, GoodPages(pages),
         result.execution = None => pages = <<>>,
         result.execution # None => Chained(pages, result.execution.draft),
         result'.fetching => result'.status = "success" /\ result'.hasMore,
         result'.status \in {"idle", "loading"} => pages = <<>>,
         result'.hasMore => pages # <<>> /\ Last(pages).next # None,
         ~result'.stale /\ ~result'.unmarked => \A i \in DOMAIN pages : \A row \in pages[i].items : Fresh(row),
         ReadsFit'
  PROVE  FirestoreInv'
<1> USE DEF FirestoreInv, OnlyCalls, Repository
<1>1. DocumentsTyped' /\ Later BY SameDocuments
<1>2. TabTyped' BY DEF TabTyped, Results
<1>3. GoodPages(pages)' BY <1>1, GoodPagesLater
<1>4. ResultGood' BY <1>3 DEF ResultGood, Chained, Within
<1>5. DialogsGood' BY <1>1, DialogsLater
<1>6. SettledWritten' BY <1>1, SettledLater
<1>7. StaleIsMarked'
  <2> SUFFICES ASSUME ~result'.stale /\ ~result'.unmarked, NEW row \in Rows' PROVE Fresh(row)'
    BY DEF StaleIsMarked, Fresh
  <2>1. PICK i \in DOMAIN pages : row \in pages[i].items BY DEF Rows, ToSet
  <2> QED BY <2>1 DEF Fresh
<1>8. call = Done \/ GoodCall(call)' BY <1>1, GoodCallLater DEF TabTyped
<1>9. CallsGood' BY <1>1, <1>8, CallsLater DEF TabTyped
<1>10. NoSilentOverwrite' BY DEF NoSilentOverwrite
<1> QED BY <1>1, <1>2, <1>4, <1>5, <1>6, <1>7, <1>9, <1>10

\* The read of the current execution has arrived: there is no other.
LEMMA LastReadFits ==
  ASSUME ReadsFit, NEW c \in DOMAIN calls, Others(c), calls'[c] = Done, CurrentRead(c),
         result'.execution = result.execution
  PROVE  ReadsFit'
<1>1. \A i \in DOMAIN calls' : ~CurrentRead(i)'
  <2> SUFFICES ASSUME NEW i \in DOMAIN calls', CurrentRead(i)' PROVE FALSE OBVIOUS
  <2>1. i # c BY DEF CurrentRead, Done, Reads
  <2>2. i \in DOMAIN calls /\ CurrentRead(i) BY <2>1 DEF Others, CurrentRead
  <2> QED BY <2>1, <2>2 DEF ReadsFit
<1> QED BY <1>1 DEF ReadsFit

\* A read that was for another execution, and ends, leaves the others as they are.
LEMMA StrangerFits ==
  ASSUME ReadsFit, NEW c \in DOMAIN calls, Others(c), UNCHANGED <<result, settled>>,
         ~CurrentRead(c)', NEW call, call = calls'[c],
         ~(call.op \in Reads /\ call.exec = result.execution)
  PROVE  ReadsFit'
BY DEF CurrentRead, Others, HasPage, Fresh, ReadsFit

\* A page added to pages goes on where they end.
LEMMA PagesAppended ==
  ASSUME NEW pages, GoodPages(pages), NEW limit, Chained(pages, limit),
         NEW page, GoodPage(page), Within(page, limit), page.after = EndOf(pages)
  PROVE  /\ GoodPages(Append(pages, page)) /\ Chained(Append(pages, page), limit)
         /\ Append(pages, page) # <<>> /\ Last(Append(pages, page)) = page
         /\ DOMAIN Append(pages, page) = DOMAIN pages \cup {Len(pages) + 1}
         /\ \A i \in DOMAIN pages : Append(pages, page)[i] = pages[i]
         /\ Append(pages, page)[Len(pages) + 1] = page
<1> DEFINE all == Append(pages, page)
<1>1. pages \in Seq(Pages) /\ page \in Pages BY DEF GoodPages, GoodPage
<1>2. /\ Len(pages) \in Nat /\ DOMAIN pages = 1..Len(pages) /\ all \in Seq(Pages)
      /\ Len(all) = Len(pages) + 1 /\ DOMAIN all = 1..(Len(pages) + 1)
  BY <1>1
<1>3. all[Len(pages) + 1] = page /\ \A i \in DOMAIN pages : all[i] = pages[i] BY <1>1, <1>2
<1> HIDE DEF all
<1>4. DOMAIN all = DOMAIN pages \cup {Len(pages) + 1} BY <1>2
<1>5. GoodPages(all) BY <1>2, <1>3, <1>4 DEF GoodPages
<1>6. all # <<>> /\ Last(all) = page BY <1>2, <1>3 DEF Last
<1>7. ASSUME NEW i \in DOMAIN all
      PROVE  all[i].after = (IF i = 1 THEN 0 ELSE all[i - 1].last) /\ Within(all[i], limit)
  <2>1. CASE i \in DOMAIN pages BY <1>2, <1>3, <2>1 DEF Chained
  <2>2. CASE i = Len(pages) + 1
    <3>1. CASE pages = <<>>
      <4>1. i = 1 BY <1>1, <2>2, <3>1
      <4> QED BY <1>3, <2>2, <3>1, <4>1 DEF EndOf
    <3>2. CASE pages # <<>> BY <1>1, <1>2, <1>3, <2>2, <3>2 DEF Last, EndOf
    <3> QED BY <3>1, <3>2
  <2> QED BY <1>4, <1>7, <2>1, <2>2
<1>8. Chained(all, limit) BY <1>7 DEF Chained
<1> QED BY <1>3, <1>4, <1>5, <1>6, <1>8 DEF all

\* An answer for another execution, or one page of several, changes a call only.
LEMMA SameResultKeeps ==
  ASSUME FirestoreInv, OnlyCalls, UNCHANGED result,
         UNCHANGED <<view, draft, tabEpoch, nextRequestId, queryRequest, dialogVars, settled>>,
         NEW c \in DOMAIN calls, Others(c), NEW call, call = calls'[c],
         call = Done \/ GoodCall(call), ReadsFit'
  PROVE  FirestoreInv'
<1> USE DEF FirestoreInv
<1>1. PICK pages : pages = result.pages OBVIOUS
<1>2. pages = result'.pages /\ GoodPages(pages) BY <1>1 DEF ResultGood
<1>3. result' \in Results /\ result'.execution = result.execution BY DEF TabTyped, Results
<1>4. ~result'.stale /\ ~result'.unmarked => \A i \in DOMAIN pages : \A row \in pages[i].items : Fresh(row)
  BY <1>1 DEF ResultGood, StaleIsMarked, Rows, ToSet, Fresh
<1>5. /\ result.execution = None => pages = <<>>
      /\ result.execution # None => Chained(pages, result.execution.draft)
      /\ result'.fetching => result'.status = "success" /\ result'.hasMore
      /\ result'.status \in {"idle", "loading"} => pages = <<>>
      /\ result'.hasMore => pages # <<>> /\ Last(pages).next # None
  BY <1>1 DEF ResultGood
<1> QED BY <1>2, <1>3, <1>4, <1>5, ArrivedKeeps

\* A query that is complete shows its pages, if it is the current one.
LEMMA CompleteKeeps ==
  ASSUME FirestoreInv, NEW c \in DOMAIN calls, calls[c].op \in Reads, calls[c].op # "more",
         NEW e, e = calls[c].exec, Ends(c),
         NEW status \in {"error", "success"}, NEW pages, Complete(e, status, pages),
         GoodPages(pages), Chained(pages, e.draft),
         CurrentRead(c) /\ ~result.stale /\ ~result.unmarked =>
           \A i \in DOMAIN pages : \A row \in pages[i].items : Fresh(row),
         OnlyCalls,
         UNCHANGED <<view, draft, tabEpoch, nextRequestId, queryRequest, dialogVars, settled>>
  PROVE  FirestoreInv'
<1> USE DEF FirestoreInv
<1>1. Others(c) /\ calls'[c] = Done BY EndedCall
<1>2. calls[c] # Done BY DEF Done, Reads
<1>3. e \in Executions BY <1>2 DEF CallsGood, GoodCall, GoodRead
<1>4. e # None BY <1>3, TabAssumption DEF Executions
<1>5. result \in Results BY DEF TabTyped, Results
<1>6. CASE IsCurrentExecution(e)
  <2>1. result.execution = e /\ CurrentRead(c)
    BY <1>6 DEF IsCurrentExecution, ResultGood, CurrentRead
  <2>2. /\ result'.status = status /\ result'.execution = e /\ result'.pages = pages
        /\ ~result'.fetching /\ result'.stale = result.stale
        /\ result'.unmarked = result.unmarked
        /\ result'.hasMore = (e.draft # 0 /\ pages # <<>> /\ Last(pages).next # None)
    <3>1. result.stale \in BOOLEAN /\ result.unmarked \in BOOLEAN BY <1>5 DEF Results
    <3>2. PICK more : more = (e.draft # 0 /\ pages # <<>> /\ Last(pages).next # None) OBVIOUS
    <3>3. result' = [status |-> status, execution |-> e, pages |-> pages, hasMore |-> more,
                     fetching |-> FALSE, stale |-> StaleOf(e), unmarked |-> UnmarkedOf(e)]
      BY <1>6, <3>2 DEF Complete
    <3>4. StaleOf(e) = result.stale /\ UnmarkedOf(e) = result.unmarked
      BY <2>1, <3>1 DEF StaleOf, UnmarkedOf
    <3> QED BY <3>2, <3>3, <3>4
  <2>3. result' \in Results
    <3>1. pages \in Seq(Pages) BY DEF GoodPages
    <3>2. result' = [status |-> status, execution |-> e, pages |-> pages,
                     hasMore |-> e.draft # 0 /\ pages # <<>> /\ Last(pages).next # None,
                     fetching |-> FALSE, stale |-> StaleOf(e), unmarked |-> UnmarkedOf(e)]
      BY <1>6 DEF Complete
    <3>3. StaleOf(e) \in BOOLEAN /\ UnmarkedOf(e) \in BOOLEAN /\ (e.draft # 0 /\ pages # <<>> /\ Last(pages).next # None) \in BOOLEAN
      BY <1>5 DEF StaleOf, UnmarkedOf, Results
    <3> QED BY <1>3, <3>1, <3>2, <3>3 DEF Results
  <2>4. ReadsFit' BY <1>1, <2>1, <2>2, LastReadFits
  <2> QED BY <1>1, <1>4, <2>1, <2>2, <2>3, <2>4, ArrivedKeeps
<1>7. CASE ~IsCurrentExecution(e)
  BY <1>1, <1>7, StrangerFits, SameResultKeeps DEF Complete, CurrentRead, Done, Reads
<1> QED BY <1>6, <1>7
\* The pages there are when an answer has a page.
PagesOf(call) ==
  IF call.answer.page = None THEN <<>> ELSE Append(call.pages, call.answer.page)

\* They are good, each after the one before it, and fresh when the read is current.
LEMMA PagesArrived ==
  ASSUME FirestoreInv, NEW c \in DOMAIN calls, Answered(c, {"query", "document"}),
         calls[c].answer.status = "page"
  PROVE  /\ GoodPages(PagesOf(calls[c])) /\ Chained(PagesOf(calls[c]), calls[c].exec.draft)
         /\ calls[c].answer.page # None => Last(PagesOf(calls[c])) = calls[c].answer.page
         /\ CurrentRead(c) /\ ~result.stale /\ ~result.unmarked =>
              \A i \in DOMAIN PagesOf(calls[c]) : \A row \in PagesOf(calls[c])[i].items : Fresh(row)
<1> USE DEF FirestoreInv
<1>0. PICK call, page, pages :
        /\ call = calls[c] /\ page = call.answer.page /\ pages = PagesOf(call)
        /\ pages = IF page = None THEN <<>> ELSE Append(call.pages, page)
  BY DEF PagesOf
<1>1. call.op \in {"query", "document"} /\ call.stage = "answered" BY <1>0 DEF Answered
<1>2. call # Done BY <1>1 DEF Done
<1>3. GoodRead(call) BY <1>0, <1>1, <1>2 DEF CallsGood, GoodCall, Reads
<1>4. CASE page = None BY <1>0, <1>4, EmptySeq DEF GoodPages, Chained
<1>5. CASE page # None
  <2>1. HasPage(call) BY <1>0, <1>1, <1>5 DEF HasPage
  <2>2. PICK old, limit : old = call.pages /\ limit = call.exec.draft OBVIOUS
  <2>3. /\ GoodPages(old) /\ Chained(old, limit) /\ GoodPage(page) /\ Within(page, limit)
        /\ page.after = EndOf(old)
    BY <1>0, <1>1, <1>3, <2>1, <2>2 DEF GoodRead
  <2>4. pages = Append(old, page) BY <1>0, <1>5, <2>2
  <2>5. /\ GoodPages(pages) /\ Chained(pages, limit) /\ pages # <<>> /\ Last(pages) = page
        /\ DOMAIN pages = DOMAIN old \cup {Len(old) + 1}
        /\ \A i \in DOMAIN old : pages[i] = old[i]
        /\ pages[Len(old) + 1] = page
    <3>1. PICK all : all = Append(old, page) OBVIOUS
    <3>2. /\ GoodPages(all) /\ Chained(all, limit) /\ all # <<>> /\ Last(all) = page
          /\ DOMAIN all = DOMAIN old \cup {Len(old) + 1}
          /\ \A i \in DOMAIN old : all[i] = old[i]
          /\ all[Len(old) + 1] = page
      BY <2>3, <3>1, PagesAppended
    <3> QED BY <2>4, <3>1, <3>2
  <2>6. ASSUME CurrentRead(c), ~result.stale /\ ~result.unmarked
        PROVE  /\ \A i \in DOMAIN old : \A row \in old[i].items : Fresh(row)
               /\ \A row \in page.items : Fresh(row)
    BY <1>0, <2>1, <2>2, <2>6 DEF ReadsFit
  <2> QED BY <1>0, <1>5, <2>2, <2>5, <2>6
<1> QED BY <1>4, <1>5

\* A page of a query: more pages are asked for, or the query is complete.
LEMMA PageArrivesKeeps ==
  ASSUME FirestoreInv, NEW c \in DOMAIN calls, PageArrives(c)
  PROVE  FirestoreInv'
<1> USE DEF FirestoreInv
<1>1. PICK call, page, pages, e :
        /\ call = calls[c] /\ page = call.answer.page /\ e = call.exec
        /\ pages = IF page = None THEN <<>> ELSE Append(call.pages, page)
  OBVIOUS
<1>2. /\ Answered(c, {"query", "document"}) /\ OnlyCalls
      /\ UNCHANGED <<view, draft, tabEpoch, nextRequestId, queryRequest, dialogVars, settled>>
  BY DEF PageArrives
<1>3. call.op \in {"query", "document"} /\ call.stage = "answered" BY <1>1, <1>2 DEF Answered
<1>4. call # Done BY <1>3 DEF Done
<1>5. GoodCall(call) /\ GoodRead(call) BY <1>1, <1>3, <1>4 DEF CallsGood, GoodCall, Reads
<1>10. ASSUME call.answer.status = "page"
       PROVE  /\ GoodPages(pages) /\ Chained(pages, e.draft)
              /\ page # None => Last(pages) = page
              /\ CurrentRead(c) /\ ~result.stale /\ ~result.unmarked =>
                   \A i \in DOMAIN pages : \A row \in pages[i].items : Fresh(row)
  BY <1>1, <1>2, <1>10, PagesArrived DEF PagesOf
<1>6. \/ call.answer.status = "error" /\ Complete(e, "error", <<>>) /\ Ends(c)
      \/ /\ call.answer.status = "page" /\ pages # <<>> /\ Last(pages).next # None
         /\ calls' = [calls EXCEPT ![c] = Posted([call EXCEPT !.stage = "asked", !.answer = None,
                                                     !.pages = pages, !.cursor = page.next])]
         /\ UNCHANGED result
      \/ call.answer.status # "error" /\ Complete(e, "success", pages) /\ Ends(c)
  BY <1>1 DEF PageArrives
<1>7. CASE call.answer.status = "error" /\ Complete(e, "error", <<>>) /\ Ends(c)
  <2>1. <<>> \in Seq(Pages) BY EmptySeq
  <2>2. GoodPages(<<>>) /\ Chained(<<>>, e.draft) BY <2>1 DEF GoodPages, Chained
  <2> QED BY <1>1, <1>2, <1>3, <1>7, <2>2, CompleteKeeps DEF Reads
<1>8. CASE call.answer.status # "error" /\ Complete(e, "success", pages) /\ Ends(c)
  BY <1>1, <1>2, <1>3, <1>5, <1>8, <1>10, CompleteKeeps DEF GoodRead, Reads
<1>9. CASE /\ call.answer.status = "page" /\ pages # <<>> /\ Last(pages).next # None
           /\ calls' = [calls EXCEPT ![c] = Posted([call EXCEPT !.stage = "asked", !.answer = None,
                                                       !.pages = pages, !.cursor = page.next])]
           /\ UNCHANGED result
  <2>1. PICK next, new : /\ next = [call EXCEPT !.stage = "asked", !.answer = None,
                                                !.pages = pages, !.cursor = page.next]
                         /\ new = Posted(next)
    OBVIOUS
  <2>2. DOMAIN call = CallFields BY <1>5 DEF GoodCall
  <2>11. /\ DOMAIN next = CallFields /\ next.stage = "asked" /\ next.pages = pages
         /\ next.cursor = page.next /\ next.op = call.op /\ next.exec = e
    BY <1>1, <2>1, <2>2 DEF CallFields
  <2>4. Others(c) /\ calls'[c] = new
    <3>1. calls' = [calls EXCEPT ![c] = new] BY <1>9, <2>1
    <3> QED BY <3>1, ExceptAny DEF Others, CallsGood
  <2>5. /\ GoodPages(pages) /\ Chained(pages, e.draft) /\ page # None /\ Last(pages) = page
        /\ CurrentRead(c) /\ ~result.stale /\ ~result.unmarked =>
              \A i \in DOMAIN pages : \A row \in pages[i].items : Fresh(row)
    BY <1>1, <1>9, <1>10
  <2>6. call.op = "query" BY <1>1, <1>3, <1>5, <1>9, <2>5 DEF HasPage, GoodRead
  <2>12. ~HasPage(next) BY <2>11 DEF HasPage
  <2>8. GoodRead(next) BY <1>1, <1>5, <1>9, <2>11, <2>5, <2>6, <2>12 DEF GoodRead
  <2>13. GoodCall(next) BY <1>1, <1>3, <1>5, <2>11, <2>8 DEF GoodCall, Reads
  <2>9. GoodCall(new) /\ ~HasPage(new) BY <2>1, <2>11, <2>13, SentGood
  <2>3. new.pages = pages /\ new.cursor = page.next /\ new.op = call.op /\ new.exec = e
    BY <2>1, <2>11, <2>13, SentGood
  <2>10. ReadsFit'
    <3>1. \A i : CurrentRead(i)' => (i = c /\ CurrentRead(c)) \/ i # c
      BY <1>1, <1>9, <2>3, <2>4 DEF CurrentRead
    <3>2. \A i \in DOMAIN calls' : CurrentRead(i)' => i \in DOMAIN calls /\ CurrentRead(i)
      BY <1>1, <1>9, <2>3, <2>4 DEF CurrentRead, Others
    <3>3. \A i : HasPage(calls[i])' <=> HasPage(calls'[i]) BY DEF HasPage
    <3>4. \A row : Fresh(row)' <=> Fresh(row) BY <1>2, <1>9 DEF Fresh
    <3>5. ASSUME NEW i \in DOMAIN calls', CurrentRead(i)'
          PROVE  /\ \A b \in DOMAIN calls' : CurrentRead(b)' => b = i
                 /\ calls'[i].op # "more" => result'.status = "loading"
                 /\ calls'[i].op = "more" =>
                      /\ result'.fetching /\ calls'[i].cursor = Last(result'.pages).next
                      /\ HasPage(calls'[i]) => calls'[i].answer.page.after = Last(result'.pages).last
                 /\ ~result'.stale /\ ~result'.unmarked =>
                      /\ \A k \in DOMAIN calls'[i].pages : \A row \in calls'[i].pages[k].items : Fresh(row)
                      /\ HasPage(calls'[i]) => \A row \in calls'[i].answer.page.items : Fresh(row)
      <4>1. i \in DOMAIN calls /\ CurrentRead(i) BY <3>2, <3>5
      <4>2. \A b \in DOMAIN calls' : CurrentRead(b)' => b = i BY <3>2, <4>1 DEF ReadsFit
      <4>3. CASE i = c
        <5>1. result.status = "loading" BY <1>1, <1>3, <4>1, <4>3 DEF ReadsFit
        <5>2. calls'[i] = new /\ new.op # "more" /\ ~HasPage(new) BY <2>3, <2>4, <2>6, <2>9, <4>3
        <5> QED BY <1>9, <2>3, <2>5, <4>1, <4>2, <4>3, <5>1, <5>2
      <4>4. CASE i # c BY <1>9, <2>4, <4>1, <4>2, <4>4 DEF Others, ReadsFit
      <4> QED BY <4>3, <4>4
    <3> QED BY <3>3, <3>4, <3>5 DEF ReadsFit
  <2> QED BY <1>2, <1>9, <2>4, <2>9, <2>10, SameResultKeeps
<1> QED BY <1>6, <1>7, <1>8, <1>9

\* A further page is appended to the pages it was asked after, or dropped.
LEMMA MoreArrivesKeeps ==
  ASSUME FirestoreInv, NEW c \in DOMAIN calls, MoreArrives(c)
  PROVE  FirestoreInv'
<1> USE DEF FirestoreInv
<1>1. PICK call, page, e : call = calls[c] /\ page = call.answer.page /\ e = call.exec OBVIOUS
<1>2. /\ Answered(c, {"more"}) /\ OnlyCalls /\ Ends(c)
      /\ UNCHANGED <<view, draft, tabEpoch, nextRequestId, queryRequest, dialogVars, settled>>
  BY DEF MoreArrives
<1>3. call.op = "more" /\ call.stage = "answered" BY <1>1, <1>2 DEF Answered
<1>4. call # Done BY <1>3 DEF Done
<1>5. GoodCall(call) /\ GoodRead(call) BY <1>1, <1>3, <1>4 DEF CallsGood, GoodCall, Reads
<1>6. e \in Executions /\ e # None
  <2>1. e \in Executions BY <1>1, <1>5 DEF GoodRead
  <2> QED BY <2>1, TabAssumption DEF Executions
<1>7. Others(c) /\ calls'[c] = Done BY <1>2, EndedCall
<1>8. result \in Results BY DEF TabTyped, Results
<1>9. CASE ~IsCurrentResult(e)
  BY <1>1, <1>2, <1>7, <1>9, StrangerFits, SameResultKeeps DEF MoreArrives, CurrentRead, Done, Reads
<1>10. CASE IsCurrentResult(e)
  <2>1. result.execution = e /\ CurrentRead(c)
    BY <1>1, <1>3, <1>10 DEF IsCurrentResult, CurrentRead, Reads
  <2>2. PICK old : old = result.pages OBVIOUS
  <2>3. /\ result.fetching /\ result.status = "success" /\ result.hasMore
        /\ old # <<>> /\ Last(old).next # None /\ GoodPages(old) /\ Chained(old, e.draft)
    BY <1>1, <1>3, <2>1, <1>6, <2>2 DEF ReadsFit, ResultGood
  <2>4. ~result.stale /\ ~result.unmarked => \A i \in DOMAIN old : \A row \in old[i].items : Fresh(row)
    BY <1>6, <2>1, <2>2 DEF StaleIsMarked, Rows, ToSet, Fresh
  <2>5. CASE call.answer.status = "error"
    <3>1. result' = MoreFailed BY <1>1, <1>10, <2>5 DEF MoreArrives
    <3>2. /\ result' \in Results /\ result'.execution = result.execution /\ result'.pages = old
          /\ result'.hasMore = result.hasMore /\ ~result'.fetching /\ result'.status = "error"
          /\ result'.stale = result.stale /\ result'.unmarked = result.unmarked
      BY <1>8, <2>2, <3>1 DEF MoreFailed, Results
    <3>3. ReadsFit' BY <1>7, <2>1, <3>2, LastReadFits
    <3> QED BY <1>2, <1>6, <1>7, <2>1, <2>3, <2>4, <3>2, <3>3, ArrivedKeeps
  <2>6. CASE call.answer.status # "error"
    <3>1. HasPage(call) BY <1>3, <1>5, <2>6 DEF HasPage, GoodRead
    <3>2. /\ GoodPage(page) /\ Within(page, e.draft) /\ page.after = EndOf(old)
      BY <1>1, <1>3, <1>5, <2>1, <2>2, <2>3, <3>1 DEF GoodRead, ReadsFit, EndOf
    <3>3. PICK pages : pages = Append(old, page) OBVIOUS
    <3>4. PICK limit : limit = e.draft OBVIOUS
    <3>5. Chained(old, limit) /\ Within(page, limit) BY <2>3, <3>2, <3>4
    <3>6. /\ GoodPages(pages) /\ Chained(pages, limit) /\ pages # <<>> /\ Last(pages) = page
          /\ DOMAIN pages = DOMAIN old \cup {Len(old) + 1}
          /\ \A i \in DOMAIN old : pages[i] = old[i]
          /\ pages[Len(old) + 1] = page
      BY <2>3, <3>2, <3>3, <3>5, PagesAppended
    <3>7. result' = [result EXCEPT !.fetching = FALSE, !.status = "success",
                        !.pages = pages, !.hasMore = page.next # None]
      BY <1>1, <1>10, <2>2, <2>6, <3>3 DEF MoreArrives
    <3>8. pages \in Seq(Pages) BY <3>6 DEF GoodPages
    <3>9. /\ result' \in Results /\ result'.execution = result.execution /\ result'.pages = pages
          /\ result'.hasMore = (page.next # None) /\ ~result'.fetching
          /\ result'.status = "success" /\ result'.stale = result.stale
          /\ result'.unmarked = result.unmarked
      BY <1>8, <3>7, <3>8 DEF Results
    <3>10. ~result.stale /\ ~result.unmarked => \A row \in page.items : Fresh(row) BY <1>1, <2>1, <3>1 DEF ReadsFit
    <3>11. ReadsFit' BY <1>7, <2>1, <3>9, LastReadFits
    <3>12. ~result'.stale /\ ~result'.unmarked => \A i \in DOMAIN pages : \A row \in pages[i].items : Fresh(row)
      BY <2>4, <3>6, <3>9, <3>10
    <3>13. result.execution # None => Chained(pages, result.execution.draft) BY <2>1, <3>4, <3>6
    <3> QED BY <1>2, <1>6, <1>7, <2>1, <3>6, <3>9, <3>11, <3>12, <3>13, ArrivedKeeps
  <2> QED BY <2>5, <2>6
<1> QED BY <1>9, <1>10

----------------
(* Writes that settle *)

\* Pages that have changed in nothing but their rows.
SamePages(old, new) ==
  /\ old \in Seq(Pages) /\ new \in Seq(Pages) /\ DOMAIN new = DOMAIN old /\ Len(new) = Len(old)
  /\ \A i \in DOMAIN old :
       /\ new[i].after = old[i].after /\ new[i].last = old[i].last /\ new[i].next = old[i].next
       /\ IsFiniteSet(old[i].items) /\ IsFiniteSet(new[i].items)
       /\ Cardinality(new[i].items) <= Cardinality(old[i].items)

\* Pages whose rows become other known rows, and no more, stay good.
LEMMA RowsChanged ==
  ASSUME NEW old, GoodPages(old),
         NEW items, NEW new, new = [i \in DOMAIN old |-> [old[i] EXCEPT !.items = items[i]]],
         \A i \in DOMAIN old :
           /\ IsFiniteSet(items[i]) /\ Cardinality(items[i]) <= Cardinality(old[i].items)
           /\ \A row \in items[i] : Known(row)
  PROVE  GoodPages(new) /\ SamePages(old, new)
<1>1. old \in Seq(Pages) /\ \A i \in DOMAIN old : GoodPage(old[i]) BY DEF GoodPages
<1>2. Len(old) \in Nat /\ DOMAIN old = 1..Len(old) BY <1>1
<1>3. DOMAIN new = DOMAIN old /\ \A i \in DOMAIN old : new[i] = [old[i] EXCEPT !.items = items[i]]
  OBVIOUS
<1>4. ASSUME NEW i \in DOMAIN old
      PROVE  /\ new[i] \in Pages /\ new[i].items = items[i] /\ new[i].after = old[i].after
             /\ new[i].last = old[i].last /\ new[i].next = old[i].next /\ GoodPage(new[i])
             /\ IsFiniteSet(old[i].items)
  <2>1. PICK page, rows : page = old[i] /\ rows = items[i] OBVIOUS
  <2>2. page \in Pages /\ IsFiniteSet(page.items) /\ Continues(page) BY <1>1, <2>1 DEF GoodPage
  <2>3. rows \in SUBSET Row BY <2>1 DEF Known
  <2>4. PICK p : p = [page EXCEPT !.items = rows] OBVIOUS
  <2>5. /\ p \in Pages /\ p.items = rows /\ p.after = page.after /\ p.last = page.last
        /\ p.next = page.next
    BY <2>2, <2>3, <2>4 DEF Pages
  <2>6. new[i] = p BY <1>3, <2>1, <2>4
  <2>7. Continues(p) BY <2>2, <2>5 DEF Continues
  <2> QED BY <2>1, <2>2, <2>5, <2>6, <2>7 DEF GoodPage
<1>5. new \in Seq(Pages) /\ Len(new) = Len(old) BY <1>2, <1>3, <1>4, SeqDef, LenProperties
<1>6. GoodPages(new) BY <1>3, <1>4, <1>5 DEF GoodPages
<1>7. SamePages(old, new) BY <1>1, <1>3, <1>4, <1>5 DEF SamePages
<1> QED BY <1>6, <1>7

\* The rows after a document was saved: those of it become what was saved.
LEMMA ReplacedRows ==
  ASSUME ResultGood, NEW row, Known(row), NEW old, old = result.pages,
         NEW new, new = Replaced(row).pages, result \in Results
  PROVE  GoodPages(new) /\ SamePages(old, new)
<1> DEFINE items == [i \in DOMAIN old |-> {IF x.doc = row.doc THEN row ELSE x : x \in old[i].items}]
<1>1. GoodPages(old) BY DEF ResultGood
<1>2. new = [i \in DOMAIN old |-> [old[i] EXCEPT !.items = items[i]]]
  <2>1. Replaced(row) =
          [result EXCEPT !.stale = TRUE,
             !.pages = [i \in DOMAIN old |-> [old[i] EXCEPT !.items =
                           {IF x.doc = row.doc THEN row ELSE x : x \in old[i].items}]]]
    BY DEF Replaced, WithItems
  <2>2. PICK p : p = [i \in DOMAIN old |-> [old[i] EXCEPT !.items = items[i]]] OBVIOUS
  <2>3. Replaced(row) = [result EXCEPT !.stale = TRUE, !.pages = p] BY <2>1, <2>2
  <2> HIDE DEF items
  <2> QED BY <2>2, <2>3 DEF Results
<1>3. ASSUME NEW i \in DOMAIN old
      PROVE  /\ IsFiniteSet(items[i]) /\ Cardinality(items[i]) <= Cardinality(old[i].items)
             /\ \A x \in items[i] : Known(x)
  <2>1. PICK S : S = old[i].items OBVIOUS
  <2>2. IsFiniteSet(S) /\ \A x \in S : Known(x) BY <1>1, <2>1 DEF GoodPages, GoodPage
  <2> DEFINE f == [x \in S |-> IF x.doc = row.doc THEN row ELSE x]
  <2>3. f \in [S -> {f[x] : x \in S}] OBVIOUS
  <2>4. items[i] = {f[x] : x \in S} BY <2>1
  <2>5. \A x \in S : Known(f[x]) BY <2>2
  <2> HIDE DEF f, items
  <2>6. IsFiniteSet({f[x] : x \in S}) /\ Cardinality({f[x] : x \in S}) <= Cardinality(S)
    BY <2>2, <2>3, ImageFinite
  <2> QED BY <2>1, <2>4, <2>5, <2>6
<1> HIDE DEF items
<1> QED BY <1>1, <1>2, <1>3, RowsChanged

\* The rows after a document was deleted: those of it are gone.
LEMMA RemovedRows ==
  ASSUME ResultGood, NEW d, NEW old, old = result.pages, NEW new, new = Removed(d).pages,
         result \in Results
  PROVE  GoodPages(new) /\ SamePages(old, new)
<1> DEFINE items == [i \in DOMAIN old |-> {x \in old[i].items : x.doc # d}]
<1>1. GoodPages(old) BY DEF ResultGood
<1>2. new = [i \in DOMAIN old |-> [old[i] EXCEPT !.items = items[i]]]
  <2>1. Removed(d) =
          [result EXCEPT !.stale = TRUE,
             !.pages = [i \in DOMAIN old |-> [old[i] EXCEPT !.items =
                           {x \in old[i].items : x.doc # d}]]]
    BY DEF Removed, WithItems
  <2>2. PICK p : p = [i \in DOMAIN old |-> [old[i] EXCEPT !.items = items[i]]] OBVIOUS
  <2>3. Removed(d) = [result EXCEPT !.stale = TRUE, !.pages = p] BY <2>1, <2>2
  <2> HIDE DEF items
  <2> QED BY <2>2, <2>3 DEF Results
<1>3. ASSUME NEW i \in DOMAIN old
      PROVE  /\ IsFiniteSet(items[i]) /\ Cardinality(items[i]) <= Cardinality(old[i].items)
             /\ \A x \in items[i] : Known(x)
  <2>1. PICK S : S = old[i].items OBVIOUS
  <2>2. IsFiniteSet(S) /\ \A x \in S : Known(x) BY <1>1, <2>1 DEF GoodPages, GoodPage
  <2>3. items[i] \subseteq S BY <2>1
  <2> HIDE DEF items
  <2>4. IsFiniteSet(items[i]) /\ Cardinality(items[i]) <= Cardinality(S) BY <2>2, <2>3, FS_Subset
  <2> QED BY <2>1, <2>2, <2>3, <2>4
<1> HIDE DEF items
<1> QED BY <1>1, <1>2, <1>3, RowsChanged

\* Calls end or stay; the results are marked, or neither they nor what the tab was told for
\* their query have changed.
LEMMA MarkedKeeps ==
  ASSUME FirestoreInv, UNCHANGED <<documents, clock, cursors, nextToken, lost, blind>>,
         UNCHANGED <<view, draft, tabEpoch, nextRequestId, queryRequest>>,
         calls' \in Seq(ToSet(calls')), DOMAIN calls' = DOMAIN calls,
         \A i \in DOMAIN calls : calls'[i] = Done \/ calls'[i] = calls[i],
         result' \in Results, result'.execution = result.execution,
         result'.status = result.status, result'.hasMore = result.hasMore,
         result'.fetching = result.fetching,
         NEW old, old = result.pages, NEW new, new = result'.pages,
         GoodPages(new), SamePages(old, new),
         \/ result'.stale \/ result'.unmarked
         \/ /\ result' = result
            /\ result.execution # None =>
                 settled'[result.execution.draft] = settled[result.execution.draft],
         settled' \in [Drafts -> [Docs -> Nat]], SettledWritten', DialogsGood'
  PROVE  FirestoreInv'
<1> USE DEF FirestoreInv
<1>1. DocumentsTyped' /\ Later BY SameDocuments
<1>2. TabTyped' BY DEF TabTyped, Results
<1>3. GoodPages(new)' BY <1>1, GoodPagesLater
<1>4. new = <<>> <=> old = <<>> BY EmptySeq DEF SamePages
<1>5. old # <<>> => Len(old) \in DOMAIN old
  <2>1. old \in Seq(Pages) BY DEF SamePages
  <2> QED BY <2>1
<1>6. old # <<>> => Last(new).next = Last(old).next /\ Last(new).last = Last(old).last
  BY <1>5 DEF SamePages, Last
<1>7. result.execution # None => Chained(new, result.execution.draft)
  <2> SUFFICES ASSUME result.execution # None, NEW i \in DOMAIN new
               PROVE  /\ new[i].after = (IF i = 1 THEN 0 ELSE new[i - 1].last)
                      /\ Within(new[i], result.execution.draft)
    BY DEF Chained
  <2>1. /\ old[i].after = (IF i = 1 THEN 0 ELSE old[i - 1].last)
        /\ Within(old[i], result.execution.draft) /\ i \in DOMAIN old
    BY DEF SamePages, ResultGood, Chained
  <2>2. i # 1 => i - 1 \in DOMAIN old BY <2>1 DEF SamePages
  <2>3. new[i].after = (IF i = 1 THEN 0 ELSE new[i - 1].last) BY <2>1, <2>2 DEF SamePages
  <2>4. Within(new[i], result.execution.draft)
    <3>1. result.execution.draft \in Nat BY TabAssumption DEF Results, Executions
    <3>2. PICK a, b : a = Cardinality(old[i].items) /\ b = Cardinality(new[i].items) OBVIOUS
    <3>3. a \in Nat /\ b \in Nat /\ b <= a BY <2>1, <3>2, FS_CardinalityType DEF SamePages
    <3> QED BY <2>1, <3>1, <3>2, <3>3 DEF Within
  <2> QED BY <2>3, <2>4
<1>8. ResultGood' BY <1>3, <1>4, <1>6, <1>7 DEF ResultGood, Chained, Within
<1>9. StaleIsMarked' BY DEF StaleIsMarked, Rows
<1>10. CallsGood'
  <2>1. ASSUME NEW i \in DOMAIN calls'
        PROVE  calls'[i] = Done \/ GoodCall(calls[i])'
    <3>1. PICK was : was = calls[i] OBVIOUS
    <3>2. was = Done \/ GoodCall(was)' BY <1>1, <3>1, GoodCallLater DEF CallsGood, TabTyped
    <3>3. calls'[i] = Done \/ calls'[i] = was BY <3>1
    <3> QED BY <3>2, <3>3
  <2> QED BY <2>1 DEF CallsGood
<1>11. ReadsFit'
  <2>1. \A i \in DOMAIN calls' : CurrentRead(i)' =>
          i \in DOMAIN calls /\ CurrentRead(i) /\ calls'[i] = calls[i]
    BY DEF CurrentRead, Done, Reads
  <2>2. \A i : HasPage(calls[i])' <=> HasPage(calls'[i]) BY DEF HasPage
  <2>3. ASSUME NEW i \in DOMAIN calls', CurrentRead(i)'
        PROVE  /\ \A b \in DOMAIN calls' : CurrentRead(b)' => b = i
               /\ calls'[i].op # "more" => result'.status = "loading"
               /\ calls'[i].op = "more" =>
                    /\ result'.fetching /\ calls'[i].cursor = Last(new).next
                    /\ HasPage(calls'[i]) => calls'[i].answer.page.after = Last(new).last
               /\ ~result'.stale /\ ~result'.unmarked =>
                    /\ \A k \in DOMAIN calls'[i].pages :
                         \A row \in calls'[i].pages[k].items : Fresh(row)'
                    /\ HasPage(calls'[i]) => \A row \in calls'[i].answer.page.items : Fresh(row)'
    <3>1. i \in DOMAIN calls /\ CurrentRead(i) /\ calls'[i] = calls[i] BY <2>1, <2>3
    <3>2. /\ calls[i].op # "more" => result.status = "loading"
          /\ calls[i].op = "more" =>
               /\ result.fetching /\ calls[i].cursor = Last(old).next
               /\ HasPage(calls[i]) => calls[i].answer.page.after = Last(old).last
          /\ ~result.stale /\ ~result.unmarked =>
               /\ \A k \in DOMAIN calls[i].pages : \A row \in calls[i].pages[k].items : Fresh(row)
               /\ HasPage(calls[i]) => \A row \in calls[i].answer.page.items : Fresh(row)
      BY <3>1 DEF ReadsFit
    <3>3. calls[i].op = "more" => old # <<>> BY <3>2 DEF ResultGood
    <3>4. result.execution # None
      <4>1. calls[i] # Done BY <3>1 DEF CurrentRead, Done, Reads
      <4>2. calls[i].exec \in Executions BY <3>1, <4>1 DEF CallsGood, GoodCall, GoodRead, CurrentRead
      <4> QED BY <3>1, <4>2, TabAssumption DEF CurrentRead, Executions
    <3>5. ~result'.stale /\ ~result'.unmarked => ~result.stale /\ ~result.unmarked /\ \A row : Fresh(row)' <=> Fresh(row) BY <3>4 DEF Fresh
    <3>6. \A b \in DOMAIN calls' : CurrentRead(b)' => b = i BY <2>1, <3>1 DEF ReadsFit
    <3> QED BY <1>6, <3>1, <3>2, <3>3, <3>5, <3>6
  <2> QED BY <2>2, <2>3 DEF ReadsFit
<1>12. NoSilentOverwrite' BY DEF NoSilentOverwrite
<1> QED BY <1>1, <1>2, <1>8, <1>9, <1>10, <1>11, <1>12

\* Results whose mark was given to others.
Unmarked == [result EXCEPT !.unmarked = TRUE]

\* Results that are marked, or have a row replaced or removed, stay good.
LEMMA ResultChanged ==
  ASSUME ResultGood, result \in Results, NEW old, old = result.pages, NEW new, new = result'.pages,
         \/ result' \in {result, MarkedStale, Unmarked}
         \/ \E row : Known(row) /\ result' = Replaced(row)
         \/ \E d : result' = Removed(d)
  PROVE  /\ result' \in Results /\ result'.execution = result.execution
         /\ result'.status = result.status /\ result'.hasMore = result.hasMore
         /\ result'.fetching = result.fetching /\ (result' = result \/ result'.stale \/ result'.unmarked)
         /\ GoodPages(new) /\ SamePages(old, new)
<1>1. GoodPages(old) BY DEF ResultGood
<1>2. SamePages(old, old) BY <1>1, FS_CardinalityType DEF GoodPages, GoodPage, SamePages
<1>3. CASE result' = result BY <1>1, <1>2, <1>3
<1>4. CASE result' \in {MarkedStale, Unmarked}
  BY <1>1, <1>2, <1>4 DEF MarkedStale, Unmarked, Results
<1>5. ASSUME NEW p, result' = [result EXCEPT !.stale = TRUE, !.pages = p], GoodPages(new)
      PROVE  /\ result' \in Results /\ result'.execution = result.execution
             /\ result'.status = result.status /\ result'.hasMore = result.hasMore
             /\ result'.fetching = result.fetching /\ result'.stale
  BY <1>5 DEF Results, GoodPages
<1>6. CASE \E row : Known(row) /\ result' = Replaced(row)
  <2>1. PICK row : Known(row) /\ result' = Replaced(row) BY <1>6
  <2>2. new = Replaced(row).pages BY <2>1
  <2>3. GoodPages(new) /\ SamePages(old, new) BY <2>1, <2>2, ReplacedRows
  <2>4. \E p : result' = [result EXCEPT !.stale = TRUE, !.pages = p] BY <2>1 DEF Replaced, WithItems
  <2> QED BY <1>5, <2>3, <2>4
<1>7. CASE \E d : result' = Removed(d)
  <2>1. PICK d : result' = Removed(d) BY <1>7
  <2>2. new = Removed(d).pages BY <2>1
  <2>3. GoodPages(new) /\ SamePages(old, new) BY <2>1, <2>2, RemovedRows
  <2>4. \E p : result' = [result EXCEPT !.stale = TRUE, !.pages = p] BY <2>1 DEF Removed, WithItems
  <2> QED BY <1>5, <2>3, <2>4
<1> QED BY <1>3, <1>4, <1>6, <1>7

\* The tab is told no more than was written.
LEMMA ToldOfWritten ==
  ASSUME DocumentsTyped, TabTyped, SettledWritten, NEW e \in Executions \cup {None},
         NEW d \in Docs, NEW version \in Nat, version <= documents[d].version,
         ToldOf(e, d, version), UNCHANGED <<documents, job>>
  PROVE  /\ settled' \in [Drafts -> [Docs -> Nat]] /\ SettledWritten'
         /\ \A q \in Drafts : e = None \/ q # e.draft => settled'[q] = settled[q]
<1>1. settled \in [Drafts -> [Docs -> Nat]] BY DEF TabTyped
<1>2. CASE e = None BY <1>1, <1>2 DEF ToldOf, SettledWritten
<1>3. CASE e # None
  <2>1. PICK q \in Drafts : q = e.draft BY <1>3 DEF Executions
  <2>2. settled' = [settled EXCEPT ![q][d] = IF settled[q][d] > version THEN settled[q][d] ELSE version]
    BY <1>3, <2>1 DEF ToldOf
  <2>3. settled' \in [Drafts -> [Docs -> Nat]] BY <1>1, <2>2
  <2>4. \A p \in Drafts, x \in Docs :
          settled'[p][x] = settled[p][x] \/ (x = d /\ settled'[p][x] = version)
    BY <1>1, <2>2
  <2>5. \A p \in Drafts : p # q => settled'[p] = settled[p] BY <1>1, <2>2
  <2>6. SettledWritten' BY <2>4 DEF SettledWritten
  <2> QED BY <1>3, <2>1, <2>3, <2>5, <2>6
<1> QED BY <1>2, <1>3

\* Nor does a created document or a job tell it more, for every draft.
LEMMA ToldAllWritten ==
  ASSUME DocumentsTyped, TabTyped, SettledWritten,
         NEW d \in Docs, NEW version \in Nat, version <= documents[d].version,
         ToldAll(d, version), UNCHANGED documents, job' \in {job, None}
  PROVE  settled' \in [Drafts -> [Docs -> Nat]] /\ SettledWritten'
BY DEF TabTyped, ToldAll, SettledWritten

\* A call ends, and the results change as they may.
LEMMA SettledKeeps ==
  ASSUME FirestoreInv, NEW c \in DOMAIN calls, Ends(c), OnlyCalls,
         UNCHANGED <<view, draft, tabEpoch, nextRequestId, queryRequest>>,
         \/ result' \in {result, MarkedStale, Unmarked}
         \/ \E row : Known(row) /\ result' = Replaced(row)
         \/ \E d : result' = Removed(d),
         result' = result /\ result.execution # None =>
           result.stale \/ result.unmarked
             \/ settled'[result.execution.draft] = settled[result.execution.draft],
         settled' \in [Drafts -> [Docs -> Nat]], SettledWritten', DialogsGood'
  PROVE  FirestoreInv'
<1> USE DEF OnlyCalls, Repository
<1>1. ResultGood /\ result \in Results /\ CallsGood BY DEF FirestoreInv, TabTyped, Results
<1>2. PICK old, new : old = result.pages /\ new = result'.pages OBVIOUS
<1>3. /\ result' \in Results /\ result'.execution = result.execution
      /\ result'.status = result.status /\ result'.hasMore = result.hasMore
      /\ result'.fetching = result.fetching /\ (result' = result \/ result'.stale \/ result'.unmarked)
      /\ GoodPages(new) /\ SamePages(old, new)
  BY <1>1, <1>2, ResultChanged
<1>4. Others(c) /\ calls'[c] = Done BY <1>1, EndedCall
<1>5. /\ calls' \in Seq(ToSet(calls')) /\ DOMAIN calls' = DOMAIN calls
      /\ \A i \in DOMAIN calls : calls'[i] = Done \/ calls'[i] = calls[i]
  BY <1>4 DEF Others
<1>6. \/ result'.stale \/ result'.unmarked
      \/ /\ result' = result
         /\ result.execution # None =>
              settled'[result.execution.draft] = settled[result.execution.draft]
  BY <1>3
<1> QED BY <1>2, <1>3, <1>5, <1>6, MarkedKeeps

\* A write that succeeded for a query: its results have it or are marked, or are of another.
LEMMA AppliedOrMarked ==
  ASSUME TabTyped, NEW e \in Executions \cup {None}, NEW change, Applied(e, change)
  PROVE  /\ result' = result \/ result' = MarkedStale \/ result' = change
         /\ \/ result' \in {MarkedStale, change} \/ e = None
            \/ result.execution = None \/ result.execution.draft # e.draft
BY TabAssumption DEF Applied, Disposition, IsCurrentResult, IsCurrentExecution

\* The answer to a write: the rows become what it says, or the results are marked.
LEMMA WriteSettlesKeeps ==
  ASSUME FirestoreInv, NEW c \in DOMAIN calls, WriteSettles(c)
  PROVE  FirestoreInv'
<1> USE DEF FirestoreInv
<1>1. PICK call, answer, e : call = calls[c] /\ answer = call.answer /\ e = call.exec OBVIOUS
<1>2. /\ Answered(c, {"save", "patch", "delete", "create"}) /\ Ends(c) /\ OnlyCalls
      /\ UNCHANGED <<view, draft, tabEpoch, nextRequestId, queryRequest>>
  BY DEF WriteSettles
<1> USE DEF OnlyCalls, Repository
<1>3. call.op \in {"save", "patch", "delete", "create"} /\ call.stage = "answered"
  BY <1>1, <1>2 DEF Answered
<1>4. call # Done BY <1>3 DEF Done
<1>5. GoodCall(call) BY <1>1, <1>4 DEF CallsGood
<1>6. GoodWrite(call) /\ TrueAnswer(call) BY <1>3, <1>5 DEF GoodCall, GoodWrite, Reads
<1>7. call.doc \in Docs /\ e \in Executions \cup {None} BY <1>1, <1>5, <1>6 DEF GoodCall, GoodWrite
<1>8. DocumentsTyped' /\ Later BY <1>2, SameDocuments
<1>9. \A row : Known(row)' <=> Known(row) BY <1>2 DEF Known, RowOf
<1>10. \A patch : GoodPatch(patch)' <=> GoodPatch(patch) BY <1>2 DEF GoodPatch
<1>11. settled \in [Drafts -> [Docs -> Nat]] /\ \A d \in Docs : documents[d].version \in Nat
  BY DEF TabTyped, DocumentsTyped
<1>12. result.execution # None => result.execution.draft \in Drafts
  BY DEF TabTyped, Results, Executions
<1>13. CASE answer.status = "error" /\ UNCHANGED <<result, dialogVars, settled>>
  BY <1>2, <1>8, <1>11, <1>13, DialogsLater, SettledKeeps DEF SettledWritten
<1>14. CASE /\ answer.status = "conflict"
            /\ conflictMerge' \in {[remote |-> answer.remote, closes |-> call.closes], conflictMerge}
            /\ UNCHANGED <<result, fieldEditor, stalePatch, settled>>
  <2>1. answer.remote # None => Known(answer.remote) BY <1>1, <1>6, <1>14 DEF TrueAnswer
  <2>2. conflictMerge' # None /\ conflictMerge'.remote # None => Known(conflictMerge'.remote)
    BY <1>14, <2>1 DEF DialogsGood
  <2>3. DialogsGood' BY <1>9, <1>10, <1>14, <2>2 DEF DialogsGood
  <2>4. SettledWritten' BY <1>2, <1>14 DEF SettledWritten
  <2> QED BY <1>2, <1>11, <1>14, <2>3, <2>4, SettledKeeps
<1>15. CASE /\ answer.status = "document-changed" /\ stalePatch' \in {call, stalePatch}
            /\ UNCHANGED <<result, fieldEditor, conflictMerge, settled>>
  <2>1. /\ DOMAIN call = CallFields /\ GoodPatch(call) /\ Known(answer.remote)
        /\ answer.remote.doc = call.doc /\ answer.remote.values[call.field] = call.value
    BY <1>1, <1>5, <1>6, <1>15 DEF TrueAnswer, GoodWrite, GoodCall
  <2>2. stalePatch' # None =>
          /\ DOMAIN stalePatch' = CallFields /\ GoodPatch(stalePatch')
          /\ Known(stalePatch'.answer.remote) /\ stalePatch'.answer.remote.doc = stalePatch'.doc
          /\ stalePatch'.answer.remote.values[stalePatch'.field] = stalePatch'.value
    BY <1>1, <1>15, <2>1 DEF DialogsGood
  <2>3. DialogsGood' BY <1>9, <1>10, <1>15, <2>2 DEF DialogsGood
  <2>4. SettledWritten' BY <1>2, <1>15 DEF SettledWritten
  <2> QED BY <1>2, <1>11, <1>15, <2>3, <2>4, SettledKeeps
<1>16. CASE /\ answer.status = "saved"
            /\ Applied(e, Replaced(answer.row)) /\ ToldOf(e, call.doc, answer.row.version)
            /\ fieldEditor' \in {None, fieldEditor} /\ conflictMerge' \in {None, conflictMerge}
            /\ UNCHANGED stalePatch
  <2>1. PICK row : row = answer.row OBVIOUS
  <2>2. Known(row) /\ row.doc = call.doc BY <1>1, <1>6, <1>16, <2>1 DEF TrueAnswer
  <2>3. row.version \in Nat /\ row.version <= documents[call.doc].version BY <2>2 DEF Known, Row
  <2>4. /\ settled' \in [Drafts -> [Docs -> Nat]] /\ SettledWritten'
        /\ \A q \in Drafts : e = None \/ q # e.draft => settled'[q] = settled[q]
    BY <1>2, <1>7, <1>16, <2>1, <2>3, ToldOfWritten
  <2>5. PICK change : change = Replaced(row) OBVIOUS
  <2>6. /\ result' = result \/ result' = MarkedStale \/ result' = change
        /\ \/ result' \in {MarkedStale, change} \/ e = None
           \/ result.execution = None \/ result.execution.draft # e.draft
    BY <1>7, <1>16, <2>1, <2>5, AppliedOrMarked
  <2>7. change.stale /\ MarkedStale.stale BY <2>5 DEF Replaced, WithItems, MarkedStale, TabTyped
  <2>8. DialogsGood' BY <1>9, <1>10, <1>16 DEF DialogsGood
  <2>9. result' = result /\ result.execution # None =>
          result.stale \/ settled'[result.execution.draft] = settled[result.execution.draft]
    BY <1>12, <2>4, <2>6, <2>7
  <2>10. \/ result' = result \/ result' = MarkedStale
         \/ \E r : Known(r) /\ result' = Replaced(r)
         \/ \E d : result' = Removed(d)
    BY <2>2, <2>5, <2>6
  <2> QED BY <1>2, <2>4, <2>8, <2>9, <2>10, SettledKeeps
<1>17. CASE /\ answer.status = "saved" /\ call.op = "create"
            /\ result' \in {MarkedStale, Unmarked} /\ ToldAll(call.doc, answer.row.version)
            /\ UNCHANGED dialogVars
  <2>1. PICK row : row = answer.row OBVIOUS
  <2>2. Known(row) /\ row.doc = call.doc BY <1>1, <1>6, <1>17, <2>1 DEF TrueAnswer
  <2>3. row.version \in Nat /\ row.version <= documents[call.doc].version BY <2>2 DEF Known, Row
  <2>4. settled' \in [Drafts -> [Docs -> Nat]] /\ SettledWritten'
    BY <1>2, <1>7, <1>17, <2>1, <2>3, ToldAllWritten
  <2>5. MarkedStale.stale /\ Unmarked.unmarked BY DEF MarkedStale, Unmarked, TabTyped, Results
  <2>6. DialogsGood' BY <1>8, <1>17, DialogsLater
  <2> QED BY <1>2, <1>17, <2>4, <2>5, <2>6, SettledKeeps
<1>18. CASE /\ answer.status = "deleted"
            /\ Applied(e, Removed(call.doc)) /\ ToldOf(e, call.doc, answer.version)
            /\ UNCHANGED dialogVars
  <2>1. answer.version \in Nat /\ answer.version <= documents[call.doc].version
    BY <1>1, <1>6, <1>18 DEF TrueAnswer
  <2>2. /\ settled' \in [Drafts -> [Docs -> Nat]] /\ SettledWritten'
        /\ \A q \in Drafts : e = None \/ q # e.draft => settled'[q] = settled[q]
    BY <1>2, <1>7, <1>18, <2>1, ToldOfWritten
  <2>3. PICK change : change = Removed(call.doc) OBVIOUS
  <2>4. /\ result' = result \/ result' = MarkedStale \/ result' = change
        /\ \/ result' \in {MarkedStale, change} \/ e = None
           \/ result.execution = None \/ result.execution.draft # e.draft
    BY <1>7, <1>18, <2>3, AppliedOrMarked
  <2>5. change.stale /\ MarkedStale.stale BY <2>3 DEF Removed, WithItems, MarkedStale, TabTyped
  <2>6. DialogsGood' BY <1>8, <1>18, DialogsLater
  <2>7. result' = result /\ result.execution # None =>
          result.stale \/ settled'[result.execution.draft] = settled[result.execution.draft]
    BY <1>12, <2>2, <2>4, <2>5
  <2>8. \/ result' = result \/ result' = MarkedStale
        \/ \E r : Known(r) /\ result' = Replaced(r)
        \/ \E d : result' = Removed(d)
    BY <2>3, <2>4
  <2> QED BY <1>2, <2>2, <2>6, <2>7, <2>8, SettledKeeps
<1> QED BY <1>1, <1>13, <1>14, <1>15, <1>16, <1>17, <1>18 DEF WriteSettles, Unmarked

\* A collection job has succeeded: the results there are are marked.
LEMMA JobSucceededKeeps ==
  ASSUME FirestoreInv, JobSucceeded
  PROVE  FirestoreInv'
<1> USE DEF FirestoreInv, JobSucceeded, docVars
<1>1. /\ job.doc \in Docs /\ job.version \in Nat /\ job.version <= documents[job.doc].version
  BY DEF SettledWritten
<1>2. settled' \in [Drafts -> [Docs -> Nat]] /\ SettledWritten'
  <2>1. PICK d \in Docs, version \in Nat : d = job.doc /\ version = job.version BY <1>1
  <2> QED BY <1>1, <2>1, ToldAllWritten
<1>3. DocumentsTyped' /\ Later BY SameDocuments
<1>4. DialogsGood' BY <1>3, DialogsLater
<1>5. result.execution # None => JobMarks
  BY DEF JobMarks, IsCurrentResult, IsCurrentExecution, ResultGood
<1>6. result \in Results /\ MarkedStale.stale BY DEF TabTyped, Results, MarkedStale
<1>7. PICK old, new : old = result.pages /\ new = result'.pages OBVIOUS
<1>8. /\ result' \in Results /\ result'.execution = result.execution
      /\ result'.status = result.status /\ result'.hasMore = result.hasMore
      /\ result'.fetching = result.fetching /\ GoodPages(new) /\ SamePages(old, new)
  BY <1>6, <1>7, ResultChanged
<1>9. result'.stale \/ (result' = result /\ result.execution = None) BY <1>5, <1>6
<1>10. /\ calls' \in Seq(ToSet(calls')) /\ DOMAIN calls' = DOMAIN calls
       /\ \A i \in DOMAIN calls : calls'[i] = Done \/ calls'[i] = calls[i]
  BY DEF CallsGood
<1> QED BY <1>2, <1>4, <1>7, <1>8, <1>9, <1>10, MarkedKeeps

----------------
(* Queries, whether they start or not *)

\* A query that does not start takes the mark from the results, and remembers that it did.
LEMMA UnstartedKeeps ==
  ASSUME FirestoreInv, OnlyCalls, UNCHANGED calls,
         UNCHANGED <<view, draft, tabEpoch, nextRequestId, queryRequest, dialogVars, settled>>,
         result' = [result EXCEPT !.stale = FALSE, !.unmarked = result.unmarked \/ result.stale]
  PROVE  FirestoreInv'
<1> USE DEF FirestoreInv, OnlyCalls, Repository
<1>1. DocumentsTyped' /\ Later BY SameDocuments
<1>2. DialogsGood' BY <1>1, DialogsLater
<1>3. SettledWritten' BY <1>1, SettledLater
<1>4. PICK old, new : old = result.pages /\ new = result'.pages OBVIOUS
<1>5. result \in Results /\ result.stale \in BOOLEAN /\ result.unmarked \in BOOLEAN
  BY DEF TabTyped, Results
<1>6. /\ result' \in Results /\ result'.execution = result.execution
      /\ result'.status = result.status /\ result'.hasMore = result.hasMore
      /\ result'.fetching = result.fetching /\ new = old
      /\ result'.unmarked = (result.unmarked \/ result.stale)
  <2>1. PICK mark \in BOOLEAN : mark = (result.unmarked \/ result.stale) BY <1>5
  <2>2. result' = [result EXCEPT !.stale = FALSE, !.unmarked = mark] BY <2>1
  <2> QED BY <1>4, <1>5, <2>1, <2>2 DEF Results
<1>7. GoodPages(new) BY <1>4, <1>6 DEF ResultGood
<1>8. SamePages(old, new) BY <1>6, <1>7, FS_CardinalityType DEF GoodPages, GoodPage, SamePages
<1>9. CASE result.stale \/ result.unmarked
  <2>1. result'.unmarked BY <1>5, <1>6, <1>9
  <2> QED BY <1>2, <1>3, <1>4, <1>6, <1>7, <1>8, <2>1, MarkedKeeps DEF TabTyped, CallsGood
<1>10. CASE ~result.stale /\ ~result.unmarked
  <2>1. result' = [result EXCEPT !.stale = FALSE, !.unmarked = FALSE] BY <1>10
  <2>2. result' = result BY <1>5, <1>10, <2>1 DEF Results
  <2> QED BY <1>2, <1>3, <1>4, <1>6, <1>7, <1>8, <2>2, MarkedKeeps DEF TabTyped, CallsGood
<1> QED BY <1>9, <1>10

\* A query of the draft that is submitted.
LEMMA SubmitKeeps ==
  ASSUME FirestoreInv, NEW q, q = draft, NEW pagesToLoad, Submit(q, pagesToLoad), view.open,
         OnlyCalls, UNCHANGED <<view, draft, tabEpoch, dialogVars, settled>>
  PROVE  FirestoreInv'
<1>1. CASE view.account BY <1>1, StartKeeps DEF Submit
<1>2. CASE ~view.account BY <1>2, UnstartedKeeps DEF Submit
<1> QED BY <1>1, <1>2

\* A query runs under the draft there is.
LEMMA RunQueryKeeps ==
  ASSUME FirestoreInv, RunQuery
  PROVE  FirestoreInv'
BY SubmitKeeps DEF RunQuery, AtTab, Acts

\* A refresh runs the query shown, which is that of the draft.
LEMMA RefreshQueryKeeps ==
  ASSUME FirestoreInv, RefreshQuery
  PROVE  FirestoreInv'
<1>1. PICK q, pagesToLoad :
        /\ q = IF result.execution = None THEN draft ELSE result.execution.draft
        /\ Submit(q, pagesToLoad)
  BY DEF RefreshQuery
<1>2. q = draft BY <1>1, ResultExecution DEF FirestoreInv
<1> QED BY <1>1, <1>2, SubmitKeeps DEF RefreshQuery, AtTab, Acts

----------------
(* The theorems *)

\* A tab opens with nothing shown, asked or written.
LEMMA FirestoreBegins == InitFirestoreTab => FirestoreInv
<1> SUFFICES ASSUME InitFirestoreTab PROVE FirestoreInv OBVIOUS
<1> USE DEF InitFirestoreTab, InitDocuments
<1>1. <<>> \in Seq(Pages) /\ <<>> \in Seq([token : Nat, after : Docs \cup {0}])
      /\ <<>> \in Seq(ToSet(<<>>))
  BY EmptySeq
<1>2. DocumentsTyped BY <1>1 DEF DocumentsTyped, NoTime
<1>3. CallsGood BY <1>1 DEF CallsGood
<1>4. TabTyped
  <2>1. EmptyResult \in Results BY <1>1 DEF EmptyResult, Results
  <2> QED BY <2>1 DEF TabTyped, Views
<1>5. /\ result.execution = None /\ result.pages = <<>> /\ result.status = "idle"
      /\ ~result.hasMore /\ ~result.fetching
  BY DEF EmptyResult
<1>6. ResultGood BY <1>1, <1>5 DEF ResultGood, GoodPages
<1>7. DialogsGood BY DEF DialogsGood
<1>8. SettledWritten BY DEF SettledWritten
<1>9. ReadsFit BY DEF ReadsFit
<1>10. StaleIsMarked /\ NoSilentOverwrite BY <1>5 DEF StaleIsMarked, NoSilentOverwrite
<1> QED BY <1>2, <1>3, <1>4, <1>6, <1>7, <1>8, <1>9, <1>10 DEF FirestoreInv

\* A step that changes nothing.
LEMMA FirestoreStutters ==
  ASSUME FirestoreInv, UNCHANGED firestoreVars
  PROVE  FirestoreInv'
<1> USE DEF FirestoreInv, firestoreVars, docVars
<1>1. DocumentsTyped' /\ Later BY SameDocuments
<1>2. TabTyped' /\ ResultGood' /\ DialogsGood' /\ SettledWritten' /\ StaleIsMarked' BY <1>1, TabLater
<1>3. CallsGood' BY <1>1, SameCallsLater DEF TabTyped, tabVars, queryVars
<1>4. ReadsFit' BY SameReadsFit DEF tabVars, queryVars
<1>5. NoSilentOverwrite' BY DEF NoSilentOverwrite
<1> QED BY <1>1, <1>2, <1>3, <1>4, <1>5

\* Whatever the user does keeps the invariant.
LEMMA FirestoreUserKeeps ==
  ASSUME FirestoreInv, FirestoreTabUser
  PROVE  FirestoreInv'
BY RunQueryKeeps, RefreshQueryKeeps, LoadMoreKeeps, CloseTabKeeps, SaveDocumentKeeps,
   DeleteDocumentKeeps, CreateDocumentKeeps, EditFieldKeeps, SaveFieldKeeps, SaveMergedKeeps,
   ConfirmPatchKeeps, CloseDialogKeeps, EditDraftKeeps, ShownKeeps, ProjectKeeps
   DEF FirestoreTabUser

\* Every step does.
LEMMA FirestoreStepKeeps ==
  ASSUME FirestoreInv, FirestoreTabNext
  PROVE  FirestoreInv'
<1>1. CASE FirestoreTabUser BY <1>1, FirestoreUserKeeps
<1>2. CASE \E c \in DOMAIN calls : PageArrives(c) \/ MoreArrives(c) \/ WriteSettles(c)
  BY <1>2, PageArrivesKeeps, MoreArrivesKeeps, WriteSettlesKeeps
<1>3. CASE (\E c \in DOMAIN calls : Serve(c)) /\ UNCHANGED tabVars BY <1>3, ServeKeeps
<1>4. CASE (Expire \/ \E d \in Docs : OtherClient(d)) /\ UNCHANGED tabVars BY <1>4, OthersKeep
<1>5. CASE JobSucceeded BY <1>5, JobSucceededKeeps
<1>6. CASE \E d \in Docs : JobWrites(d) BY <1>6, JobWritesKeeps
<1> QED BY <1>1, <1>2, <1>3, <1>4, <1>5, <1>6 DEF FirestoreTabNext

\* What the tab shows, its calls and their answers stay true of the documents, whatever order
\* completeExecutedFirestoreQuery, firestoreLoadMoreSucceeded and the write handlers run in.
THEOREM FirestoreInvariant == FirestoreTabSpec => []FirestoreInv
<1>1. FirestoreInv /\ [FirestoreTabNext]_firestoreVars => FirestoreInv'
  BY FirestoreStepKeeps, FirestoreStutters
<1> QED BY <1>1, FirestoreBegins, PTL DEF FirestoreTabSpec

\* The state of the tab has its type; only results that go on are fetching more
\* (firestoreLoadMoreStarted), and a query that is loading shows nothing (firestoreQueryStarted).
THEOREM TabKeepsItsType == FirestoreTabSpec => []FirestoreTabTypeOK
<1>1. FirestoreInv => FirestoreTabTypeOK
  BY DEF FirestoreInv, TabTyped, Results, ResultGood, FirestoreTabTypeOK
<1> QED BY <1>1, FirestoreInvariant, PTL

\* A tab shows the pages of the query it ran last, each where the one before it ended, whatever
\* arrives late (isCurrentFirestoreQueryExecution, firestoreLoadMoreSucceeded).
THEOREM TabShowsItsQuery == FirestoreTabSpec => []ShowsItsQuery
<1>1. ASSUME FirestoreInv PROVE ShowsItsQuery
  <2>1. result.execution = queryRequest
        /\ (queryRequest # None =>
              view.open /\ queryRequest.draft = draft /\ queryRequest.id = nextRequestId - 1)
    BY <1>1 DEF FirestoreInv, ResultGood
  <2>2. CASE result.execution = None
    <3>1. DOMAIN result.pages = {} BY <1>1, <2>2 DEF FirestoreInv, ResultGood
    <3> QED BY <2>1, <3>1 DEF ShowsItsQuery
  <2>3. CASE result.execution # None
    BY <1>1, <2>1, <2>3 DEF FirestoreInv, ResultGood, ShowsItsQuery, Chained, Within
  <2> QED BY <2>2, <2>3
<1> QED BY <1>1, FirestoreInvariant, PTL

\* A tab that was told of a write shows it or something later, or is marked stale, whatever
\* query ran meanwhile (firestoreWriteResultDisposition, firestoreCollectionJobSucceeded).
THEOREM TabMarksStale == FirestoreTabSpec => []StaleIsMarked
<1>1. FirestoreInv => StaleIsMarked BY DEF FirestoreInv
<1> QED BY <1>1, FirestoreInvariant, PTL

\* Nobody's write is overwritten unseen, but where the update time cannot tell
\* (saveDocument, updateDocumentFields).
THEOREM TabOverwritesNothingUnseen == FirestoreTabSpec => []NoSilentOverwrite
<1>1. FirestoreInv => NoSilentOverwrite BY DEF FirestoreInv
<1> QED BY <1>1, FirestoreInvariant, PTL
=============================================================================
