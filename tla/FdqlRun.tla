------------------------------ MODULE FdqlRun ------------------------------
(***************************************************************************)
(* Runs of FDQL read queries: createFirebaseFdqlRepository, the executor   *)
(* with its lookups and provider aggregates, the cache of one run and the  *)
(* persistent cache all runs share.                                        *)
(* The main process runs one piece of code at a time: a run keeps the turn *)
(* from the answer of one Firestore request to the next request it sends,  *)
(* and only the clock moves meanwhile.  Cancellations, answers for other   *)
(* runs and the writes of other clients fall between the turns.            *)
(* A collection is abstracted to the number of its documents that match; a *)
(* lookup is by the key of its row, and what it attaches is the number of  *)
(* documents it got.  Expressions and projections are left out.            *)
(***************************************************************************)
EXTENDS Integers, FiniteSets, SequencesExt, FiniteSetsExt, Functions

CONSTANTS
  MaxRuns,       \* bound: runs, numbered in the order they start
  Plans,         \* the compiled plans a run may have, by name
  PlansOf,       \* bound: the plans each run may have
  Keys,          \* values source documents are correlated by
  Missing,       \* a source document without that value
  KeyOf,         \* the key of each source document, in query order
  Timeout,       \* settings.timeoutMs
  Ttl,           \* cacheTtlMs
  MaxBytes,      \* maxBytes of the persistent cache; a row and a key are a byte each
  InitialDocs,   \* the documents there are at first
  MaxDocs,       \* bound: documents of a collection
  MaxTime,       \* bound: the clock
  MaxWrites,     \* bound: writes of other clients
  MaxFaults      \* bound: failures of Firestore

ASSUME FdqlAssumption ==
  /\ {Timeout, Ttl, MaxBytes, MaxDocs} \subseteq Nat \ {0}
  /\ {MaxRuns, MaxTime, MaxWrites, MaxFaults} \subseteq Nat
  /\ Missing \notin Keys
  /\ PlansOf \in [1..MaxRuns -> SUBSET DOMAIN Plans]
  /\ KeyOf \in Seq(Keys \cup {Missing})

Runs == 1..MaxRuns
Source == "source"
Collections == {Source} \cup Keys
Nobody == 0                    \* nobody has the turn
NoPlan == "none"
NoLimit == 99                  \* no `fs limit`: more than any collection holds

\* FdqlLookupPlanStage, FdqlProviderAggregatePlanStage and the local stages.
Stages ==
  [kind : {"lookup"}, mode : {"one", "many"}, required : BOOLEAN,
   limit : Nat, cache : {"off", "run", "persistent"}]
    \cup [kind : {"providerAggregate"}, extremes : Nat, cache : {"off", "run", "persistent"}]
    \cup [kind : {"take"}, value : Nat]
    \cup [kind : {"filter", "sortBy", "unwind", "aggregate", "groups"}]

\* FdqlSingleReadPlan; a plan is its branches, one unless it is a union.
Branches == [aggregated : BOOLEAN, extremes : Nat, limit : Nat, stages : Seq(Stages)]
ASSUME DocsAssumption ==
  InitialDocs \subseteq [Collections -> 0..MaxDocs] /\ MaxDocs <= Len(KeyOf) /\ MaxDocs <= NoLimit
ASSUME PlanAssumption ==
  NoPlan \notin DOMAIN Plans /\ \A name \in DOMAIN Plans : LET p == Plans[name] IN
    /\ p.kind \in {"read", "clearCache", "invalid"}
    /\ p.budget \in Nat \ {0} /\ p.pageSize \in Nat \ {0}
    /\ p.branches \in Seq(Branches)
    /\ p.kind = "read" => p.branches # <<>>

Reasons == {"none", "completed", "budget", "cancelled", "timeout", "failed"}

\* The key of a cached answer: a lookup's key holds the limit of the request.
CacheKey == [of : {"lookup", "aggregate"}, key : Keys, limit : Nat]

VARIABLES
  docs,      \* Firestore: how many documents each collection has
  clock,     \* Date.now()
  turn,      \* the run whose code the main process is executing
  run,       \* the runs: controller, stats, and where executeFdql is
  store,     \* the persistent cache
  writes,    \* writes of other clients, for the bound
  faults     \* failures used, for the bound

vars == <<docs, clock, turn, run, store, writes, faults>>

Row(key, vals) == [key |-> key, vals |-> vals]
\* What the last stage attached to a row; a document itself counts as there.
Attached(row) == IF row.vals = <<>> THEN 1 ELSE Last(row.vals)
Attach(row, n) == Row(row.key, Append(row.vals, n))
Least(a, b) == IF a <= b THEN a ELSE b

NewRun ==
  [plan |-> NoPlan, pc |-> "new", reason |-> "none",   \* plan, where run() is, stoppedReason
   startedAt |-> 0, aborted |-> FALSE, branch |-> 1, reads |-> 0, shown |-> <<>>,
   memory |-> <<>>,                               \* lookupCache
   spent |-> FALSE,                               \* readStopReason
   asked |-> 0,       \* history: the requests sent to Firestore
   at |-> 0, todo |-> <<>>, next |-> <<>>,        \* the stage, its rows still to do and done
   max |-> 0, got |-> 0, page |-> 0, short |-> FALSE,   \* the read under way
   bent |-> FALSE,    \* history: the budget or a cached answer has cut a lookup unnoticed
   disturbed |-> FALSE]   \* history: what the run has read may have changed since

Init ==
  /\ docs \in InitialDocs
  /\ clock = 0 /\ turn = Nobody /\ writes = 0 /\ faults = 0
  /\ run = [r \in Runs |-> NewRun]
  /\ store = <<>>

Becomes(r, s) == run' = [run EXCEPT ![r] = s]
Plan(s) == Plans[s.plan]
Branch(s) == Plan(s).branches[s.branch]
Stage(s) == Branch(s).stages[s.at]

-----------------------------------------------------------------------------
(***************************************************************************)
(* Stopping                                                                *)
(***************************************************************************)

\* controlsStopped: what the provider looks at.
Stopped(s) == s.aborted \/ clock - s.startedAt >= Timeout

\* stopReasonFor, in the phase beforeRow.
StopBefore(s) ==
  IF s.aborted THEN "cancelled"
  ELSE IF clock - s.startedAt >= Timeout THEN "timeout" ELSE "none"

\* stopReasonFor, in the phase afterRow.
StopAfter(s) ==
  IF StopBefore(s) = "none" /\ s.reads >= Plan(s).budget THEN "budget" ELSE StopBefore(s)

\* stopEvents, or the failed event; run() reports the result and forgets the controller.
Over(s, reason) ==
  [s EXCEPT !.pc = "done", !.reason = reason, !.memory = <<>>, !.at = 0, !.todo = <<>>,
            !.next = <<>>, !.max = 0, !.got = 0, !.page = 0, !.short = FALSE, !.asked = 0]
Ends(r, s, reason) == /\ Becomes(r, Over(s, reason))
                      /\ turn' = Nobody
                      /\ UNCHANGED <<docs, clock, store, writes, faults>>

\* The step of run r from s to t within its turn.
Goes(r, t) == Becomes(r, t) /\ UNCHANGED <<docs, clock, turn, store, writes, faults>>
\* The step that sends a request: the turn is over.
Sends(r, t) == /\ Becomes(r, t)
               /\ turn' = Nobody
               /\ UNCHANGED <<docs, clock, store, writes, faults>>
\* The step that handles an answer.
Resumes(r, t) == /\ turn = Nobody
                 /\ turn' = r
                 /\ Becomes(r, t)
                 /\ UNCHANGED <<docs, clock, store, writes, faults>>

-----------------------------------------------------------------------------
(***************************************************************************)
(* The repository                                                          *)
(***************************************************************************)

\* run: the controller is registered, the query compiled.
Start(r, name) ==
  /\ run[r].pc = "new" /\ turn = Nobody
  /\ clock + Timeout <= MaxTime                       \* bound
  /\ \A q \in 1..(r - 1) : run[q].pc # "new"
  /\ LET s == [run[r] EXCEPT !.startedAt = clock, !.plan = name]
     IN \/ /\ Plan(s).kind = "read"
           /\ turn' = r
           /\ Becomes(r, [s EXCEPT !.pc = "branch"])
           /\ UNCHANGED <<docs, clock, store, writes, faults>>
        \/ /\ Plan(s).kind = "invalid"
           /\ Ends(r, s, "failed")
        \/ \* clearCacheResult
           /\ Plan(s).kind = "clearCache"
           /\ Becomes(r, Over(s, "completed"))
           /\ store' = <<>>
           /\ UNCHANGED <<docs, clock, turn, writes, faults>>

\* cancel: without effect unless run() has registered the run and not forgotten it.
Cancel(r) ==
  /\ turn = Nobody
  /\ run[r].pc \notin {"new", "done"} /\ ~run[r].aborted
  /\ Becomes(r, [run[r] EXCEPT !.aborted = TRUE])
  /\ UNCHANGED <<docs, clock, turn, store, writes, faults>>

-----------------------------------------------------------------------------
(***************************************************************************)
(* Reading pages: readProvider over the read of the Firestore runtime, for *)
(* the source of a branch and for a lookup                                 *)
(***************************************************************************)

Reading(s) == IF s.at = 0 THEN Source ELSE Head(s.todo).key

\* Mutant: no Math.max.
Remaining_Unclamped(s) == Plan(s).budget - s.reads
\* createReadRequest: limit, remaining budget and the cap of a `lookup one`.
Remaining(s) == IF Plan(s).budget > s.reads THEN Plan(s).budget - s.reads ELSE 0
MaxDocuments(s, limit, cap) == Least(Least(limit, cap), Remaining(s))

PageLimit(s) == Least(Least(Plan(s).pageSize, s.max), s.max - s.got)

\* getFirestoreConnection has answered: the loop of read begins with a look at the signal,
\* aggregateFirestore sends its first request before it takes one.
Connected(r) ==
  LET s == run[r]
      first == [s EXCEPT !.asked = @ + 1]
  IN /\ turn = Nobody
     /\ \/ s.pc = "connectRead" /\ Resumes(r, [s EXCEPT !.pc = "ask"])
        \/ /\ s.pc = "connectAggregate"
           /\ IF Stopped(s) THEN Resumes(r, [first EXCEPT !.pc = "aggregated"])
              ELSE Sends(r, [first EXCEPT !.pc = "aggregating"])

\* Mutant: the loop does not look at the signal.
Ask_Unchecked(r) ==
  LET s == run[r]
  IN /\ turn = r /\ s.pc = "ask"
     /\ IF s.got < s.max
        THEN Sends(r, [s EXCEPT !.pc = "paging", !.asked = @ + 1])
        ELSE Goes(r, [s EXCEPT !.pc = "read"])

\* The loop of read: another page, unless there is enough or the run is to stop.
Ask(r) ==
  LET s == run[r]
  IN /\ turn = r /\ s.pc = "ask"
     /\ IF s.got < s.max /\ ~Stopped(s)
        THEN Sends(r, [s EXCEPT !.pc = "paging", !.asked = @ + 1])
        ELSE Goes(r, [s EXCEPT !.pc = "read"])

PageArrives(r) ==
  LET s == run[r]
      left == docs[Reading(s)] - s.got
      n == IF left <= 0 THEN 0 ELSE Least(PageLimit(s), left)
  IN /\ s.pc = "paging"
     /\ IF Stopped(s) \/ n = 0
        THEN Resumes(r, [s EXCEPT !.pc = "read"])
        ELSE Resumes(r, [s EXCEPT !.pc = "docs", !.page = n, !.short = n < PageLimit(s)])

\* Mutant: no timer is set.
Abandon_OnlyAborted(r) ==
  LET s == run[r]
  IN /\ s.aborted
     /\ \/ s.pc = "paging" /\ Resumes(r, [s EXCEPT !.pc = "read"])
        \/ s.pc = "aggregating" /\ Resumes(r, [s EXCEPT !.pc = "aggregated"])

\* raceWithReadControls: the abort or the deadline comes before the answer.
Abandon(r) ==
  LET s == run[r]
  IN /\ Stopped(s)
     /\ \/ s.pc = "paging" /\ Resumes(r, [s EXCEPT !.pc = "read"])
        \/ s.pc = "aggregating" /\ Resumes(r, [s EXCEPT !.pc = "aggregated"])

\* Firestore refuses the request, or there is no connection to send it over; executeFdql
\* turns the error into a failed event.
RequestFails(r) ==
  LET s == run[r]
  IN /\ turn = Nobody /\ s.pc \in {"connectRead", "connectAggregate", "paging", "aggregating"}
     /\ faults < MaxFaults /\ faults' = faults + 1
     /\ Becomes(r, Over(s, "failed"))
     /\ UNCHANGED <<docs, clock, turn, store, writes>>

\* One document of a page: of the source it becomes a row, of a lookup it is counted.
Document(r) ==
  LET s == run[r]
      read == [s EXCEPT !.reads = @ + 1, !.got = @ + 1, !.page = @ - 1,
                        !.next = IF s.at = 0 THEN Append(@, Row(KeyOf[s.got + 1], <<>>)) ELSE @]
      more == IF read.got = s.max \/ (read.page = 0 /\ s.short) THEN "read"
              ELSE IF read.page = 0 THEN "ask" ELSE "docs"
  IN /\ turn = r /\ s.pc = "docs"
     /\ IF Stopped(s) THEN Goes(r, [s EXCEPT !.pc = "read"])
        ELSE IF s.at = 0
        THEN IF read.reads >= Plan(s).budget
             THEN Goes(r, [read EXCEPT !.spent = TRUE, !.pc = "read"])
             ELSE Goes(r, [read EXCEPT !.pc = more])
        ELSE IF StopAfter(read) # "none" THEN Ends(r, read, StopAfter(read))
        ELSE Goes(r, [read EXCEPT !.pc = more])

-----------------------------------------------------------------------------
(***************************************************************************)
(* Branches                                                                *)
(***************************************************************************)

\* executeReadBranch up to the source read, which gets its connection first.
BeginBranch(r) ==
  LET s == run[r]
      request == [s EXCEPT !.max = MaxDocuments(s, Branch(s).limit, NoLimit),
                           !.bent = @ \/ (Remaining(s) = 0 /\ ~Branch(s).aggregated)]
  IN /\ turn = r /\ s.pc = "branch"
     /\ IF StopBefore(s) # "none" THEN Ends(r, s, StopBefore(s))
        ELSE IF Branch(s).aggregated THEN Sends(r, [s EXCEPT !.pc = "connectAggregate"])
        ELSE Sends(r, [request EXCEPT !.pc = "connectRead"])

FirstStage(s, rows) == [s EXCEPT !.pc = "stage", !.at = 1, !.todo = rows, !.next = <<>>,
                                 !.max = 0, !.got = 0, !.page = 0, !.short = FALSE]

\* Mutant: nothing asks whether a stop has cut the read short.
SourceRead_Unchecked(r) ==
  LET s == run[r]
  IN /\ turn = r /\ s.pc = "read" /\ s.at = 0
     /\ Goes(r, FirstStage(s, s.next))

\* The source has been read: afterReadStop, and the rows go to the first stage.
SourceRead(r) ==
  LET s == run[r]
  IN /\ turn = r /\ s.pc = "read" /\ s.at = 0
     /\ IF StopBefore(s) # "none" THEN Ends(r, s, StopBefore(s))
        ELSE Goes(r, FirstStage(s, s.next))

-----------------------------------------------------------------------------
(***************************************************************************)
(* Local stages                                                            *)
(***************************************************************************)

\* sortRows: before the first row that is greater.
Inserted(sorted, row) ==
  LET greater == {i \in DOMAIN sorted : Attached(sorted[i]) > Attached(row)}
  IN IF greater = {} THEN Append(sorted, row)
     ELSE InsertAt(sorted, CHOOSE i \in greater : \A j \in greater : i <= j, row)
SortedRows(rows) == FoldLeft(Inserted, <<>>, rows)

\* unwindRow: a row for every item.
Unwound(row) == [i \in 1..Attached(row) |-> Attach(row, i)]

\* aggregateRows with `by`: a row for every key, in the order the keys come.
GroupRows(rows) ==
  LET keys == FoldLeft(LAMBDA ks, row : IF Contains(ks, row.key) THEN ks ELSE Append(ks, row.key),
                       <<>>, rows)
      Members(k) == {i \in DOMAIN rows : rows[i].key = k}
  IN [i \in DOMAIN keys |-> Row(keys[i], <<Cardinality(Members(keys[i]))>>)]

LocalRows(stage, rows) ==
  CASE stage.kind = "filter" ->
         FoldLeft(LAMBDA kept, row : IF Attached(row) > 0 THEN Append(kept, row) ELSE kept, <<>>, rows)
    [] stage.kind = "sortBy" -> SortedRows(rows)
    [] stage.kind = "unwind" -> FlattenSeq([i \in DOMAIN rows |-> Unwound(rows[i])])
    [] stage.kind = "aggregate" -> <<Row(Missing, <<Len(rows)>>)>>
    [] stage.kind = "groups" -> GroupRows(rows)
    [] stage.kind = "take" -> SubSeq(rows, 1, Least(stage.value, Len(rows)))

OfRows == {"lookup", "providerAggregate"}

\* The end of a stage: without rows the later stages are not reached.
NextStage(s, rows) ==
  [s EXCEPT !.todo = rows, !.next = <<>>, !.at = @ + 1,
            !.pc = IF rows = <<>> \/ s.at >= Len(Branch(s).stages) THEN "return" ELSE "stage"]

RunStage(r) ==
  LET s == run[r]
  IN /\ turn = r /\ s.pc = "stage"
     /\ \/ /\ Branch(s).stages = <<>>
           /\ Goes(r, [s EXCEPT !.pc = "return"])
        \/ /\ Branch(s).stages # <<>> /\ Stage(s).kind \notin OfRows
           /\ Goes(r, NextStage(s, LocalRows(Stage(s), s.todo)))
        \/ /\ Branch(s).stages # <<>> /\ Stage(s).kind \in OfRows /\ s.todo = <<>>
           /\ Goes(r, NextStage(s, s.next))

-----------------------------------------------------------------------------
(***************************************************************************)
(* The persistent cache                                                    *)
(***************************************************************************)

Bytes(entries, set) == FoldSet(LAMBDA k, sum : sum + entries[k].rows + 1, 0, set)

\* get finds an entry that has not expired; an expired one is deleted.
Hits(k) == k \in DOMAIN store /\ store[k].expires > clock

IsStale(k) == k \in DOMAIN store /\ store[k].stale

Touched(k) ==
  IF Hits(k) THEN [store EXCEPT ![k].accessed = clock]
  ELSE Restrict(store, DOMAIN store \ {k})

\* evictCache: expired entries go, then the least recently used ones, oldest
\* first and ties in any order, until the rest fits.
Survivors(entries) ==
  LET live == {k \in DOMAIN entries : entries[k].expires > clock}
      Fits(S) == Bytes(entries, S) <= MaxBytes
  IN {S \in SUBSET live :
        /\ Fits(S)
        /\ \A v \in live \ S, k \in S : entries[v].accessed <= entries[k].accessed
        /\ S # live => \E v \in live \ S :
                         /\ ~Fits(S \cup {v})
                         /\ \A u \in live \ S : entries[u].accessed <= entries[v].accessed}

\* set: insert or replace, then evict.  History: stale, whether the collection
\* has been changed since the reads of the run that stores it.
Stored(k, rows, disturbed) ==
  LET entry == [rows |-> rows, expires |-> clock + Ttl, accessed |-> clock,
                stale |-> disturbed]
      entries == [c \in DOMAIN store \cup {k} |-> IF c = k THEN entry ELSE store[c]]
  IN {Restrict(entries, S) : S \in Survivors(entries)}

-----------------------------------------------------------------------------
(***************************************************************************)
(* Lookups                                                                 *)
(***************************************************************************)

\* lookupRow.
LookedUp(stage, row, n) ==
  IF stage.required /\ n = 0 THEN <<>>
  ELSE <<Attach(row, IF stage.mode = "one" THEN Least(n, 1) ELSE n)>>

\* The next row: what the lookup leaves of it is kept.
NextRow(s, rows) == [s EXCEPT !.todo = Tail(@), !.next = @ \o rows, !.pc = "stage", !.max = 0,
                              !.got = 0, !.page = 0, !.short = FALSE]

\* cacheReadLimit: the cap of a lookup one, as the budget left it, is part of the key.
LookupKey(stage, key, max) ==
  [of |-> "lookup", key |-> key,
   limit |-> IF stage.limit < NoLimit THEN stage.limit
             ELSE IF stage.mode = "one" THEN max ELSE NoLimit]
AggregateKey(key) == [of |-> "aggregate", key |-> key, limit |-> NoLimit]

OneCap(stage) == IF stage.mode = "one" /\ stage.limit = NoLimit THEN 2 ELSE NoLimit
LookupMax(s) == MaxDocuments(s, Stage(s).limit, OneCap(Stage(s)))

\* History: n cached rows are not what a read of up to max documents attaches.
Bends(stage, n, max) ==
  n > max \/ (stage.mode = "one" /\ (n > 1 \/ (stage.limit >= NoLimit /\ n = max)))

\* executeLookup up to its read.
BeginLookup(r) ==
  LET s == run[r]
      stage == Stage(s)
      row == Head(s.todo)
      max == LookupMax(s)
      k == LookupKey(stage, row.key, max)
      Serves(n) == [NextRow(s, LookedUp(stage, row, Least(n, max))) EXCEPT
                      !.bent = @ \/ Bends(stage, n, max),
                      !.disturbed = @ \/ IsStale(k)]
      reads == [s EXCEPT !.max = max, !.pc = "connectRead", !.bent = @ \/ max = 0]
  IN /\ turn = r /\ s.pc = "stage" /\ Branch(s).stages # <<>>
     /\ stage.kind = "lookup" /\ s.todo # <<>>
     /\ IF StopBefore(s) # "none" THEN Ends(r, s, StopBefore(s))
        ELSE IF row.key = Missing THEN Goes(r, NextRow(s, LookedUp(stage, row, 0)))
        ELSE IF stage.cache = "run" /\ k \in DOMAIN s.memory THEN Goes(r, Serves(s.memory[k]))
        ELSE IF stage.cache # "persistent" THEN Sends(r, reads)
        ELSE /\ IF Hits(k) THEN Becomes(r, Serves(store[k].rows)) /\ UNCHANGED turn
                ELSE Becomes(r, reads) /\ turn' = Nobody
             /\ store' = Touched(k)
             /\ UNCHANGED <<docs, clock, writes, faults>>

\* Mutant: whatever was read is persisted.
Persists_Always(s) == TRUE
\* shouldPersistLookupRows.
Persists(s) ==
  /\ s.max > 0
  /\ IF Stage(s).mode = "one" THEN s.got <= 1
     ELSE Stage(s).limit < NoLimit \/ s.got < s.max

\* The rest of executeLookup: afterReadStop, one too many, the caches.
LookupRead(r) ==
  LET s == run[r]
      stage == Stage(s)
      row == Head(s.todo)
      k == LookupKey(stage, row.key, s.max)
      done == NextRow(s, LookedUp(stage, row, s.got))
  IN /\ turn = r /\ s.pc = "read" /\ s.at > 0
     /\ IF StopBefore(s) # "none" THEN Ends(r, s, StopBefore(s))
        ELSE IF stage.mode = "one" /\ s.got > 1 THEN Ends(r, s, "failed")
        ELSE \/ /\ stage.cache = "off" \/ (stage.cache = "persistent" /\ ~Persists(s))
                /\ Goes(r, done)
             \/ /\ stage.cache = "run"
                /\ Goes(r, [done EXCEPT !.memory = [c \in DOMAIN @ \cup {k} |->
                                                     IF c = k THEN s.got ELSE @[c]]])
             \/ /\ stage.cache = "persistent" /\ Persists(s)
                /\ store' \in Stored(k, s.got, s.disturbed)
                /\ Becomes(r, done)
                /\ UNCHANGED <<docs, clock, turn, writes, faults>>

-----------------------------------------------------------------------------
(***************************************************************************)
(* Provider aggregates: one request for the counts and sums, then one for  *)
(* each minimum and maximum; the budget does not bound them                *)
(***************************************************************************)

Extremes(s) == IF s.at = 0 THEN Branch(s).extremes ELSE Stage(s).extremes

\* executeProviderAggregateStage up to the call of aggregateFirestore.
BeginAggregate(r) ==
  LET s == run[r]
      stage == Stage(s)
      row == Head(s.todo)
      k == AggregateKey(row.key)
      Serves(n) == [NextRow(s, <<Attach(row, n)>>) EXCEPT !.disturbed = @ \/ IsStale(k)]
      asks == [s EXCEPT !.pc = "connectAggregate"]
  IN /\ turn = r /\ s.pc = "stage" /\ Branch(s).stages # <<>>
     /\ stage.kind = "providerAggregate" /\ s.todo # <<>>
     /\ IF StopBefore(s) # "none" THEN Ends(r, s, StopBefore(s))
        ELSE IF row.key = Missing THEN Goes(r, Serves(0))
        ELSE IF stage.cache = "run" /\ k \in DOMAIN s.memory THEN Goes(r, Serves(s.memory[k]))
        ELSE IF stage.cache # "persistent" THEN Sends(r, asks)
        ELSE /\ IF Hits(k) THEN Becomes(r, Serves(store[k].rows)) /\ UNCHANGED turn
                ELSE Becomes(r, asks) /\ turn' = Nobody
             /\ store' = Touched(k)
             /\ UNCHANGED <<docs, clock, writes, faults>>

\* aggregateFirestore: got counts the answers, page the documents they read.
AggregateArrives(r) ==
  LET s == run[r]
      counts == [s EXCEPT !.max = docs[Reading(s)], !.got = 1]
      extreme == [s EXCEPT !.got = @ + 1,
                           !.page = @ + (IF docs[Reading(s)] > 0 THEN 1 ELSE 0)]
      t == IF s.got = 0 THEN counts ELSE extreme
  IN /\ turn = Nobody /\ s.pc = "aggregating" /\ ~Stopped(s)
     /\ Becomes(r, IF t.got <= Extremes(s) THEN [t EXCEPT !.asked = @ + 1]
                   ELSE [t EXCEPT !.pc = "aggregated"])
     /\ turn' = IF t.got <= Extremes(s) THEN Nobody ELSE r
     /\ UNCHANGED <<docs, clock, store, writes, faults>>

\* A row of a source aggregate, and the rest of executeProviderAggregateStage.
Aggregated(r) ==
  LET s == [run[r] EXCEPT !.reads = @ + run[r].page]
      k == AggregateKey(Head(s.todo).key)
      done == NextRow(s, <<Attach(Head(s.todo), s.max)>>)
  IN /\ turn = r /\ s.pc = "aggregated"
     /\ IF StopBefore(s) # "none" THEN Ends(r, s, StopBefore(s))
        ELSE IF s.at = 0
        THEN Goes(r, FirstStage(s, <<Row(Missing, <<s.max>>)>>))
        ELSE \/ /\ Stage(s).cache = "off"
                /\ Goes(r, done)
             \/ /\ Stage(s).cache = "run"
                /\ Goes(r, [done EXCEPT !.memory = [c \in DOMAIN @ \cup {k} |->
                                                     IF c = k THEN s.max ELSE @[c]]])
             \/ /\ Stage(s).cache = "persistent"
                /\ store' \in Stored(k, s.max, s.disturbed)
                /\ Becomes(r, done)
                /\ UNCHANGED <<docs, clock, turn, writes, faults>>

-----------------------------------------------------------------------------
(***************************************************************************)
(* The rows of a branch, and its end                                       *)
(***************************************************************************)

\* One row is emitted; the budget does not stop a run that has its rows.
ReturnRow(r) ==
  LET s == run[r]
      shows == [s EXCEPT !.shown = Append(@, Head(s.todo)), !.todo = Tail(@)]
  IN /\ turn = r /\ s.pc = "return" /\ s.todo # <<>>
     /\ IF StopBefore(s) # "none" THEN Ends(r, shows, StopBefore(s)) ELSE Goes(r, shows)

EndBranch(r) ==
  LET s == run[r]
  IN /\ turn = r /\ s.pc = "return" /\ s.todo = <<>>
     /\ IF s.spent THEN Ends(r, s, "budget")
        ELSE IF s.branch < Len(Plan(s).branches)
        THEN Goes(r, [s EXCEPT !.pc = "branch", !.branch = @ + 1, !.at = 0, !.next = <<>>,
                               !.max = 0, !.got = 0, !.page = 0, !.short = FALSE])
        ELSE Ends(r, s, "completed")

-----------------------------------------------------------------------------
(***************************************************************************)
(* The rest of the world                                                   *)
(***************************************************************************)

Tick == /\ clock < MaxTime /\ clock' = clock + 1
        /\ UNCHANGED <<docs, turn, run, store, writes, faults>>

OutsideWrite(c, n) ==
  /\ turn = Nobody /\ writes < MaxWrites /\ n \in {docs[c] - 1, docs[c] + 1}
  /\ docs' = [docs EXCEPT ![c] = n] /\ writes' = writes + 1
  /\ run' = [r \in Runs |-> IF run[r].pc = "new" THEN run[r] ELSE [run[r] EXCEPT !.disturbed = TRUE]]
  /\ store' = [k \in DOMAIN store |-> IF k.key # c THEN store[k]
                                      ELSE [store[k] EXCEPT !.stale = TRUE]]
  /\ UNCHANGED <<clock, turn, faults>>

\* What a run does while it has the turn.
Step(r) ==
  \/ Ask(r) \/ Document(r) \/ BeginBranch(r) \/ SourceRead(r) \/ RunStage(r)
  \/ BeginLookup(r) \/ LookupRead(r) \/ BeginAggregate(r) \/ Aggregated(r)
  \/ ReturnRow(r) \/ EndBranch(r)

Next ==
  \/ \E r \in Runs : \/ \E name \in PlansOf[r] : Start(r, name)
                    \/ Cancel(r) \/ Step(r) \/ Abandon(r) \/ RequestFails(r)
                    \/ Connected(r) \/ PageArrives(r) \/ AggregateArrives(r)
  \/ Tick
  \/ \E c \in Collections, n \in 0..MaxDocs : OutsideWrite(c, n)

Spec == Init /\ [][Next]_vars

\* The process executes its turns, gets its connections, which takes files of its own,
\* time passes and timers fire; Firestore may never answer, and nobody need start a run.
Fairness == /\ WF_vars(Tick)
            /\ WF_vars(\E r \in Runs : Step(r))
            /\ \A r \in Runs : WF_vars(Abandon(r) \/ Connected(r))
FairSpec == Spec /\ Fairness

-----------------------------------------------------------------------------
\* Where a run that does not have the turn is.
Waiting == {"new", "connectRead", "connectAggregate", "paging", "aggregating", "done"}

TypeOK ==
  /\ docs \in [Collections -> 0..MaxDocs]
  /\ clock \in 0..MaxTime /\ turn \in Runs \cup {Nobody}
  /\ writes \in 0..MaxWrites /\ faults \in 0..MaxFaults
  /\ DOMAIN store \subseteq CacheKey
  /\ \A k \in DOMAIN store : store[k] \in [rows : Nat, expires : Nat, accessed : Nat, stale : BOOLEAN]
  /\ \A r \in Runs :
       LET s == run[r]
       IN /\ s.plan \in DOMAIN Plans \cup {NoPlan} /\ s.reason \in Reasons
          /\ {s.startedAt, s.branch, s.reads, s.asked, s.at, s.max, s.got, s.page} \subseteq Nat
          /\ {s.aborted, s.spent, s.short, s.bent, s.disturbed} \subseteq BOOLEAN
          /\ s.pc \in Waiting \cup {"branch", "ask", "docs", "read", "aggregated", "stage",
                                   "return"}
          /\ (s.reason = "none") <=> (s.pc # "done")
          /\ turn = r <=> s.pc \notin Waiting

-----------------------------------------------------------------------------
(***************************************************************************)
(* What a query means, whatever the pages, caches and budget               *)
(***************************************************************************)

\* Of documents `held`.  A lookup one that finds two of them fails: its row has no answer,
\* which 2 stands for.
RefLookup(held, stage, row) ==
  LET n == IF row.key = Missing THEN 0 ELSE Least(held[row.key], stage.limit)
  IN IF stage.required /\ n = 0 THEN <<>>
     ELSE <<Attach(row, IF stage.mode = "one" THEN Least(n, 2) ELSE n)>>
RefAggregate(held, row) == <<Attach(row, IF row.key = Missing THEN 0 ELSE held[row.key])>>
RefRow(held, stage, row) ==
  IF stage.kind = "lookup" THEN RefLookup(held, stage, row) ELSE RefAggregate(held, row)

RefStage(held, stage, rows) ==
  IF stage.kind \in OfRows THEN FlattenSeq([i \in DOMAIN rows |-> RefRow(held, stage, rows[i])])
  ELSE LocalRows(stage, rows)

\* As the code has it, a stage without rows is the last.
RefSource(held, b) ==
  IF b.aggregated THEN <<Row(Missing, <<held[Source]>>)>>
  ELSE [i \in 1..Least(held[Source], b.limit) |-> Row(KeyOf[i], <<>>)]
RefStages(held, b) ==
  LET After[i \in 0..Len(b.stages)] ==
        IF i = 0 THEN RefSource(held, b)
        ELSE IF i > 1 /\ After[i - 1] = <<>> THEN <<>>
        ELSE RefStage(held, b.stages[i], After[i - 1])
  IN After
RefBranch(held, b) == RefStages(held, b)[Len(b.stages)]

Answer(held, p) == FlattenSeq([i \in DOMAIN p.branches |-> RefBranch(held, p.branches[i])])

-----------------------------------------------------------------------------
(***************************************************************************)
(* Properties                                                              *)
(***************************************************************************)

\* A run that has completed has returned what its query means: neither the pages
\* it read, nor answers of the caches, of this run or of another, nor a stop
\* shows in its rows (docs/fdql.md:470: the budget is a safety stop, not a
\* semantic result limit), unless the collections have changed since its reads.
\* The code does not keep to this in four cases, which bent marks and the
\* property leaves out: a cached answer cut to the budget that is left, a
\* lookup asked with none left, a lookup one served two cached rows, and one without
\* a limit that is served as many as the budget left has it look for.
CompletedIsAnswer ==
  \A r \in Runs :
    run[r].reason = "completed" /\ Plan(run[r]).kind = "read" /\ ~run[r].bent /\ ~run[r].disturbed
    => run[r].shown = Answer(docs, Plan(run[r]))

\* What the persistent cache holds is the whole answer of its key, or was when
\* it was read: no read that was cancelled, timed out, stopped by its budget or
\* cut short is kept (docs/fdql.md:1457), whatever two runs do at once.
PersistedIsWhole ==
  \A k \in DOMAIN store :
    store[k].stale \/ store[k].rows = Least(docs[k.key], k.limit)

\* From a cancellation on a run returns no row, waits for no answer it did not wait
\* for, writes nothing to the persistent cache, and does not end as if it had
\* completed.  It sends no request either, with one exception: a cancellation that
\* comes while an aggregate gets its connection does not keep its first request from
\* being sent, only its answer from being waited for.
CancelStops ==
  [][\A r \in Runs : run[r].aborted =>
       /\ run'[r].shown = run[r].shown
       /\ run'[r].pc \in {"paging", "aggregating"} => run[r].pc = run'[r].pc
       /\ run'[r].asked > run[r].asked =>
            run[r].pc = "connectAggregate" /\ run'[r].pc = "aggregated"
       /\ turn = r => store' = store
       /\ run'[r].reason \in {"none", "cancelled", "failed"}]_vars

\* A run that has been started ends, even when Firestore never answers: again
\* and again none is under way.
RunEnds == []<>(\A r \in Runs : run[r].pc \in {"new", "done"})
=============================================================================
