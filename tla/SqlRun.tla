------------------------------- MODULE SqlRun -------------------------------
(***************************************************************************)
(* A run of FirebaseFirestoreSqlRepository with its execution by           *)
(* executeFirestoreSql: stage after stage, a source's documents at a time. *)
(* Runs share nothing.  The main process goes on without a pause from an   *)
(* answer of Firestore to the next request; cancellations and the writes   *)
(* of other clients fall between, only the clock does not wait.            *)
(***************************************************************************)
EXTENDS DesktopCalls, SqlQueries

CONSTANTS
  SqlPlans,      \* the statements that are run, by name, each with its request's limits
  NoSql,         \* no statement
  DocumentsNow   \* bound: Firestore's documents, before and after each write of another client

\* What parser, analyzer and planner make of statements.  No clause of one sets its read
\* budget: executionStage gives every branch that of the request, or the same default.
\* A field has a name, and subcollection(a, "name") is of an alias joined before, so that
\* it is not the first source.
Planned(select) ==
  /\ select.readBudget \in Nat \ {0} /\ select.limit \in Nat
  /\ select.from.kind \in {"collection", "collection_group"}
  /\ select.joins \in Seq(Range(select.joins)) /\ select.order \in Seq(Range(select.order))
  /\ \A e \in Expressions(select) : \A path \in FieldPaths(e) :
       path \in Seq(Range(path)) /\ path # <<>>
  /\ \A c \in Wildcards(select) : c.path \in Seq(Range(c.path))
  /\ \A i \in DOMAIN select.joins :
       \/ select.joins[i].source.kind \in {"collection", "collection_group"}
       \/ /\ select.joins[i].source.kind = "subcollection"
          /\ \/ select.joins[i].source.of = Primary(select)
             \/ \E j \in 1..(i - 1) : select.joins[i].source.of = select.joins[j].source.alias

ASSUME SqlAssumption ==
  /\ NoSql \notin DOMAIN SqlPlans
  /\ \A name \in DOMAIN SqlPlans :
       LET branches == SqlPlans[name].branches IN
       /\ SqlPlans[name].readBudget \in Nat \ {0}
       /\ branches \in Seq(Range(branches))
       /\ \A b \in DOMAIN branches :
            Planned(branches[b]) /\ branches[b].readBudget = branches[1].readBudget
  /\ DocumentsNow \in Seq(Range(DocumentsNow)) /\ DocumentsNow # <<>>
  /\ \A documents \in Range(DocumentsNow) :
       /\ IsFiniteSet(DOMAIN documents)
       /\ \A path \in DOMAIN documents :
            LET held == documents[path] IN
            /\ held \in Seq(Range(held))
            /\ \A document \in Range(held) :
                 /\ document.data \in [DOMAIN document.data -> Range(document.data)]
                 /\ \A leaf \in DOMAIN document.data : leaf \in Seq(Range(leaf))

VARIABLES
  sql,           \* the run
  written        \* writes of other clients so far

sqlVars == <<sql, written>>

\* createStats and createSqlRunController.
NewSqlRun(name) ==
  [name |-> name, pc |-> "new", aborted |-> FALSE, elapsed |-> 0,
   reads |-> 0, reason |-> "none",               \* stats.reads, stats.stoppedReason
   branch |-> 1, at |-> 1, rows |-> <<>>,        \* the branch, the stage, its rows
   left |-> <<>>, joined |-> <<>>,               \* a local join: rows still to join, rows joined
   docs |-> <<>>, todo |-> <<>>,                 \* collectRuntimeDocs: collected, and still to come
   outputRows |-> <<>>,
   seen |-> <<>>]     \* history: what the sources held when they were read, by branch and stage

InitSql(scenario) == sql = NewSqlRun(scenario.sql) /\ written = 0

SqlPlan == SqlPlans[sql.name]
Select == SqlPlan.branches[sql.branch]
SqlStages == Stages(Select)
SqlStage == SqlStages[sql.at]
SqlOver == {"done", "failed", "lost"}

\* controlsFor: what the request says comes before what the statement says.
ReadBudget == IF SqlPlan.readBudget # NoLimit THEN SqlPlan.readBudget ELSE Select.readBudget

\* shouldStop: a look at the reasons to stop, of which the first is kept.
Looks(s) ==
  [s EXCEPT !.reason = IF @ # "none" THEN @ ELSE IF s.aborted THEN "cancelled"
                       ELSE IF s.elapsed > SqlPlan.timeoutMs THEN "timeout" ELSE "none"]
Stops(s) == s.reason # "none"

SqlDoes(s) == sql' = s /\ UNCHANGED <<written, mishaps>>
NextSqlStage(s, rows) ==
  SqlDoes([s EXCEPT !.pc = "stages", !.rows = rows, !.at = @ + 1, !.left = <<>>, !.joined = <<>>,
                    !.docs = <<>>, !.todo = <<>>])

-----------------------------------------------------------------------------
\* run(), up to its first stage; what does not compile fails at once.
StartSql ==
  /\ sql.pc = "new" /\ sql.name # NoSql
  /\ SqlDoes([sql EXCEPT !.pc = IF SqlPlan.branches = <<>> THEN "failed" ELSE "stages"])

\* The end of runSelectRows: the rows of the branch, and of the run after the
\* last branch or a stop.
EndBranch(s) ==
  LET sorted == Limited(SortRows(s.rows, Select.order, Primary(Select)), Select.limit)
      rows == s.outputRows \o
                [i \in DOMAIN sorted |-> Projected(Select.columns, sorted[i], Primary(Select))]
  IN SqlDoes(IF Stops(s) \/ s.branch = Len(SqlPlan.branches)
             THEN [s EXCEPT !.pc = "done", !.outputRows = rows, !.rows = <<>>]
             ELSE [s EXCEPT !.branch = @ + 1, !.at = 1, !.outputRows = rows, !.rows = <<>>])

\* runSelectRows
RunSqlStage ==
  /\ sql.pc = "stages"
  /\ IF sql.at > Len(SqlStages) THEN EndBranch(sql)
     ELSE LET s == Looks(sql) IN
          IF Stops(s) THEN EndBranch(s)
          ELSE CASE SqlStage.kind \in {"execution", "project"} -> NextSqlStage(s, s.rows)
                 [] SqlStage.kind = "filter" ->
                      NextSqlStage(s, Filter(s.rows, SqlStage.expression, Primary(Select)))
                 [] SqlStage.kind = "join" /\ SqlStage.source.kind = "subcollection" ->
                      SqlDoes([s EXCEPT !.pc = "joining", !.left = s.rows])
                 [] OTHER -> SqlDoes([s EXCEPT !.pc = "asked"])

\* joinLocalRows: the next row; a row without the document has no subcollection.
JoinNextRow ==
  /\ sql.pc = "joining"
  /\ IF sql.left = <<>> THEN NextSqlStage(sql, sql.joined)
     ELSE LET s == Looks(sql)
              row == Head(sql.left)
          IN IF Stops(s) THEN NextSqlStage(s, s.joined)
             ELSE IF row[SqlStage.source.of] = NoDocument
             THEN SqlDoes([s EXCEPT !.left = Tail(@),
                            !.joined = @ \o Joined(row, <<>>, SqlStage, Primary(Select))])
             ELSE SqlDoes([s EXCEPT !.pc = "asked"])

-----------------------------------------------------------------------------
(***************************************************************************)
(* Reads.  A collection is where it is, below a document or on top, and    *)
(* its name; Firestore has its documents in the order of their ids.        *)
(***************************************************************************)

\* valuesForSource: the documents a source stands for.
Documents == DocumentsNow[written + 1]
In(below, name) ==
  LET path == <<below, name>>
      ids == IF path \in DOMAIN Documents THEN Documents[path] ELSE <<>>
  IN [i \in 1..Len(ids) |-> [in |-> path, id |-> ids[i].id, data |-> ids[i].data]]
Held(source, row) ==
  CASE source.kind = "collection" -> In(<<>>, source.name)
    [] source.kind = "collection_group" ->
         LET places == SetToSeq({path \in DOMAIN Documents : path[2] = source.name})
         IN FlattenSeq([i \in DOMAIN places |-> In(places[i][1], source.name)])
    [] source.kind = "subcollection" ->
         In(<<row[source.of].in[2], row[source.of].id>>, source.name)

\* The answer of AdminFirestoreSqlRuntime's query, with its limit and its mask.
SqlAnswers ==
  /\ sql.pc = "asked"
  /\ LET source == SqlStage.source
         held == Held(source, IF sql.left = <<>> THEN <<>> ELSE Head(sql.left))
         docs == Limited(held, ReadLimit(Select, source.alias))
     IN SqlDoes([sql EXCEPT
          !.pc = "collecting",
          !.seen = WithDocument(@, <<sql.branch, sql.at, Len(sql.left)>>, held),
          !.todo = [i \in DOMAIN docs |->
                      [docs[i] EXCEPT !.data = Masked(@, Mask(Select, source.alias))]]])

SqlReadFails ==
  /\ sql.pc = "asked" /\ Mishap /\ UNCHANGED written
  /\ sql' = [sql EXCEPT !.pc = "failed", !.rows = <<>>, !.left = <<>>, !.joined = <<>>,
                        !.outputRows = <<>>]

\* The documents of a source are collected: what its stage makes of them.
EndRead(s) ==
  LET primary == Primary(Select) IN
  IF SqlStage.kind = "read"
  THEN NextSqlStage(s, RowsOf(s.docs, primary))
  ELSE IF SqlStage.source.kind = "subcollection"
  THEN SqlDoes([s EXCEPT !.pc = "joining", !.left = Tail(@), !.docs = <<>>, !.todo = <<>>,
                 !.joined = @ \o Joined(Head(s.left), s.docs, SqlStage, primary)])
  ELSE NextSqlStage(s, FlattenSeq([i \in DOMAIN s.rows |->
                                     Joined(s.rows[i], s.docs, SqlStage, primary)]))

\* collectRuntimeDocs, incrementReads
Collect ==
  /\ sql.pc = "collecting"
  /\ IF sql.todo = <<>> \/ Reached(Len(sql.docs), ReadLimit(Select, SqlStage.source.alias))
     THEN EndRead(sql)
     ELSE LET s == Looks(sql) IN
          IF Stops(s) THEN EndRead(s)
          ELSE SqlDoes([s EXCEPT !.docs = Append(@, Head(s.todo)), !.todo = Tail(@),
                         !.reads = @ + 1,
                         !.reason = IF s.reads + 1 >= ReadBudget THEN "budget" ELSE @])

-----------------------------------------------------------------------------
\* cancel(); the controller is looked at only when the answer is there.
CancelSql == sql.pc = "asked" /\ ~sql.aborted /\ SqlDoes([sql EXCEPT !.aborted = TRUE])

\* Date.now(); what matters is whether the timeout is over.
SqlTime == /\ sql.pc \notin SqlOver \cup {"new"} /\ sql.elapsed <= SqlPlan.timeoutMs
           /\ SqlDoes([sql EXCEPT !.elapsed = @ + 1])

\* Another client writes, or deletes, documents.
SqlWritten == /\ sql.pc = "asked" /\ written + 1 < Len(DocumentsNow)
              /\ written' = written + 1 /\ UNCHANGED <<sql, mishaps>>

LoseSql == /\ sql' = [NewSqlRun(sql.name) EXCEPT !.pc = IF sql.pc = "new" THEN "new" ELSE "lost"]
           /\ UNCHANGED written

SqlNext == \/ StartSql \/ RunSqlStage \/ JoinNextRow \/ SqlAnswers \/ SqlReadFails \/ Collect
           \/ CancelSql \/ SqlTime \/ SqlWritten

-----------------------------------------------------------------------------
SqlTypeOK ==
  /\ sql.pc \in {"new", "stages", "joining", "asked", "collecting"} \cup SqlOver
  /\ sql.reason \in {"none", "budget", "cancelled", "timeout"}
  /\ written \in 0..(Len(DocumentsNow) - 1)
  /\ sql.pc \notin SqlOver \cup {"new"} =>
       /\ sql.branch \in 1..Len(SqlPlan.branches) /\ sql.at \in 1..(Len(SqlStages) + 1)
       /\ Stops(sql) \/ sql.reads < ReadBudget

\* What a branch means: the rows of its sources as they were when read, with
\* all their fields and documents.
JoinedRows(b, i, rows) ==
  LET select == SqlPlan.branches[b]
      join == select.joins[i]
      Key(k) == <<b, i + 2, IF join.source.kind = "subcollection" THEN Len(rows) - k + 1 ELSE 0>>
      Right(k) == IF Key(k) \in DOMAIN sql.seen THEN sql.seen[Key(k)] ELSE <<>>
  IN FlattenSeq([k \in DOMAIN rows |-> Joined(rows[k], Right(k), join, Primary(select))])
PassingRows(b) ==
  LET select == SqlPlan.branches[b]
      all[i \in 0..Len(select.joins)] ==
        IF i = 0 THEN RowsOf(sql.seen[<<b, 2, 0>>], Primary(select)) ELSE JoinedRows(b, i, all[i - 1])
  IN Filter(all[Len(select.joins)], select.where, Primary(select))

\* A row is sooner than another that its order puts after it, or that it puts nowhere
\* and that comes after it already.
Ranked(keys, order) ==
  LET Sooner(i, j) == \/ Precedes(keys[i], keys[j], order)
                      \/ i < j /\ ~Precedes(keys[j], keys[i], order)
  IN [k \in DOMAIN keys |->
        CHOOSE i \in DOMAIN keys : Cardinality({j \in DOMAIN keys : Sooner(j, i)}) = k - 1]
Meant(b) ==
  LET select == SqlPlan.branches[b]
      primary == Primary(select)
      rows == PassingRows(b)
      ranked == Ranked(Keys(rows, select.order, primary), select.order)
      limited == Limited(ranked, select.limit)
  IN [k \in DOMAIN limited |-> Projected(select.columns, rows[limited[k]], primary)]

\* What a branch has a meaning for.  The name of a field of the primary source, without its
\* alias, is taken for the alias of a source that has it, also of one joined later.
\* A value that is no number is neither less nor more than one: an order by it may
\* compare two rows with each other and a third with neither.
NamesItsSources(b) ==
  LET select == SqlPlan.branches[b]
      Known(i) == {Primary(select)} \cup {select.joins[j].source.alias : j \in 1..i}
  IN \A i \in DOMAIN select.joins : \A x \in Parts(select.joins[i].on) :
       x.op = "fieldPath" /\ Head(x.path) \in Aliases(select) => Head(x.path) \in Known(i)
ComparesItsRows(b) ==
  LET select == SqlPlan.branches[b]
      keys == Keys(PassingRows(b), select.order, Primary(select))
      Before(i, j) == Precedes(keys[i], keys[j], select.order)
  IN \A i, j, k \in DOMAIN keys :
       /\ Before(i, k) => Before(i, j) \/ Before(j, k)
       /\ ~(Before(i, k) /\ Before(k, i))

\* A run that was not stopped gives the rows its statement means: no limit is
\* pushed down and no field is left out, of any source, that a filter, a join,
\* an order or a column of it needs, and whatever is stopped on the way is
\* reported as stopped (Safe limit pushdown, Field projection pushdown).
CompletesWithItsRows ==
  LET Branches == DOMAIN SqlPlan.branches IN
  (/\ sql.pc = "done" /\ sql.reason = "none"
   /\ \A b \in Branches : NamesItsSources(b) /\ ComparesItsRows(b))
  => sql.outputRows = FlattenSeq([b \in Branches |-> Meant(b)])
=============================================================================
