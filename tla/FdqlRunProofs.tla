--------------------------- MODULE FdqlRunProofs ---------------------------
(* A cancelled FDQL run does nothing more (CancelInv), what the persistent
   cache holds is the whole answer of its key (FdqlInv), and a run that has
   completed has returned what its query means (MeantInv): for every plan,
   page size, budget, cache policy and number of runs. *)
EXTENDS FdqlRun, TLAPS, FiniteSetTheorems, SequenceTheorems, WellFoundedInduction

\* Where a run is once it has been cancelled: what it waits for, or the code
\* that looks at the signal next.
AbortedPcs == {"connectRead", "connectAggregate", "ask", "paging", "aggregating", "read",
               "aggregated", "done"}
CancelReasons == {"none", "cancelled", "failed"}
RunFields == DOMAIN NewRun

\* What is true of a run by itself.
RunInv(s) ==
  /\ DOMAIN s = RunFields /\ s.asked \in Nat
  /\ s.pc # "done" => s.reason = "none"
  /\ s.aborted => s.pc \in AbortedPcs /\ s.reason \in CancelReasons

\* A cancellation reaches a run only while it does not have the turn, and then it waits
\* for a connection or for a request.  From there on every way leads past a look at the
\* signal before anything is shown or stored, and before anything is sent but the first
\* request of an aggregate that was getting its connection.
CancelInv ==
  /\ DOMAIN run = Runs
  /\ \A r \in Runs : RunInv(run[r]) /\ (run[r].pc \in Waiting <=> turn # r)

\* What a step of a cancelled run r may not do.
Quiet(r) ==
  /\ run'[r].shown = run[r].shown
  /\ run'[r].pc \in {"paging", "aggregating"} => run[r].pc = run'[r].pc
  /\ run'[r].asked > run[r].asked => run[r].pc = "connectAggregate" /\ run'[r].pc = "aggregated"
  /\ turn = r => store' = store
  /\ run'[r].reason \in CancelReasons

LEMMA NobodyIsNoRun == Nobody \notin Runs
BY FdqlAssumption DEF Runs, Nobody

\* Over ends a run and keeps what it has shown (stopEvents, and run's result).
LEMMA OverEnds ==
  ASSUME NEW s, DOMAIN s = RunFields, NEW reason
  PROVE  /\ DOMAIN Over(s, reason) = RunFields
         /\ Over(s, reason).pc = "done" /\ Over(s, reason).reason = reason
         /\ Over(s, reason).asked = 0
         /\ Over(s, reason).aborted = s.aborted /\ Over(s, reason).shown = s.shown
BY DEF Over, RunFields, NewRun

\* A look at the signal of a cancelled run sees it (stopReasonFor, controlsStopped).
LEMMA AbortedIsSeen ==
  ASSUME NEW s, s.aborted
  PROVE  StopBefore(s) = "cancelled" /\ StopAfter(s) = "cancelled" /\ Stopped(s)
BY DEF StopBefore, StopAfter, Stopped

\* The step of one run r to t, which has the turn, takes it or gives it up.
LEMMA OneRun ==
  ASSUME CancelInv, NEW r \in Runs, NEW t, Becomes(r, t),
         turn \in {r, Nobody}, turn' \in {r, Nobody},
         RunInv(t), t.pc \in Waiting <=> turn' # r,
         run[r].aborted => /\ t.shown = run[r].shown
                           /\ t.pc \in {"paging", "aggregating"} => run[r].pc = t.pc
                           /\ t.asked > run[r].asked =>
                                run[r].pc = "connectAggregate" /\ t.pc = "aggregated"
                           /\ turn = r => store' = store
                           /\ t.reason \in CancelReasons
  PROVE  CancelInv' /\ \A q \in Runs : run[q].aborted => Quiet(q)
BY NobodyIsNoRun DEF Becomes, CancelInv, RunInv, Quiet

\* A run that ends, for a reason that a cancelled run may have.
LEMMA EndStep ==
  ASSUME CancelInv, NEW r \in Runs, NEW s, NEW reason, Ends(r, s, reason),
         turn \in {r, Nobody}, DOMAIN s = RunFields, s.aborted = run[r].aborted,
         run[r].aborted => reason \in CancelReasons /\ s.shown = run[r].shown
  PROVE  CancelInv' /\ \A q \in Runs : run[q].aborted => Quiet(q)
<1> DEFINE t == Over(s, reason)
<1>1. Becomes(r, t) /\ turn' = Nobody /\ store' = store BY DEF Ends
<1>2. /\ DOMAIN t = RunFields /\ t.pc = "done" /\ t.reason = reason /\ t.asked = 0
      /\ t.aborted = run[r].aborted /\ t.shown = s.shown
  BY OverEnds
<1>3. RunInv(t) /\ (t.pc \in Waiting <=> turn' # r)
  BY <1>1, <1>2, NobodyIsNoRun DEF RunInv, AbortedPcs, Waiting
<1>4. ~(t.asked > run[r].asked)
  <2>1. run[r].asked \in Nat BY DEF CancelInv, RunInv
  <2> QED BY <1>2, <2>1
<1> HIDE DEF t
<1> QED BY <1>1, <1>2, <1>3, <1>4, OneRun

LEMMA CancelInvInit == Init => CancelInv
BY NobodyIsNoRun DEF Init, CancelInv, RunInv, RunFields, NewRun, Waiting, AbortedPcs

\* What the intermediate forms of a run keep of it.
Keeps(t, s) ==
  /\ DOMAIN t = RunFields /\ t.aborted = s.aborted /\ t.reason = s.reason
  /\ t.asked = s.asked \/ t.asked = s.asked + 1

LEMMA FormsKeep ==
  ASSUME NEW s, DOMAIN s = RunFields, NEW rows
  PROVE  /\ Keeps(FirstStage(s, rows), s) /\ FirstStage(s, rows).pc = "stage"
         /\ Keeps(NextStage(s, rows), s) /\ NextStage(s, rows).pc \in {"return", "stage"}
         /\ Keeps(NextRow(s, rows), s) /\ NextRow(s, rows).pc = "stage"
BY DEF FirstStage, NextStage, NextRow, Keeps, RunFields, NewRun

\* A step within its turn of a run that is not cancelled.
LEMMA FreeStep ==
  ASSUME CancelInv, NEW r \in Runs, NEW t, Becomes(r, t), turn = r, turn' \in {r, Nobody},
         ~run[r].aborted, Keeps(t, run[r]), t.pc \in Waiting <=> turn' = Nobody,
         t.pc # "done"
  PROVE  CancelInv' /\ \A q \in Runs : run[q].aborted => Quiet(q)
BY NobodyIsNoRun, OneRun DEF CancelInv, RunInv, Waiting, Keeps

\* A cancelled run that has the turn is where it looks at the signal next.
LEMMA AbortedTurn ==
  ASSUME CancelInv, NEW r \in Runs, turn = r, run[r].aborted
  PROVE  run[r].pc \in {"ask", "read", "aggregated"}
BY DEF CancelInv, RunInv, AbortedPcs, Waiting

LEMMA TurnFields ==
  ASSUME CancelInv, NEW r \in Runs
  PROVE  DOMAIN run[r] = RunFields
BY DEF CancelInv, RunInv

LEMMA AskStep ==
  ASSUME CancelInv, NEW r \in Runs, Ask(r)
  PROVE  CancelInv' /\ \A q \in Runs : run[q].aborted => Quiet(q)
<1>1. CASE run[r].got < run[r].max /\ ~Stopped(run[r])
  <2> DEFINE t == [run[r] EXCEPT !.pc = "paging", !.asked = @ + 1]
  <2>1. Becomes(r, t) /\ turn = r /\ turn' = Nobody BY <1>1 DEF Ask, Sends
  <2>2. Keeps(t, run[r]) /\ t.pc = "paging" BY TurnFields DEF Keeps, RunFields, NewRun
  <2>3. ~run[r].aborted BY <1>1, AbortedIsSeen
  <2> QED BY <2>1, <2>2, <2>3, FreeStep DEF Waiting
<1>2. CASE ~(run[r].got < run[r].max /\ ~Stopped(run[r]))
  <2> DEFINE t == [run[r] EXCEPT !.pc = "read"]
  <2>1. Becomes(r, t) /\ turn = r /\ turn' = r /\ store' = store BY <1>2 DEF Ask, Goes
  <2>2. /\ DOMAIN t = RunFields /\ t.pc = "read" /\ t.shown = run[r].shown
        /\ t.aborted = run[r].aborted /\ t.reason = run[r].reason /\ t.asked = run[r].asked
    BY TurnFields DEF RunFields, NewRun
  <2>3. run[r].asked \in Nat /\ run[r].reason = "none"
    BY <2>1 DEF CancelInv, RunInv, Ask
  <2>4. RunInv(t) /\ ~(t.asked > run[r].asked)
    BY <2>2, <2>3 DEF RunInv, AbortedPcs, CancelReasons
  <2> QED BY <2>1, <2>2, <2>3, <2>4, OneRun, NobodyIsNoRun DEF Waiting, CancelReasons
<1> QED BY <1>1, <1>2

LEMMA ResumeStep ==
  ASSUME CancelInv, NEW r \in Runs, NEW t, Becomes(r, t), turn = Nobody, turn' = r,
         run[r].pc # "done", Keeps(t, run[r]), t.shown = run[r].shown, t.pc \notin Waiting,
         run[r].aborted =>
           /\ t.pc \in AbortedPcs
           /\ t.asked = run[r].asked \/ (run[r].pc = "connectAggregate" /\ t.pc = "aggregated")
  PROVE  CancelInv' /\ \A q \in Runs : run[q].aborted => Quiet(q)
<1>1. run[r].asked \in Nat /\ run[r].reason = "none" BY DEF CancelInv, RunInv
<1>2. RunInv(t) /\ (t.pc \in Waiting <=> turn' # r)
  BY <1>1 DEF CancelInv, RunInv, Keeps, CancelReasons
<1>3. run[r].aborted /\ t.asked > run[r].asked =>
        run[r].pc = "connectAggregate" /\ t.pc = "aggregated"
  BY <1>1
<1> QED BY <1>1, <1>2, <1>3, NobodyIsNoRun, OneRun DEF Keeps, CancelReasons, Waiting

\* The connection is there: a cancelled run that reads looks at the signal next, and one
\* that aggregates has sent a request for whose answer it does not wait.
LEMMA ConnectedStep ==
  ASSUME CancelInv, NEW r \in Runs, Connected(r)
  PROVE  CancelInv' /\ \A q \in Runs : run[q].aborted => Quiet(q)
<1> DEFINE s == run[r]
<1> DEFINE first == [s EXCEPT !.asked = @ + 1]
<1>0. DOMAIN s = RunFields /\ turn = Nobody BY TurnFields DEF Connected
<1>1. CASE s.pc = "connectRead"
  <2> DEFINE t == [s EXCEPT !.pc = "ask"]
  <2>1. Becomes(r, t) /\ turn' = r BY <1>1 DEF Connected, Resumes
  <2>2. Keeps(t, s) /\ t.pc = "ask" /\ t.shown = s.shown /\ t.asked = s.asked
    BY <1>0 DEF Keeps, RunFields, NewRun
  <2> QED BY <1>0, <1>1, <2>1, <2>2, ResumeStep DEF AbortedPcs, Waiting
<1>2. CASE s.pc = "connectAggregate" /\ Stopped(s)
  <2> DEFINE t == [first EXCEPT !.pc = "aggregated"]
  <2>1. Becomes(r, t) /\ turn' = r BY <1>2 DEF Connected, Resumes
  <2>2. Keeps(t, s) /\ t.pc = "aggregated" /\ t.shown = s.shown
    BY <1>0 DEF Keeps, RunFields, NewRun
  <2> HIDE DEF t
  <2> QED BY <1>0, <1>2, <2>1, <2>2, ResumeStep DEF AbortedPcs, Waiting
<1>3. CASE s.pc = "connectAggregate" /\ ~Stopped(s)
  <2> DEFINE t == [first EXCEPT !.pc = "aggregating"]
  <2>1. Becomes(r, t) /\ turn' = Nobody BY <1>3 DEF Connected, Sends
  <2>2. Keeps(t, s) /\ t.pc = "aggregating" BY <1>0 DEF Keeps, RunFields, NewRun
  <2>3. ~s.aborted /\ s.reason = "none" /\ s.asked \in Nat
    BY <1>3, AbortedIsSeen DEF CancelInv, RunInv
  <2> HIDE DEF t
  <2>4. RunInv(t) BY <2>2, <2>3 DEF RunInv, Keeps
  <2> QED BY <1>0, <2>1, <2>2, <2>3, <2>4, OneRun, NobodyIsNoRun DEF Waiting
<1> QED BY <1>1, <1>2, <1>3 DEF Connected


LEMMA PageArrivesStep ==
  ASSUME CancelInv, NEW r \in Runs, PageArrives(r)
  PROVE  CancelInv' /\ \A q \in Runs : run[q].aborted => Quiet(q)
<1> DEFINE read == [run[r] EXCEPT !.pc = "read"]
<1>1. CASE Resumes(r, read)
  <2>1. Keeps(read, run[r]) /\ read.pc = "read" /\ read.shown = run[r].shown
    BY TurnFields DEF Keeps, RunFields, NewRun
  <2>2. read.asked = run[r].asked BY TurnFields DEF RunFields, NewRun
  <2> QED BY <1>1, <2>1, <2>2, ResumeStep DEF Resumes, PageArrives, Waiting, AbortedPcs
<1>2. CASE ~Resumes(r, read)
  <2>1. PICK n, b : Resumes(r, [run[r] EXCEPT !.pc = "docs", !.page = n, !.short = b]) /\ ~Stopped(run[r])
    BY <1>2 DEF PageArrives
  <2> DEFINE t == [run[r] EXCEPT !.pc = "docs", !.page = n, !.short = b]
  <2>2. Keeps(t, run[r]) /\ t.pc = "docs" /\ t.shown = run[r].shown
    BY TurnFields DEF Keeps, RunFields, NewRun
  <2> QED BY <2>1, <2>2, AbortedIsSeen, ResumeStep DEF Resumes, PageArrives, Waiting
<1> QED BY <1>1, <1>2

LEMMA AbandonStep ==
  ASSUME CancelInv, NEW r \in Runs, Abandon(r)
  PROVE  CancelInv' /\ \A q \in Runs : run[q].aborted => Quiet(q)
<1>1. PICK pc \in {"read", "aggregated"} :
        Resumes(r, [run[r] EXCEPT !.pc = pc]) /\ run[r].pc # "done"
  BY DEF Abandon
<1> DEFINE t == [run[r] EXCEPT !.pc = pc]
<1>2. Keeps(t, run[r]) /\ t.pc = pc /\ t.shown = run[r].shown /\ t.asked = run[r].asked
  BY TurnFields DEF Keeps, RunFields, NewRun
<1> QED BY <1>1, <1>2, ResumeStep DEF Resumes, Waiting, AbortedPcs

LEMMA RequestFailsStep ==
  ASSUME CancelInv, NEW r \in Runs, RequestFails(r)
  PROVE  CancelInv' /\ \A q \in Runs : run[q].aborted => Quiet(q)
<1> DEFINE t == Over(run[r], "failed")
<1>1. Becomes(r, t) /\ turn = Nobody /\ turn' = Nobody BY DEF RequestFails
<1>2. /\ DOMAIN t = RunFields /\ t.pc = "done" /\ t.reason = "failed" /\ t.asked = 0
      /\ t.aborted = run[r].aborted /\ t.shown = run[r].shown
  BY OverEnds, TurnFields
<1> HIDE DEF t
<1>4. ~(t.asked > run[r].asked)
  <2>1. run[r].asked \in Nat BY DEF CancelInv, RunInv
  <2> QED BY <1>2, <2>1
<1>3. RunInv(t) /\ t.pc \in Waiting /\ t.reason \in CancelReasons
  BY <1>2 DEF RunInv, AbortedPcs, Waiting, CancelReasons
<1> QED BY <1>1, <1>2, <1>3, <1>4, NobodyIsNoRun, OneRun

LEMMA DocumentStep ==
  ASSUME CancelInv, NEW r \in Runs, Document(r)
  PROVE  CancelInv' /\ \A q \in Runs : run[q].aborted => Quiet(q)
<1> DEFINE s == run[r]
<1> DEFINE read == [s EXCEPT !.reads = @ + 1, !.got = @ + 1, !.page = @ - 1,
                      !.next = IF s.at = 0 THEN Append(@, Row(KeyOf[s.got + 1], <<>>)) ELSE @]
<1>0. turn = r /\ DOMAIN s = RunFields BY TurnFields DEF Document
<1>1. ~s.aborted BY AbortedTurn DEF Document
<1>2. DOMAIN read = RunFields /\ read.aborted = s.aborted /\ read.reason = s.reason
      /\ read.asked = s.asked
  BY <1>0 DEF RunFields, NewRun
<1>3. ASSUME NEW pc \in {"read", "ask", "docs"}, Goes(r, [s EXCEPT !.pc = pc])
      PROVE  CancelInv' /\ \A q \in Runs : run[q].aborted => Quiet(q)
  <2> DEFINE t == [s EXCEPT !.pc = pc]
  <2>1. Keeps(t, s) /\ t.pc = pc BY <1>0 DEF Keeps, RunFields, NewRun
  <2> QED BY <1>0, <1>1, <1>3, <2>1, FreeStep, NobodyIsNoRun DEF Goes, Waiting
<1>4. ASSUME NEW pc \in {"read", "ask", "docs"}, NEW x \in {TRUE, FALSE},
             Goes(r, IF x THEN [read EXCEPT !.spent = TRUE, !.pc = pc]
                     ELSE [read EXCEPT !.pc = pc])
      PROVE  CancelInv' /\ \A q \in Runs : run[q].aborted => Quiet(q)
  <2> HIDE DEF read
  <2> DEFINE t == IF x THEN [read EXCEPT !.spent = TRUE, !.pc = pc] ELSE [read EXCEPT !.pc = pc]
  <2>1. Keeps(t, s) /\ t.pc = pc BY <1>2 DEF Keeps, RunFields, NewRun
  <2> QED BY <1>0, <1>1, <1>4, <2>1, FreeStep, NobodyIsNoRun DEF Goes, Waiting
<1>5. ASSUME NEW reason, Ends(r, read, reason)
      PROVE  CancelInv' /\ \A q \in Runs : run[q].aborted => Quiet(q)
  <2> HIDE DEF read
  <2> QED BY <1>0, <1>1, <1>2, <1>5, EndStep
<1> DEFINE more == IF read.got = s.max \/ (read.page = 0 /\ s.short) THEN "read"
                   ELSE IF read.page = 0 THEN "ask" ELSE "docs"
<1>6. more \in {"read", "ask", "docs"} OBVIOUS
<1>7. \/ Goes(r, [s EXCEPT !.pc = "read"])
      \/ Goes(r, [read EXCEPT !.spent = TRUE, !.pc = "read"])
      \/ Goes(r, [read EXCEPT !.pc = more])
      \/ Ends(r, read, StopAfter(read))
  BY DEF Document
<1> HIDE DEF read, more
<1> QED BY <1>3, <1>4, <1>5, <1>6, <1>7

LEMMA BeginBranchStep ==
  ASSUME CancelInv, NEW r \in Runs, BeginBranch(r)
  PROVE  CancelInv' /\ \A q \in Runs : run[q].aborted => Quiet(q)
<1>0. turn = r /\ DOMAIN run[r] = RunFields /\ ~run[r].aborted
  BY TurnFields, AbortedTurn DEF BeginBranch
<1>1. CASE Ends(r, run[r], StopBefore(run[r])) BY <1>0, <1>1, EndStep
<1>2. CASE Sends(r, [run[r] EXCEPT !.pc = "connectAggregate"])
  <2> DEFINE t == [run[r] EXCEPT !.pc = "connectAggregate"]
  <2>1. Keeps(t, run[r]) /\ t.pc = "connectAggregate" BY <1>0 DEF Keeps, RunFields, NewRun
  <2> QED BY <1>0, <1>2, <2>1, FreeStep DEF Sends, Waiting
<1>3. ASSUME NEW max, NEW bent,
             Sends(r, [[run[r] EXCEPT !.max = max, !.bent = bent] EXCEPT !.pc = "connectRead"])
      PROVE  CancelInv' /\ \A q \in Runs : run[q].aborted => Quiet(q)
  <2> DEFINE t == [[run[r] EXCEPT !.max = max, !.bent = bent] EXCEPT !.pc = "connectRead"]
  <2>1. Keeps(t, run[r]) /\ t.pc = "connectRead" BY <1>0 DEF Keeps, RunFields, NewRun
  <2> QED BY <1>0, <1>3, <2>1, FreeStep DEF Sends, Waiting
<1> QED BY <1>1, <1>2, <1>3 DEF BeginBranch

LEMMA SourceReadStep ==
  ASSUME CancelInv, NEW r \in Runs, SourceRead(r)
  PROVE  CancelInv' /\ \A q \in Runs : run[q].aborted => Quiet(q)
<1>0. turn = r /\ DOMAIN run[r] = RunFields BY TurnFields DEF SourceRead
<1>1. CASE StopBefore(run[r]) # "none"
  BY <1>0, <1>1, AbortedIsSeen, EndStep DEF SourceRead, CancelReasons
<1>2. CASE StopBefore(run[r]) = "none"
  <2> DEFINE t == FirstStage(run[r], run[r].next)
  <2>1. Goes(r, t) /\ ~run[r].aborted BY <1>2, AbortedIsSeen DEF SourceRead
  <2>2. Keeps(t, run[r]) /\ t.pc = "stage" BY <1>0, FormsKeep
  <2> HIDE DEF t
  <2> QED BY <1>0, <2>1, <2>2, FreeStep, NobodyIsNoRun DEF Goes, Waiting
<1> QED BY <1>1, <1>2

\* A step that keeps the turn, of a run that is not cancelled.
LEMMA StaysStep ==
  ASSUME CancelInv, NEW r \in Runs, NEW t, Becomes(r, t), turn = r, turn' = turn,
         ~run[r].aborted, Keeps(t, run[r]), t.pc \notin Waiting
  PROVE  CancelInv' /\ \A q \in Runs : run[q].aborted => Quiet(q)
BY FreeStep, NobodyIsNoRun DEF Waiting

LEMMA RunStageStep ==
  ASSUME CancelInv, NEW r \in Runs, RunStage(r)
  PROVE  CancelInv' /\ \A q \in Runs : run[q].aborted => Quiet(q)
<1>0. turn = r /\ DOMAIN run[r] = RunFields /\ ~run[r].aborted
  BY TurnFields, AbortedTurn DEF RunStage
<1>1. CASE Goes(r, [run[r] EXCEPT !.pc = "return"])
  <2> DEFINE t == [run[r] EXCEPT !.pc = "return"]
  <2>1. Keeps(t, run[r]) /\ t.pc = "return" BY <1>0 DEF Keeps, RunFields, NewRun
  <2> QED BY <1>0, <1>1, <2>1, StaysStep DEF Goes, Waiting
<1>2. ASSUME NEW rows, Goes(r, NextStage(run[r], rows))
      PROVE  CancelInv' /\ \A q \in Runs : run[q].aborted => Quiet(q)
  <2> DEFINE t == NextStage(run[r], rows)
  <2>1. Keeps(t, run[r]) /\ t.pc \in {"return", "stage"} BY <1>0, FormsKeep
  <2>2. Becomes(r, t) /\ turn' = turn BY <1>2 DEF Goes
  <2> HIDE DEF t
  <2> QED BY <1>0, <2>1, <2>2, StaysStep DEF Waiting
<1> QED BY <1>1, <1>2 DEF RunStage

\* What a lookup or an aggregate makes of a run before its next row: a form
\* of it with other fields, which FreeStep and StaysStep do not look at.
LEMMA ServedKeeps ==
  ASSUME NEW s, DOMAIN s = RunFields, NEW rows, NEW bent, NEW disturbed
  PROVE  LET t == [NextRow(s, rows) EXCEPT !.bent = bent, !.disturbed = disturbed]
             u == [NextRow(s, rows) EXCEPT !.disturbed = disturbed]
         IN Keeps(t, s) /\ t.pc = "stage" /\ Keeps(u, s) /\ u.pc = "stage"
BY DEF NextRow, Keeps, RunFields, NewRun

LEMMA BeginLookupStep ==
  ASSUME CancelInv, NEW r \in Runs, BeginLookup(r)
  PROVE  CancelInv' /\ \A q \in Runs : run[q].aborted => Quiet(q)
<1> DEFINE s == run[r]
<1>0. turn = r /\ DOMAIN s = RunFields /\ ~s.aborted BY TurnFields, AbortedTurn DEF BeginLookup
<1>1. CASE Ends(r, s, StopBefore(s)) BY <1>0, <1>1, EndStep
<1>2. ASSUME NEW rows, NEW bent, NEW disturbed, turn' = turn,
             Becomes(r, [NextRow(s, rows) EXCEPT !.bent = bent, !.disturbed = disturbed])
      PROVE  CancelInv' /\ \A q \in Runs : run[q].aborted => Quiet(q)
  BY <1>0, <1>2, ServedKeeps, StaysStep DEF Waiting
<1>3. ASSUME NEW rows, Goes(r, NextRow(s, rows))
      PROVE  CancelInv' /\ \A q \in Runs : run[q].aborted => Quiet(q)
  BY <1>0, <1>3, FormsKeep, StaysStep DEF Goes, Waiting
<1>4. ASSUME NEW max, NEW bent, turn' = Nobody,
             Becomes(r, [s EXCEPT !.max = max, !.pc = "connectRead", !.bent = bent])
      PROVE  CancelInv' /\ \A q \in Runs : run[q].aborted => Quiet(q)
  <2> DEFINE t == [s EXCEPT !.max = max, !.pc = "connectRead", !.bent = bent]
  <2>1. Keeps(t, s) /\ t.pc = "connectRead" BY <1>0 DEF Keeps, RunFields, NewRun
  <2> QED BY <1>0, <1>4, <2>1, FreeStep DEF Waiting
<1>5. \/ Ends(r, s, StopBefore(s))
      \/ \E rows : Goes(r, NextRow(s, rows))
      \/ turn' = Nobody /\ \E max, bent :
           Becomes(r, [s EXCEPT !.max = max, !.pc = "connectRead", !.bent = bent])
      \/ turn' = turn /\ \E rows, bent, disturbed :
           Becomes(r, [NextRow(s, rows) EXCEPT !.bent = bent, !.disturbed = disturbed])
  BY DEF BeginLookup, Goes, Sends
<1> QED BY <1>1, <1>2, <1>3, <1>4, <1>5

LEMMA LookupReadStep ==
  ASSUME CancelInv, NEW r \in Runs, LookupRead(r)
  PROVE  CancelInv' /\ \A q \in Runs : run[q].aborted => Quiet(q)
<1> DEFINE s == run[r]
<1>0. turn = r /\ DOMAIN s = RunFields BY TurnFields DEF LookupRead
<1>1. CASE StopBefore(s) # "none"
  <2>1. Ends(r, s, StopBefore(s)) BY <1>1 DEF LookupRead
  <2> QED BY <1>0, <2>1, AbortedIsSeen, EndStep DEF CancelReasons
<1>2. CASE StopBefore(s) = "none"
  <2>0. ~s.aborted BY <1>2, AbortedIsSeen
  <2>1. CASE Ends(r, s, "failed") BY <1>0, <2>0, <2>1, EndStep
  <2>2. ASSUME NEW rows, Becomes(r, NextRow(s, rows)), turn' = turn
        PROVE  CancelInv' /\ \A q \in Runs : run[q].aborted => Quiet(q)
    BY <1>0, <2>0, <2>2, FormsKeep, StaysStep DEF Waiting
  <2>3. ASSUME NEW rows, NEW memory, Becomes(r, [NextRow(s, rows) EXCEPT !.memory = memory]),
               turn' = turn
        PROVE  CancelInv' /\ \A q \in Runs : run[q].aborted => Quiet(q)
    <3> DEFINE t == [NextRow(s, rows) EXCEPT !.memory = memory]
    <3>1. Keeps(t, s) /\ t.pc = "stage" BY <1>0 DEF NextRow, Keeps, RunFields, NewRun
    <3> QED BY <1>0, <2>0, <2>3, <3>1, StaysStep DEF Waiting
  <2>4. \/ Ends(r, s, "failed")
        \/ turn' = turn /\ \E rows : Becomes(r, NextRow(s, rows))
        \/ turn' = turn /\ \E rows, memory : Becomes(r, [NextRow(s, rows) EXCEPT !.memory = memory])
    BY <1>2 DEF LookupRead, Goes
  <2> QED BY <2>1, <2>2, <2>3, <2>4
<1> QED BY <1>1, <1>2

LEMMA BeginAggregateStep ==
  ASSUME CancelInv, NEW r \in Runs, BeginAggregate(r)
  PROVE  CancelInv' /\ \A q \in Runs : run[q].aborted => Quiet(q)
<1> DEFINE s == run[r]
<1>0. turn = r /\ DOMAIN s = RunFields /\ ~s.aborted BY TurnFields, AbortedTurn DEF BeginAggregate
<1>1. CASE Ends(r, s, StopBefore(s)) BY <1>0, <1>1, EndStep
<1>2. ASSUME NEW rows, NEW disturbed, turn' = turn,
             Becomes(r, [NextRow(s, rows) EXCEPT !.disturbed = disturbed])
      PROVE  CancelInv' /\ \A q \in Runs : run[q].aborted => Quiet(q)
  BY <1>0, <1>2, ServedKeeps, StaysStep DEF Waiting
<1>3. ASSUME Becomes(r, [s EXCEPT !.pc = "connectAggregate"]), turn' = Nobody
      PROVE  CancelInv' /\ \A q \in Runs : run[q].aborted => Quiet(q)
  <2> DEFINE t == [s EXCEPT !.pc = "connectAggregate"]
  <2>1. Keeps(t, s) /\ t.pc = "connectAggregate" BY <1>0 DEF Keeps, RunFields, NewRun
  <2> QED BY <1>0, <1>3, <2>1, FreeStep DEF Waiting
<1>4. \/ Ends(r, s, StopBefore(s))
      \/ turn' = Nobody /\ Becomes(r, [s EXCEPT !.pc = "connectAggregate"])
      \/ turn' = turn /\ \E rows, disturbed :
           Becomes(r, [NextRow(s, rows) EXCEPT !.disturbed = disturbed])
  BY DEF BeginAggregate, Goes, Sends
<1> QED BY <1>1, <1>2, <1>3, <1>4

LEMMA AggregateArrivesStep ==
  ASSUME CancelInv, NEW r \in Runs, AggregateArrives(r)
  PROVE  CancelInv' /\ \A q \in Runs : run[q].aborted => Quiet(q)
<1> DEFINE s == run[r]
<1>0. turn = Nobody /\ s.pc = "aggregating" /\ DOMAIN s = RunFields /\ ~s.aborted
  BY TurnFields, AbortedIsSeen DEF AggregateArrives
<1>1. PICK t : /\ Keeps(t, s) /\ t.pc \in {"aggregating", "aggregated"}
               /\ Becomes(r, t)
               /\ turn' = IF t.pc = "aggregating" THEN Nobody ELSE r
  <2> DEFINE counts == [s EXCEPT !.max = docs[Reading(s)], !.got = 1]
  <2> DEFINE extreme == [s EXCEPT !.got = @ + 1,
                           !.page = @ + (IF docs[Reading(s)] > 0 THEN 1 ELSE 0)]
  <2> DEFINE u == IF s.got = 0 THEN counts ELSE extreme
  <2>1. Keeps(u, s) /\ u.pc = "aggregating" /\ u.asked = s.asked
    BY <1>0 DEF Keeps, RunFields, NewRun
  <2>2. /\ Becomes(r, IF u.got <= Extremes(s) THEN [u EXCEPT !.asked = @ + 1]
                      ELSE [u EXCEPT !.pc = "aggregated"])
        /\ turn' = IF u.got <= Extremes(s) THEN Nobody ELSE r
    BY DEF AggregateArrives
  <2> HIDE DEF u
  <2>3. Keeps([u EXCEPT !.pc = "aggregated"], s) /\ [u EXCEPT !.pc = "aggregated"].pc = "aggregated"
    BY <2>1 DEF Keeps, RunFields, NewRun
  <2>4. CASE u.got <= Extremes(s)
    <3>1. Keeps([u EXCEPT !.asked = @ + 1], s) /\ [u EXCEPT !.asked = @ + 1].pc = "aggregating"
      BY <2>1 DEF Keeps, RunFields, NewRun
    <3> QED BY <2>2, <2>4, <3>1
  <2>5. CASE ~(u.got <= Extremes(s)) BY <2>2, <2>3, <2>5
  <2> QED BY <2>4, <2>5
<1>2. s.reason = "none" BY <1>0 DEF CancelInv, RunInv
<1>3. RunInv(t)
  <2>1. s.asked \in Nat BY DEF CancelInv, RunInv
  <2> QED BY <1>0, <1>1, <1>2, <2>1 DEF RunInv, Keeps
<1>4. t.pc \in Waiting <=> turn' # r BY <1>1, NobodyIsNoRun DEF Waiting
<1> QED BY <1>0, <1>1, <1>3, <1>4, OneRun

LEMMA AggregatedStep ==
  ASSUME CancelInv, NEW r \in Runs, Aggregated(r)
  PROVE  CancelInv' /\ \A q \in Runs : run[q].aborted => Quiet(q)
<1> DEFINE s == [run[r] EXCEPT !.reads = @ + run[r].page]
<1>0. turn = r /\ DOMAIN run[r] = RunFields BY TurnFields DEF Aggregated
<1>1. /\ DOMAIN s = RunFields /\ Keeps(s, run[r]) /\ s.shown = run[r].shown
      /\ s.asked = run[r].asked
  BY <1>0 DEF Keeps, RunFields, NewRun
<1>2. \/ Ends(r, s, StopBefore(s)) /\ StopBefore(s) # "none"
      \/ /\ StopBefore(s) = "none" /\ turn' = turn
         /\ \E t : /\ Becomes(r, t)
                  /\ \/ \E rows : t = FirstStage(s, rows) \/ t = NextRow(s, rows)
                     \/ \E rows, memory : t = [NextRow(s, rows) EXCEPT !.memory = memory]
  <2> DEFINE k == AggregateKey(Head(s.todo).key)
  <2> DEFINE done == NextRow(s, <<Attach(Head(s.todo), s.max)>>)
  <2>1. CASE StopBefore(s) # "none" BY <2>1 DEF Aggregated
  <2>2. CASE StopBefore(s) = "none" /\ s.at = 0 BY <2>2 DEF Aggregated, Goes
  <2>3. CASE StopBefore(s) = "none" /\ s.at # 0 BY <2>3 DEF Aggregated, Goes
  <2> QED BY <2>1, <2>2, <2>3
<1> HIDE DEF s
<1>3. CASE Ends(r, s, StopBefore(s)) /\ StopBefore(s) # "none"
  BY <1>0, <1>1, <1>3, AbortedIsSeen, EndStep DEF CancelReasons, Keeps
<1>4. ASSUME StopBefore(s) = "none", turn' = turn, NEW t, Becomes(r, t),
             \/ \E rows : t = FirstStage(s, rows) \/ t = NextRow(s, rows)
             \/ \E rows, memory : t = [NextRow(s, rows) EXCEPT !.memory = memory]
      PROVE  CancelInv' /\ \A q \in Runs : run[q].aborted => Quiet(q)
  <2>1. Keeps(t, s) /\ t.pc = "stage"
    <3>1. CASE \E rows : t = FirstStage(s, rows) \/ t = NextRow(s, rows) BY <1>1, <3>1, FormsKeep
    <3>2. CASE \E rows, memory : t = [NextRow(s, rows) EXCEPT !.memory = memory]
      BY <1>1, <3>2 DEF NextRow, Keeps, RunFields, NewRun
    <3> QED BY <1>4, <3>1, <3>2
  <2>2. ~run[r].aborted /\ Keeps(t, run[r]) BY <1>1, <1>4, <2>1, AbortedIsSeen DEF Keeps
  <2> QED BY <1>0, <1>4, <2>1, <2>2, StaysStep DEF Waiting
<1> QED BY <1>2, <1>3, <1>4

LEMMA ReturnRowStep ==
  ASSUME CancelInv, NEW r \in Runs, ReturnRow(r)
  PROVE  CancelInv' /\ \A q \in Runs : run[q].aborted => Quiet(q)
<1> DEFINE shows == [run[r] EXCEPT !.shown = Append(@, Head(run[r].todo)), !.todo = Tail(@)]
<1>0. turn = r /\ DOMAIN run[r] = RunFields /\ run[r].pc = "return" /\ ~run[r].aborted
  BY TurnFields, AbortedTurn DEF ReturnRow
<1>1. DOMAIN shows = RunFields /\ Keeps(shows, run[r]) /\ shows.pc = "return"
  BY <1>0 DEF Keeps, RunFields, NewRun
<1>2. CASE Ends(r, shows, StopBefore(run[r])) BY <1>0, <1>1, <1>2, EndStep DEF Keeps
<1>3. CASE Goes(r, shows) BY <1>0, <1>1, <1>3, StaysStep DEF Goes, Waiting
<1> QED BY <1>2, <1>3 DEF ReturnRow

LEMMA EndBranchStep ==
  ASSUME CancelInv, NEW r \in Runs, EndBranch(r)
  PROVE  CancelInv' /\ \A q \in Runs : run[q].aborted => Quiet(q)
<1> DEFINE t == [run[r] EXCEPT !.pc = "branch", !.branch = @ + 1, !.at = 0, !.next = <<>>,
                               !.max = 0, !.got = 0, !.page = 0, !.short = FALSE]
<1>0. turn = r /\ DOMAIN run[r] = RunFields /\ ~run[r].aborted
  BY TurnFields, AbortedTurn DEF EndBranch
<1>1. ASSUME NEW reason, Ends(r, run[r], reason)
      PROVE  CancelInv' /\ \A q \in Runs : run[q].aborted => Quiet(q)
  BY <1>0, <1>1, EndStep
<1>2. CASE Goes(r, t) BY <1>0, <1>2, StaysStep DEF Keeps, RunFields, NewRun, Goes, Waiting
<1> QED BY <1>1, <1>2 DEF EndBranch

LEMMA StartStep ==
  ASSUME CancelInv, NEW r \in Runs, NEW name, Start(r, name)
  PROVE  CancelInv' /\ \A q \in Runs : run[q].aborted => Quiet(q)
<1> DEFINE s == [run[r] EXCEPT !.startedAt = clock, !.plan = name]
<1>0. turn = Nobody /\ DOMAIN run[r] = RunFields /\ run[r].pc = "new" BY TurnFields DEF Start
<1>1. ~run[r].aborted /\ run[r].reason = "none" /\ run[r].asked \in Nat
  BY <1>0 DEF CancelInv, RunInv, AbortedPcs
<1>2. DOMAIN s = RunFields /\ Keeps(s, run[r]) BY <1>0 DEF Keeps, RunFields, NewRun
<1>3. CASE turn' = r /\ Becomes(r, [s EXCEPT !.pc = "branch"])
  <2> DEFINE t == [s EXCEPT !.pc = "branch"]
  <2>1. Keeps(t, run[r]) /\ t.pc = "branch" BY <1>2 DEF Keeps, RunFields, NewRun
  <2>2. RunInv(t) BY <1>1, <2>1 DEF RunInv, Keeps
  <2> QED BY <1>0, <1>1, <1>3, <2>1, <2>2, OneRun DEF Waiting
<1>4. CASE Ends(r, s, "failed") BY <1>0, <1>1, <1>2, <1>4, EndStep DEF Keeps
<1>5. CASE turn' = turn /\ Becomes(r, Over(s, "completed"))
  <2> DEFINE t == Over(s, "completed")
  <2>0. DOMAIN s = RunFields /\ ~s.aborted BY <1>1, <1>2 DEF Keeps
  <2> HIDE DEF s
  <2>1. DOMAIN t = RunFields /\ t.pc = "done" /\ ~t.aborted /\ t.asked = 0 BY <2>0, OverEnds
  <2>2. Becomes(r, t) /\ turn' = Nobody BY <1>0, <1>5
  <2> HIDE DEF t
  <2>3. RunInv(t) BY <2>1 DEF RunInv
  <2> QED BY <1>0, <1>1, <2>1, <2>2, <2>3, NobodyIsNoRun, OneRun DEF Waiting
<1> QED BY <1>3, <1>4, <1>5 DEF Start

\* cancel: the run waits for a connection or for an answer of Firestore, as it does not
\* have the turn.
LEMMA CancelStep ==
  ASSUME CancelInv, NEW r \in Runs, Cancel(r)
  PROVE  CancelInv' /\ \A q \in Runs : run[q].aborted => Quiet(q)
<1> DEFINE t == [run[r] EXCEPT !.aborted = TRUE]
<1>0. /\ turn = Nobody /\ turn' = turn /\ DOMAIN run[r] = RunFields /\ ~run[r].aborted
      /\ Becomes(r, t)
  BY TurnFields DEF Cancel
<1>1. /\ run[r].pc \in Waiting \ {"new", "done"} /\ run[r].reason = "none"
      /\ run[r].asked \in Nat
  BY <1>0, NobodyIsNoRun DEF Cancel, CancelInv, RunInv
<1>2. DOMAIN t = RunFields /\ t.pc = run[r].pc /\ t.reason = "none" /\ t.asked = run[r].asked
  BY <1>0, <1>1 DEF RunFields, NewRun
<1>3. RunInv(t) /\ (t.pc \in Waiting <=> turn' # r)
  BY <1>0, <1>1, <1>2, NobodyIsNoRun DEF RunInv, AbortedPcs, CancelReasons, Waiting
<1> QED BY <1>0, <1>3, OneRun

\* A write of another client and the clock leave what the invariant looks at alone.
LEMMA OutsideStep ==
  ASSUME CancelInv, turn' = turn, DOMAIN run' = Runs, store' = store \/ turn = Nobody,
         \A r \in Runs : /\ DOMAIN run'[r] = DOMAIN run[r] /\ run'[r].pc = run[r].pc
                         /\ run'[r].reason = run[r].reason /\ run'[r].aborted = run[r].aborted
                         /\ run'[r].shown = run[r].shown /\ run'[r].asked = run[r].asked
  PROVE  CancelInv' /\ \A q \in Runs : run[q].aborted => Quiet(q)
BY NobodyIsNoRun DEF CancelInv, RunInv, Quiet

LEMMA OutsideWriteStep ==
  ASSUME CancelInv, NEW c, NEW n, OutsideWrite(c, n)
  PROVE  CancelInv' /\ \A q \in Runs : run[q].aborted => Quiet(q)
BY TurnFields, OutsideStep DEF OutsideWrite, RunFields, NewRun

LEMMA CancelNext ==
  ASSUME CancelInv, [Next]_vars
  PROVE  CancelInv' /\ \A q \in Runs : run[q].aborted => Quiet(q)
<1>1. ASSUME NEW r \in Runs, Step(r)
      PROVE  CancelInv' /\ \A q \in Runs : run[q].aborted => Quiet(q)
  BY <1>1, AskStep, DocumentStep, BeginBranchStep, SourceReadStep, RunStageStep, BeginLookupStep,
     LookupReadStep, BeginAggregateStep, AggregatedStep, ReturnRowStep, EndBranchStep DEF Step
<1>2. ASSUME NEW r \in Runs,
             \/ \E name \in PlansOf[r] : Start(r, name)
             \/ Cancel(r) \/ Abandon(r) \/ RequestFails(r)
             \/ Connected(r) \/ PageArrives(r) \/ AggregateArrives(r)
      PROVE  CancelInv' /\ \A q \in Runs : run[q].aborted => Quiet(q)
  BY <1>2, StartStep, CancelStep, AbandonStep, RequestFailsStep, ConnectedStep, PageArrivesStep,
     AggregateArrivesStep
<1>3. CASE Tick \/ UNCHANGED vars BY <1>3, OutsideStep DEF CancelInv, Tick, vars
<1>4. CASE \E c \in Collections, n \in 0..MaxDocs : OutsideWrite(c, n) BY <1>4, OutsideWriteStep
<1> QED BY <1>1, <1>2, <1>3, <1>4 DEF Next

\* From its cancellation on a run is where it looks at the signal before it shows or
\* stores anything: each await of fdql-core's runtime is followed by stopReasonFor or
\* controlsStopped.  A run that was getting the connection of an aggregate sends the
\* first request before it looks.
THEOREM CancelInvariant == Spec => []CancelInv
<1>1. CancelInv /\ [Next]_vars => CancelInv' BY CancelNext
<1> QED BY <1>1, CancelInvInit, PTL DEF Spec

\* A cancelled run returns no further row, sends no request but the first of an aggregate
\* that was getting its connection, leaves the persistent cache alone, and ends as
\* cancelled or failed, never as completed: for all plans, budgets, page sizes, caches,
\* failures and numbers of runs.
THEOREM CancelledIsQuiet == Spec => CancelStops
<1>1. CancelInv /\ [Next]_vars =>
        [\A r \in Runs : run[r].aborted =>
           /\ run'[r].shown = run[r].shown
           /\ run'[r].pc \in {"paging", "aggregating"} => run[r].pc = run'[r].pc
           /\ run'[r].asked > run[r].asked =>
                run[r].pc = "connectAggregate" /\ run'[r].pc = "aggregated"
           /\ turn = r => store' = store
           /\ run'[r].reason \in {"none", "cancelled", "failed"}]_vars
  BY CancelNext DEF Quiet, CancelReasons
<1> QED BY <1>1, CancelInvariant, PTL DEF Spec, CancelStops

----------------
(* The answers of the persistent cache *)

RowKeys == Keys \cup {Missing}
Rows == [key : RowKeys, vals : Seq(Nat)]
Entries == [rows : Nat, expires : Nat, accessed : Nat, stale : BOOLEAN]
Pcs == {"new", "connectRead", "connectAggregate", "paging", "aggregating", "done",
        "branch", "ask", "docs", "read", "aggregated", "stage", "return"}

\* The types of the world and of the persistent cache.
WorldTyped ==
  /\ docs \in [Collections -> 0..MaxDocs]
  /\ clock \in 0..MaxTime /\ turn \in Runs \cup {Nobody}
  /\ writes \in 0..MaxWrites /\ faults \in 0..MaxFaults

StoreTyped ==
  /\ DOMAIN store \subseteq CacheKey
  /\ \A k \in DOMAIN store : store[k] \in Entries

RunTyped(s) ==
  /\ s.plan \in DOMAIN Plans \cup {NoPlan} /\ s.reason \in Reasons /\ s.pc \in Pcs
  /\ s.startedAt \in Nat /\ s.branch \in Nat /\ s.reads \in Nat /\ s.at \in Nat
  /\ s.max \in Nat /\ s.got \in Nat /\ s.page \in Nat
  /\ s.aborted \in BOOLEAN /\ s.spent \in BOOLEAN /\ s.short \in BOOLEAN
  /\ s.bent \in BOOLEAN /\ s.disturbed \in BOOLEAN
  /\ s.todo \in Seq(Rows) /\ s.next \in Seq(Rows)
  /\ \A k \in DOMAIN s.memory : s.memory[k] \in Nat
  /\ s.reason = "none" <=> s.pc # "done"

Pages == {"connectRead", "ask", "paging", "docs", "read"}
Aggregates == {"connectAggregate", "aggregating", "aggregated"}

\* A run that is under way is at a branch of a plan to read, and in it at the source, at a
\* stage, or past the last one; a stage of rows reads for a row that has a key.
AtStage(s) ==
  s.pc \notin {"new", "done"} =>
    /\ s.plan \in DOMAIN Plans /\ Plan(s).kind = "read"
    /\ s.branch \in DOMAIN Plan(s).branches
    /\ s.pc = "branch" => s.at = 0
    /\ s.pc = "stage" => s.at > 0
    /\ s.pc \in {"branch", "stage"} => s.got = 0 /\ s.page = 0 /\ s.max = 0
    /\ s.pc = "stage" /\ Branch(s).stages # <<>> => s.at \in DOMAIN Branch(s).stages
    /\ s.at > 0 /\ s.pc \in Pages \cup Aggregates =>
         /\ s.at \in DOMAIN Branch(s).stages
         /\ Stage(s).kind = IF s.pc \in Pages THEN "lookup" ELSE "providerAggregate"
         /\ s.todo # <<>> /\ Head(s.todo).key \in Keys

\* What has been read so far, and what of it is on the page: never more than asked for,
\* and while nobody else writes never more than there is.  A read is over when it has
\* what it asked for, when there is no more, or because the run is to stop.
PagesRead(s) ==
  s.pc \in Pages =>
    /\ s.got + s.page <= s.max /\ s.got <= s.reads
    /\ s.pc = "paging" => s.got < s.max
    /\ s.pc \in {"connectRead", "ask", "paging"} => s.page = 0
    /\ s.pc = "docs" => /\ s.page > 0 /\ s.got + s.page <= docs[Reading(s)]
                        /\ s.short => s.got + s.page = docs[Reading(s)]
    /\ ~s.disturbed => s.got <= docs[Reading(s)]
    /\ s.pc = "read" /\ s.at > 0 /\ ~s.disturbed /\ ~Stopped(s) =>
         s.got = Least(s.max, docs[Reading(s)])

\* The budget that was left when the lookup under way was asked.
LeftAtFirst(s) ==
  IF Plan(s).budget > s.reads - s.got THEN Plan(s).budget - (s.reads - s.got) ELSE 0

\* A lookup that reads on has not used up the budget.
WithinBudget(s) ==
  s.pc \in Pages /\ s.at > 0 =>
    /\ s.max = Least(Least(Stage(s).limit, OneCap(Stage(s))), LeftAtFirst(s))
    /\ s.got > 0 => s.reads < Plan(s).budget

\* An aggregate has counted what there is.
CountRead(s) ==
  /\ s.pc \in {"connectAggregate", "aggregating"} /\ s.got > 0 /\ ~s.disturbed => s.max = docs[Reading(s)]
  /\ s.pc = "aggregated" /\ ~s.disturbed /\ ~Stopped(s) => s.max = docs[Reading(s)]

RunOK(s) == (s.pc = "new" => s = NewRun) /\ RunTyped(s) /\ AtStage(s) /\ PagesRead(s) /\ WithinBudget(s) /\ CountRead(s)

FdqlInv == WorldTyped /\ StoreTyped /\ PersistedIsWhole /\ \A r \in Runs : RunOK(run[r])

----------------
\* A set of numbers has a least element,
LEMMA LeastOf ==
  ASSUME NEW T \in SUBSET Nat, T # {}
  PROVE  \E n \in T : \A m \in T : n <= m
<1>1. PICK n \in T : \A m \in T : ~(<<m, n>> \in OpToRel(<, Nat)) BY NatLessThanWellFounded, WFMin
<1>2. \A m \in T : ~(m < n) BY <1>1 DEF OpToRel
<1> QED BY <1>2

\* and a set of positions a greatest one.
LEMMA GreatestOf ==
  ASSUME NEW n \in Nat, NEW T \in SUBSET (1..n), T # {}
  PROVE  Max(T) \in T
<1> DEFINE D == {n - i : i \in T}
<1>0. D # {} OBVIOUS
<1>1. D \in SUBSET Nat OBVIOUS
<1> HIDE DEF D
<1>2. PICK d \in D : \A e \in D : d <= e BY <1>0, <1>1, LeastOf
<1>3. PICK i \in T : d = n - i BY DEF D
<1>4. ASSUME NEW k \in T PROVE i >= k
  <2>1. n - k \in D BY DEF D
  <2>2. n - i <= n - k BY <1>2, <1>3, <2>1
  <2> QED BY <2>2
<1> QED BY <1>4 DEF Max

----------------
\* A fold over a finite set S, whose recursion goes by an element ch chooses.
FoldStep(f, s, base, F, ch) == IF s = {} THEN base ELSE F[<<f[s \ {ch[s]}], ch[s]>>]
\* The subsets of up to n elements.
Small(S, n) == {s \in SUBSET S : Cardinality(s) <= n}

\* There is a fold of F over S.
FoldIsThere(S, V, base, F, ch) ==
  \E f \in [SUBSET S -> V] : \A s \in SUBSET S : f[s] = FoldStep(f, s, base, F, ch)

\* There is one: by induction on the size of the sets it is about.
LEMMA FoldSolved ==
  ASSUME NEW S, IsFiniteSet(S), NEW V, NEW base \in V, NEW F \in [V \X S -> V],
         NEW ch, \A s \in SUBSET S : s # {} => ch[s] \in s
  PROVE  FoldIsThere(S, V, base, F, ch)
<1> DEFINE Solved(n) == \E f \in [Small(S, n) -> V] : \A s \in Small(S, n) : f[s] = FoldStep(f, s, base, F, ch)
<1>0. \A s \in SUBSET S : IsFiniteSet(s) /\ Cardinality(s) \in Nat /\ Cardinality(s) <= Cardinality(S)
  BY FS_Subset, FS_CardinalityType
<1>1. Solved(0)
  <2> DEFINE f == [s \in Small(S, 0) |-> base]
  <2>1. \A s \in Small(S, 0) : s = {} BY <1>0, FS_EmptySet DEF Small
  <2>2. f \in [Small(S, 0) -> V] OBVIOUS
  <2>3. \A s \in Small(S, 0) : f[s] = FoldStep(f, s, base, F, ch) BY <2>1 DEF FoldStep
  <2> QED BY <2>2, <2>3
<1>2. ASSUME NEW n \in Nat, Solved(n) PROVE Solved(n + 1)
  <2>1. PICK g \in [Small(S, n) -> V] : \A s \in Small(S, n) : g[s] = FoldStep(g, s, base, F, ch)
    BY <1>2
  <2> DEFINE f == [s \in Small(S, n + 1) |-> FoldStep(g, s, base, F, ch)]
  <2>2. ASSUME NEW s \in Small(S, n + 1), s # {} PROVE s \ {ch[s]} \in Small(S, n) /\ ch[s] \in S
    <3>1. ch[s] \in s /\ s \in SUBSET S /\ Cardinality(s) <= n + 1 BY <2>2 DEF Small
    <3>2. Cardinality(s \ {ch[s]}) = Cardinality(s) - 1 BY <1>0, <3>1, FS_RemoveElement
    <3>3. Cardinality(s) \in Nat BY <1>0, <3>1
    <3>4. Cardinality(s \ {ch[s]}) <= n BY <3>1, <3>2, <3>3
    <3> QED BY <3>1, <3>4 DEF Small
  <2>3. Small(S, n) \subseteq Small(S, n + 1) BY <1>0 DEF Small
  <2>4. f \in [Small(S, n + 1) -> V] BY <2>1, <2>2 DEF FoldStep
  <2>5. \A s \in Small(S, n) : f[s] = g[s] BY <2>1, <2>3
  <2>6. ASSUME NEW s \in Small(S, n + 1) PROVE f[s] = FoldStep(f, s, base, F, ch)
    <3>1. f[s] = FoldStep(g, s, base, F, ch) OBVIOUS
    <3> HIDE DEF f
    <3>2. CASE s = {} BY <3>1, <3>2 DEF FoldStep
    <3>3. CASE s # {} BY <2>2, <2>5, <3>1, <3>3 DEF FoldStep
    <3> QED BY <3>2, <3>3
  <2> HIDE DEF f
  <2> QED BY <2>4, <2>6
<1> DEFINE Un == {n \in Nat : ~Solved(n)}
<1>3. Un \in SUBSET Nat OBVIOUS
<1>4. Un = {}
  <2> SUFFICES ASSUME Un # {} PROVE FALSE OBVIOUS
  <2> HIDE DEF Solved
  <2>1. \A n \in Un : n \in Nat /\ ~Solved(n) OBVIOUS
  <2>2. \A n \in Nat : n \notin Un => Solved(n) OBVIOUS
  <2> HIDE DEF Un
  <2>3. PICK n \in Un : \A m \in Un : n <= m BY <1>3, LeastOf
  <2>4. n # 0 BY <1>1, <2>1, <2>3
  <2>5. n - 1 \in Nat /\ n - 1 \notin Un /\ (n - 1) + 1 = n BY <2>1, <2>3, <2>4
  <2>6. Solved(n - 1) BY <2>2, <2>5
  <2>7. Solved((n - 1) + 1) BY <1>2, <2>5, <2>6
  <2> QED BY <2>1, <2>5, <2>7
<1>5. Cardinality(S) \in Nat BY FS_CardinalityType
<1>6. Small(S, Cardinality(S)) = SUBSET S BY <1>0 DEF Small
<1>7. Solved(Cardinality(S))
  <2> HIDE DEF Solved
  <2> QED BY <1>4, <1>5
<1> QED BY <1>6, <1>7 DEF FoldIsThere

\* What it starts with and what each step keeps holds of the whole.
LEMMA FoldIn ==
  ASSUME NEW S, IsFiniteSet(S), NEW V, NEW f, f[{}] \in V,
         \A s \in SUBSET S : s # {} => \E x \in s : f[s \ {x}] \in V => f[s] \in V
  PROVE  f[S] \in V
<1> DEFINE Bad == {s \in SUBSET S : f[s] \notin V}
<1> DEFINE T == {Cardinality(s) : s \in Bad}
<1>1. SUFFICES ASSUME Bad # {} PROVE FALSE OBVIOUS
<1>2. \A s \in SUBSET S : IsFiniteSet(s) /\ Cardinality(s) \in Nat BY FS_Subset, FS_CardinalityType
<1>3. T \in SUBSET Nat /\ T # {} BY <1>1, <1>2
<1> HIDE DEF T
<1>4. PICK n \in T : \A m \in T : n <= m BY <1>3, LeastOf
<1>5. PICK s \in Bad : n = Cardinality(s) BY <1>4 DEF T
<1>6. s \in SUBSET S /\ s # {} /\ f[s] \notin V OBVIOUS
<1>7. PICK x \in s : f[s \ {x}] \in V => f[s] \in V BY <1>6
<1>8. s \ {x} \in Bad BY <1>6, <1>7
<1>9. Cardinality(s \ {x}) \in T BY <1>8 DEF T
<1>10. Cardinality(s \ {x}) = Cardinality(s) - 1 BY <1>2, <1>6, FS_RemoveElement
<1> HIDE DEF Bad
<1>11. Cardinality(s) \in Nat /\ Cardinality(s) <= Cardinality(s \ {x}) BY <1>2, <1>4, <1>5, <1>6, <1>9
<1> QED BY <1>10, <1>11

\* A fold along a sequence of n elements, of steps that stay within V.
Along(n, V, base, F) ==
  \E f \in [SUBSET (1..n) -> V] :
    \A s \in SUBSET (1..n) : f[s] = IF s = {} THEN base ELSE F[<<f[s \ {Max(s)}], Max(s)>>]

\* There is a fold along 1..n when its steps stay within V.
LEMMA FoldAlong ==
  ASSUME NEW n \in Nat, NEW V, NEW base \in V, NEW F \in [V \X (1..n) -> V]
  PROVE  Along(n, V, base, F)
<1> DEFINE S == 1..n
<1> DEFINE ch == [s \in SUBSET S |-> Max(s)]
<1>1. IsFiniteSet(S) BY FS_Interval
<1>2. \A s \in SUBSET S : s # {} => Max(s) \in s BY GreatestOf
<1>3. \A s \in SUBSET S : s # {} => ch[s] \in s BY <1>2
<1>4. \A s \in SUBSET S : ch[s] = Max(s) OBVIOUS
<1>0. F \in [V \X S -> V] OBVIOUS
<1> HIDE DEF S, ch
<1>8. FoldIsThere(S, V, base, F, ch) BY <1>0, <1>1, <1>3, FoldSolved
<1>5. PICK f \in [SUBSET S -> V] : \A s \in SUBSET S : f[s] = FoldStep(f, s, base, F, ch)
  BY <1>8 DEF FoldIsThere
<1>6. \A s \in SUBSET S : f[s] = IF s = {} THEN base ELSE F[<<f[s \ {Max(s)}], Max(s)>>]
  BY <1>4, <1>5 DEF FoldStep
<1> QED BY <1>5, <1>6 DEF S, Along

\* What a fold along 1..n starts with and keeps, it ends with.
LEMMA FoldStays ==
  ASSUME NEW n \in Nat, NEW V, NEW f, f[{}] \in V,
         \A s \in SUBSET (1..n) : s # {} => (f[s \ {Max(s)}] \in V => f[s] \in V)
  PROVE  f[1..n] \in V
<1> DEFINE S == 1..n
<1>1. IsFiniteSet(S) BY FS_Interval
<1>2. \A s \in SUBSET S : s # {} => Max(s) \in s BY GreatestOf
<1>3. \A s \in SUBSET S : s # {} => \E x \in s : f[s \ {x}] \in V => f[s] \in V BY <1>2
<1> HIDE DEF S
<1>4. f[S] \in V BY <1>1, <1>3, FoldIn
<1> QED BY <1>4 DEF S

----------------
\* What a stage makes of rows are rows.

\* What a row has attached is a number, and with one more it is still a row (Row, Attach).
LEMMA AttachedRow ==
  ASSUME NEW row \in Rows
  PROVE  /\ Attached(row) \in Nat
         /\ \A n \in Nat : Attach(row, n) \in Rows
BY DEF Rows, Attached, Last, Attach, Row

\* A row inserted where it belongs leaves rows (sortRows).
LEMMA InsertedRows ==
  ASSUME NEW sorted \in Seq(Rows), NEW row \in Rows
  PROVE  Inserted(sorted, row) \in Seq(Rows)
<1> DEFINE greater == {i \in DOMAIN sorted : Attached(sorted[i]) > Attached(row)}
<1>1. CASE greater = {} BY <1>1 DEF Inserted
<1>2. CASE greater # {}
  <2>0. greater \subseteq 1..Len(sorted) OBVIOUS
  <2>1. greater \in SUBSET Nat BY <2>0
  <2> HIDE DEF greater
  <2>2. \E n \in greater : \A m \in greater : n <= m BY <1>2, <2>1, LeastOf
  <2> DEFINE i == CHOOSE i \in greater : \A j \in greater : i <= j
  <2>3. i \in greater BY <2>2
  <2>4. Inserted(sorted, row) = InsertAt(sorted, i, row) BY <1>2 DEF Inserted, greater
  <2> HIDE DEF i
  <2>5. i \in 1..Len(sorted) BY <2>0, <2>3
  <2>6. SubSeq(sorted, 1, i - 1) \in Seq(Rows) /\ SubSeq(sorted, i, Len(sorted)) \in Seq(Rows)
    BY <2>5, SubSeqProperties
  <2>7. <<row>> \in Seq(Rows) OBVIOUS
  <2>8. SubSeq(sorted, 1, i - 1) \o <<row>> \in Seq(Rows) BY <2>6, <2>7, ConcatProperties
  <2>9. (SubSeq(sorted, 1, i - 1) \o <<row>>) \o SubSeq(sorted, i, Len(sorted)) \in Seq(Rows)
    BY <2>6, <2>8, ConcatProperties
  <2> QED BY <2>4, <2>9 DEF InsertAt
<1> QED BY <1>1, <1>2

\* Sorted rows are rows: the fold along them inserts one after another (sortRows).
LEMMA SortedAreRows ==
  ASSUME NEW rows \in Seq(Rows)
  PROVE  SortedRows(rows) \in Seq(Rows)
<1> DEFINE n == Len(rows)
<1> DEFINE V == Seq(Rows)
<1> DEFINE F == [p \in V \X (1..n) |-> Inserted(p[1], rows[p[2]])]
<1>0. n \in Nat /\ DOMAIN rows = 1..n OBVIOUS
<1>1. F \in [V \X (1..n) -> V] BY <1>0, InsertedRows
<1>2. \A v \in V, i \in 1..n : F[<<v, i>>] = Inserted(v, rows[i]) OBVIOUS
<1>3. <<>> \in V OBVIOUS
<1>4. \A s \in SUBSET (1..n) : s # {} => Max(s) \in 1..n BY <1>0, GreatestOf
<1>5. \A v \in V, i \in 1..n : Inserted(v, rows[i]) \in V BY InsertedRows
<1> DEFINE Is(f) == f = [s \in SUBSET (1..n) |->
                           IF s = {} THEN <<>> ELSE Inserted(f[s \ {Max(s)}], rows[Max(s)])]
<1>6. SortedRows(rows) = (CHOOSE f : Is(f))[1..n] BY <1>0 DEF SortedRows, FoldLeft, MapThenFoldSet
<1> HIDE DEF n, F, V
<1>7. \E f : Is(f)
  <2>0. Along(n, V, <<>>, F) BY <1>0, <1>1, <1>3, FoldAlong
  <2>1. PICK f \in [SUBSET (1..n) -> V] :
          \A s \in SUBSET (1..n) : f[s] = IF s = {} THEN <<>> ELSE F[<<f[s \ {Max(s)}], Max(s)>>]
    BY <2>0 DEF Along
  <2>2. \A s \in SUBSET (1..n) : f[s \ {Max(s)}] \in V BY <2>1
  <2>3. \A s \in SUBSET (1..n) : f[s] = IF s = {} THEN <<>> ELSE Inserted(f[s \ {Max(s)}], rows[Max(s)])
    BY <1>2, <1>4, <2>1, <2>2
  <2>4. f = [s \in SUBSET (1..n) |->
                           IF s = {} THEN <<>> ELSE Inserted(f[s \ {Max(s)}], rows[Max(s)])]
    BY <2>1, <2>3
  <2> QED BY <2>4
<1> DEFINE g == CHOOSE f : Is(f)
<1>8. Is(g) BY <1>7
<1> HIDE DEF g
<1>9. \A s \in SUBSET (1..n) : g[s] = IF s = {} THEN <<>> ELSE Inserted(g[s \ {Max(s)}], rows[Max(s)])
  BY <1>8
<1>10. g[{}] \in V BY <1>3, <1>9
<1>11. \A s \in SUBSET (1..n) : s # {} => (g[s \ {Max(s)}] \in V => g[s] \in V) BY <1>4, <1>5, <1>9
<1>12. g[1..n] \in V BY <1>0, <1>10, <1>11, FoldStays
<1> QED BY <1>6, <1>12 DEF g, V

\* The folds of groups and filters, named (GroupRows, LocalRows).
GroupKeys(rows) ==
  FoldLeft(LAMBDA ks, row : IF Contains(ks, row.key) THEN ks ELSE Append(ks, row.key), <<>>, rows)
Filtered(rows) ==
  FoldLeft(LAMBDA kept, row : IF Attached(row) > 0 THEN Append(kept, row) ELSE kept, <<>>, rows)

\* The rows a filter keeps are rows (filterRows).
LEMMA FilteredAreRows ==
  ASSUME NEW rows \in Seq(Rows)
  PROVE  Filtered(rows) \in Seq(Rows)
<1> DEFINE n == Len(rows)
<1> DEFINE V == Seq(Rows)
<1> DEFINE Next1(v, i) == IF Attached(rows[i]) > 0 THEN Append(v, rows[i]) ELSE v
<1> DEFINE F == [p \in V \X (1..n) |-> Next1(p[1], p[2])]
<1>0. n \in Nat /\ DOMAIN rows = 1..n OBVIOUS
<1>5. \A v \in V, i \in 1..n : Next1(v, i) \in V BY <1>0
<1> DEFINE Is(f) == f = [s \in SUBSET (1..n) |->
                           IF s = {} THEN <<>> ELSE Next1(f[s \ {Max(s)}], Max(s))]
<1>6. Filtered(rows) = (CHOOSE f : Is(f))[1..n] BY <1>0 DEF Filtered, FoldLeft, MapThenFoldSet
<1>3. <<>> \in V OBVIOUS
<1> HIDE DEF Next1, V
<1>1. F \in [V \X (1..n) -> V] BY <1>5
<1>2. \A v \in V, i \in 1..n : F[<<v, i>>] = Next1(v, i) OBVIOUS
<1> HIDE DEF n, F
<1>4. \A s \in SUBSET (1..n) : s # {} => Max(s) \in 1..n BY <1>0, GreatestOf
<1>7. \E f : Is(f)
  <2>0. Along(n, V, <<>>, F) BY <1>0, <1>1, <1>3, FoldAlong
  <2>1. PICK f \in [SUBSET (1..n) -> V] :
          \A s \in SUBSET (1..n) : f[s] = IF s = {} THEN <<>> ELSE F[<<f[s \ {Max(s)}], Max(s)>>]
    BY <2>0 DEF Along
  <2>2. \A s \in SUBSET (1..n) : f[s \ {Max(s)}] \in V BY <2>1
  <2>3. \A s \in SUBSET (1..n) : f[s] = IF s = {} THEN <<>> ELSE Next1(f[s \ {Max(s)}], Max(s))
    BY <1>2, <1>4, <2>1, <2>2
  <2>4. f = [s \in SUBSET (1..n) |-> IF s = {} THEN <<>> ELSE Next1(f[s \ {Max(s)}], Max(s))]
    BY <2>1, <2>3
  <2> QED BY <2>4
<1> DEFINE g == CHOOSE f : Is(f)
<1>8. Is(g) BY <1>7
<1> HIDE DEF g
<1>9. \A s \in SUBSET (1..n) : g[s] = IF s = {} THEN <<>> ELSE Next1(g[s \ {Max(s)}], Max(s))
  BY <1>8
<1>10. g[{}] \in V BY <1>3, <1>9
<1>11. \A s \in SUBSET (1..n) : s # {} => (g[s \ {Max(s)}] \in V => g[s] \in V) BY <1>4, <1>5, <1>9
<1>12. g[1..n] \in V BY <1>0, <1>10, <1>11, FoldStays
<1> QED BY <1>6, <1>12 DEF g, V

\* The keys of the groups are keys of rows (aggregateRows).
LEMMA GroupKeysAreKeys ==
  ASSUME NEW rows \in Seq(Rows)
  PROVE  GroupKeys(rows) \in Seq(RowKeys)
<1> DEFINE n == Len(rows)
<1> DEFINE V == Seq(RowKeys)
<1> DEFINE Next1(v, i) == IF Contains(v, rows[i].key) THEN v ELSE Append(v, rows[i].key)
<1> DEFINE F == [p \in V \X (1..n) |-> Next1(p[1], p[2])]
<1>0. n \in Nat /\ DOMAIN rows = 1..n OBVIOUS
<1>5. \A v \in V, i \in 1..n : Next1(v, i) \in V
  <2>1. ASSUME NEW v \in V, NEW i \in 1..n PROVE Next1(v, i) \in V
    <3>0. rows[i] \in Rows BY <1>0
    <3>1. rows[i].key \in RowKeys BY <3>0 DEF Rows
    <3>2. Append(v, rows[i].key) \in V BY <3>1
    <3> QED BY <3>2
  <2> QED BY <2>1
<1> DEFINE Is(f) == f = [s \in SUBSET (1..n) |->
                           IF s = {} THEN <<>> ELSE Next1(f[s \ {Max(s)}], Max(s))]
<1>6. GroupKeys(rows) = (CHOOSE f : Is(f))[1..n] BY <1>0 DEF GroupKeys, FoldLeft, MapThenFoldSet
<1>3. <<>> \in V OBVIOUS
<1> HIDE DEF Next1, V
<1>1. F \in [V \X (1..n) -> V] BY <1>5
<1>2. \A v \in V, i \in 1..n : F[<<v, i>>] = Next1(v, i) OBVIOUS
<1> HIDE DEF n, F
<1>4. \A s \in SUBSET (1..n) : s # {} => Max(s) \in 1..n BY <1>0, GreatestOf
<1>7. \E f : Is(f)
  <2>0. Along(n, V, <<>>, F) BY <1>0, <1>1, <1>3, FoldAlong
  <2>1. PICK f \in [SUBSET (1..n) -> V] :
          \A s \in SUBSET (1..n) : f[s] = IF s = {} THEN <<>> ELSE F[<<f[s \ {Max(s)}], Max(s)>>]
    BY <2>0 DEF Along
  <2>2. \A s \in SUBSET (1..n) : f[s \ {Max(s)}] \in V BY <2>1
  <2>3. \A s \in SUBSET (1..n) : f[s] = IF s = {} THEN <<>> ELSE Next1(f[s \ {Max(s)}], Max(s))
    BY <1>2, <1>4, <2>1, <2>2
  <2>4. f = [s \in SUBSET (1..n) |-> IF s = {} THEN <<>> ELSE Next1(f[s \ {Max(s)}], Max(s))]
    BY <2>1, <2>3
  <2> QED BY <2>4
<1> DEFINE g == CHOOSE f : Is(f)
<1>8. Is(g) BY <1>7
<1> HIDE DEF g
<1>9. \A s \in SUBSET (1..n) : g[s] = IF s = {} THEN <<>> ELSE Next1(g[s \ {Max(s)}], Max(s))
  BY <1>8
<1>10. g[{}] \in V BY <1>3, <1>9
<1>11. \A s \in SUBSET (1..n) : s # {} => (g[s \ {Max(s)}] \in V => g[s] \in V) BY <1>4, <1>5, <1>9
<1>12. g[1..n] \in V BY <1>0, <1>10, <1>11, FoldStays
<1> QED BY <1>6, <1>12 DEF g, V

\* There is a row for every group, with the number of its members (aggregateRows).
LEMMA GroupsAreRows ==
  ASSUME NEW rows \in Seq(Rows)
  PROVE  GroupRows(rows) \in Seq(Rows)
<1> DEFINE keys == GroupKeys(rows)
<1> DEFINE Members(k) == {i \in DOMAIN rows : rows[i].key = k}
<1>1. keys \in Seq(RowKeys) BY GroupKeysAreKeys
<1>2. GroupRows(rows) = [i \in DOMAIN keys |-> Row(keys[i], <<Cardinality(Members(keys[i]))>>)]
  BY DEF GroupRows, GroupKeys
<1>3. ASSUME NEW k PROVE Cardinality(Members(k)) \in Nat
  <2>1. Members(k) \subseteq 1..Len(rows) /\ Len(rows) \in Nat OBVIOUS
  <2> HIDE DEF Members
  <2>2. IsFiniteSet(1..Len(rows)) BY <2>1, FS_Interval
  <2> QED BY <2>1, <2>2, FS_Subset, FS_CardinalityType
<1> HIDE DEF keys, Members
<1>4. ASSUME NEW i \in DOMAIN keys PROVE Row(keys[i], <<Cardinality(Members(keys[i]))>>) \in Rows
  BY <1>1, <1>3 DEF Row, Rows
<1>5. DOMAIN keys = 1..Len(keys) /\ Len(keys) \in Nat BY <1>1
<1>6. [i \in DOMAIN keys |-> Row(keys[i], <<Cardinality(Members(keys[i]))>>)] \in [1..Len(keys) -> Rows]
  BY <1>4, <1>5
<1> QED BY <1>2, <1>5, <1>6

\* A recursion of n steps that stay within V,
Walk(n, V, base, F) ==
  \E f \in [0..n -> V] : f[0] = base /\ \A i \in 1..n : f[i] = F[<<f[i - 1], i>>]

\* has a solution.
LEMMA Walked ==
  ASSUME NEW n \in Nat, NEW V, NEW base \in V, NEW F \in [V \X (1..n) -> V]
  PROVE  Walk(n, V, base, F)
<1>0. Along(n, V, base, F) BY FoldAlong
<1>1. PICK h \in [SUBSET (1..n) -> V] :
        \A s \in SUBSET (1..n) : h[s] = IF s = {} THEN base ELSE F[<<h[s \ {Max(s)}], Max(s)>>]
  BY <1>0 DEF Along
<1> DEFINE f == [i \in 0..n |-> h[1..i]]
<1>2. \A i \in 0..n : 1..i \in SUBSET (1..n) OBVIOUS
<1>3. f \in [0..n -> V] BY <1>1, <1>2
<1>4. f[0] = base
  <2>1. 1..0 = {} /\ 0 \in 0..n OBVIOUS
  <2>2. f[0] = h[{}] BY <2>1
  <2>3. {} \in SUBSET (1..n) OBVIOUS
  <2> HIDE DEF f
  <2> QED BY <1>1, <2>2, <2>3
<1>5. ASSUME NEW i \in 1..n PROVE f[i] = F[<<f[i - 1], i>>]
  <2>1. i \in 1..i /\ \A j \in 1..i : i >= j OBVIOUS
  <2>2. \A x \in 1..i : (\A j \in 1..i : x >= j) => x = i BY <2>1
  <2>3. Max(1..i) = i BY <2>1, <2>2 DEF Max
  <2>4. (1..i) \ {i} = 1..(i - 1) /\ 1..i # {} BY <2>1
  <2>5. i \in 0..n /\ i - 1 \in 0..n OBVIOUS
  <2> QED BY <1>1, <1>2, <2>3, <2>4, <2>5
<1> HIDE DEF f
<1> QED BY <1>3, <1>4, <1>5 DEF Walk

\* Putting sequences of rows together, one after another,
FlattensTo(seqs, f) == f[0] = <<>> /\ \A i \in 1..Len(seqs) : f[i] = f[i - 1] \o seqs[i]

\* is possible,
LEMMA Flattens ==
  ASSUME NEW seqs \in Seq(Seq(Rows))
  PROVE  \E f \in [0..Len(seqs) -> Seq(Rows)] : FlattensTo(seqs, f)
<1> DEFINE n == Len(seqs)
<1> DEFINE V == Seq(Rows)
<1> DEFINE F == [p \in V \X (1..n) |-> p[1] \o seqs[p[2]]]
<1>1. n \in Nat /\ \A i \in 1..n : seqs[i] \in V OBVIOUS
<1>2. \A v \in V, w \in V : v \o w \in V BY ConcatProperties
<1>3. <<>> \in V OBVIOUS
<1> HIDE DEF V, n
<1>4. F \in [V \X (1..n) -> V] BY <1>1, <1>2
<1>5. \A v \in V, i \in 1..n : F[<<v, i>>] = v \o seqs[i] OBVIOUS
<1> HIDE DEF F
<1>0. n \in Nat BY <1>1
<1>9. Walk(n, V, <<>>, F) BY <1>0, <1>3, <1>4, Walked
<1>6. PICK f \in [0..n -> V] : f[0] = <<>> /\ \A i \in 1..n : f[i] = F[<<f[i - 1], i>>]
  BY <1>9 DEF Walk
<1>7. \A i \in 1..n : i - 1 \in 0..n BY <1>1
<1>8. \A i \in 1..n : f[i] = f[i - 1] \o seqs[i] BY <1>5, <1>6, <1>7
<1> QED BY <1>6, <1>8 DEF FlattensTo, n, V

\* and is what FlattenSeq does.
LEMMA FlattenBy ==
  ASSUME NEW seqs \in Seq(Seq(Rows)), NEW f, FlattensTo(seqs, f)
  PROVE  FlattenSeq(seqs) = f[Len(seqs)] /\ FlattenSeq(seqs) \in Seq(Rows)
<1> DEFINE n == Len(seqs)
<1> DEFINE V == Seq(Rows)
<1>0. n \in Nat /\ \A i \in 1..n : seqs[i] \in V OBVIOUS
<1>1. CASE n = 0
  <2>1. seqs = <<>> BY <1>1
  <2> QED BY <1>1, <2>1 DEF FlattenSeq, FlattensTo
<1>2. CASE n # 0
  <2> DEFINE Is(e) == e = [i \in 1..n |-> IF i = 1 THEN seqs[i] ELSE e[i - 1] \o seqs[i]]
  <2> DEFINE g == CHOOSE e : Is(e)
  <2>1. FlattenSeq(seqs) = g[n] BY <1>0, <1>2 DEF FlattenSeq
  <2>2. \A v \in V, w \in V : v \o w \in V /\ <<>> \o w = w BY ConcatProperties, ConcatEmptySeq
  <2>3. <<>> \in V OBVIOUS
  <2>4. f[0] = <<>> /\ \A i \in 1..n : f[i] = f[i - 1] \o seqs[i] BY DEF FlattensTo
  <2> HIDE DEF V, n
  <2> DEFINE e == [i \in 1..n |-> f[i]]
  <2>5. ASSUME NEW i \in 1..n PROVE f[i] = IF i = 1 THEN seqs[i] ELSE e[i - 1] \o seqs[i]
    <3>1. CASE i = 1
      <4>1. f[i] = f[i - 1] \o seqs[i] /\ seqs[i] \in V BY <1>0, <2>4
      <4>2. i - 1 = 0 BY <3>1
      <4>3. f[i] = <<>> \o seqs[i] BY <2>4, <4>1, <4>2
      <4> QED BY <2>2, <3>1, <4>1, <4>3
    <3>2. CASE i # 1
      <4>1. i - 1 \in 1..n BY <1>0, <3>2
      <4> QED BY <2>4, <3>2, <4>1
    <3> QED BY <3>1, <3>2
  <2>6. e = [i \in 1..n |-> IF i = 1 THEN seqs[i] ELSE e[i - 1] \o seqs[i]] BY <2>5
  <2> HIDE DEF e
  <2>7. Is(g) BY <2>6
  <2> HIDE DEF g
  <2>8. \A i \in 1..n : g[i] = IF i = 1 THEN seqs[i] ELSE g[i - 1] \o seqs[i] BY <2>7
  <2> DEFINE Bad == {i \in 1..n : ~(g[i] = f[i] /\ g[i] \in V)}
  <2>9. Bad = {}
    <3>1. SUFFICES ASSUME Bad # {} PROVE FALSE OBVIOUS
    <3>2. Bad \in SUBSET Nat BY <1>0
    <3>3. PICK i \in Bad : \A j \in Bad : i <= j BY <3>1, <3>2, LeastOf
    <3>4. i \in 1..n /\ ~(g[i] = f[i] /\ g[i] \in V) OBVIOUS
    <3>5. CASE i = 1 BY <1>0, <2>5, <2>8, <3>4, <3>5
    <3>6. CASE i # 1
      <4>1. i - 1 \in 1..n /\ i - 1 < i BY <1>0, <3>4, <3>6
      <4>2. i - 1 \notin Bad BY <3>3, <4>1
      <4>3. g[i - 1] = f[i - 1] /\ g[i - 1] \in V BY <4>1, <4>2
      <4>4. g[i] = g[i - 1] \o seqs[i] BY <2>8, <3>4, <3>6
      <4>5. f[i] = f[i - 1] \o seqs[i] /\ seqs[i] \in V BY <1>0, <2>4, <3>4
      <4> QED BY <2>2, <3>4, <4>3, <4>4, <4>5
    <3> QED BY <3>5, <3>6
  <2>10. n \in 1..n BY <1>0, <1>2
  <2> QED BY <2>1, <2>9, <2>10 DEF g, V, n
<1> QED BY <1>1, <1>2

\* They are a sequence of rows.
LEMMA FlatRows ==
  ASSUME NEW seqs \in Seq(Seq(Rows))
  PROVE  FlattenSeq(seqs) \in Seq(Rows)
BY Flattens, FlattenBy

\* A row for every item of every row: rows again (unwindRow).
LEMMA UnwoundAreRows ==
  ASSUME NEW rows \in Seq(Rows)
  PROVE  FlattenSeq([i \in DOMAIN rows |-> Unwound(rows[i])]) \in Seq(Rows)
<1>1. ASSUME NEW row \in Rows PROVE Unwound(row) \in Seq(Rows)
  <2>1. Attached(row) \in Nat BY AttachedRow
  <2>2. \A i \in 1..Attached(row) : Attach(row, i) \in Rows BY <2>1, AttachedRow
  <2>3. [i \in 1..Attached(row) |-> Attach(row, i)] \in [1..Attached(row) -> Rows] BY <2>2
  <2> QED BY <2>1, <2>3 DEF Unwound
<1>2. DOMAIN rows = 1..Len(rows) /\ Len(rows) \in Nat OBVIOUS
<1>3. \A i \in 1..Len(rows) : Unwound(rows[i]) \in Seq(Rows) BY <1>1
<1>4. [i \in DOMAIN rows |-> Unwound(rows[i])] \in [1..Len(rows) -> Seq(Rows)] BY <1>2, <1>3
<1>5. [i \in DOMAIN rows |-> Unwound(rows[i])] \in Seq(Seq(Rows)) BY <1>2, <1>4
<1> QED BY <1>5, FlatRows

\* Every local stage makes rows of rows (executor/local stages).
LEMMA LocalRowsAreRows ==
  ASSUME NEW stage \in Stages, stage.kind \notin OfRows, NEW rows \in Seq(Rows)
  PROVE  LocalRows(stage, rows) \in Seq(Rows)
<1>1. \/ stage.kind \in {"filter", "sortBy", "unwind", "aggregate", "groups"}
      \/ stage.kind = "take" /\ stage.value \in Nat
  BY DEF Stages, OfRows
<1>2. CASE stage.kind = "filter"
  <2>1. Filtered(rows) \in Seq(Rows) BY FilteredAreRows
  <2> QED BY <1>2, <2>1 DEF LocalRows, Filtered
<1>3. CASE stage.kind = "sortBy" BY <1>3, SortedAreRows DEF LocalRows
<1>4. CASE stage.kind = "unwind" BY <1>4, UnwoundAreRows DEF LocalRows
<1>5. CASE stage.kind = "aggregate"
  <2>1. Row(Missing, <<Len(rows)>>) \in Rows BY DEF Row, Rows, RowKeys
  <2>2. LocalRows(stage, rows) = <<Row(Missing, <<Len(rows)>>)>> BY <1>5 DEF LocalRows
  <2> QED BY <2>1, <2>2
<1>6. CASE stage.kind = "groups" BY <1>6, GroupsAreRows DEF LocalRows
<1>7. CASE stage.kind = "take" /\ stage.value \in Nat
  <2> DEFINE n == Least(stage.value, Len(rows))
  <2>1. n \in Nat /\ n <= Len(rows) BY <1>7 DEF Least
  <2>2. LocalRows(stage, rows) = SubSeq(rows, 1, n) BY <1>7 DEF LocalRows
  <2> HIDE DEF n
  <2>3. \A i \in 1..n : rows[i] \in Rows BY <2>1
  <2> QED BY <2>1, <2>2, <2>3, SubSeqProperties
<1> QED BY <1>1, <1>2, <1>3, <1>4, <1>5, <1>6, <1>7

\* A lookup leaves a row or nothing of its row (lookupRow).
LEMMA LookedUpAreRows ==
  ASSUME NEW stage, NEW row \in Rows, NEW n \in Nat
  PROVE  LookedUp(stage, row, n) \in Seq(Rows)
<1>1. Least(n, 1) \in Nat BY DEF Least
<1>2. \A m \in Nat : Attach(row, m) \in Rows BY AttachedRow
<1>3. Attach(row, n) \in Rows /\ Attach(row, Least(n, 1)) \in Rows BY <1>1, <1>2
<1> HIDE DEF Rows
<1> QED BY <1>3 DEF LookedUp

\* The constants are numbers, and no collection holds as many as the limit that stands for none.
LEMMA Numbers ==
  /\ Timeout \in Nat /\ Ttl \in Nat /\ MaxDocs \in Nat /\ MaxTime \in Nat /\ MaxWrites \in Nat
  /\ MaxFaults \in Nat /\ NoLimit = 99 /\ MaxDocs <= 99
BY FdqlAssumption, DocsAssumption DEF NoLimit

\* A plan has a budget, a page size and branches, as the compiler makes it.
LEMMA PlanNumbers ==
  ASSUME NEW s, s.plan \in DOMAIN Plans
  PROVE  /\ Plan(s).budget \in Nat /\ Plan(s).budget > 0
         /\ Plan(s).pageSize \in Nat /\ Plan(s).pageSize > 0
         /\ Plan(s).branches \in Seq(Branches)
         /\ Plan(s).kind = "read" => Plan(s).branches # <<>>
         /\ Plan(s).kind \in {"read", "clearCache", "invalid"}
BY PlanAssumption DEF Plan

\* A run under way is at a branch of its plan, and its stage is one of that branch.
LEMMA BranchFound ==
  ASSUME NEW s, AtStage(s), s.pc \notin {"new", "done"}
  PROVE  /\ Plan(s).budget \in Nat /\ Plan(s).budget > 0
         /\ Plan(s).pageSize \in Nat /\ Plan(s).pageSize > 0
         /\ Branch(s).limit \in Nat /\ Branch(s).extremes \in Nat /\ Branch(s).aggregated \in BOOLEAN
         /\ Branch(s).stages \in Seq(Stages)
         /\ Len(Branch(s).stages) \in Nat
         /\ DOMAIN Branch(s).stages = 1..Len(Branch(s).stages)
         /\ s.at \in DOMAIN Branch(s).stages => Stage(s) \in Stages
<1>1. s.plan \in DOMAIN Plans /\ s.branch \in DOMAIN Plan(s).branches BY DEF AtStage
<1>2. Plan(s).branches \in Seq(Branches) BY <1>1, PlanNumbers
<1>3. Branch(s) \in Branches BY <1>1, <1>2 DEF Branch
<1>4. /\ Branch(s).limit \in Nat /\ Branch(s).extremes \in Nat /\ Branch(s).aggregated \in BOOLEAN
      /\ Branch(s).stages \in Seq(Stages)
  BY <1>3 DEF Branches
<1>5. s.at \in DOMAIN Branch(s).stages => Stage(s) \in Stages BY <1>4 DEF Stage
<1> QED BY <1>1, <1>4, <1>5, PlanNumbers

\* A lookup stage has a limit and a mode.
LEMMA LookupStage ==
  ASSUME NEW stage \in Stages, stage.kind = "lookup"
  PROVE  stage.limit \in Nat /\ stage.mode \in {"one", "many"}
BY DEF Stages

\* The rows still to do: the first of them, and the others.
LEMMA HeadRow ==
  ASSUME NEW rows \in Seq(Rows), rows # <<>>
  PROVE  Head(rows) \in Rows /\ Head(rows).key \in RowKeys /\ Tail(rows) \in Seq(Rows)
<1>1. Head(rows) \in Rows /\ Tail(rows) \in Seq(Rows) BY HeadTailProperties
<1> QED BY <1>1 DEF Rows

\* A run that is not stopped has no reason to stop before a row (stopReasonFor).
LEMMA StopReasons ==
  ASSUME NEW s
  PROVE  /\ StopBefore(s) \in Reasons /\ StopAfter(s) \in Reasons
         /\ StopBefore(s) = "none" <=> ~Stopped(s)
         /\ StopAfter(s) = "none" <=> ~Stopped(s) /\ ~(s.reads >= Plan(s).budget)
BY DEF StopBefore, StopAfter, Stopped, Reasons

----------------
\* The persistent cache is as it should be.
CacheOK == StoreTyped /\ PersistedIsWhole

\* The step of one run r to t leaves the other runs where they are.
LEMMA OneRunOK ==
  ASSUME FdqlInv, CancelInv, NEW r \in Runs, NEW t, Becomes(r, t), RunOK(t),
         docs' = docs, clock' = clock, turn' \in Runs \cup {Nobody},
         writes' \in 0..MaxWrites, faults' \in 0..MaxFaults, CacheOK'
  PROVE  FdqlInv'
<1>1. run' = [run EXCEPT ![r] = t] /\ DOMAIN run = Runs BY DEF Becomes, CancelInv
<1>2. run'[r] = t /\ \A q \in Runs \ {r} : run'[q] = run[q] BY <1>1
<1>3. \A q \in Runs : RunOK(run'[q]) BY <1>2 DEF FdqlInv
<1>4. ASSUME NEW q \in Runs, RunOK(run'[q]) PROVE RunOK(run[q])'
  <2>1. RunTyped(run[q])' BY <1>4 DEF RunOK, RunTyped
  <2>2. AtStage(run[q])' BY <1>4 DEF RunOK, AtStage, Branch, Plan, Stage
  <2>3. PagesRead(run[q])' BY <1>4 DEF RunOK, PagesRead, Reading, Stopped
  <2>4. WithinBudget(run[q])' BY <1>4 DEF RunOK, WithinBudget, LeftAtFirst, Plan, Stage, Branch
  <2>5. CountRead(run[q])' BY <1>4 DEF RunOK, CountRead, Reading, Stopped
  <2>6. (run[q].pc = "new" => run[q] = NewRun)' BY <1>4 DEF RunOK
  <2> QED BY <2>1, <2>2, <2>3, <2>4, <2>5, <2>6 DEF RunOK
<1>5. WorldTyped' BY DEF FdqlInv, WorldTyped
<1> QED BY <1>3, <1>4, <1>5 DEF FdqlInv, CacheOK

\* A run that is over is as it should be.
LEMMA OverOK ==
  ASSUME NEW s, DOMAIN s = RunFields, RunTyped(s), NEW reason \in Reasons, reason # "none"
  PROVE  RunOK(Over(s, reason))
<1> DEFINE t == Over(s, reason)
<1>1. /\ t.pc = "done" /\ t.reason = reason /\ t.memory = <<>> /\ t.at = 0 /\ t.todo = <<>>
      /\ t.next = <<>> /\ t.max = 0 /\ t.got = 0 /\ t.page = 0 /\ t.short = FALSE
      /\ t.plan = s.plan /\ t.startedAt = s.startedAt /\ t.branch = s.branch /\ t.reads = s.reads
      /\ t.aborted = s.aborted /\ t.spent = s.spent /\ t.bent = s.bent /\ t.disturbed = s.disturbed
  BY DEF Over, RunFields, NewRun
<1> HIDE DEF t
<1>2. RunTyped(t)
  <2>1. t.todo \in Seq(Rows) /\ t.next \in Seq(Rows) BY <1>1
  <2>2. \A k \in DOMAIN t.memory : t.memory[k] \in Nat BY <1>1
  <2>3. t.at \in Nat /\ t.max \in Nat /\ t.got \in Nat /\ t.page \in Nat BY <1>1 DEF RunOK, RunTyped
  <2>4. t.pc \in Pcs /\ t.reason \in Reasons /\ (t.reason = "none" <=> t.pc # "done")
    BY <1>1 DEF RunOK, RunTyped, Pcs, Reasons
  <2>9. t.short \in BOOLEAN BY <1>1
  <2> QED BY <1>1, <2>9, <2>1, <2>2, <2>3, <2>4 DEF RunTyped
<1>3. AtStage(t) /\ PagesRead(t) /\ WithinBudget(t) /\ CountRead(t)
  BY <1>1 DEF AtStage, PagesRead, WithinBudget, CountRead, Pages, Aggregates
<1> QED BY <1>1, <1>2, <1>3 DEF RunOK, t

\* A step of a run that sends, handles an answer or goes on: the cache stays as it is.
LEMMA FormOK ==
  ASSUME FdqlInv, CancelInv, NEW r \in Runs, NEW t, RunOK(t),
         Goes(r, t) \/ Sends(r, t) \/ Resumes(r, t)
  PROVE  FdqlInv'
<1>1. /\ docs' = docs /\ clock' = clock /\ store' = store /\ writes' = writes /\ faults' = faults
      /\ Becomes(r, t) /\ turn' \in Runs \cup {Nobody}
  BY DEF Goes, Sends, Resumes, FdqlInv, WorldTyped
<1>2. CacheOK' BY <1>1 DEF CacheOK, FdqlInv, StoreTyped, PersistedIsWhole
<1>3. writes' \in 0..MaxWrites /\ faults' \in 0..MaxFaults BY <1>1 DEF FdqlInv, WorldTyped
<1> QED BY <1>1, <1>2, <1>3, OneRunOK

\* A run ends: stopped, failed or completed.
LEMMA EndOK ==
  ASSUME FdqlInv, CancelInv, NEW r \in Runs, NEW s, DOMAIN s = RunFields, RunTyped(s),
         NEW reason \in Reasons, reason # "none", Ends(r, s, reason)
  PROVE  FdqlInv'
BY OverOK, OneRunOK DEF Ends, CacheOK, FdqlInv, StoreTyped, PersistedIsWhole, WorldTyped

\* What is read for is the source or a key of the row, and it has a number of documents.
LEMMA ReadingFound ==
  ASSUME WorldTyped, NEW s, RunOK(s), s.pc \in Pages \cup Aggregates
  PROVE  /\ Reading(s) \in Collections /\ docs[Reading(s)] \in Nat /\ docs[Reading(s)] <= MaxDocs
         /\ s.at > 0 => Reading(s) \in Keys
<1>1. s.at \in Nat BY DEF RunOK, RunTyped
<1>2. Reading(s) \in Collections /\ (s.at > 0 => Reading(s) \in Keys)
  BY <1>1 DEF Reading, Collections, Pages, Aggregates, RunOK, AtStage
<1>3. docs[Reading(s)] \in 0..MaxDocs BY <1>2 DEF WorldTyped
<1> QED BY <1>2, <1>3, Numbers

----------------
\* The next row of a stage.
LEMMA NextRowOK ==
  ASSUME NEW s, DOMAIN s = RunFields, RunOK(s), s.pc \notin {"new", "done"},
         s.todo # <<>>, s.at \in DOMAIN Branch(s).stages, NEW rows \in Seq(Rows),
         NEW bent \in BOOLEAN, NEW disturbed \in BOOLEAN, NEW memory,
         \A k \in DOMAIN memory : memory[k] \in Nat
  PROVE  RunOK([NextRow(s, rows) EXCEPT !.bent = bent, !.disturbed = disturbed, !.memory = memory])
<1> DEFINE t == [NextRow(s, rows) EXCEPT !.bent = bent, !.disturbed = disturbed, !.memory = memory]
<1>1. /\ t.plan = s.plan /\ t.pc = "stage" /\ t.reason = s.reason /\ t.startedAt = s.startedAt
      /\ t.aborted = s.aborted /\ t.branch = s.branch /\ t.reads = s.reads /\ t.memory = memory
      /\ t.spent = s.spent /\ t.at = s.at /\ t.todo = Tail(s.todo) /\ t.next = s.next \o rows
      /\ t.max = 0 /\ t.got = 0 /\ t.page = 0 /\ t.short = FALSE /\ t.bent = bent
      /\ t.disturbed = disturbed
  BY DEF NextRow, RunFields, NewRun
<1> HIDE DEF t
<1>2. RunTyped(t)
  <2>1. t.todo \in Seq(Rows) BY <1>1, HeadRow DEF RunOK, RunTyped
  <2>2. t.next \in Seq(Rows) BY <1>1 DEF RunOK, RunTyped
  <2>3. t.at \in Nat /\ t.max \in Nat /\ t.got \in Nat /\ t.page \in Nat BY <1>1 DEF RunOK, RunTyped
  <2>4. t.pc \in Pcs /\ t.reason \in Reasons /\ (t.reason = "none" <=> t.pc # "done")
    BY <1>1 DEF RunOK, RunTyped, Pcs, Reasons
  <2>9. t.short \in BOOLEAN BY <1>1
  <2> QED BY <1>1, <2>9, <2>1, <2>2, <2>3, <2>4 DEF RunOK, RunTyped
<1>3. Plan(t) = Plan(s) /\ Branch(t) = Branch(s) BY <1>1 DEF Plan, Branch
<1>4. AtStage(t) BY <1>1, <1>3, BranchFound DEF RunOK, AtStage, Pages, Aggregates
<1>5. PagesRead(t) /\ WithinBudget(t) /\ CountRead(t)
  BY <1>1 DEF PagesRead, WithinBudget, CountRead, Pages
<1> QED BY <1>1, <1>2, <1>4, <1>5 DEF RunOK, t

\* The rows of the source go to the first stage (executeReadBranch).
LEMMA FirstStageOK ==
  ASSUME NEW s, DOMAIN s = RunFields, RunTyped(s), AtStage(s), s.pc \notin {"new", "done"},
         NEW rows \in Seq(Rows)
  PROVE  RunOK(FirstStage(s, rows))
<1> DEFINE t == FirstStage(s, rows)
<1>1. /\ t.plan = s.plan /\ t.pc = "stage" /\ t.reason = s.reason /\ t.startedAt = s.startedAt
      /\ t.aborted = s.aborted /\ t.branch = s.branch /\ t.reads = s.reads
      /\ t.memory = s.memory /\ t.spent = s.spent /\ t.at = 1 /\ t.todo = rows /\ t.next = <<>>
      /\ t.max = 0 /\ t.got = 0 /\ t.page = 0 /\ t.short = FALSE /\ t.bent = s.bent
      /\ t.disturbed = s.disturbed
  BY DEF FirstStage, RunFields, NewRun
<1> HIDE DEF t
<1>2. RunTyped(t)
  <2>1. t.todo \in Seq(Rows) /\ t.next \in Seq(Rows) BY <1>1 DEF RunOK, RunTyped
  <2>2. t.at \in Nat /\ t.max \in Nat /\ t.got \in Nat /\ t.page \in Nat BY <1>1 DEF RunOK, RunTyped
  <2>3. t.pc \in Pcs /\ t.reason \in Reasons /\ (t.reason = "none" <=> t.pc # "done")
    BY <1>1 DEF RunOK, RunTyped, Pcs, Reasons
  <2>9. t.short \in BOOLEAN BY <1>1
  <2> QED BY <1>1, <2>9, <2>1, <2>2, <2>3 DEF RunTyped
<1>3. Plan(t) = Plan(s) /\ Branch(t) = Branch(s) BY <1>1 DEF Plan, Branch
<1>4. AtStage(t) BY <1>1, <1>3, BranchFound DEF AtStage, Pages, Aggregates
<1>5. PagesRead(t) /\ WithinBudget(t) /\ CountRead(t)
  BY <1>1 DEF PagesRead, WithinBudget, CountRead, Pages
<1> QED BY <1>1, <1>2, <1>4, <1>5 DEF RunOK, t

\* The requests are only counted.
LEMMA AskedFree ==
  ASSUME NEW s, DOMAIN s = RunFields, RunOK(s), s.pc # "new", NEW n
  PROVE  RunOK([s EXCEPT !.asked = n])
<1> DEFINE t == [s EXCEPT !.asked = n]
<1>1. /\ t.plan = s.plan /\ t.pc = s.pc /\ t.reason = s.reason /\ t.startedAt = s.startedAt
      /\ t.aborted = s.aborted /\ t.branch = s.branch /\ t.reads = s.reads
      /\ t.memory = s.memory /\ t.spent = s.spent /\ t.at = s.at /\ t.todo = s.todo
      /\ t.next = s.next /\ t.max = s.max /\ t.got = s.got /\ t.page = s.page
      /\ t.short = s.short /\ t.bent = s.bent /\ t.disturbed = s.disturbed
  BY DEF RunFields, NewRun
<1> HIDE DEF t
<1>2. RunTyped(t) BY <1>1 DEF RunOK, RunTyped
<1>3. Plan(t) = Plan(s) /\ Branch(t) = Branch(s) /\ Stage(t) = Stage(s) /\ Reading(t) = Reading(s)
      /\ (Stopped(t) <=> Stopped(s))
  BY <1>1 DEF Plan, Branch, Stage, Reading, Stopped
<1>4. AtStage(t) BY <1>1, <1>3 DEF RunOK, AtStage
<1>5. PagesRead(t) BY <1>1, <1>3 DEF RunOK, PagesRead
<1>6. WithinBudget(t) BY <1>1, <1>3 DEF RunOK, WithinBudget, LeftAtFirst
<1>7. CountRead(t) BY <1>1, <1>3 DEF RunOK, CountRead
<1> QED BY <1>1, <1>2, <1>4, <1>5, <1>6, <1>7 DEF RunOK, t

\* A connection is there: the loop of a read begins, an aggregate waits for its first
\* answer (read, aggregateFirestore).
LEMMA Connects ==
  ASSUME WorldTyped, NEW s, DOMAIN s = RunFields, RunOK(s), NEW pc,
         \/ s.pc = "connectRead" /\ pc = "ask"
         \/ s.pc = "connectAggregate" /\ pc = "aggregating"
  PROVE  RunOK([s EXCEPT !.pc = pc])
<1> DEFINE t == [s EXCEPT !.pc = pc]
<1>1. /\ t.plan = s.plan /\ t.pc = pc /\ t.reason = s.reason /\ t.startedAt = s.startedAt
      /\ t.aborted = s.aborted /\ t.branch = s.branch /\ t.reads = s.reads
      /\ t.memory = s.memory /\ t.spent = s.spent /\ t.at = s.at /\ t.todo = s.todo
      /\ t.next = s.next /\ t.max = s.max /\ t.got = s.got /\ t.page = s.page
      /\ t.short = s.short /\ t.bent = s.bent /\ t.disturbed = s.disturbed
  BY DEF RunFields, NewRun
<1> HIDE DEF t
<1>2. RunTyped(t) BY <1>1 DEF RunOK, RunTyped, Pcs, Reasons
<1>3. Plan(t) = Plan(s) /\ Branch(t) = Branch(s) /\ Stage(t) = Stage(s) /\ Reading(t) = Reading(s)
  BY <1>1 DEF Plan, Branch, Stage, Reading
<1>4. AtStage(t) BY <1>1, <1>3 DEF RunOK, AtStage, Pages, Aggregates
<1>5. PagesRead(t) BY <1>1, <1>3 DEF RunOK, PagesRead, Pages
<1>6. WithinBudget(t) BY <1>1, <1>3 DEF RunOK, WithinBudget, LeftAtFirst, Pages
<1>7. CountRead(t) BY <1>1, <1>3 DEF RunOK, CountRead
<1> QED BY <1>1, <1>2, <1>4, <1>5, <1>6, <1>7 DEF RunOK, t

\* Another page is asked for (read).
LEMMA AskOn ==
  ASSUME WorldTyped, NEW s, DOMAIN s = RunFields, RunOK(s), s.pc = "ask", s.got < s.max
  PROVE  RunOK([s EXCEPT !.pc = "paging"])
<1> DEFINE t == [s EXCEPT !.pc = "paging"]
<1>1. /\ t.plan = s.plan /\ t.pc = "paging" /\ t.reason = s.reason /\ t.startedAt = s.startedAt
      /\ t.aborted = s.aborted /\ t.branch = s.branch /\ t.reads = s.reads
      /\ t.memory = s.memory /\ t.spent = s.spent /\ t.at = s.at /\ t.todo = s.todo
      /\ t.next = s.next /\ t.max = s.max /\ t.got = s.got /\ t.page = s.page
      /\ t.short = s.short /\ t.bent = s.bent /\ t.disturbed = s.disturbed
  BY DEF RunFields, NewRun
<1> HIDE DEF t
<1>2. RunTyped(t) BY <1>1 DEF RunOK, RunTyped, Pcs, Reasons
<1>3. Plan(t) = Plan(s) /\ Branch(t) = Branch(s) /\ Stage(t) = Stage(s) /\ Reading(t) = Reading(s)
      /\ (Stopped(t) <=> Stopped(s))
  BY <1>1 DEF Plan, Branch, Stage, Reading, Stopped
<1>4. s.pc \notin {"new", "done"} BY DEF Pages, Aggregates
<1>5. AtStage(t) BY <1>1, <1>3, <1>4 DEF RunOK, AtStage, Pages, Aggregates
<1>6. /\ s.got \in Nat /\ s.page \in Nat /\ s.max \in Nat /\ s.reads \in Nat /\ s.at \in Nat
      /\ Reading(s) \in Collections /\ docs[Reading(s)] \in Nat
  BY ReadingFound DEF RunOK, RunTyped, Pages, Aggregates
<1>7. PagesRead(t) BY <1>1, <1>3 DEF RunOK, PagesRead, Pages
<1>8. WithinBudget(t) BY <1>1, <1>3 DEF RunOK, WithinBudget, LeftAtFirst, Pages
<1>9. CountRead(t) BY <1>1 DEF CountRead
<1> QED BY <1>1, <1>2, <1>5, <1>7, <1>8, <1>9 DEF RunOK, t

\* There is enough, or the run is to stop: the read is over (read).
LEMMA AskNoMore ==
  ASSUME WorldTyped, NEW s, DOMAIN s = RunFields, RunOK(s), s.pc = "ask", ~(s.got < s.max /\ ~Stopped(s))
  PROVE  RunOK([s EXCEPT !.pc = "read"])
<1> DEFINE t == [s EXCEPT !.pc = "read"]
<1>1. /\ t.plan = s.plan /\ t.pc = "read" /\ t.reason = s.reason /\ t.startedAt = s.startedAt
      /\ t.aborted = s.aborted /\ t.branch = s.branch /\ t.reads = s.reads
      /\ t.memory = s.memory /\ t.spent = s.spent /\ t.at = s.at /\ t.todo = s.todo
      /\ t.next = s.next /\ t.max = s.max /\ t.got = s.got /\ t.page = s.page
      /\ t.short = s.short /\ t.bent = s.bent /\ t.disturbed = s.disturbed
  BY DEF RunFields, NewRun
<1> HIDE DEF t
<1>2. RunTyped(t) BY <1>1 DEF RunOK, RunTyped, Pcs, Reasons
<1>3. Plan(t) = Plan(s) /\ Branch(t) = Branch(s) /\ Stage(t) = Stage(s) /\ Reading(t) = Reading(s)
      /\ (Stopped(t) <=> Stopped(s))
  BY <1>1 DEF Plan, Branch, Stage, Reading, Stopped
<1>4. s.pc \notin {"new", "done"} BY DEF Pages, Aggregates
<1>5. AtStage(t) BY <1>1, <1>3, <1>4 DEF RunOK, AtStage, Pages, Aggregates
<1>6. /\ s.got \in Nat /\ s.page \in Nat /\ s.max \in Nat /\ s.reads \in Nat /\ s.at \in Nat
      /\ Reading(s) \in Collections /\ docs[Reading(s)] \in Nat
  BY ReadingFound DEF RunOK, RunTyped, Pages, Aggregates
<1>7. PagesRead(t)
  <2>1. /\ s.got + s.page <= s.max /\ s.got <= s.reads /\ s.page = 0
        /\ ~s.disturbed => s.got <= docs[Reading(s)]
    BY DEF RunOK, PagesRead, Pages
  <2>2. ~Stopped(s) /\ ~s.disturbed => s.got = Least(s.max, docs[Reading(s)])
    <3>1. SUFFICES ASSUME ~Stopped(s), ~s.disturbed PROVE s.got = Least(s.max, docs[Reading(s)])
      OBVIOUS
    <3>2. s.got = s.max BY <1>6, <2>1, <3>1
    <3>3. s.max <= docs[Reading(s)] BY <2>1, <3>1, <3>2
    <3> QED BY <3>2, <3>3 DEF Least
  <2> QED BY <1>1, <1>3, <2>1, <2>2 DEF PagesRead, Pages
<1>8. WithinBudget(t) BY <1>1, <1>3 DEF RunOK, WithinBudget, LeftAtFirst, Pages
<1>9. CountRead(t) BY <1>1 DEF CountRead
<1> QED BY <1>1, <1>2, <1>5, <1>7, <1>8, <1>9 DEF RunOK, t

\* No page came: the run is to stop, or there are no more documents (readProvider).
LEMMA PageOver ==
  ASSUME WorldTyped, NEW s, DOMAIN s = RunFields, RunOK(s), s.pc = "paging", Stopped(s) \/ docs[Reading(s)] - s.got <= 0
  PROVE  RunOK([s EXCEPT !.pc = "read"])
<1> DEFINE t == [s EXCEPT !.pc = "read"]
<1>1. /\ t.plan = s.plan /\ t.pc = "read" /\ t.reason = s.reason /\ t.startedAt = s.startedAt
      /\ t.aborted = s.aborted /\ t.branch = s.branch /\ t.reads = s.reads
      /\ t.memory = s.memory /\ t.spent = s.spent /\ t.at = s.at /\ t.todo = s.todo
      /\ t.next = s.next /\ t.max = s.max /\ t.got = s.got /\ t.page = s.page
      /\ t.short = s.short /\ t.bent = s.bent /\ t.disturbed = s.disturbed
  BY DEF RunFields, NewRun
<1> HIDE DEF t
<1>2. RunTyped(t) BY <1>1 DEF RunOK, RunTyped, Pcs, Reasons
<1>3. Plan(t) = Plan(s) /\ Branch(t) = Branch(s) /\ Stage(t) = Stage(s) /\ Reading(t) = Reading(s)
      /\ (Stopped(t) <=> Stopped(s))
  BY <1>1 DEF Plan, Branch, Stage, Reading, Stopped
<1>4. s.pc \notin {"new", "done"} BY DEF Pages, Aggregates
<1>5. AtStage(t) BY <1>1, <1>3, <1>4 DEF RunOK, AtStage, Pages, Aggregates
<1>6. /\ s.got \in Nat /\ s.page \in Nat /\ s.max \in Nat /\ s.reads \in Nat /\ s.at \in Nat
      /\ Reading(s) \in Collections /\ docs[Reading(s)] \in Nat
  BY ReadingFound DEF RunOK, RunTyped, Pages, Aggregates
<1>7. PagesRead(t)
  <2>1. /\ s.got + s.page <= s.max /\ s.got <= s.reads /\ s.page = 0 /\ s.got < s.max
        /\ ~s.disturbed => s.got <= docs[Reading(s)]
    BY DEF RunOK, PagesRead, Pages
  <2>2. ~Stopped(s) /\ ~s.disturbed => s.got = Least(s.max, docs[Reading(s)])
    <3>1. SUFFICES ASSUME ~Stopped(s), ~s.disturbed PROVE s.got = Least(s.max, docs[Reading(s)])
      OBVIOUS
    <3>2. s.got = docs[Reading(s)] BY <1>6, <2>1, <3>1
    <3>3. ~(s.max <= docs[Reading(s)]) BY <1>6, <2>1, <3>2
    <3> QED BY <3>2, <3>3 DEF Least
  <2> QED BY <1>1, <1>3, <2>1, <2>2 DEF PagesRead, Pages
<1>8. WithinBudget(t) BY <1>1, <1>3 DEF RunOK, WithinBudget, LeftAtFirst, Pages
<1>9. CountRead(t) BY <1>1 DEF CountRead
<1> QED BY <1>1, <1>2, <1>5, <1>7, <1>8, <1>9 DEF RunOK, t

\* A page came: not more than was asked for, and short only when it is the last (readProvider).
LEMMA PageCame ==
  ASSUME WorldTyped, NEW s, DOMAIN s = RunFields, RunOK(s), s.pc = "paging", NEW n \in Nat, n > 0, n = Least(PageLimit(s), docs[Reading(s)] - s.got)
  PROVE  RunOK([s EXCEPT !.pc = "docs", !.page = n, !.short = n < PageLimit(s)])
<1> DEFINE t == [s EXCEPT !.pc = "docs", !.page = n, !.short = n < PageLimit(s)]
<1>1. /\ t.plan = s.plan /\ t.pc = "docs" /\ t.reason = s.reason /\ t.startedAt = s.startedAt
      /\ t.aborted = s.aborted /\ t.branch = s.branch /\ t.reads = s.reads
      /\ t.memory = s.memory /\ t.spent = s.spent /\ t.at = s.at /\ t.todo = s.todo
      /\ t.next = s.next /\ t.max = s.max /\ t.got = s.got /\ t.page = n
      /\ t.short = (n < PageLimit(s)) /\ t.bent = s.bent /\ t.disturbed = s.disturbed
  BY DEF RunFields, NewRun
<1> HIDE DEF t
<1>2. RunTyped(t) BY <1>1 DEF RunOK, RunTyped, Pcs, Reasons
<1>3. Plan(t) = Plan(s) /\ Branch(t) = Branch(s) /\ Stage(t) = Stage(s) /\ Reading(t) = Reading(s)
      /\ (Stopped(t) <=> Stopped(s))
  BY <1>1 DEF Plan, Branch, Stage, Reading, Stopped
<1>4. s.pc \notin {"new", "done"} BY DEF Pages, Aggregates
<1>5. AtStage(t) BY <1>1, <1>3, <1>4 DEF RunOK, AtStage, Pages, Aggregates
<1>6. /\ s.got \in Nat /\ s.page \in Nat /\ s.max \in Nat /\ s.reads \in Nat /\ s.at \in Nat
      /\ Reading(s) \in Collections /\ docs[Reading(s)] \in Nat
  BY ReadingFound DEF RunOK, RunTyped, Pages, Aggregates
<1>7. PagesRead(t)
  <2>1. /\ s.got <= s.max /\ s.got <= s.reads /\ s.got < s.max
        /\ ~s.disturbed => s.got <= docs[Reading(s)]
    BY <1>6 DEF RunOK, PagesRead, Pages
  <2>2. Plan(s).pageSize \in Nat BY <1>4, BranchFound DEF RunOK
  <2>3. PageLimit(s) \in Nat /\ PageLimit(s) <= s.max - s.got
    <3> DEFINE a == Least(Plan(s).pageSize, s.max)
    <3>1. a \in Nat BY <1>6, <2>2 DEF Least
    <3>2. PageLimit(s) = Least(a, s.max - s.got) BY DEF PageLimit
    <3> HIDE DEF a
    <3>3. s.max - s.got \in Nat BY <1>6, <2>1
    <3> QED BY <3>1, <3>2, <3>3 DEF Least
  <2>4. n <= PageLimit(s) /\ n <= docs[Reading(s)] - s.got
        /\ (n < PageLimit(s) => n = docs[Reading(s)] - s.got)
    BY <1>6, <2>3 DEF Least
  <2>5. s.got + n <= s.max /\ s.got + n <= docs[Reading(s)]
        /\ (n < PageLimit(s) => s.got + n = docs[Reading(s)])
    BY <1>6, <2>3, <2>4
  <2>6. t.short => n < PageLimit(s) BY <1>1
  <2> QED BY <1>1, <1>3, <2>1, <2>5, <2>6 DEF PagesRead, Pages
<1>8. WithinBudget(t) BY <1>1, <1>3 DEF RunOK, WithinBudget, LeftAtFirst, Pages
<1>9. CountRead(t) BY <1>1 DEF CountRead
<1> QED BY <1>1, <1>2, <1>5, <1>7, <1>8, <1>9 DEF RunOK, t

\* An aggregate is given up for the abort or the deadline (raceWithReadControls).
LEMMA Abandoned ==
  ASSUME WorldTyped, NEW s, DOMAIN s = RunFields, RunOK(s),
         s.pc \in {"connectAggregate", "aggregating"}, Stopped(s)
  PROVE  RunOK([s EXCEPT !.pc = "aggregated"])
<1> DEFINE t == [s EXCEPT !.pc = "aggregated"]
<1>1. /\ t.plan = s.plan /\ t.pc = "aggregated" /\ t.reason = s.reason
      /\ t.startedAt = s.startedAt /\ t.aborted = s.aborted /\ t.branch = s.branch
      /\ t.reads = s.reads /\ t.memory = s.memory /\ t.spent = s.spent /\ t.at = s.at
      /\ t.todo = s.todo /\ t.next = s.next /\ t.max = s.max /\ t.got = s.got /\ t.page = s.page
      /\ t.short = s.short /\ t.bent = s.bent /\ t.disturbed = s.disturbed
  BY DEF RunFields, NewRun
<1> HIDE DEF t
<1>2. RunTyped(t) BY <1>1 DEF RunOK, RunTyped, Pcs, Reasons
<1>3. Plan(t) = Plan(s) /\ Branch(t) = Branch(s) /\ Stage(t) = Stage(s) /\ Reading(t) = Reading(s)
      /\ (Stopped(t) <=> Stopped(s))
  BY <1>1 DEF Plan, Branch, Stage, Reading, Stopped
<1>4. s.pc \notin {"new", "done"} BY DEF Pages, Aggregates
<1>5. AtStage(t) BY <1>1, <1>3, <1>4 DEF RunOK, AtStage, Pages, Aggregates
<1>6. /\ s.got \in Nat /\ s.page \in Nat /\ s.max \in Nat /\ s.reads \in Nat /\ s.at \in Nat
      /\ Reading(s) \in Collections /\ docs[Reading(s)] \in Nat
  BY ReadingFound DEF RunOK, RunTyped, Pages, Aggregates
<1>7. PagesRead(t) BY <1>1 DEF PagesRead, Pages
<1>8. WithinBudget(t) BY <1>1 DEF WithinBudget, Pages
<1>9. CountRead(t) BY <1>1, <1>3 DEF CountRead
<1> QED BY <1>1, <1>2, <1>5, <1>7, <1>8, <1>9 DEF RunOK, t

\* The documents of a page that came too late are left (readProvider).
LEMMA DocsLeft ==
  ASSUME WorldTyped, NEW s, DOMAIN s = RunFields, RunOK(s), s.pc = "docs", Stopped(s)
  PROVE  RunOK([s EXCEPT !.pc = "read"])
<1> DEFINE t == [s EXCEPT !.pc = "read"]
<1>1. /\ t.plan = s.plan /\ t.pc = "read" /\ t.reason = s.reason /\ t.startedAt = s.startedAt
      /\ t.aborted = s.aborted /\ t.branch = s.branch /\ t.reads = s.reads
      /\ t.memory = s.memory /\ t.spent = s.spent /\ t.at = s.at /\ t.todo = s.todo
      /\ t.next = s.next /\ t.max = s.max /\ t.got = s.got /\ t.page = s.page
      /\ t.short = s.short /\ t.bent = s.bent /\ t.disturbed = s.disturbed
  BY DEF RunFields, NewRun
<1> HIDE DEF t
<1>2. RunTyped(t) BY <1>1 DEF RunOK, RunTyped, Pcs, Reasons
<1>3. Plan(t) = Plan(s) /\ Branch(t) = Branch(s) /\ Stage(t) = Stage(s) /\ Reading(t) = Reading(s)
      /\ (Stopped(t) <=> Stopped(s))
  BY <1>1 DEF Plan, Branch, Stage, Reading, Stopped
<1>4. s.pc \notin {"new", "done"} BY DEF Pages, Aggregates
<1>5. AtStage(t) BY <1>1, <1>3, <1>4 DEF RunOK, AtStage, Pages, Aggregates
<1>6. /\ s.got \in Nat /\ s.page \in Nat /\ s.max \in Nat /\ s.reads \in Nat /\ s.at \in Nat
      /\ Reading(s) \in Collections /\ docs[Reading(s)] \in Nat
  BY ReadingFound DEF RunOK, RunTyped, Pages, Aggregates
<1>7. PagesRead(t) BY <1>1, <1>3 DEF RunOK, PagesRead, Pages
<1>8. WithinBudget(t) BY <1>1, <1>3 DEF RunOK, WithinBudget, LeftAtFirst, Pages
<1>9. CountRead(t) BY <1>1 DEF CountRead
<1> QED BY <1>1, <1>2, <1>5, <1>7, <1>8, <1>9 DEF RunOK, t

\* A document of the source is a row.
LEMMA SourceRow ==
  ASSUME NEW n \in Nat, n < MaxDocs
  PROVE  Row(KeyOf[n + 1], <<>>) \in Rows
BY FdqlAssumption, DocsAssumption, Numbers DEF RowKeys, Row, Rows

\* A document of the source is read (executeReadBranch).
LEMMA DocumentOfSource ==
  ASSUME WorldTyped, NEW s, DOMAIN s = RunFields, RunOK(s), s.pc = "docs", s.at = 0, NEW spent \in BOOLEAN,
         NEW pc \in {"read", "ask", "docs"}, pc = "ask" => s.page = 1, pc = "docs" => s.page # 1
  PROVE  RunOK([s EXCEPT !.reads = @ + 1, !.got = @ + 1, !.page = @ - 1,
                   !.next = Append(@, Row(KeyOf[s.got + 1], <<>>)), !.spent = spent, !.pc = pc])
<1> DEFINE t == [s EXCEPT !.reads = @ + 1, !.got = @ + 1, !.page = @ - 1,
                   !.next = Append(@, Row(KeyOf[s.got + 1], <<>>)), !.spent = spent, !.pc = pc]
<1>0. s.reads \in Nat /\ s.got \in Nat /\ s.page \in Nat /\ s.page > 0 /\ s.page - 1 \in Nat
  BY DEF RunOK, RunTyped, PagesRead, Pages
<1>1. /\ t.plan = s.plan /\ t.pc = pc /\ t.reason = s.reason /\ t.startedAt = s.startedAt
      /\ t.aborted = s.aborted /\ t.branch = s.branch /\ t.reads = s.reads + 1
      /\ t.memory = s.memory /\ t.spent = spent /\ t.at = s.at /\ t.todo = s.todo
      /\ t.next = Append(s.next, Row(KeyOf[s.got + 1], <<>>)) /\ t.max = s.max
      /\ t.got = s.got + 1 /\ t.page = s.page - 1 /\ t.short = s.short /\ t.bent = s.bent
      /\ t.disturbed = s.disturbed
  BY DEF RunFields, NewRun
<1> HIDE DEF t
<1>11. docs[Reading(s)] \in Nat /\ docs[Reading(s)] <= MaxDocs /\ s.got + s.page <= docs[Reading(s)]
  BY ReadingFound DEF RunOK, PagesRead, Pages
<1>12. s.got < MaxDocs BY <1>0, <1>11, Numbers
<1>14. Row(KeyOf[s.got + 1], <<>>) \in Rows BY <1>0, <1>12, SourceRow
<1>13. Append(s.next, Row(KeyOf[s.got + 1], <<>>)) \in Seq(Rows)
  <2>1. s.next \in Seq(Rows) BY DEF RunOK, RunTyped
  <2> QED BY <1>14, <2>1
<1>2. RunTyped(t)
  <2>1. t.reads \in Nat BY <1>1, <1>0
  <2>2. t.got \in Nat BY <1>1, <1>0
  <2>3. t.page \in Nat BY <1>1, <1>0
  <2>4. t.next \in Seq(Rows) BY <1>1, <1>13
  <2> QED BY <1>1, <2>1, <2>2, <2>3, <2>4 DEF RunOK, RunTyped, Pcs, Reasons
<1>3. Plan(t) = Plan(s) /\ Branch(t) = Branch(s) /\ Stage(t) = Stage(s) /\ Reading(t) = Reading(s)
      /\ (Stopped(t) <=> Stopped(s))
  BY <1>1 DEF Plan, Branch, Stage, Reading, Stopped
<1>4. s.pc \notin {"new", "done"} OBVIOUS
<1>5. AtStage(t) BY <1>1, <1>3, <1>4 DEF Pages, RunOK, AtStage, Aggregates
<1>6. /\ s.got \in Nat /\ s.page \in Nat /\ s.max \in Nat /\ s.reads \in Nat /\ s.at \in Nat
      /\ Reading(s) \in Collections /\ docs[Reading(s)] \in Nat /\ docs[Reading(s)] <= MaxDocs
  BY ReadingFound DEF RunOK, RunTyped, Pages, Aggregates
<1>10. /\ s.got + s.page <= s.max /\ s.got <= s.reads /\ s.page > 0
       /\ s.got + s.page <= docs[Reading(s)] /\ (s.short => s.got + s.page = docs[Reading(s)])
  BY DEF RunOK, PagesRead, Pages
<1>7. PagesRead(t)
  <2>1. /\ (s.got + 1) + (s.page - 1) = s.got + s.page /\ s.got + 1 <= s.reads + 1
        /\ s.got + 1 <= docs[Reading(s)]
    BY <1>6, <1>10
  <2>2. (pc = "ask" => s.page - 1 = 0) /\ (pc = "docs" => s.page - 1 > 0) BY <1>6, <1>10
  <2>4. t.got + t.page <= t.max /\ t.got <= t.reads BY <1>1, <1>10, <2>1
  <2>5. t.pc = "ask" => t.page = 0 BY <1>1, <2>2
  <2>6. t.pc = "docs" => t.page > 0 /\ t.got + t.page <= docs[Reading(t)]
                         /\ (t.short => t.got + t.page = docs[Reading(t)])
    BY <1>1, <1>3, <1>10, <2>1, <2>2
  <2>7. t.got <= docs[Reading(t)] BY <1>1, <1>3, <2>1
  <2>8. t.pc = "read" /\ t.at > 0 => t.got = Least(t.max, docs[Reading(t)]) BY <1>1
  <2>9. t.pc \notin {"connectRead", "paging"} BY <1>1
  <2> QED BY <2>4, <2>5, <2>6, <2>7, <2>8, <2>9 DEF PagesRead
<1>8. WithinBudget(t) BY <1>1 DEF WithinBudget
<1>9. CountRead(t) BY <1>1 DEF CountRead
<1> QED BY <1>1, <1>2, <1>5, <1>7, <1>8, <1>9 DEF RunOK, t

\* A document of a lookup is counted, within the budget (executeLookup).
LEMMA DocumentOfLookup ==
  ASSUME WorldTyped, NEW s, DOMAIN s = RunFields, RunOK(s), s.pc = "docs", s.at > 0, s.reads + 1 < Plan(s).budget,
         NEW pc \in {"read", "ask", "docs"}, pc = "ask" => s.page = 1, pc = "docs" => s.page # 1,
         pc = "read" => s.got + 1 = s.max \/ (s.page = 1 /\ s.short)
  PROVE  RunOK([s EXCEPT !.reads = @ + 1, !.got = @ + 1, !.page = @ - 1, !.pc = pc])
<1> DEFINE t == [s EXCEPT !.reads = @ + 1, !.got = @ + 1, !.page = @ - 1, !.pc = pc]
<1>0. s.reads \in Nat /\ s.got \in Nat /\ s.page \in Nat /\ s.page > 0 /\ s.page - 1 \in Nat
  BY DEF RunOK, RunTyped, PagesRead, Pages
<1>1. /\ t.plan = s.plan /\ t.pc = pc /\ t.reason = s.reason /\ t.startedAt = s.startedAt
      /\ t.aborted = s.aborted /\ t.branch = s.branch /\ t.reads = s.reads + 1
      /\ t.memory = s.memory /\ t.spent = s.spent /\ t.at = s.at /\ t.todo = s.todo
      /\ t.next = s.next /\ t.max = s.max /\ t.got = s.got + 1 /\ t.page = s.page - 1
      /\ t.short = s.short /\ t.bent = s.bent /\ t.disturbed = s.disturbed
  BY DEF RunFields, NewRun
<1> HIDE DEF t
<1>2. RunTyped(t)
  <2>1. t.reads \in Nat BY <1>1, <1>0
  <2>2. t.got \in Nat BY <1>1, <1>0
  <2>3. t.page \in Nat BY <1>1, <1>0
  <2> QED BY <1>1, <2>1, <2>2, <2>3 DEF RunOK, RunTyped, Pcs, Reasons
<1>3. Plan(t) = Plan(s) /\ Branch(t) = Branch(s) /\ Stage(t) = Stage(s) /\ Reading(t) = Reading(s)
      /\ (Stopped(t) <=> Stopped(s))
  BY <1>1 DEF Plan, Branch, Stage, Reading, Stopped
<1>4. s.pc \notin {"new", "done"} OBVIOUS
<1>5. AtStage(t) BY <1>1, <1>3, <1>4 DEF Pages, RunOK, AtStage, Aggregates
<1>6. /\ s.got \in Nat /\ s.page \in Nat /\ s.max \in Nat /\ s.reads \in Nat /\ s.at \in Nat
      /\ Reading(s) \in Collections /\ docs[Reading(s)] \in Nat /\ docs[Reading(s)] <= MaxDocs
  BY ReadingFound DEF RunOK, RunTyped, Pages, Aggregates
<1>10. /\ s.got + s.page <= s.max /\ s.got <= s.reads /\ s.page > 0
       /\ s.got + s.page <= docs[Reading(s)] /\ (s.short => s.got + s.page = docs[Reading(s)])
  BY DEF RunOK, PagesRead, Pages
<1>7. PagesRead(t)
  <2>1. /\ (s.got + 1) + (s.page - 1) = s.got + s.page /\ s.got + 1 <= s.reads + 1
        /\ s.got + 1 <= docs[Reading(s)]
    BY <1>6, <1>10
  <2>2. (pc = "ask" => s.page - 1 = 0) /\ (pc = "docs" => s.page - 1 > 0) BY <1>6, <1>10
  <2>3. pc = "read" => s.got + 1 = Least(s.max, docs[Reading(s)]) BY <1>6, <1>10, <2>1 DEF Least
  <2>4. t.got + t.page <= t.max /\ t.got <= t.reads BY <1>1, <1>10, <2>1
  <2>5. t.pc = "ask" => t.page = 0 BY <1>1, <2>2
  <2>6. t.pc = "docs" => t.page > 0 /\ t.got + t.page <= docs[Reading(t)]
                         /\ (t.short => t.got + t.page = docs[Reading(t)])
    BY <1>1, <1>3, <1>10, <2>1, <2>2
  <2>7. t.got <= docs[Reading(t)] BY <1>1, <1>3, <2>1
  <2>8. t.pc = "read" /\ t.at > 0 => t.got = Least(t.max, docs[Reading(t)]) BY <1>1, <1>3, <2>3
  <2>9. t.pc \notin {"connectRead", "paging"} BY <1>1
  <2> QED BY <2>4, <2>5, <2>6, <2>7, <2>8, <2>9 DEF PagesRead
<1>8. WithinBudget(t) BY <1>1, <1>3, <1>6 DEF RunOK, WithinBudget, Pages, LeftAtFirst
<1>9. CountRead(t) BY <1>1 DEF CountRead
<1> QED BY <1>1, <1>2, <1>5, <1>7, <1>8, <1>9 DEF RunOK, t

\* The source of a branch is asked for its documents (createReadRequest).
LEMMA BranchAsks ==
  ASSUME WorldTyped, NEW s, DOMAIN s = RunFields, RunOK(s), s.pc = "branch", NEW bent \in BOOLEAN
  PROVE  RunOK([s EXCEPT !.max = MaxDocuments(s, Branch(s).limit, NoLimit), !.bent = bent, !.pc = "connectRead"])
<1> DEFINE t == [s EXCEPT !.max = MaxDocuments(s, Branch(s).limit, NoLimit), !.bent = bent, !.pc = "connectRead"]
<1>10. s.at = 0 /\ s.got = 0 /\ s.page = 0 /\ s.max = 0 BY DEF RunOK, AtStage
<1>0. MaxDocuments(s, Branch(s).limit, NoLimit) \in Nat
  BY BranchFound, Numbers DEF RunOK, RunTyped, Remaining, MaxDocuments, Least
<1>1. /\ t.plan = s.plan /\ t.pc = "connectRead" /\ t.reason = s.reason /\ t.startedAt = s.startedAt
      /\ t.aborted = s.aborted /\ t.branch = s.branch /\ t.reads = s.reads
      /\ t.memory = s.memory /\ t.spent = s.spent /\ t.at = s.at /\ t.todo = s.todo
      /\ t.next = s.next /\ t.max = MaxDocuments(s, Branch(s).limit, NoLimit) /\ t.got = s.got
      /\ t.page = s.page /\ t.short = s.short /\ t.bent = bent /\ t.disturbed = s.disturbed
  BY DEF RunFields, NewRun
<1> HIDE DEF t
<1>2. RunTyped(t)
  <2>1. t.max \in Nat BY <1>1, <1>0
  <2> QED BY <1>1, <2>1 DEF RunOK, RunTyped, Pcs, Reasons
<1>3. Plan(t) = Plan(s) /\ Branch(t) = Branch(s) /\ Reading(t) = Source
  BY <1>1, <1>10 DEF Plan, Branch, Reading
<1>5. AtStage(t) BY <1>1, <1>3, <1>10 DEF RunOK, AtStage, Pages, Aggregates
<1>6. docs[Source] \in Nat
  <2>1. docs[Source] \in 0..MaxDocs BY DEF WorldTyped, Collections
  <2> QED BY <2>1, Numbers
<1>7. PagesRead(t) BY <1>0, <1>1, <1>3, <1>6, <1>10 DEF RunOK, RunTyped, PagesRead
<1>8. WithinBudget(t) BY <1>1, <1>10 DEF WithinBudget
<1>9. CountRead(t) BY <1>1 DEF CountRead
<1> QED BY <1>1, <1>2, <1>5, <1>7, <1>8, <1>9 DEF RunOK, t

\* The source of a branch is aggregated by Firestore.
LEMMA BranchAggregates ==
  ASSUME WorldTyped, NEW s, DOMAIN s = RunFields, RunOK(s), s.pc = "branch"
  PROVE  RunOK([s EXCEPT !.pc = "connectAggregate"])
<1> DEFINE t == [s EXCEPT !.pc = "connectAggregate"]
<1>1. /\ t.plan = s.plan /\ t.pc = "connectAggregate" /\ t.reason = s.reason
      /\ t.startedAt = s.startedAt /\ t.aborted = s.aborted /\ t.branch = s.branch
      /\ t.reads = s.reads /\ t.memory = s.memory /\ t.spent = s.spent /\ t.at = s.at
      /\ t.todo = s.todo /\ t.next = s.next /\ t.max = s.max /\ t.got = s.got /\ t.page = s.page
      /\ t.short = s.short /\ t.bent = s.bent /\ t.disturbed = s.disturbed
  BY DEF RunFields, NewRun
<1> HIDE DEF t
<1>2. RunTyped(t) BY <1>1 DEF RunOK, RunTyped, Pcs, Reasons
<1>10. s.at = 0 /\ s.got = 0 /\ s.page = 0 /\ s.max = 0 BY DEF RunOK, AtStage
<1>3. Plan(t) = Plan(s) /\ Branch(t) = Branch(s) BY <1>1 DEF Plan, Branch
<1>5. AtStage(t) BY <1>1, <1>3, <1>10 DEF RunOK, AtStage, Pages, Aggregates
<1>7. PagesRead(t) BY <1>1 DEF PagesRead, Pages
<1>8. WithinBudget(t) BY <1>1, <1>10 DEF WithinBudget
<1>9. CountRead(t) BY <1>1, <1>10 DEF CountRead
<1> QED BY <1>1, <1>2, <1>5, <1>7, <1>8, <1>9 DEF RunOK, t

\* The stage a run is at.
LEMMA StageFound ==
  ASSUME NEW s, RunOK(s), s.pc = "stage", Branch(s).stages # <<>>
  PROVE  s.at \in Nat /\ s.at > 0 /\ s.at \in DOMAIN Branch(s).stages /\ Stage(s) \in Stages
         /\ s.at <= Len(Branch(s).stages)
BY BranchFound DEF RunOK, AtStage, RunTyped

\* A branch without stages returns its rows.
LEMMA StagesOver ==
  ASSUME NEW s, DOMAIN s = RunFields, RunOK(s), s.pc = "stage"
  PROVE  RunOK([s EXCEPT !.pc = "return"])
<1> DEFINE t == [s EXCEPT !.pc = "return"]
<1>1. /\ t.plan = s.plan /\ t.pc = "return" /\ t.reason = s.reason /\ t.startedAt = s.startedAt
      /\ t.aborted = s.aborted /\ t.branch = s.branch /\ t.reads = s.reads
      /\ t.memory = s.memory /\ t.spent = s.spent /\ t.at = s.at /\ t.todo = s.todo
      /\ t.next = s.next /\ t.max = s.max /\ t.got = s.got /\ t.page = s.page
      /\ t.short = s.short /\ t.bent = s.bent /\ t.disturbed = s.disturbed
  BY DEF RunFields, NewRun
<1> HIDE DEF t
<1>2. RunTyped(t) BY <1>1 DEF RunOK, RunTyped, Pcs, Reasons
<1>3. Plan(t) = Plan(s) /\ Branch(t) = Branch(s) BY <1>1 DEF Plan, Branch
<1>5. AtStage(t) BY <1>1, <1>3 DEF RunOK, AtStage, Pages, Aggregates
<1>7. PagesRead(t) BY <1>1 DEF PagesRead, Pages
<1>8. WithinBudget(t) BY <1>1 DEF WithinBudget, Pages
<1>9. CountRead(t) BY <1>1 DEF CountRead
<1> QED BY <1>1, <1>2, <1>5, <1>7, <1>8, <1>9 DEF RunOK, t

\* The rows of a stage go to the next one.
LEMMA NextStageOK ==
  ASSUME NEW s, DOMAIN s = RunFields, RunOK(s), s.pc = "stage", Branch(s).stages # <<>>, NEW rows \in Seq(Rows)
  PROVE  RunOK(NextStage(s, rows))
<1> DEFINE t == NextStage(s, rows)
<1>1. /\ t.plan = s.plan
      /\ t.pc = (IF rows = <<>> \/ s.at >= Len(Branch(s).stages) THEN "return" ELSE "stage")
      /\ t.reason = s.reason /\ t.startedAt = s.startedAt /\ t.aborted = s.aborted
      /\ t.branch = s.branch /\ t.reads = s.reads /\ t.memory = s.memory /\ t.spent = s.spent
      /\ t.at = s.at + 1 /\ t.todo = rows /\ t.next = <<>> /\ t.max = s.max /\ t.got = s.got
      /\ t.page = s.page /\ t.short = s.short /\ t.bent = s.bent /\ t.disturbed = s.disturbed
  BY DEF NextStage, RunFields, NewRun
<1> HIDE DEF t
<1>2. RunTyped(t) BY <1>1 DEF RunOK, RunTyped, Pcs, Reasons
<1>3. Plan(t) = Plan(s) /\ Branch(t) = Branch(s) BY <1>1 DEF Plan, Branch
<1>5. AtStage(t) BY <1>1, <1>3, StageFound, BranchFound DEF RunOK, AtStage, Pages, Aggregates
<1>7. PagesRead(t) BY <1>1 DEF PagesRead, Pages
<1>8. WithinBudget(t) BY <1>1 DEF WithinBudget, Pages
<1>9. CountRead(t) BY <1>1 DEF CountRead
<1> QED BY <1>1, <1>2, <1>5, <1>7, <1>8, <1>9 DEF RunOK, t

\* A lookup asks for what its limit, its cap and the budget leave (createReadRequest).
LEMMA LookupAsks ==
  ASSUME WorldTyped, NEW s, DOMAIN s = RunFields, RunOK(s), s.pc = "stage", Branch(s).stages # <<>>,
         Stage(s).kind = "lookup", s.todo # <<>>, Head(s.todo).key \in Keys, NEW bent \in BOOLEAN
  PROVE  RunOK([s EXCEPT !.max = LookupMax(s), !.pc = "connectRead", !.bent = bent])
<1> DEFINE t == [s EXCEPT !.max = LookupMax(s), !.pc = "connectRead", !.bent = bent]
<1>0. LookupMax(s) \in Nat
  <2>1. Plan(s).budget \in Nat BY BranchFound DEF RunOK
  <2>2. s.reads \in Nat BY DEF RunOK, RunTyped
  <2>3. Remaining(s) \in Nat BY <2>1, <2>2 DEF Remaining
  <2>4. Stage(s).limit \in Nat BY StageFound, LookupStage
  <2>5. OneCap(Stage(s)) \in Nat BY Numbers DEF OneCap
  <2> QED BY <2>3, <2>4, <2>5 DEF LookupMax, MaxDocuments, Least
<1>1. /\ t.plan = s.plan /\ t.pc = "connectRead" /\ t.reason = s.reason /\ t.startedAt = s.startedAt
      /\ t.aborted = s.aborted /\ t.branch = s.branch /\ t.reads = s.reads
      /\ t.memory = s.memory /\ t.spent = s.spent /\ t.at = s.at /\ t.todo = s.todo
      /\ t.next = s.next /\ t.max = LookupMax(s) /\ t.got = s.got /\ t.page = s.page
      /\ t.short = s.short /\ t.bent = bent /\ t.disturbed = s.disturbed
  BY DEF RunFields, NewRun
<1> HIDE DEF t
<1>2. RunTyped(t)
  <2>1. t.max \in Nat BY <1>1, <1>0
  <2> QED BY <1>1, <2>1 DEF RunOK, RunTyped, Pcs, Reasons
<1>3. Plan(t) = Plan(s) /\ Branch(t) = Branch(s) BY <1>1 DEF Plan, Branch
<1>5. AtStage(t) BY <1>1, <1>3, StageFound DEF Stage, RunOK, AtStage, Pages, Aggregates
<1>6. s.got = 0 /\ s.page = 0 /\ s.reads \in Nat BY DEF RunOK, AtStage, RunTyped
<1>11. Reading(t) \in Collections /\ docs[Reading(t)] \in Nat
  BY <1>1, StageFound, Numbers DEF Reading, Collections, WorldTyped
<1>7. PagesRead(t) BY <1>0, <1>1, <1>6, <1>11 DEF PagesRead
<1>8. WithinBudget(t)
  <2>1. Stage(t) = Stage(s) BY <1>1, <1>3 DEF Stage
  <2>2. s.reads - 0 = s.reads BY <1>6
  <2>3. t.reads - t.got = s.reads BY <1>1, <1>6, <2>2
  <2>6. Plan(s).budget \in Nat BY BranchFound DEF RunOK
  <2>4. LeftAtFirst(t) = Remaining(s) BY <1>3, <1>6, <2>3, <2>6 DEF LeftAtFirst, Remaining
  <2>5. LookupMax(s) = Least(Least(Stage(s).limit, OneCap(Stage(s))), Remaining(s))
    BY DEF LookupMax, MaxDocuments
  <2> QED BY <1>1, <1>6, <2>1, <2>4, <2>5 DEF WithinBudget
<1>9. CountRead(t) BY <1>1 DEF CountRead
<1> QED BY <1>1, <1>2, <1>5, <1>7, <1>8, <1>9 DEF RunOK, t

\* An aggregate of a row asks Firestore.
LEMMA AggregateAsks ==
  ASSUME NEW s, DOMAIN s = RunFields, RunOK(s), s.pc = "stage", Branch(s).stages # <<>>,
         Stage(s).kind = "providerAggregate", s.todo # <<>>, Head(s.todo).key \in Keys
  PROVE  RunOK([s EXCEPT !.pc = "connectAggregate"])
<1> DEFINE t == [s EXCEPT !.pc = "connectAggregate"]
<1>1. /\ t.plan = s.plan /\ t.pc = "connectAggregate" /\ t.reason = s.reason
      /\ t.startedAt = s.startedAt /\ t.aborted = s.aborted /\ t.branch = s.branch
      /\ t.reads = s.reads /\ t.memory = s.memory /\ t.spent = s.spent /\ t.at = s.at
      /\ t.todo = s.todo /\ t.next = s.next /\ t.max = s.max /\ t.got = s.got /\ t.page = s.page
      /\ t.short = s.short /\ t.bent = s.bent /\ t.disturbed = s.disturbed
  BY DEF RunFields, NewRun
<1> HIDE DEF t
<1>2. RunTyped(t) BY <1>1 DEF RunOK, RunTyped, Pcs, Reasons
<1>3. Plan(t) = Plan(s) /\ Branch(t) = Branch(s) BY <1>1 DEF Plan, Branch
<1>5. AtStage(t) BY <1>1, <1>3, StageFound DEF Stage, RunOK, AtStage, Pages, Aggregates
<1>6. s.got = 0 BY DEF RunOK, AtStage
<1>7. PagesRead(t) BY <1>1 DEF PagesRead, Pages
<1>8. WithinBudget(t) BY <1>1 DEF WithinBudget, Pages
<1>9. CountRead(t) BY <1>1, <1>6 DEF CountRead
<1> QED BY <1>1, <1>2, <1>5, <1>7, <1>8, <1>9 DEF RunOK, t

\* An answer of an aggregate: the count first, then the extremes (aggregateFirestore).
LEMMA CountArrives ==
  ASSUME WorldTyped, NEW s, DOMAIN s = RunFields, RunOK(s), s.pc = "aggregating",
         NEW max \in Nat, NEW got \in Nat, NEW page \in Nat, NEW pc \in {"aggregating", "aggregated"},
         ~s.disturbed => max = docs[Reading(s)]
  PROVE  RunOK([s EXCEPT !.max = max, !.got = got, !.page = page, !.pc = pc])
<1> DEFINE t == [s EXCEPT !.max = max, !.got = got, !.page = page, !.pc = pc]
<1>1. /\ t.plan = s.plan /\ t.pc = pc /\ t.reason = s.reason /\ t.startedAt = s.startedAt
      /\ t.aborted = s.aborted /\ t.branch = s.branch /\ t.reads = s.reads
      /\ t.memory = s.memory /\ t.spent = s.spent /\ t.at = s.at /\ t.todo = s.todo
      /\ t.next = s.next /\ t.max = max /\ t.got = got /\ t.page = page /\ t.short = s.short
      /\ t.bent = s.bent /\ t.disturbed = s.disturbed
  BY DEF RunFields, NewRun
<1> HIDE DEF t
<1>2. RunTyped(t) BY <1>1 DEF RunOK, RunTyped, Pcs, Reasons
<1>3. Plan(t) = Plan(s) /\ Branch(t) = Branch(s) BY <1>1 DEF Plan, Branch
<1>4. Reading(t) = Reading(s) /\ Stage(t) = Stage(s) BY <1>1, <1>3 DEF Reading, Stage
<1>5. AtStage(t) BY <1>1, <1>3, <1>4 DEF RunOK, AtStage, Pages, Aggregates
<1>7. PagesRead(t) BY <1>1 DEF PagesRead, Pages
<1>8. WithinBudget(t) BY <1>1 DEF WithinBudget, Pages
<1>9. CountRead(t) BY <1>1, <1>4 DEF CountRead
<1> QED BY <1>1, <1>2, <1>5, <1>7, <1>8, <1>9 DEF RunOK, t

\* A row is returned.
LEMMA RowShown ==
  ASSUME NEW s, DOMAIN s = RunFields, RunOK(s), s.pc = "return", s.todo # <<>>, NEW shown
  PROVE  RunOK([s EXCEPT !.shown = shown, !.todo = Tail(@)])
<1> DEFINE t == [s EXCEPT !.shown = shown, !.todo = Tail(@)]
<1>1. /\ t.plan = s.plan /\ t.pc = s.pc /\ t.reason = s.reason /\ t.startedAt = s.startedAt
      /\ t.aborted = s.aborted /\ t.branch = s.branch /\ t.reads = s.reads
      /\ t.memory = s.memory /\ t.spent = s.spent /\ t.at = s.at /\ t.todo = Tail(s.todo)
      /\ t.next = s.next /\ t.max = s.max /\ t.got = s.got /\ t.page = s.page
      /\ t.short = s.short /\ t.bent = s.bent /\ t.disturbed = s.disturbed
  BY DEF RunFields, NewRun
<1> HIDE DEF t
<1>2. RunTyped(t) BY <1>1, HeadRow DEF RunOK, RunTyped, Pcs, Reasons
<1>3. Plan(t) = Plan(s) /\ Branch(t) = Branch(s) BY <1>1 DEF Plan, Branch
<1>5. AtStage(t) BY <1>1, <1>3 DEF RunOK, AtStage, Pages, Aggregates
<1>7. PagesRead(t) BY <1>1 DEF PagesRead, Pages
<1>8. WithinBudget(t) BY <1>1 DEF WithinBudget, Pages
<1>9. CountRead(t) BY <1>1 DEF CountRead
<1> QED BY <1>1, <1>2, <1>5, <1>7, <1>8, <1>9 DEF RunOK, t

\* The next branch of a union begins.
LEMMA NextBranchOK ==
  ASSUME NEW s, DOMAIN s = RunFields, RunOK(s), s.pc = "return", s.branch < Len(Plan(s).branches)
  PROVE  RunOK([s EXCEPT !.pc = "branch", !.branch = @ + 1, !.at = 0, !.next = <<>>,
                               !.max = 0, !.got = 0, !.page = 0, !.short = FALSE])
<1> DEFINE t == [s EXCEPT !.pc = "branch", !.branch = @ + 1, !.at = 0, !.next = <<>>,
                               !.max = 0, !.got = 0, !.page = 0, !.short = FALSE]
<1>1. /\ t.plan = s.plan /\ t.pc = "branch" /\ t.reason = s.reason /\ t.startedAt = s.startedAt
      /\ t.aborted = s.aborted /\ t.branch = s.branch + 1 /\ t.reads = s.reads
      /\ t.memory = s.memory /\ t.spent = s.spent /\ t.at = 0 /\ t.todo = s.todo
      /\ t.next = <<>> /\ t.max = 0 /\ t.got = 0 /\ t.page = 0 /\ t.short = FALSE
      /\ t.bent = s.bent /\ t.disturbed = s.disturbed
  BY DEF RunFields, NewRun
<1> HIDE DEF t
<1>2. RunTyped(t)
  <2>1. t.todo \in Seq(Rows) /\ t.next \in Seq(Rows) BY <1>1 DEF RunOK, RunTyped
  <2>2. t.at \in Nat /\ t.max \in Nat /\ t.got \in Nat /\ t.page \in Nat BY <1>1 DEF RunOK, RunTyped
  <2>3. t.pc \in Pcs /\ t.reason \in Reasons /\ (t.reason = "none" <=> t.pc # "done")
    BY <1>1 DEF RunOK, RunTyped, Pcs, Reasons
  <2>9. t.short \in BOOLEAN BY <1>1
  <2> QED BY <1>1, <2>9, <2>1, <2>2, <2>3 DEF RunOK, RunTyped
<1>3. Plan(t) = Plan(s) BY <1>1 DEF Plan
<1>5. AtStage(t) BY <1>1, <1>3, PlanNumbers DEF RunOK, AtStage, Pages, Aggregates
<1>7. PagesRead(t) BY <1>1 DEF PagesRead, Pages
<1>8. WithinBudget(t) BY <1>1 DEF WithinBudget, Pages
<1>9. CountRead(t) BY <1>1 DEF CountRead
<1> QED BY <1>1, <1>2, <1>5, <1>7, <1>8, <1>9 DEF RunOK, t

\* A run that is cancelled is where it was, and to stop.
LEMMA Aborted ==
  ASSUME NEW s, DOMAIN s = RunFields, RunOK(s), s.pc \notin {"new", "done"}
  PROVE  RunOK([s EXCEPT !.aborted = TRUE])
<1> DEFINE t == [s EXCEPT !.aborted = TRUE]
<1>1. /\ t.plan = s.plan /\ t.pc = s.pc /\ t.reason = s.reason /\ t.startedAt = s.startedAt
      /\ t.aborted = TRUE /\ t.branch = s.branch /\ t.reads = s.reads /\ t.memory = s.memory
      /\ t.spent = s.spent /\ t.at = s.at /\ t.todo = s.todo /\ t.next = s.next /\ t.max = s.max
      /\ t.got = s.got /\ t.page = s.page /\ t.short = s.short /\ t.bent = s.bent
      /\ t.disturbed = s.disturbed
  BY DEF RunFields, NewRun
<1> HIDE DEF t
<1>2. RunTyped(t) BY <1>1 DEF RunOK, RunTyped, Pcs, Reasons
<1>3. Plan(t) = Plan(s) /\ Branch(t) = Branch(s) BY <1>1 DEF Plan, Branch
<1>4. Reading(t) = Reading(s) /\ Stage(t) = Stage(s) /\ Stopped(t) BY <1>1, <1>3 DEF Reading, Stage, Stopped
<1>5. AtStage(t) BY <1>1, <1>3, <1>4 DEF RunOK, AtStage, Pages, Aggregates
<1>7. PagesRead(t) BY <1>1, <1>4 DEF RunOK, PagesRead
<1>8. WithinBudget(t) BY <1>1, <1>3, <1>4 DEF RunOK, WithinBudget, LeftAtFirst
<1>9. CountRead(t) BY <1>1, <1>4 DEF RunOK, CountRead
<1> QED BY <1>1, <1>2, <1>5, <1>7, <1>8, <1>9 DEF RunOK, t

\* A run starts at the first branch of its plan.
LEMMA Started ==
  ASSUME WorldTyped, NEW s, DOMAIN s = RunFields, RunOK(s), s.pc = "new",
         NEW name \in DOMAIN Plans, Plans[name].kind = "read"
  PROVE  RunOK([s EXCEPT !.startedAt = clock, !.plan = name, !.pc = "branch"])
<1> DEFINE t == [s EXCEPT !.startedAt = clock, !.plan = name, !.pc = "branch"]
<1>1. /\ t.plan = name /\ t.pc = "branch" /\ t.reason = s.reason /\ t.startedAt = clock
      /\ t.aborted = s.aborted /\ t.branch = s.branch /\ t.reads = s.reads
      /\ t.memory = s.memory /\ t.spent = s.spent /\ t.at = s.at /\ t.todo = s.todo
      /\ t.next = s.next /\ t.max = s.max /\ t.got = s.got /\ t.page = s.page
      /\ t.short = s.short /\ t.bent = s.bent /\ t.disturbed = s.disturbed
  BY DEF RunFields, NewRun
<1> HIDE DEF t
<1>2. RunTyped(t)
  <2>1. t.startedAt \in Nat BY <1>1, Numbers DEF WorldTyped
  <2> QED BY <1>1, <2>1 DEF RunOK, RunTyped, Pcs, Reasons
<1>5. AtStage(t) BY <1>1, PlanNumbers DEF RunOK, NewRun, Plan, AtStage, Pages, Aggregates
<1>7. PagesRead(t) BY <1>1 DEF PagesRead, Pages
<1>8. WithinBudget(t) BY <1>1 DEF WithinBudget, Pages
<1>9. CountRead(t) BY <1>1 DEF CountRead
<1> QED BY <1>1, <1>2, <1>5, <1>7, <1>8, <1>9 DEF RunOK, t

\* An answer is handed on and the entry it came from touched, or an expired one goes.
LEMMA TouchedOK ==
  ASSUME CacheOK, WorldTyped, NEW k, store' = Touched(k), docs' = docs
  PROVE  CacheOK'
<1>1. clock \in Nat BY Numbers DEF WorldTyped
<1>2. DOMAIN store \subseteq CacheKey /\ \A c \in DOMAIN store : store[c] \in Entries
  BY DEF CacheOK, StoreTyped
<1>3. \A c \in DOMAIN store : store[c].stale \/ store[c].rows = Least(docs[c.key], c.limit)
  BY DEF CacheOK, PersistedIsWhole
<1>4. CASE Hits(k)
  <2>1. k \in DOMAIN store /\ store' = [store EXCEPT ![k].accessed = clock] BY <1>4 DEF Hits, Touched
  <2>2. store[k] \in Entries BY <1>2, <2>1
  <2>3. PICK e : e = [store[k] EXCEPT !.accessed = clock] OBVIOUS
  <2>4. e \in Entries /\ e.rows = store[k].rows /\ e.stale = store[k].stale
    BY <1>1, <2>2, <2>3 DEF Entries
  <2>5. DOMAIN store' = DOMAIN store /\ store'[k] = e /\ \A c \in DOMAIN store \ {k} : store'[c] = store[c]
    BY <2>1, <2>3
  <2>6. \A c \in DOMAIN store' : store'[c] \in Entries BY <1>2, <2>4, <2>5
  <2>7. \A c \in DOMAIN store' : store'[c].stale \/ store'[c].rows = Least(docs[c.key], c.limit)
    BY <1>3, <2>1, <2>4, <2>5
  <2> QED BY <1>2, <2>5, <2>6, <2>7 DEF CacheOK, StoreTyped, PersistedIsWhole
<1>5. CASE ~Hits(k) BY <1>2, <1>3, <1>5 DEF Touched, Restrict, CacheOK, StoreTyped, PersistedIsWhole
<1> QED BY <1>4, <1>5

\* What is stored is as whole as its reader says, and what stays as it was (set, evictCache).
LEMMA StoredOK ==
  ASSUME CacheOK, WorldTyped, NEW k \in CacheKey, NEW rows \in Nat, NEW disturbed \in BOOLEAN,
         disturbed \/ rows = Least(docs[k.key], k.limit),
         store' \in Stored(k, rows, disturbed), docs' = docs
  PROVE  CacheOK'
<1>1. clock \in Nat /\ clock + Ttl \in Nat BY Numbers DEF WorldTyped
<1>2. DOMAIN store \subseteq CacheKey /\ \A c \in DOMAIN store : store[c] \in Entries
  BY DEF CacheOK, StoreTyped
<1>3. \A c \in DOMAIN store : store[c].stale \/ store[c].rows = Least(docs[c.key], c.limit)
  BY DEF CacheOK, PersistedIsWhole
<1>4. PICK entry : entry = [rows |-> rows, expires |-> clock + Ttl, accessed |-> clock, stale |-> disturbed]
  OBVIOUS
<1>5. PICK entries : entries = [c \in DOMAIN store \cup {k} |-> IF c = k THEN entry ELSE store[c]]
  OBVIOUS
<1>6. \E S \in Survivors(entries) : store' = Restrict(entries, S) BY <1>4, <1>5 DEF Stored
<1>7. PICK S \in Survivors(entries) : store' = Restrict(entries, S) BY <1>6
<1>8. S \subseteq DOMAIN entries BY DEF Survivors
<1>9. DOMAIN store' = S /\ \A c \in S : store'[c] = entries[c] BY <1>7 DEF Restrict
<1>10. entry \in Entries /\ entry.rows = rows /\ entry.stale = disturbed BY <1>1, <1>4 DEF Entries
<1>11. \A c \in S : (c = k /\ store'[c] = entry) \/ (c # k /\ c \in DOMAIN store /\ store'[c] = store[c])
  BY <1>5, <1>8, <1>9
<1>12. \A c \in S : c \in CacheKey /\ store'[c] \in Entries BY <1>2, <1>10, <1>11
<1>13. \A c \in S : store'[c].stale \/ store'[c].rows = Least(docs[c.key], c.limit)
  BY <1>3, <1>10, <1>11
<1> QED BY <1>9, <1>12, <1>13 DEF CacheOK, StoreTyped, PersistedIsWhole

----------------
\* A lookup that is persisted has the whole answer of its key: neither the budget nor
\* a stop has cut it (shouldPersistLookupRows, cacheReadLimit).
LEMMA LookupWhole ==
  ASSUME WorldTyped, NEW s, DOMAIN s = RunFields, RunOK(s), s.pc = "read", s.at > 0,
         ~Stopped(s), Persists(s),
         NEW k, k = LookupKey(Stage(s), Head(s.todo).key, s.max)
  PROVE  k \in CacheKey /\ (s.disturbed \/ s.got = Least(docs[k.key], k.limit))
<1> DEFINE d == docs[Reading(s)]
<1> DEFINE limit == Stage(s).limit
<1> DEFINE left == LeftAtFirst(s)
<1>1. /\ s.at \in DOMAIN Branch(s).stages /\ Stage(s).kind = "lookup" /\ Head(s.todo).key \in Keys
      /\ Stage(s) \in Stages /\ Plan(s).budget \in Nat
  BY BranchFound DEF RunOK, AtStage, Pages
<1>2. limit \in Nat /\ Stage(s).mode \in {"one", "many"} BY <1>1, LookupStage
<1>3. s.got \in Nat /\ s.max \in Nat /\ s.reads \in Nat /\ s.got <= s.reads /\ s.got + s.page <= s.max
      /\ s.page \in Nat
  BY DEF RunOK, RunTyped, PagesRead, Pages
<1>4. Reading(s) = Head(s.todo).key /\ k.key = Head(s.todo).key BY DEF Reading, LookupKey
<1>5. d \in Nat /\ d <= 99 BY ReadingFound, Numbers DEF Pages
<1>6. k.limit = IF limit < 99 THEN limit ELSE IF Stage(s).mode = "one" THEN s.max ELSE 99
  BY DEF LookupKey, NoLimit
<1>7. k \in CacheKey
  <2>1. k.limit \in Nat BY <1>2, <1>3, <1>6
  <2> QED BY <1>1, <2>1 DEF LookupKey, CacheKey
<1>8. ASSUME ~s.disturbed PROVE s.got = Least(d, k.limit)
  <2>1. s.got = Least(s.max, d) BY <1>8 DEF RunOK, PagesRead, Pages
  <2>2. s.max = Least(Least(limit, OneCap(Stage(s))), left) BY DEF RunOK, WithinBudget, Pages
  <2>3. s.got > 0 => s.reads < Plan(s).budget BY DEF RunOK, WithinBudget, Pages
  <2>4. left = IF Plan(s).budget > s.reads - s.got THEN Plan(s).budget - (s.reads - s.got) ELSE 0
    BY DEF LeftAtFirst
  <2>5. left \in Nat BY <1>1, <1>3, <2>4
  <2>6. s.got > 0 => s.got < left BY <1>1, <1>3, <2>3, <2>4
  <2>7. OneCap(Stage(s)) = (IF Stage(s).mode = "one" /\ limit = 99 THEN 2 ELSE 99)
    BY DEF OneCap, NoLimit
  <2>8. s.max > 0 /\ (IF Stage(s).mode = "one" THEN s.got <= 1 ELSE limit < 99 \/ s.got < s.max)
    BY DEF Persists, NoLimit
  <2> HIDE DEF d, limit, left
  <2>9. CASE limit < 99
    <3>1. Least(limit, OneCap(Stage(s))) = limit BY <1>2, <2>7, <2>9 DEF Least
    <3>2. k.limit = limit /\ s.max = Least(limit, left) BY <1>6, <2>2, <2>9, <3>1
    <3>3. s.got = Least(d, limit)
      <4>1. CASE limit <= left BY <1>2, <1>5, <2>1, <3>2, <4>1 DEF Least
      <4>2. CASE ~(limit <= left)
        <5>1. s.max = left BY <3>2, <4>2 DEF Least
        <5>2. left > 0 BY <2>8, <5>1
        <5>3. s.got # left BY <1>3, <2>5, <2>6, <5>2
        <5>4. ~(left <= d) /\ s.got = d BY <2>1, <5>1, <5>3 DEF Least
        <5>5. d <= limit BY <1>2, <1>5, <2>5, <4>2, <5>4
        <5> QED BY <5>4, <5>5 DEF Least
      <4> QED BY <4>1, <4>2
    <3> QED BY <3>2, <3>3
  <2>10. CASE ~(limit < 99) /\ Stage(s).mode = "one"
    <3>1. k.limit = s.max BY <1>6, <2>10
    <3> QED BY <1>3, <1>5, <2>1, <3>1 DEF Least
  <2>11. CASE ~(limit < 99) /\ Stage(s).mode # "one"
    BY <1>3, <1>5, <1>6, <2>1, <2>8, <2>11 DEF Least
  <2> QED BY <2>9, <2>10, <2>11
<1> QED BY <1>4, <1>7, <1>8

\* So has an aggregate, which no budget bounds.
LEMMA AggregateWhole ==
  ASSUME WorldTyped, NEW s, DOMAIN s = RunFields, RunOK(s), s.pc = "aggregated", s.at > 0,
         ~Stopped(s), NEW k, k = AggregateKey(Head(s.todo).key)
  PROVE  k \in CacheKey /\ (s.disturbed \/ s.max = Least(docs[k.key], k.limit))
<1>1. Head(s.todo).key \in Keys BY DEF RunOK, AtStage, Aggregates
<1>2. Reading(s) = Head(s.todo).key /\ k.key = Head(s.todo).key /\ k.limit = 99
  BY DEF Reading, AggregateKey, NoLimit
<1>3. docs[Reading(s)] \in Nat /\ docs[Reading(s)] <= 99 BY ReadingFound, Numbers DEF Aggregates
<1>4. ~s.disturbed => s.max = docs[Reading(s)] BY DEF RunOK, CountRead
<1>5. k \in CacheKey BY <1>1, Numbers DEF AggregateKey, CacheKey
<1> QED BY <1>2, <1>3, <1>4, <1>5 DEF Least

\* What the invariant says of one run.
LEMMA RunFound ==
  ASSUME FdqlInv, CancelInv, NEW r \in Runs
  PROVE  DOMAIN run[r] = RunFields /\ RunOK(run[r]) /\ RunTyped(run[r]) /\ AtStage(run[r])
         /\ WorldTyped /\ CacheOK
BY DEF FdqlInv, CancelInv, RunInv, RunOK, CacheOK

\* A step of a run that may change the cache.
LEMMA WithCacheOK ==
  ASSUME FdqlInv, CancelInv, NEW r \in Runs, NEW t, RunOK(t), Becomes(r, t), CacheOK',
         docs' = docs, clock' = clock, writes' = writes, faults' = faults, turn' \in Runs \cup {Nobody}
  PROVE  FdqlInv'
BY OneRunOK DEF FdqlInv, WorldTyped

\* A run that finds it is to stop ends (stopEvents).
LEMMA StopOK ==
  ASSUME FdqlInv, CancelInv, NEW r \in Runs, StopBefore(run[r]) # "none", Ends(r, run[r], StopBefore(run[r]))
  PROVE  FdqlInv'
BY RunFound, StopReasons, EndOK

\* Ask keeps the invariant.
LEMMA AskOK ==
  ASSUME FdqlInv, CancelInv, NEW r \in Runs, Ask(r)
  PROVE  FdqlInv'
<1>1. PICK s : s = run[r] OBVIOUS
<1>2. DOMAIN s = RunFields /\ RunOK(s) /\ WorldTyped BY <1>1, RunFound
<1>3. s.pc = "ask" BY <1>1 DEF Ask
<1>4. CASE s.got < s.max /\ ~Stopped(s)
  <2>1. PICK t : t = [s EXCEPT !.pc = "paging"] OBVIOUS
  <2>2. RunOK(t) BY <1>2, <1>3, <1>4, <2>1, AskOn
  <2>3. DOMAIN t = RunFields /\ t.pc = "paging" BY <1>2, <2>1 DEF RunFields, NewRun
  <2>4. [s EXCEPT !.pc = "paging", !.asked = @ + 1] = [t EXCEPT !.asked = s.asked + 1]
    BY <1>2, <2>1 DEF RunFields, NewRun
  <2>5. Sends(r, [t EXCEPT !.asked = s.asked + 1]) BY <1>1, <1>4, <2>4 DEF Ask
  <2>6. RunOK([t EXCEPT !.asked = s.asked + 1]) BY <2>2, <2>3, AskedFree
  <2> QED BY <2>5, <2>6, FormOK
<1>5. CASE ~(s.got < s.max /\ ~Stopped(s)) BY <1>1, <1>2, <1>3, <1>5, AskNoMore, FormOK DEF Ask
<1> QED BY <1>4, <1>5

\* PageArrives keeps the invariant.
LEMMA PageArrivesOK ==
  ASSUME FdqlInv, CancelInv, NEW r \in Runs, PageArrives(r)
  PROVE  FdqlInv'
<1>1. PICK s : s = run[r] OBVIOUS
<1>2. DOMAIN s = RunFields /\ RunOK(s) /\ WorldTyped BY <1>1, RunFound
<1>3. s.pc = "paging" BY <1>1 DEF PageArrives
<1>4. PICK n : n = IF docs[Reading(s)] - s.got <= 0 THEN 0 ELSE Least(PageLimit(s), docs[Reading(s)] - s.got)
  OBVIOUS
<1>5. IF Stopped(s) \/ n = 0 THEN Resumes(r, [s EXCEPT !.pc = "read"])
      ELSE Resumes(r, [s EXCEPT !.pc = "docs", !.page = n, !.short = n < PageLimit(s)])
  BY <1>1, <1>4 DEF PageArrives
<1>6. PageLimit(s) \in Nat /\ PageLimit(s) > 0
  <2>1. Plan(s).pageSize \in Nat /\ Plan(s).pageSize > 0 BY <1>2, <1>3, BranchFound DEF RunOK
  <2>2. s.max \in Nat /\ s.got \in Nat /\ s.got < s.max BY <1>2, <1>3 DEF RunOK, RunTyped, PagesRead, Pages
  <2> DEFINE a == Least(Plan(s).pageSize, s.max)
  <2>3. a \in Nat /\ a > 0 BY <2>1, <2>2 DEF Least
  <2>4. PageLimit(s) = Least(a, s.max - s.got) BY DEF PageLimit
  <2> HIDE DEF a
  <2>5. s.max - s.got \in Nat /\ s.max - s.got > 0 BY <2>2
  <2> QED BY <2>3, <2>4, <2>5 DEF Least
<1>7. docs[Reading(s)] \in Nat /\ s.got \in Nat
  BY <1>2, <1>3, ReadingFound DEF Pages, RunOK, RunTyped
<1>8. docs[Reading(s)] - s.got <= 0 \/ (n \in Nat /\ n > 0 /\ n = Least(PageLimit(s), docs[Reading(s)] - s.got))
  BY <1>4, <1>6, <1>7 DEF Least
<1>9. CASE Stopped(s) \/ docs[Reading(s)] - s.got <= 0
  BY <1>2, <1>3, <1>4, <1>5, <1>9, PageOver, FormOK
<1>10. CASE ~(Stopped(s) \/ docs[Reading(s)] - s.got <= 0)
  <2>1. n \in Nat /\ n > 0 /\ n # 0 /\ n = Least(PageLimit(s), docs[Reading(s)] - s.got) BY <1>8, <1>10
  <2>2. Resumes(r, [s EXCEPT !.pc = "docs", !.page = n, !.short = n < PageLimit(s)])
    BY <1>5, <1>10, <2>1
  <2>3. RunOK([s EXCEPT !.pc = "docs", !.page = n, !.short = n < PageLimit(s)])
    BY <1>2, <1>3, <2>1, PageCame
  <2> QED BY <2>2, <2>3, FormOK
<1> QED BY <1>9, <1>10

\* Abandon keeps the invariant.
LEMMA AbandonOK ==
  ASSUME FdqlInv, CancelInv, NEW r \in Runs, Abandon(r)
  PROVE  FdqlInv'
<1>1. PICK s : s = run[r] OBVIOUS
<1>2. DOMAIN s = RunFields /\ RunOK(s) /\ WorldTyped BY <1>1, RunFound
<1>3. Stopped(s) BY <1>1 DEF Abandon
<1>4. CASE s.pc = "paging" /\ Resumes(r, [s EXCEPT !.pc = "read"])
  BY <1>2, <1>3, <1>4, PageOver, FormOK
<1>5. CASE s.pc = "aggregating" /\ Resumes(r, [s EXCEPT !.pc = "aggregated"])
  BY <1>2, <1>3, <1>5, Abandoned, FormOK
<1> QED BY <1>1, <1>4, <1>5 DEF Abandon

\* Connected keeps the invariant.
LEMMA ConnectedOK ==
  ASSUME FdqlInv, CancelInv, NEW r \in Runs, Connected(r)
  PROVE  FdqlInv'
<1>1. PICK s : s = run[r] OBVIOUS
<1>2. DOMAIN s = RunFields /\ RunOK(s) /\ WorldTyped BY <1>1, RunFound
<1>3. CASE s.pc = "connectRead"
  <2>1. Resumes(r, [s EXCEPT !.pc = "ask"]) BY <1>1, <1>3 DEF Connected
  <2> QED BY <1>2, <1>3, <2>1, Connects, FormOK
<1>4. CASE s.pc = "connectAggregate"
  <2>1. PICK pc : pc = IF Stopped(s) THEN "aggregated" ELSE "aggregating" OBVIOUS
  <2>2. PICK t : t = [s EXCEPT !.pc = pc] OBVIOUS
  <2>3. RunOK(t) BY <1>2, <1>4, <2>1, <2>2, Connects, Abandoned
  <2>4. DOMAIN t = RunFields /\ t.pc # "new" BY <1>2, <2>1, <2>2 DEF RunFields, NewRun
  <2>5. RunOK([t EXCEPT !.asked = s.asked + 1]) BY <2>3, <2>4, AskedFree
  <2>6. [[s EXCEPT !.asked = @ + 1] EXCEPT !.pc = pc] = [t EXCEPT !.asked = s.asked + 1]
    BY <1>2, <2>2 DEF RunFields, NewRun
  <2>7. \/ Resumes(r, [[s EXCEPT !.asked = @ + 1] EXCEPT !.pc = pc])
        \/ Sends(r, [[s EXCEPT !.asked = @ + 1] EXCEPT !.pc = pc])
    BY <1>1, <1>4, <2>1 DEF Connected
  <2> QED BY <2>5, <2>6, <2>7, FormOK
<1> QED BY <1>1, <1>3, <1>4 DEF Connected

\* RequestFails keeps the invariant.
LEMMA RequestFailsOK ==
  ASSUME FdqlInv, CancelInv, NEW r \in Runs, RequestFails(r)
  PROVE  FdqlInv'
<1>1. DOMAIN run[r] = RunFields /\ RunTyped(run[r]) BY RunFound
<1>2. RunOK(Over(run[r], "failed")) BY <1>1, OverOK DEF Reasons
<1>3. /\ docs' = docs /\ clock' = clock /\ turn' = turn /\ store' = store /\ writes' = writes
      /\ Becomes(r, Over(run[r], "failed")) /\ faults < MaxFaults /\ faults' = faults + 1
  BY DEF RequestFails
<1>4. CacheOK' BY <1>3 DEF CacheOK, FdqlInv, StoreTyped, PersistedIsWhole
<1>5. writes' \in 0..MaxWrites /\ turn' \in Runs \cup {Nobody} /\ faults \in 0..MaxFaults
  BY <1>3 DEF FdqlInv, WorldTyped
<1>6. faults' \in 0..MaxFaults BY <1>3, <1>5, Numbers
<1> QED BY <1>2, <1>3, <1>4, <1>5, <1>6, OneRunOK

\* Document keeps the invariant.
LEMMA DocumentOK ==
  ASSUME FdqlInv, CancelInv, NEW r \in Runs, Document(r)
  PROVE  FdqlInv'
<1>1. PICK s : s = run[r] OBVIOUS
<1>2. DOMAIN s = RunFields /\ RunOK(s) /\ WorldTyped BY <1>1, RunFound
<1>3. s.pc = "docs" BY <1>1 DEF Document
<1>4. /\ s.got \in Nat /\ s.page \in Nat /\ s.max \in Nat /\ s.reads \in Nat /\ s.at \in Nat
      /\ s.spent \in BOOLEAN /\ s.page > 0
  BY <1>2, <1>3 DEF RunOK, RunTyped, PagesRead, Pages
<1>5. CASE Stopped(s) BY <1>1, <1>2, <1>3, <1>5, DocsLeft, FormOK DEF Document
<1>6. PICK read : read = [s EXCEPT !.reads = @ + 1, !.got = @ + 1, !.page = @ - 1,
                        !.next = IF s.at = 0 THEN Append(@, Row(KeyOf[s.got + 1], <<>>)) ELSE @]
  OBVIOUS
<1>7. read.got = s.got + 1 /\ read.page = s.page - 1 /\ read.reads = s.reads + 1 /\ read.spent = s.spent
      /\ DOMAIN read = RunFields /\ read.plan = s.plan
  BY <1>2, <1>6 DEF RunFields, NewRun
<1>8. PICK more : more = IF read.got = s.max \/ (read.page = 0 /\ s.short) THEN "read"
              ELSE IF read.page = 0 THEN "ask" ELSE "docs"
  OBVIOUS
<1>9. /\ more \in {"read", "ask", "docs"}
      /\ more = "ask" => s.page = 1
      /\ more = "docs" => s.page # 1
      /\ more = "read" => s.got + 1 = s.max \/ (s.page = 1 /\ s.short)
  BY <1>4, <1>7, <1>8
<1>10. ~Stopped(s) =>
         IF s.at = 0
         THEN IF read.reads >= Plan(s).budget
              THEN Goes(r, [read EXCEPT !.spent = TRUE, !.pc = "read"])
              ELSE Goes(r, [read EXCEPT !.pc = more])
         ELSE IF StopAfter(read) # "none" THEN Ends(r, read, StopAfter(read))
         ELSE Goes(r, [read EXCEPT !.pc = more])
  BY <1>1, <1>6, <1>8 DEF Document
<1>11. CASE ~Stopped(s) /\ s.at = 0
  <2> DEFINE T(spent, pc) == [s EXCEPT !.reads = @ + 1, !.got = @ + 1, !.page = @ - 1,
                   !.next = Append(@, Row(KeyOf[s.got + 1], <<>>)), !.spent = spent, !.pc = pc]
  <2>1. \E spent \in BOOLEAN, pc \in {"read", "ask", "docs"} :
          /\ Goes(r, T(spent, pc))
          /\ pc = "ask" => s.page = 1
          /\ pc = "docs" => s.page # 1
    <3>1. [read EXCEPT !.spent = TRUE, !.pc = "read"] = T(TRUE, "read")
      BY <1>2, <1>6, <1>11 DEF RunFields, NewRun
    <3>2. [read EXCEPT !.pc = more] = T(s.spent, more) BY <1>2, <1>6, <1>11 DEF RunFields, NewRun
    <3>3. Goes(r, [read EXCEPT !.spent = TRUE, !.pc = "read"]) \/ Goes(r, [read EXCEPT !.pc = more])
      BY <1>10, <1>11
    <3> HIDE DEF T
    <3>4. Goes(r, T(TRUE, "read")) \/ Goes(r, T(s.spent, more)) BY <3>1, <3>2, <3>3
    <3>5. CASE Goes(r, T(TRUE, "read")) BY <3>5
    <3>6. CASE Goes(r, T(s.spent, more)) BY <1>4, <1>9, <3>6
    <3> QED BY <3>4, <3>5, <3>6
  <2>2. PICK spent \in BOOLEAN, pc \in {"read", "ask", "docs"} :
          /\ Goes(r, T(spent, pc))
          /\ pc = "ask" => s.page = 1
          /\ pc = "docs" => s.page # 1
    BY <2>1
  <2>3. RunOK(T(spent, pc)) BY <1>2, <1>3, <1>11, <2>2, DocumentOfSource
  <2> HIDE DEF T
  <2> QED BY <2>2, <2>3, FormOK
<1>12. CASE ~Stopped(s) /\ s.at # 0
  <2> DEFINE T(pc) == [s EXCEPT !.reads = @ + 1, !.got = @ + 1, !.page = @ - 1, !.pc = pc]
  <2>1. s.at > 0 BY <1>4, <1>12
  <2>2. CASE StopAfter(read) # "none"
    <3>1. Ends(r, read, StopAfter(read)) BY <1>10, <1>12, <2>2
    <3>2. RunTyped(read)
      <4>1. read = [s EXCEPT !.reads = @ + 1, !.got = @ + 1, !.page = @ - 1]
        BY <1>2, <1>6, <1>12 DEF RunFields, NewRun
      <4> DEFINE t == read
      <4>2. /\ t.plan = s.plan /\ t.pc = s.pc /\ t.reason = s.reason /\ t.startedAt = s.startedAt
            /\ t.aborted = s.aborted /\ t.branch = s.branch /\ t.memory = s.memory
            /\ t.spent = s.spent /\ t.at = s.at /\ t.todo = s.todo /\ t.next = s.next
            /\ t.max = s.max /\ t.short = s.short /\ t.bent = s.bent /\ t.disturbed = s.disturbed
        BY <1>2, <4>1 DEF RunFields, NewRun
      <4>3. read.reads \in Nat /\ read.got \in Nat /\ read.page \in Nat BY <1>4, <1>7
      <4>4. RunTyped(s) BY <1>2 DEF RunOK
      <4> QED BY <4>2, <4>3, <4>4 DEF RunTyped
    <3>3. StopAfter(read) \in Reasons BY StopReasons
    <3> QED BY <1>7, <2>2, <3>1, <3>2, <3>3, EndOK
  <2>3. CASE StopAfter(read) = "none"
    <3>1. Goes(r, [read EXCEPT !.pc = more]) BY <1>10, <1>12, <2>3
    <3>2. [read EXCEPT !.pc = more] = T(more) BY <1>2, <1>6, <1>12 DEF RunFields, NewRun
    <3>3. s.reads + 1 < Plan(s).budget
      BY <1>2, <1>3, <1>4, <1>7, <2>3, StopReasons, BranchFound DEF Plan, RunOK
    <3>4. RunOK(T(more)) BY <1>2, <1>3, <1>9, <2>1, <3>3, DocumentOfLookup
    <3>5. Goes(r, T(more)) BY <3>1, <3>2
    <3> HIDE DEF T
    <3> QED BY <3>4, <3>5, FormOK
  <2> QED BY <2>2, <2>3
<1> QED BY <1>5, <1>11, <1>12

\* BeginBranch keeps the invariant.
LEMMA BeginBranchOK ==
  ASSUME FdqlInv, CancelInv, NEW r \in Runs, BeginBranch(r)
  PROVE  FdqlInv'
<1>1. PICK s : s = run[r] OBVIOUS
<1>2. DOMAIN s = RunFields /\ RunOK(s) /\ WorldTyped BY <1>1, RunFound
<1>3. s.pc = "branch" BY <1>1 DEF BeginBranch
<1>4. CASE StopBefore(s) # "none" BY <1>1, <1>4, StopOK DEF BeginBranch
<1>5. CASE StopBefore(s) = "none" /\ Branch(s).aggregated
  BY <1>1, <1>2, <1>3, <1>5, BranchAggregates, FormOK DEF BeginBranch
<1>6. CASE StopBefore(s) = "none" /\ ~Branch(s).aggregated
  <2> DEFINE bent == s.bent \/ (Remaining(s) = 0 /\ ~Branch(s).aggregated)
  <2> DEFINE request == [s EXCEPT !.max = MaxDocuments(s, Branch(s).limit, NoLimit),
                           !.bent = @ \/ (Remaining(s) = 0 /\ ~Branch(s).aggregated)]
  <2> DEFINE t == [s EXCEPT !.max = MaxDocuments(s, Branch(s).limit, NoLimit), !.bent = bent, !.pc = "connectRead"]
  <2>1. Sends(r, [request EXCEPT !.pc = "connectRead"]) BY <1>1, <1>6 DEF BeginBranch
  <2>2. [request EXCEPT !.pc = "connectRead"] = t BY <1>2 DEF RunFields, NewRun
  <2>3. bent \in BOOLEAN OBVIOUS
  <2> HIDE DEF request, bent
  <2>4. RunOK(t) BY <1>2, <1>3, <2>3, BranchAsks
  <2>5. Sends(r, t) BY <2>1, <2>2
  <2> HIDE DEF t
  <2> QED BY <2>4, <2>5, FormOK
<1> QED BY <1>4, <1>5, <1>6

\* SourceRead keeps the invariant.
LEMMA SourceReadOK ==
  ASSUME FdqlInv, CancelInv, NEW r \in Runs, SourceRead(r)
  PROVE  FdqlInv'
<1>1. PICK s : s = run[r] OBVIOUS
<1>2. DOMAIN s = RunFields /\ RunOK(s) BY <1>1, RunFound
<1>3. s.pc \notin {"new", "done"} /\ s.next \in Seq(Rows) /\ RunTyped(s) /\ AtStage(s)
  BY <1>1, <1>2 DEF SourceRead, RunOK, RunTyped
<1>4. CASE StopBefore(s) # "none" BY <1>1, <1>4, StopOK DEF SourceRead
<1>5. CASE StopBefore(s) = "none" BY <1>1, <1>2, <1>3, <1>5, FirstStageOK, FormOK DEF SourceRead
<1> QED BY <1>4, <1>5

\* RunStage keeps the invariant.
LEMMA RunStageOK ==
  ASSUME FdqlInv, CancelInv, NEW r \in Runs, RunStage(r)
  PROVE  FdqlInv'
<1>1. PICK s : s = run[r] OBVIOUS
<1>2. DOMAIN s = RunFields /\ RunOK(s) BY <1>1, RunFound
<1>3. s.pc = "stage" /\ s.next \in Seq(Rows) /\ s.todo \in Seq(Rows)
  BY <1>1, <1>2 DEF RunStage, RunOK, RunTyped
<1>4. CASE Goes(r, [s EXCEPT !.pc = "return"]) BY <1>2, <1>3, <1>4, StagesOver, FormOK
<1>5. ASSUME NEW rows \in Seq(Rows), Branch(s).stages # <<>>, Goes(r, NextStage(s, rows))
      PROVE  FdqlInv'
  <2>1. RunOK(NextStage(s, rows)) BY <1>2, <1>3, <1>5, NextStageOK
  <2> QED BY <1>5, <2>1, FormOK
<1>6. Branch(s).stages # <<>> /\ Stage(s).kind \notin OfRows => LocalRows(Stage(s), s.todo) \in Seq(Rows)
  BY <1>2, <1>3, StageFound, LocalRowsAreRows
<1>7. \/ Goes(r, [s EXCEPT !.pc = "return"])
      \/ /\ Branch(s).stages # <<>> /\ Stage(s).kind \notin OfRows
         /\ Goes(r, NextStage(s, LocalRows(Stage(s), s.todo)))
      \/ Branch(s).stages # <<>> /\ Goes(r, NextStage(s, s.next))
  BY <1>1 DEF RunStage
<1>8. CASE Branch(s).stages # <<>> /\ Stage(s).kind \notin OfRows
           /\ Goes(r, NextStage(s, LocalRows(Stage(s), s.todo)))
  <2>1. PICK rows : rows = LocalRows(Stage(s), s.todo) OBVIOUS
  <2>2. rows \in Seq(Rows) /\ Goes(r, NextStage(s, rows)) BY <1>6, <1>8, <2>1
  <2> QED BY <1>5, <1>8, <2>2
<1>9. CASE Branch(s).stages # <<>> /\ Goes(r, NextStage(s, s.next)) BY <1>3, <1>5, <1>9
<1> QED BY <1>4, <1>7, <1>8, <1>9

\* An answer of a cache is a number, whatever is in it.
LEMMA CachedNumbers ==
  ASSUME FdqlInv, CancelInv, NEW r \in Runs, NEW k
  PROVE  /\ k \in DOMAIN run[r].memory => run[r].memory[k] \in Nat
         /\ Hits(k) => store[k].rows \in Nat
         /\ IsStale(k) \in BOOLEAN
BY RunFound DEF RunTyped, FdqlInv, StoreTyped, Hits, IsStale, Entries

\* BeginLookup keeps the invariant.
LEMMA BeginLookupOK ==
  ASSUME FdqlInv, CancelInv, NEW r \in Runs, BeginLookup(r)
  PROVE  FdqlInv'
<1>1. PICK s : s = run[r] OBVIOUS
<1>2. DOMAIN s = RunFields /\ RunOK(s) /\ WorldTyped /\ CacheOK BY <1>1, RunFound
<1>3. s.pc = "stage" /\ Branch(s).stages # <<>> /\ Stage(s).kind = "lookup" /\ s.todo # <<>> /\ turn = r
  BY <1>1 DEF BeginLookup
<1>4. PICK row : row = Head(s.todo) OBVIOUS
<1>5. PICK max : max = LookupMax(s) OBVIOUS
<1>6. PICK k : k = LookupKey(Stage(s), row.key, max) OBVIOUS
<1>7. row \in Rows /\ row.key \in RowKeys BY <1>2, <1>3, <1>4, HeadRow DEF RunOK, RunTyped
<1>8. s.at \in DOMAIN Branch(s).stages /\ s.pc \notin {"new", "done"} /\ Stage(s) \in Stages
  BY <1>2, <1>3, StageFound
<1>9. max \in Nat
  <2>1. Plan(s).budget \in Nat BY <1>2, <1>8, BranchFound DEF RunOK
  <2>2. s.reads \in Nat BY <1>2 DEF RunOK, RunTyped
  <2>3. Remaining(s) \in Nat BY <2>1, <2>2 DEF Remaining
  <2>4. Stage(s).limit \in Nat BY <1>3, <1>8, LookupStage
  <2>5. OneCap(Stage(s)) \in Nat BY Numbers DEF OneCap
  <2> QED BY <1>5, <2>3, <2>4, <2>5 DEF LookupMax, MaxDocuments, Least
<1>10. s.bent \in BOOLEAN /\ s.disturbed \in BOOLEAN /\ (\A c \in DOMAIN s.memory : s.memory[c] \in Nat)
  BY <1>2 DEF RunOK, RunTyped
<1> DEFINE Serves(n) == [NextRow(s, LookedUp(Stage(s), row, Least(n, max))) EXCEPT
                      !.bent = @ \/ Bends(Stage(s), n, max),
                      !.disturbed = @ \/ IsStale(k)]
<1> DEFINE reads == [s EXCEPT !.max = max, !.pc = "connectRead", !.bent = @ \/ max = 0]
<1>11. ASSUME NEW n \in Nat PROVE RunOK(Serves(n))
  <2>1. Least(n, max) \in Nat BY <1>9 DEF Least
  <2>2. PICK rows : rows = LookedUp(Stage(s), row, Least(n, max)) OBVIOUS
  <2>3. rows \in Seq(Rows) BY <1>7, <2>1, <2>2, LookedUpAreRows
  <2>4. PICK bent \in BOOLEAN : bent = (s.bent \/ Bends(Stage(s), n, max)) BY <1>10 DEF Bends
  <2>5. PICK disturbed \in BOOLEAN : disturbed = (s.disturbed \/ IsStale(k)) OBVIOUS
  <2>6. Serves(n) = [NextRow(s, rows) EXCEPT !.bent = bent, !.disturbed = disturbed, !.memory = s.memory]
    <3>1. PICK d : d = NextRow(s, rows) OBVIOUS
    <3>2. DOMAIN d = RunFields /\ d.memory = s.memory /\ d.bent = s.bent /\ d.disturbed = s.disturbed
      BY <1>2, <3>1 DEF NextRow, RunFields, NewRun
    <3>3. Serves(n) = [d EXCEPT !.bent = @ \/ Bends(Stage(s), n, max), !.disturbed = @ \/ IsStale(k)]
      BY <2>2, <3>1
    <3> HIDE DEF Serves
    <3>4. bent = (d.bent \/ Bends(Stage(s), n, max)) /\ disturbed = (d.disturbed \/ IsStale(k))
      BY <2>4, <2>5, <3>2
    <3>5. Serves(n) = [d EXCEPT !.bent = bent, !.disturbed = disturbed] BY <3>3, <3>4
    <3> QED BY <3>1, <3>2, <3>5 DEF RunFields, NewRun
  <2> HIDE DEF Serves
  <2>7. RunOK([NextRow(s, rows) EXCEPT !.bent = bent, !.disturbed = disturbed, !.memory = s.memory])
    BY <1>2, <1>3, <1>8, <1>10, <2>3, NextRowOK
  <2> QED BY <2>6, <2>7
<1>12. row.key # Missing => RunOK(reads)
  <2>1. SUFFICES ASSUME row.key # Missing PROVE RunOK(reads) OBVIOUS
  <2>2. PICK bent \in BOOLEAN : bent = (s.bent \/ max = 0) OBVIOUS
  <2>3. reads = [s EXCEPT !.max = LookupMax(s), !.pc = "connectRead", !.bent = bent]
    BY <1>2, <1>5, <2>2 DEF RunFields, NewRun
  <2>4. Head(s.todo).key \in Keys BY <1>4, <1>7, <2>1 DEF RowKeys
  <2> HIDE DEF reads
  <2> QED BY <1>2, <1>3, <2>3, <2>4, LookupAsks
<1>13. CASE StopBefore(s) # "none" BY <1>1, <1>13, StopOK DEF BeginLookup
<1>14. CASE StopBefore(s) = "none" /\ row.key = Missing
  <2>1. PICK rows : rows = LookedUp(Stage(s), row, 0) OBVIOUS
  <2>2. Goes(r, NextRow(s, rows)) BY <1>1, <1>4, <1>14, <2>1 DEF BeginLookup
  <2>3. rows \in Seq(Rows) BY <1>7, <2>1, LookedUpAreRows
  <2>4. NextRow(s, rows) = [NextRow(s, rows) EXCEPT !.bent = s.bent, !.disturbed = s.disturbed, !.memory = s.memory]
    BY <1>2 DEF NextRow, RunFields, NewRun
  <2>5. RunOK([NextRow(s, rows) EXCEPT !.bent = s.bent, !.disturbed = s.disturbed, !.memory = s.memory])
    BY <1>2, <1>3, <1>8, <1>10, <2>3, NextRowOK
  <2> QED BY <2>2, <2>4, <2>5, FormOK
<1>15. CASE StopBefore(s) = "none" /\ row.key # Missing
  <2>0. \/ k \in DOMAIN s.memory /\ Goes(r, Serves(s.memory[k]))
        \/ Sends(r, reads)
        \/ /\ IF Hits(k) THEN Becomes(r, Serves(store[k].rows)) /\ UNCHANGED turn
                ELSE Becomes(r, reads) /\ turn' = Nobody
           /\ store' = Touched(k)
           /\ UNCHANGED <<docs, clock, writes, faults>>
    <3>1. CASE Stage(s).cache = "run" /\ k \in DOMAIN s.memory
      BY <1>1, <1>4, <1>5, <1>6, <1>15, <3>1 DEF BeginLookup
    <3>2. CASE ~(Stage(s).cache = "run" /\ k \in DOMAIN s.memory) /\ Stage(s).cache # "persistent"
      <4>1. Sends(r, reads) BY <1>1, <1>4, <1>5, <1>6, <1>15, <3>2 DEF BeginLookup
      <4> QED BY <4>1
    <3>3. CASE Stage(s).cache = "persistent" BY <1>1, <1>4, <1>5, <1>6, <1>15, <3>3 DEF BeginLookup
    <3> QED BY <3>1, <3>2, <3>3
  <2> HIDE DEF Serves, reads
  <2>1. CASE k \in DOMAIN s.memory /\ Goes(r, Serves(s.memory[k])) BY <1>10, <1>11, <2>1, FormOK
  <2>2. CASE Sends(r, reads) BY <1>12, <1>15, <2>2, FormOK
  <2>3. CASE /\ IF Hits(k) THEN Becomes(r, Serves(store[k].rows)) /\ UNCHANGED turn
                ELSE Becomes(r, reads) /\ turn' = Nobody
             /\ store' = Touched(k)
             /\ UNCHANGED <<docs, clock, writes, faults>>
    <3>1. PICK t : t = IF Hits(k) THEN Serves(store[k].rows) ELSE reads OBVIOUS
    <3>2. RunOK(t) BY <1>11, <1>12, <1>15, <3>1, CachedNumbers
    <3>3. CacheOK' BY <1>2, <2>3, TouchedOK
    <3>4. Becomes(r, t) /\ turn' \in Runs \cup {Nobody} BY <1>3, <2>3, <3>1
    <3> QED BY <2>3, <3>2, <3>3, <3>4, WithCacheOK
  <2> QED BY <2>0, <2>1, <2>2, <2>3
<1> QED BY <1>13, <1>14, <1>15

\* LookupRead keeps the invariant.
LEMMA LookupReadOK ==
  ASSUME FdqlInv, CancelInv, NEW r \in Runs, LookupRead(r)
  PROVE  FdqlInv'
<1>1. PICK s : s = run[r] OBVIOUS
<1>2. DOMAIN s = RunFields /\ RunOK(s) /\ RunTyped(s) /\ WorldTyped /\ CacheOK BY <1>1, RunFound
<1>3. s.pc = "read" /\ s.at > 0 /\ turn = r BY <1>1 DEF LookupRead
<1>4. s.pc \notin {"new", "done"} /\ s.at \in DOMAIN Branch(s).stages /\ s.todo # <<>>
  BY <1>2, <1>3 DEF RunOK, AtStage, Pages
<1>5. PICK k : k = LookupKey(Stage(s), Head(s.todo).key, s.max) OBVIOUS
<1>6. PICK rows : rows = LookedUp(Stage(s), Head(s.todo), s.got) OBVIOUS
<1>7. s.got \in Nat /\ s.todo \in Seq(Rows) /\ s.bent \in BOOLEAN /\ s.disturbed \in BOOLEAN
      /\ (\A c \in DOMAIN s.memory : s.memory[c] \in Nat)
  BY <1>2 DEF RunTyped
<1>8. rows \in Seq(Rows) BY <1>4, <1>6, <1>7, HeadRow, LookedUpAreRows
<1> DEFINE With(memory) == [NextRow(s, rows) EXCEPT !.bent = s.bent, !.disturbed = s.disturbed, !.memory = memory]
<1>9. ASSUME NEW memory, \A c \in DOMAIN memory : memory[c] \in Nat PROVE RunOK(With(memory))
  BY <1>2, <1>4, <1>7, <1>8, <1>9, NextRowOK
<1>10. NextRow(s, rows) = With(s.memory) BY <1>2 DEF NextRow, RunFields, NewRun
<1>11. PICK memory : memory = [c \in DOMAIN s.memory \cup {k} |-> IF c = k THEN s.got ELSE s.memory[c]]
  OBVIOUS
<1>12. \A c \in DOMAIN memory : memory[c] \in Nat BY <1>7, <1>11
<1>13. CASE StopBefore(s) # "none" BY <1>1, <1>13, StopOK DEF LookupRead
<1>14. CASE StopBefore(s) = "none"
  <2>1. \/ Ends(r, s, "failed")
        \/ Goes(r, NextRow(s, rows))
        \/ Goes(r, [NextRow(s, rows) EXCEPT !.memory = [c \in DOMAIN @ \cup {k} |->
                                                     IF c = k THEN s.got ELSE @[c]]])
        \/ /\ Persists(s) /\ store' \in Stored(k, s.got, s.disturbed)
           /\ Becomes(r, NextRow(s, rows))
           /\ UNCHANGED <<docs, clock, turn, writes, faults>>
    BY <1>1, <1>5, <1>6, <1>14 DEF LookupRead
  <2>2. [NextRow(s, rows) EXCEPT !.memory = [c \in DOMAIN @ \cup {k} |-> IF c = k THEN s.got ELSE @[c]]]
        = With(memory)
    BY <1>2, <1>11 DEF NextRow, RunFields, NewRun
  <2> HIDE DEF With
  <2>3. CASE Ends(r, s, "failed") BY <1>2, <2>3, EndOK DEF Reasons
  <2>4. CASE Goes(r, NextRow(s, rows)) BY <1>7, <1>9, <1>10, <2>4, FormOK
  <2>5. CASE Goes(r, [NextRow(s, rows) EXCEPT !.memory = [c \in DOMAIN @ \cup {k} |->
                                                     IF c = k THEN s.got ELSE @[c]]])
    <3>1. Goes(r, With(memory)) BY <2>2, <2>5
    <3> QED BY <1>9, <1>12, <3>1, FormOK
  <2>6. CASE /\ Persists(s) /\ store' \in Stored(k, s.got, s.disturbed)
             /\ Becomes(r, NextRow(s, rows))
             /\ UNCHANGED <<docs, clock, turn, writes, faults>>
    <3>1. ~Stopped(s) BY <1>14, StopReasons
    <3>2. k \in CacheKey /\ (s.disturbed \/ s.got = Least(docs[k.key], k.limit))
      BY <1>2, <1>3, <1>5, <2>6, <3>1, LookupWhole
    <3>3. CacheOK' BY <1>2, <1>7, <2>6, <3>2, StoredOK
    <3>4. RunOK(NextRow(s, rows)) BY <1>7, <1>9, <1>10
    <3>5. turn' \in Runs \cup {Nobody} BY <1>3, <2>6
    <3> QED BY <2>6, <3>3, <3>4, <3>5, WithCacheOK
  <2> QED BY <2>1, <2>3, <2>4, <2>5, <2>6
<1> QED BY <1>13, <1>14

\* BeginAggregate keeps the invariant.
LEMMA BeginAggregateOK ==
  ASSUME FdqlInv, CancelInv, NEW r \in Runs, BeginAggregate(r)
  PROVE  FdqlInv'
<1>1. PICK s : s = run[r] OBVIOUS
<1>2. DOMAIN s = RunFields /\ RunOK(s) /\ WorldTyped /\ CacheOK BY <1>1, RunFound
<1>3. s.pc = "stage" /\ Branch(s).stages # <<>> /\ Stage(s).kind = "providerAggregate"
      /\ s.todo # <<>> /\ turn = r
  BY <1>1 DEF BeginAggregate
<1>4. PICK row : row = Head(s.todo) OBVIOUS
<1>6. PICK k : k = AggregateKey(row.key) OBVIOUS
<1>7. row \in Rows /\ row.key \in RowKeys BY <1>2, <1>3, <1>4, HeadRow DEF RunOK, RunTyped
<1>8. s.at \in DOMAIN Branch(s).stages /\ s.pc \notin {"new", "done"} BY <1>2, <1>3, StageFound
<1>10. s.bent \in BOOLEAN /\ s.disturbed \in BOOLEAN /\ (\A c \in DOMAIN s.memory : s.memory[c] \in Nat)
  BY <1>2 DEF RunOK, RunTyped
<1> DEFINE Serves(n) == [NextRow(s, <<Attach(row, n)>>) EXCEPT !.disturbed = @ \/ IsStale(k)]
<1> DEFINE asks == [s EXCEPT !.pc = "connectAggregate"]
<1>11. ASSUME NEW n \in Nat PROVE RunOK(Serves(n))
  <2>1. Attach(row, n) \in Rows BY <1>7, AttachedRow
  <2>2. PICK rows : rows = <<Attach(row, n)>> OBVIOUS
  <2>3. rows \in Seq(Rows)
    <3>1. PICK x \in Rows : x = Attach(row, n) BY <2>1
    <3> QED BY <2>2, <3>1
  <2>5. PICK disturbed \in BOOLEAN : disturbed = (s.disturbed \/ IsStale(k)) OBVIOUS
  <2>6. Serves(n) = [NextRow(s, rows) EXCEPT !.bent = s.bent, !.disturbed = disturbed, !.memory = s.memory]
    BY <1>2, <2>2, <2>5 DEF NextRow, RunFields, NewRun
  <2> HIDE DEF Serves
  <2>7. RunOK([NextRow(s, rows) EXCEPT !.bent = s.bent, !.disturbed = disturbed, !.memory = s.memory])
    BY <1>2, <1>3, <1>8, <1>10, <2>3, NextRowOK
  <2> QED BY <2>6, <2>7
<1>12. row.key # Missing => RunOK(asks) BY <1>2, <1>3, <1>4, <1>7, AggregateAsks DEF RowKeys
<1>13. CASE StopBefore(s) # "none" BY <1>1, <1>13, StopOK DEF BeginAggregate
<1>15. CASE StopBefore(s) = "none"
  <2>0. \/ Goes(r, Serves(0))
        \/ k \in DOMAIN s.memory /\ Goes(r, Serves(s.memory[k]))
        \/ row.key # Missing /\ Sends(r, asks)
        \/ /\ row.key # Missing
           /\ IF Hits(k) THEN Becomes(r, Serves(store[k].rows)) /\ UNCHANGED turn
                ELSE Becomes(r, asks) /\ turn' = Nobody
           /\ store' = Touched(k)
           /\ UNCHANGED <<docs, clock, writes, faults>>
    BY <1>1, <1>4, <1>6, <1>15 DEF BeginAggregate
  <2> HIDE DEF Serves, asks
  <2>1. CASE Goes(r, Serves(0)) BY <1>11, <2>1, FormOK
  <2>2. CASE k \in DOMAIN s.memory /\ Goes(r, Serves(s.memory[k])) BY <1>10, <1>11, <2>2, FormOK
  <2>3. CASE row.key # Missing /\ Sends(r, asks) BY <1>12, <2>3, FormOK
  <2>4. CASE /\ row.key # Missing
             /\ IF Hits(k) THEN Becomes(r, Serves(store[k].rows)) /\ UNCHANGED turn
                ELSE Becomes(r, asks) /\ turn' = Nobody
             /\ store' = Touched(k)
             /\ UNCHANGED <<docs, clock, writes, faults>>
    <3>1. PICK t : t = IF Hits(k) THEN Serves(store[k].rows) ELSE asks OBVIOUS
    <3>2. RunOK(t) BY <1>11, <1>12, <2>4, <3>1, CachedNumbers
    <3>3. CacheOK' BY <1>2, <2>4, TouchedOK
    <3>4. Becomes(r, t) /\ turn' \in Runs \cup {Nobody} BY <1>3, <2>4, <3>1
    <3> QED BY <2>4, <3>2, <3>3, <3>4, WithCacheOK
  <2> QED BY <2>0, <2>1, <2>2, <2>3, <2>4
<1> QED BY <1>13, <1>15

\* AggregateArrives keeps the invariant.
LEMMA AggregateArrivesOK ==
  ASSUME FdqlInv, CancelInv, NEW r \in Runs, AggregateArrives(r)
  PROVE  FdqlInv'
<1>1. PICK s : s = run[r] OBVIOUS
<1>2. DOMAIN s = RunFields /\ RunOK(s) /\ WorldTyped /\ CacheOK BY <1>1, RunFound
<1>3. s.pc = "aggregating" BY <1>1 DEF AggregateArrives
<1>4. PICK d : d = docs[Reading(s)] OBVIOUS
<1>5. d \in Nat BY <1>2, <1>3, <1>4, ReadingFound DEF Aggregates
<1>6. s.got \in Nat /\ s.page \in Nat /\ s.max \in Nat /\ (s.got > 0 /\ ~s.disturbed => s.max = d)
  BY <1>2, <1>3, <1>4 DEF RunOK, RunTyped, CountRead
<1> DEFINE counts == [s EXCEPT !.max = docs[Reading(s)], !.got = 1]
<1> DEFINE extreme == [s EXCEPT !.got = @ + 1,
                           !.page = @ + (IF docs[Reading(s)] > 0 THEN 1 ELSE 0)]
<1> DEFINE u == IF s.got = 0 THEN counts ELSE extreme
<1>7. \E max, got, page \in Nat :
        /\ u = [s EXCEPT !.max = max, !.got = got, !.page = page]
        /\ ~s.disturbed => max = d
  <2>1. CASE s.got = 0
    <3>1. u = [s EXCEPT !.max = d, !.got = 1, !.page = s.page]
      BY <1>2, <1>4, <2>1 DEF RunFields, NewRun
    <3> HIDE DEF u
    <3> QED BY <1>5, <1>6, <3>1
  <2>2. CASE s.got # 0
    <3>1. PICK page : page = s.page + (IF docs[Reading(s)] > 0 THEN 1 ELSE 0) OBVIOUS
    <3>2. page \in Nat /\ s.got + 1 \in Nat BY <1>6, <3>1
    <3>3. u = [s EXCEPT !.max = s.max, !.got = s.got + 1, !.page = page]
      BY <1>2, <2>2, <3>1 DEF RunFields, NewRun
    <3>4. ~s.disturbed => s.max = d BY <1>6, <2>2
    <3> HIDE DEF u
    <3> QED BY <1>6, <3>2, <3>3, <3>4
  <2> QED BY <2>1, <2>2
<1>8. PICK max, got, page \in Nat :
        /\ u = [s EXCEPT !.max = max, !.got = got, !.page = page]
        /\ ~s.disturbed => max = d
  BY <1>7
<1>9. /\ Becomes(r, IF u.got <= Extremes(s) THEN [u EXCEPT !.asked = @ + 1]
                   ELSE [u EXCEPT !.pc = "aggregated"])
      /\ turn' = IF u.got <= Extremes(s) THEN Nobody ELSE r
      /\ UNCHANGED <<docs, clock, store, writes, faults>>
  BY <1>1 DEF AggregateArrives
<1> HIDE DEF u
<1> DEFINE T(pc) == [s EXCEPT !.max = max, !.got = got, !.page = page, !.pc = pc]
<1>10. [u EXCEPT !.asked = @ + 1] = [T("aggregating") EXCEPT !.asked = s.asked + 1]
       /\ [u EXCEPT !.pc = "aggregated"] = T("aggregated")
  BY <1>2, <1>3, <1>8 DEF RunFields, NewRun
<1>11. \A pc \in {"aggregating", "aggregated"} : DOMAIN T(pc) = RunFields /\ T(pc).pc = pc
  BY <1>2 DEF RunFields, NewRun
<1>12. \A pc \in {"aggregating", "aggregated"} : RunOK(T(pc)) BY <1>2, <1>3, <1>4, <1>8, CountArrives
<1> HIDE DEF T
<1>13. PICK t : t = IF u.got <= Extremes(s) THEN [T("aggregating") EXCEPT !.asked = s.asked + 1]
                    ELSE T("aggregated")
  OBVIOUS
<1>14. RunOK(t) BY <1>11, <1>12, <1>13, AskedFree
<1>15. Becomes(r, t) /\ turn' \in Runs \cup {Nobody} BY <1>9, <1>10, <1>13
<1>16. CacheOK' BY <1>2, <1>9 DEF CacheOK, StoreTyped, PersistedIsWhole
<1> QED BY <1>9, <1>14, <1>15, <1>16, WithCacheOK

\* Aggregated keeps the invariant.
LEMMA AggregatedOK ==
  ASSUME FdqlInv, CancelInv, NEW r \in Runs, Aggregated(r)
  PROVE  FdqlInv'
<1>1. PICK s0 : s0 = run[r] OBVIOUS
<1>2. DOMAIN s0 = RunFields /\ RunOK(s0) /\ RunTyped(s0) /\ WorldTyped /\ CacheOK BY <1>1, RunFound
<1>3. PICK s : s = [s0 EXCEPT !.reads = @ + s0.page] OBVIOUS
<1>4. s0.pc = "aggregated" /\ turn = r BY <1>1 DEF Aggregated
<1>5. /\ DOMAIN s = RunFields
      /\ s.plan = s0.plan /\ s.pc = s0.pc /\ s.reason = s0.reason /\ s.startedAt = s0.startedAt
      /\ s.aborted = s0.aborted /\ s.branch = s0.branch /\ s.memory = s0.memory
      /\ s.spent = s0.spent /\ s.at = s0.at /\ s.todo = s0.todo /\ s.next = s0.next
      /\ s.max = s0.max /\ s.got = s0.got /\ s.page = s0.page /\ s.short = s0.short
      /\ s.bent = s0.bent /\ s.disturbed = s0.disturbed /\ s.reads = s0.reads + s0.page
  BY <1>2, <1>3 DEF RunFields, NewRun
<1>6. s.reads \in Nat BY <1>2, <1>5 DEF RunTyped
<1>7. RunTyped(s) BY <1>2, <1>5, <1>6 DEF RunTyped
<1>8. RunOK(s)
  <2>1. Plan(s) = Plan(s0) /\ Branch(s) = Branch(s0) /\ Stage(s) = Stage(s0) /\ Reading(s) = Reading(s0)
        /\ (Stopped(s) <=> Stopped(s0))
    BY <1>5 DEF Plan, Branch, Stage, Reading, Stopped
  <2>2. AtStage(s) BY <1>2, <1>5, <2>1 DEF RunOK, AtStage
  <2>3. PagesRead(s) /\ WithinBudget(s) BY <1>4, <1>5 DEF PagesRead, WithinBudget, Pages
  <2>4. CountRead(s) BY <1>2, <1>5, <2>1 DEF RunOK, CountRead
  <2>5. s.pc # "new" BY <1>4, <1>5
  <2> QED BY <1>7, <2>2, <2>3, <2>4, <2>5 DEF RunOK
<1>9. s.pc = "aggregated" /\ AtStage(s) BY <1>4, <1>5, <1>8 DEF RunOK
<1>10. /\ s.max \in Nat /\ s.at \in Nat /\ s.todo \in Seq(Rows) /\ s.bent \in BOOLEAN /\ s.disturbed \in BOOLEAN
       /\ (\A c \in DOMAIN s.memory : s.memory[c] \in Nat)
  BY <1>7 DEF RunTyped
<1>11. PICK k : k = AggregateKey(Head(s.todo).key) OBVIOUS
<1>12. PICK rows : rows = <<Attach(Head(s.todo), s.max)>> OBVIOUS
<1>13. CASE StopBefore(s) # "none"
  <2>1. Ends(r, s, StopBefore(s)) BY <1>1, <1>3, <1>13 DEF Aggregated
  <2> QED BY <1>5, <1>7, <1>13, <2>1, EndOK, StopReasons
<1>14. CASE StopBefore(s) = "none" /\ s.at = 0
  <2>1. PICK first : first = <<Row(Missing, <<s.max>>)>> OBVIOUS
  <2>2. Goes(r, FirstStage(s, first)) BY <1>1, <1>3, <1>14, <2>1 DEF Aggregated
  <2>3. first \in Seq(Rows) BY <1>10, <2>1 DEF Row, Rows, RowKeys
  <2>4. RunOK(FirstStage(s, first)) BY <1>5, <1>7, <1>9, <2>3, FirstStageOK
  <2> QED BY <2>2, <2>4, FormOK
<1>15. CASE StopBefore(s) = "none" /\ s.at # 0
  <2>1. \/ Goes(r, NextRow(s, rows))
        \/ Goes(r, [NextRow(s, rows) EXCEPT !.memory = [c \in DOMAIN @ \cup {k} |->
                                                     IF c = k THEN s.max ELSE @[c]]])
        \/ /\ store' \in Stored(k, s.max, s.disturbed)
           /\ Becomes(r, NextRow(s, rows))
           /\ UNCHANGED <<docs, clock, turn, writes, faults>>
    <3> DEFINE key == AggregateKey(Head(s.todo).key)
    <3> DEFINE done == NextRow(s, <<Attach(Head(s.todo), s.max)>>)
    <3>1. \/ Goes(r, done)
          \/ Goes(r, [done EXCEPT !.memory = [c \in DOMAIN @ \cup {key} |->
                                               IF c = key THEN s.max ELSE @[c]]])
          \/ /\ store' \in Stored(key, s.max, s.disturbed)
             /\ Becomes(r, done)
             /\ UNCHANGED <<docs, clock, turn, writes, faults>>
      BY <1>1, <1>3, <1>15 DEF Aggregated
    <3>2. key = k /\ done = NextRow(s, rows) BY <1>11, <1>12
    <3> HIDE DEF key, done
    <3> QED BY <3>1, <3>2
  <2>2. s.at > 0 /\ s.at \in DOMAIN Branch(s).stages /\ s.todo # <<>>
    BY <1>9, <1>10, <1>15 DEF AtStage, Aggregates
  <2>3. rows \in Seq(Rows)
    <3>1. Head(s.todo) \in Rows BY <1>10, <2>2, HeadRow
    <3>2. PICK x \in Rows : x = Attach(Head(s.todo), s.max) BY <1>10, <3>1, AttachedRow
    <3> QED BY <1>12, <3>2
  <2> DEFINE With(memory) == [NextRow(s, rows) EXCEPT !.bent = s.bent, !.disturbed = s.disturbed, !.memory = memory]
  <2>4. ASSUME NEW memory, \A c \in DOMAIN memory : memory[c] \in Nat PROVE RunOK(With(memory))
    <3>1. s.pc \notin {"new", "done"} BY <1>9
    <3> QED BY <1>5, <1>8, <1>10, <2>2, <2>3, <2>4, <3>1, NextRowOK
  <2>5. NextRow(s, rows) = With(s.memory) BY <1>5 DEF NextRow, RunFields, NewRun
  <2>6. PICK memory : memory = [c \in DOMAIN s.memory \cup {k} |-> IF c = k THEN s.max ELSE s.memory[c]]
    OBVIOUS
  <2>7. \A c \in DOMAIN memory : memory[c] \in Nat BY <1>10, <2>6
  <2>8. [NextRow(s, rows) EXCEPT !.memory = [c \in DOMAIN @ \cup {k} |-> IF c = k THEN s.max ELSE @[c]]]
        = With(memory)
    BY <1>5, <2>6 DEF NextRow, RunFields, NewRun
  <2> HIDE DEF With
  <2>9. CASE Goes(r, NextRow(s, rows)) BY <1>10, <2>4, <2>5, <2>9, FormOK
  <2>10. CASE Goes(r, [NextRow(s, rows) EXCEPT !.memory = [c \in DOMAIN @ \cup {k} |->
                                                     IF c = k THEN s.max ELSE @[c]]])
    <3>1. Goes(r, With(memory)) BY <2>8, <2>10
    <3> QED BY <2>4, <2>7, <3>1, FormOK
  <2>11. CASE /\ store' \in Stored(k, s.max, s.disturbed)
              /\ Becomes(r, NextRow(s, rows))
              /\ UNCHANGED <<docs, clock, turn, writes, faults>>
    <3>1. ~Stopped(s) BY <1>15, StopReasons
    <3>2. k \in CacheKey /\ (s.disturbed \/ s.max = Least(docs[k.key], k.limit))
      BY <1>2, <1>5, <1>8, <1>9, <1>11, <2>2, <3>1, AggregateWhole
    <3>3. CacheOK' BY <1>2, <1>10, <2>11, <3>2, StoredOK
    <3>4. RunOK(NextRow(s, rows)) BY <1>10, <2>4, <2>5
    <3>5. turn' \in Runs \cup {Nobody} BY <1>4, <2>11
    <3> QED BY <2>11, <3>3, <3>4, <3>5, WithCacheOK
  <2> QED BY <2>1, <2>9, <2>10, <2>11
<1> QED BY <1>13, <1>14, <1>15

\* ReturnRow keeps the invariant.
LEMMA ReturnRowOK ==
  ASSUME FdqlInv, CancelInv, NEW r \in Runs, ReturnRow(r)
  PROVE  FdqlInv'
<1>1. PICK s : s = run[r] OBVIOUS
<1>2. DOMAIN s = RunFields /\ RunOK(s) BY <1>1, RunFound
<1>3. s.pc = "return" /\ s.todo # <<>> BY <1>1 DEF ReturnRow
<1>4. PICK shown : shown = Append(s.shown, Head(s.todo)) OBVIOUS
<1>5. PICK t : t = [s EXCEPT !.shown = shown, !.todo = Tail(@)] OBVIOUS
<1>6. RunOK(t) BY <1>2, <1>3, <1>5, RowShown
<1>7. IF StopBefore(s) # "none" THEN Ends(r, t, StopBefore(s)) ELSE Goes(r, t)
  BY <1>1, <1>2, <1>4, <1>5 DEF RunFields, NewRun, ReturnRow
<1>8. DOMAIN t = RunFields /\ RunTyped(t) BY <1>2, <1>5, <1>6 DEF RunOK
<1>9. CASE StopBefore(s) # "none" BY <1>7, <1>8, <1>9, EndOK, StopReasons
<1>10. CASE StopBefore(s) = "none" BY <1>6, <1>7, <1>10, FormOK
<1> QED BY <1>9, <1>10

\* EndBranch keeps the invariant.
LEMMA EndBranchOK ==
  ASSUME FdqlInv, CancelInv, NEW r \in Runs, EndBranch(r)
  PROVE  FdqlInv'
<1>1. PICK s : s = run[r] OBVIOUS
<1>2. DOMAIN s = RunFields /\ RunOK(s) /\ RunTyped(s) BY <1>1, RunFound
<1>3. s.pc = "return" BY <1>1 DEF EndBranch
<1> DEFINE t == [s EXCEPT !.pc = "branch", !.branch = @ + 1, !.at = 0, !.next = <<>>,
                               !.max = 0, !.got = 0, !.page = 0, !.short = FALSE]
<1>4. \/ \E reason \in {"budget", "completed"} : Ends(r, s, reason)
      \/ s.branch < Len(Plan(s).branches) /\ Goes(r, t)
  BY <1>1 DEF EndBranch
<1>5. ASSUME NEW reason \in {"budget", "completed"}, Ends(r, s, reason) PROVE FdqlInv'
  BY <1>2, <1>5, EndOK DEF Reasons
<1>6. CASE s.branch < Len(Plan(s).branches) /\ Goes(r, t)
  <2>1. RunOK(t) BY <1>2, <1>3, <1>6, NextBranchOK
  <2> HIDE DEF t
  <2> QED BY <1>6, <2>1, FormOK
<1> QED BY <1>4, <1>5, <1>6

\* Start keeps the invariant.
LEMMA StartOK ==
  ASSUME FdqlInv, CancelInv, NEW r \in Runs, NEW name \in PlansOf[r], Start(r, name)
  PROVE  FdqlInv'
<1>1. PICK s0 : s0 = run[r] OBVIOUS
<1>2. DOMAIN s0 = RunFields /\ RunOK(s0) /\ RunTyped(s0) /\ WorldTyped /\ CacheOK BY <1>1, RunFound
<1>3. s0.pc = "new" /\ turn = Nobody BY <1>1 DEF Start
<1>4. name \in DOMAIN Plans BY FdqlAssumption DEF Runs
<1>5. PICK s : s = [s0 EXCEPT !.startedAt = clock, !.plan = name] OBVIOUS
<1>6. DOMAIN s = RunFields /\ RunTyped(s)
  BY <1>2, <1>4, <1>5, Numbers DEF RunFields, NewRun, WorldTyped, RunTyped
<1>7. \/ Plans[name].kind = "read" /\ turn' = r /\ Becomes(r, [s EXCEPT !.pc = "branch"])
         /\ UNCHANGED <<docs, clock, store, writes, faults>>
      \/ Ends(r, s, "failed")
      \/ Becomes(r, Over(s, "completed")) /\ store' = <<>>
         /\ UNCHANGED <<docs, clock, turn, writes, faults>>
  <2>1. Plan(s) = Plans[name] BY <1>2, <1>5 DEF Plan, RunFields, NewRun
  <2> QED BY <1>1, <1>5, <2>1 DEF Start
<1>8. CASE Plans[name].kind = "read" /\ turn' = r /\ Becomes(r, [s EXCEPT !.pc = "branch"])
           /\ UNCHANGED <<docs, clock, store, writes, faults>>
  <2>1. PICK t : t = [s0 EXCEPT !.startedAt = clock, !.plan = name, !.pc = "branch"] OBVIOUS
  <2>2. t = [s EXCEPT !.pc = "branch"] BY <1>2, <1>5, <2>1 DEF RunFields, NewRun
  <2>3. RunOK(t) BY <1>2, <1>3, <1>4, <1>8, <2>1, Started
  <2>4. CacheOK' BY <1>2, <1>8 DEF CacheOK, StoreTyped, PersistedIsWhole
  <2>5. Becomes(r, t) BY <1>8, <2>2
  <2> QED BY <1>8, <2>3, <2>4, <2>5, WithCacheOK
<1>9. CASE Ends(r, s, "failed") BY <1>6, <1>9, EndOK DEF Reasons
<1>10. CASE Becomes(r, Over(s, "completed")) /\ store' = <<>>
            /\ UNCHANGED <<docs, clock, turn, writes, faults>>
  BY <1>3, <1>6, <1>10, OverOK, WithCacheOK DEF Reasons, CacheOK, StoreTyped, PersistedIsWhole
<1> QED BY <1>7, <1>8, <1>9, <1>10

\* Cancel keeps the invariant.
LEMMA CancelOK ==
  ASSUME FdqlInv, CancelInv, NEW r \in Runs, Cancel(r)
  PROVE  FdqlInv'
<1>1. PICK s : s = run[r] OBVIOUS
<1>2. DOMAIN s = RunFields /\ RunOK(s) /\ WorldTyped /\ CacheOK BY <1>1, RunFound
<1>3. s.pc \notin {"new", "done"} /\ turn' = turn /\ turn = Nobody /\ Becomes(r, [s EXCEPT !.aborted = TRUE])
      /\ UNCHANGED <<docs, clock, store, writes, faults>>
  BY <1>1 DEF Cancel
<1>4. RunOK([s EXCEPT !.aborted = TRUE]) BY <1>2, <1>3, Aborted
<1>5. CacheOK' BY <1>2, <1>3 DEF CacheOK, StoreTyped, PersistedIsWhole
<1> QED BY <1>3, <1>4, <1>5, WithCacheOK

\* At first there are no answers, and no run has started.
LEMMA FdqlInvInit == Init => FdqlInv
<1> SUFFICES ASSUME Init PROVE FdqlInv OBVIOUS
<1>1. WorldTyped BY DocsAssumption, Numbers DEF Init, WorldTyped
<1>2. StoreTyped /\ PersistedIsWhole
  <2>1. DOMAIN store = {} BY DEF Init
  <2> QED BY <2>1 DEF StoreTyped, PersistedIsWhole
<1>3. RunTyped(NewRun) BY DEF NewRun, RunTyped, Pcs, Reasons
<1>4. RunOK(NewRun)
  <2>1. NewRun.pc = "new" BY DEF NewRun
  <2> QED BY <1>3, <2>1 DEF RunOK, AtStage, PagesRead, WithinBudget, CountRead, Pages
<1>5. \A r \in Runs : run[r] = NewRun BY DEF Init
<1> QED BY <1>1, <1>2, <1>4, <1>5 DEF FdqlInv

\* A run does not come back from its deadline: time only passes.
LEMMA TickOK ==
  ASSUME FdqlInv, CancelInv, Tick
  PROVE  FdqlInv'
<1>1. /\ clock < MaxTime /\ clock' = clock + 1 /\ docs' = docs /\ turn' = turn /\ run' = run
      /\ store' = store /\ writes' = writes /\ faults' = faults
  BY DEF Tick
<1>2. WorldTyped /\ clock \in 0..MaxTime BY DEF FdqlInv, WorldTyped
<1>3. clock' \in 0..MaxTime /\ clock \in Nat BY <1>1, <1>2, Numbers
<1>4. WorldTyped' BY <1>1, <1>2, <1>3 DEF WorldTyped
<1>5. StoreTyped' /\ PersistedIsWhole' BY <1>1 DEF FdqlInv, StoreTyped, PersistedIsWhole
<1>6. ASSUME NEW r \in Runs PROVE RunOK(run[r])'
  <2>1. RunOK(run[r]) /\ RunTyped(run[r]) BY DEF FdqlInv, RunOK
  <2>2. Stopped(run[r]) => Stopped(run[r])' BY <1>1, <1>3, <2>1, Numbers DEF RunTyped, Stopped
  <2>3. RunTyped(run[r])' BY <1>1, <2>1 DEF RunTyped
  <2>4. AtStage(run[r])' BY <1>1, <2>1 DEF RunOK, AtStage, Branch, Plan, Stage
  <2>5. PagesRead(run[r])' BY <1>1, <2>1, <2>2 DEF RunOK, PagesRead, Reading
  <2>6. WithinBudget(run[r])' BY <1>1, <2>1 DEF RunOK, WithinBudget, LeftAtFirst, Plan, Stage, Branch
  <2>7. CountRead(run[r])' BY <1>1, <2>1, <2>2 DEF RunOK, CountRead, Reading
  <2>8. (run[r].pc = "new" => run[r] = NewRun)' BY <1>1, <2>1 DEF RunOK
  <2> QED BY <2>3, <2>4, <2>5, <2>6, <2>7, <2>8 DEF RunOK
<1> QED BY <1>4, <1>5, <1>6 DEF FdqlInv

\* A run under way whose reads a write of another client may have outdated.
LEMMA DisturbedOK ==
  ASSUME NEW s, DOMAIN s = RunFields, RunOK(s),
         s.pc \in {"connectRead", "connectAggregate", "paging", "aggregating", "done"},
         NEW t, t = [s EXCEPT !.disturbed = TRUE]
  PROVE  /\ RunTyped(t) /\ AtStage(t) /\ WithinBudget(t) /\ t.pc = s.pc /\ t.disturbed
         /\ t.pc \in {"connectRead", "paging"} => t.got + t.page <= t.max /\ t.got <= t.reads /\ t.page = 0
         /\ t.pc = "paging" => t.got < t.max
<1>1. /\ t.plan = s.plan /\ t.pc = s.pc /\ t.reason = s.reason /\ t.startedAt = s.startedAt
      /\ t.aborted = s.aborted /\ t.branch = s.branch /\ t.reads = s.reads
      /\ t.memory = s.memory /\ t.spent = s.spent /\ t.at = s.at /\ t.todo = s.todo
      /\ t.next = s.next /\ t.max = s.max /\ t.got = s.got /\ t.page = s.page
      /\ t.short = s.short /\ t.bent = s.bent /\ t.disturbed = TRUE
  BY DEF RunFields, NewRun
<1>2. RunTyped(t) BY <1>1 DEF RunOK, RunTyped, Pcs, Reasons
<1>3. Plan(t) = Plan(s) /\ Branch(t) = Branch(s) /\ Stage(t) = Stage(s)
  BY <1>1 DEF Plan, Branch, Stage
<1>4. AtStage(t) BY <1>1, <1>3 DEF RunOK, AtStage
<1>5. WithinBudget(t) BY <1>1, <1>3 DEF RunOK, WithinBudget, LeftAtFirst
<1>6. /\ t.pc \in {"connectRead", "paging"} => t.got + t.page <= t.max /\ t.got <= t.reads /\ t.page = 0
      /\ t.pc = "paging" => t.got < t.max
  BY <1>1 DEF RunOK, PagesRead, Pages
<1> QED BY <1>1, <1>2, <1>4, <1>5, <1>6

\* OutsideWrite keeps the invariant.
LEMMA OutsideWriteOK ==
  ASSUME FdqlInv, CancelInv, NEW c \in Collections, NEW n \in 0..MaxDocs, OutsideWrite(c, n)
  PROVE  FdqlInv'
<1>1. /\ turn = Nobody /\ writes < MaxWrites /\ docs' = [docs EXCEPT ![c] = n] /\ writes' = writes + 1
      /\ run' = [r \in Runs |-> IF run[r].pc = "new" THEN run[r]
                            ELSE [run[r] EXCEPT !.disturbed = TRUE]]
      /\ store' = [k \in DOMAIN store |-> IF k.key # c THEN store[k]
                                      ELSE [store[k] EXCEPT !.stale = TRUE]]
      /\ clock' = clock /\ turn' = turn /\ faults' = faults
  BY DEF OutsideWrite
<1>2. /\ docs \in [Collections -> 0..MaxDocs] /\ writes \in 0..MaxWrites
      /\ clock \in 0..MaxTime /\ turn \in Runs \cup {Nobody} /\ faults \in 0..MaxFaults
  BY DEF FdqlInv, WorldTyped
<1>3. docs' \in [Collections -> 0..MaxDocs] /\ \A d \in Collections \ {c} : docs'[d] = docs[d]
  BY <1>1, <1>2
<1>4. writes' \in 0..MaxWrites BY <1>1, <1>2, Numbers
<1>5. WorldTyped' BY <1>1, <1>2, <1>3, <1>4 DEF WorldTyped
<1>6. /\ DOMAIN store \subseteq CacheKey /\ \A k \in DOMAIN store : store[k] \in Entries
      /\ \A k \in DOMAIN store : store[k].stale \/ store[k].rows = Least(docs[k.key], k.limit)
  BY DEF FdqlInv, StoreTyped, PersistedIsWhole
<1>7. DOMAIN store' = DOMAIN store BY <1>1
<1>8. ASSUME NEW k \in DOMAIN store'
      PROVE  store'[k] \in Entries /\ (store'[k].stale \/ store'[k].rows = Least(docs'[k.key], k.limit))
  <2>1. k \in DOMAIN store /\ store[k] \in Entries /\ k \in CacheKey BY <1>6, <1>7
  <2>2. CASE k.key # c BY <1>1, <1>3, <1>6, <2>1, <2>2 DEF CacheKey, Collections
  <2>3. CASE k.key = c
    <3>1. store'[k] = [store[k] EXCEPT !.stale = TRUE] BY <1>1, <2>1, <2>3
    <3>2. PICK e : e = [store[k] EXCEPT !.stale = TRUE] OBVIOUS
    <3>3. e \in Entries /\ e.stale BY <2>1, <3>2 DEF Entries
    <3> QED BY <3>1, <3>2, <3>3
  <2> QED BY <2>2, <2>3
<1>9. StoreTyped' /\ PersistedIsWhole' BY <1>6, <1>7, <1>8 DEF StoreTyped, PersistedIsWhole
<1>10. ASSUME NEW r \in Runs PROVE RunOK(run[r])'
  <2>1. DOMAIN run[r] = RunFields /\ RunOK(run[r]) BY RunFound
  <2>2. run[r].pc \in {"new", "connectRead", "connectAggregate", "paging", "aggregating", "done"}
    <3>1. turn # r BY <1>1, NobodyIsNoRun
    <3> QED BY <3>1 DEF CancelInv, Waiting
  <2>3. CASE run[r].pc = "new"
    <3>1. run'[r] = run[r] BY <1>1, <2>3
    <3>2. RunTyped(run[r])' BY <2>1, <3>1 DEF RunOK, RunTyped
    <3>3. AtStage(run[r])' BY <2>1, <2>3, <3>1 DEF AtStage
    <3>4. PagesRead(run[r])' BY <2>3, <3>1 DEF PagesRead, Pages
    <3>5. WithinBudget(run[r])' BY <2>3, <3>1 DEF WithinBudget, Pages
    <3>6. CountRead(run[r])' BY <2>3, <3>1 DEF CountRead
    <3>7. (run[r].pc = "new" => run[r] = NewRun)' BY <2>1, <3>1 DEF RunOK
    <3> QED BY <3>2, <3>3, <3>4, <3>5, <3>6, <3>7 DEF RunOK
  <2>4. CASE run[r].pc \in {"connectRead", "connectAggregate", "paging", "aggregating", "done"}
    <3>1. run'[r] = [run[r] EXCEPT !.disturbed = TRUE] BY <1>1, <2>4
    <3>2. PICK t : t = [run[r] EXCEPT !.disturbed = TRUE] OBVIOUS
    <3>3. /\ RunTyped(t) /\ AtStage(t) /\ WithinBudget(t) /\ t.disturbed
          /\ t.pc \in {"connectRead", "connectAggregate", "paging", "aggregating", "done"}
          /\ t.pc \in {"connectRead", "paging"} => t.got + t.page <= t.max /\ t.got <= t.reads /\ t.page = 0
          /\ t.pc = "paging" => t.got < t.max
      <4>1. PICK s : s = run[r] OBVIOUS
      <4>2. DOMAIN s = RunFields /\ RunOK(s) BY <2>1, <4>1
      <4>3. s.pc \in {"connectRead", "connectAggregate", "paging", "aggregating", "done"} BY <2>4, <4>1
      <4>4. t = [s EXCEPT !.disturbed = TRUE] BY <3>2, <4>1
      <4> HIDE <1>1, <2>4, <3>2, <4>1
      <4>5. /\ RunTyped(t) /\ AtStage(t) /\ WithinBudget(t) /\ t.pc = s.pc /\ t.disturbed
            /\ t.pc \in {"connectRead", "paging"} => t.got + t.page <= t.max /\ t.got <= t.reads /\ t.page = 0
            /\ t.pc = "paging" => t.got < t.max
        BY <4>2, <4>3, <4>4, DisturbedOK
      <4> QED BY <4>3, <4>5
    <3>4. run'[r] = t BY <3>1, <3>2
    <3> HIDE <1>1, <3>1, <3>2
    <3>5. RunTyped(run[r])' BY <3>3, <3>4 DEF RunTyped
    <3>6. AtStage(run[r])' BY <3>3, <3>4 DEF AtStage, Branch, Plan, Stage
    <3>7. PagesRead(run[r])' BY <3>3, <3>4 DEF PagesRead, Pages
    <3>8. WithinBudget(run[r])' BY <3>3, <3>4 DEF WithinBudget, LeftAtFirst, Plan, Stage, Branch
    <3>9. CountRead(run[r])' BY <3>3, <3>4 DEF CountRead
    <3>10. (run[r].pc = "new" => run[r] = NewRun)' BY <3>3, <3>4
    <3> QED BY <3>5, <3>6, <3>7, <3>8, <3>9, <3>10 DEF RunOK
  <2> QED BY <2>2, <2>3, <2>4
<1> QED BY <1>5, <1>9, <1>10 DEF FdqlInv

\* Every step keeps the invariant.
LEMMA FdqlInvNext ==
  ASSUME FdqlInv, CancelInv, [Next]_vars
  PROVE  FdqlInv'
<1>1. ASSUME NEW r \in Runs, Step(r) PROVE FdqlInv'
  BY <1>1, AskOK, DocumentOK, BeginBranchOK, SourceReadOK, RunStageOK, BeginLookupOK, LookupReadOK,
     BeginAggregateOK, AggregatedOK, ReturnRowOK, EndBranchOK DEF Step
<1>2. ASSUME NEW r \in Runs,
             \/ \E name \in PlansOf[r] : Start(r, name)
             \/ Cancel(r) \/ Abandon(r) \/ RequestFails(r)
             \/ Connected(r) \/ PageArrives(r) \/ AggregateArrives(r)
      PROVE  FdqlInv'
  BY <1>2, StartOK, CancelOK, AbandonOK, RequestFailsOK, ConnectedOK, PageArrivesOK, AggregateArrivesOK
<1>3. CASE Tick BY <1>3, TickOK
<1>4. CASE UNCHANGED vars
  <2>1. /\ docs' = docs /\ clock' = clock /\ turn' = turn /\ run' = run /\ store' = store
        /\ writes' = writes /\ faults' = faults
    BY <1>4 DEF vars
  <2>2. WorldTyped' /\ StoreTyped' /\ PersistedIsWhole'
    BY <2>1 DEF FdqlInv, WorldTyped, StoreTyped, PersistedIsWhole
  <2>3. ASSUME NEW r \in Runs PROVE RunOK(run[r])'
    BY <2>1 DEF FdqlInv, RunOK, RunTyped, AtStage, PagesRead, WithinBudget, CountRead, LeftAtFirst,
         Reading, Stopped, Stage, Branch, Plan
  <2> QED BY <2>2, <2>3 DEF FdqlInv
<1>5. CASE \E c \in Collections, n \in 0..MaxDocs : OutsideWrite(c, n) BY <1>5, OutsideWriteOK
<1> QED BY <1>1, <1>2, <1>3, <1>4, <1>5 DEF Next

\* Whatever is read in pages, within a budget and against a deadline, is never more
\* than there is and, when a read ends by itself, all there is up to what was asked
\* for: the invariant of the runs and the cache they share (readProvider, executeLookup).
THEOREM FdqlInvariant == Spec => []FdqlInv
<1>1. FdqlInv /\ CancelInv /\ [Next]_vars => FdqlInv' BY FdqlInvNext
<1> QED BY <1>1, FdqlInvInit, CancelInvariant, PTL DEF Spec

\* The persistent cache never holds an answer that a budget, a cancellation, a timeout
\* or the page loop has cut, unless its collection has changed since: for all plans,
\* limits, page sizes, budgets and interleavings of runs (shouldPersistLookupRows and
\* cacheReadLimit in fdql-core's lookup.ts, set and evictCache of the repository).
THEOREM StoredAnswersAreWhole == Spec => []PersistedIsWhole
<1>1. FdqlInv => PersistedIsWhole BY DEF FdqlInv
<1> QED BY <1>1, FdqlInvariant, PTL

\* The types of the runs, of the cache and of the world; and a run has the turn
\* exactly while its code is executed.
THEOREM FdqlTypesKept == Spec => []TypeOK
<1>1. ASSUME FdqlInv, CancelInv PROVE TypeOK
  <2>1. WorldTyped /\ StoreTyped BY <1>1 DEF FdqlInv
  <2>2. ASSUME NEW r \in Runs
        PROVE  LET s == run[r]
               IN /\ s.plan \in DOMAIN Plans \cup {NoPlan} /\ s.reason \in Reasons
                  /\ {s.startedAt, s.branch, s.reads, s.asked, s.at, s.max, s.got, s.page} \subseteq Nat
                  /\ {s.aborted, s.spent, s.short, s.bent, s.disturbed} \subseteq BOOLEAN
                  /\ s.pc \in Pcs
                  /\ (s.reason = "none") <=> (s.pc # "done")
                  /\ turn = r <=> s.pc \notin Waiting
    BY <1>1, RunFound DEF CancelInv, RunInv, RunTyped
  <2>3. Pcs \subseteq Waiting \cup {"branch", "ask", "docs", "read", "aggregated", "stage", "return"}
    BY DEF Pcs, Waiting
  <2> QED BY <2>1, <2>2, <2>3 DEF TypeOK, WorldTyped, StoreTyped, Entries
<1> QED BY <1>1, FdqlInvariant, CancelInvariant, PTL

----------------
(* A completed run returns the answer of its query *)

\* No stop, no change and none of the cases bent marks has touched what a run returns:
\* the definitions below say of such a run how far it is.
Exact(s) == ~s.bent /\ ~s.disturbed /\ ~s.spent

\* The rows of the branches before the run's.
Before(s) == FlattenSeq([i \in 1..(s.branch - 1) |-> RefBranch(docs, Plan(s).branches[i])])
\* Where the rows of a stage are under way.
Inner == {"stage"} \cup Pages \cup Aggregates

\* What a run remembers is the answer of its key.
MemoryMeant(s) ==
  \A k \in DOMAIN s.memory : k \in CacheKey /\ s.memory[k] = Least(docs[k.key], k.limit)

\* A source that is read in pages has as many rows as documents are read, and reads on
\* with budget left: all it may, or all there is.
SourceMeant(s) ==
  s.at = 0 =>
    /\ s.pc = "branch" => s.next = <<>>
    /\ s.pc \in Aggregates => Branch(s).aggregated
    /\ s.pc \in Pages =>
         /\ ~Branch(s).aggregated /\ LeftAtFirst(s) > 0
         /\ s.max = Least(Least(Branch(s).limit, NoLimit), LeftAtFirst(s))
         /\ s.got > 0 => s.reads < Plan(s).budget
         /\ s.next = [i \in 1..s.got |-> Row(KeyOf[i], <<>>)]
         /\ s.pc = "read" /\ ~Stopped(s) => s.got = Least(s.max, docs[Source])

\* The rows a stage has made, with what it is to make of the rows still to do, are its rows.
StageMeant(s) ==
  s.at > 0 /\ s.pc \in Inner =>
    IF Branch(s).stages = <<>> THEN s.todo = RefSource(docs, Branch(s))
    ELSE /\ s.next \o RefStage(docs, Stage(s), s.todo) = RefStages(docs, Branch(s))[s.at]
         /\ Stage(s).kind \notin OfRows => s.next = <<>>
         /\ s.pc \in Pages => LeftAtFirst(s) > 0

\* What a run has shown is the rows of its branches so far, in their order.
ShownMeant(s) ==
  IF s.pc = "return"
  THEN s.shown \in Seq(Rows) /\ s.shown \o s.todo = Before(s) \o RefBranch(docs, Branch(s))
  ELSE s.shown = Before(s)

\* So is all that a run under way has, and what it returns.
UnderWay(s) ==
  s.pc \notin {"new", "done"} /\ Exact(s) =>
    MemoryMeant(s) /\ SourceMeant(s) /\ StageMeant(s) /\ ShownMeant(s)
MeantInv == CompletedIsAnswer /\ \A r \in Runs : UnderWay(run[r])

\* The rows of the last sequence come last,
LEMMA FlattenLast ==
  ASSUME NEW seqs \in Seq(Seq(Rows)), NEW rows \in Seq(Rows)
  PROVE  FlattenSeq(Append(seqs, rows)) = FlattenSeq(seqs) \o rows
<1> DEFINE all == Append(seqs, rows)
<1>1. /\ all \in Seq(Seq(Rows)) /\ Len(seqs) \in Nat /\ Len(all) = Len(seqs) + 1
      /\ all[Len(seqs) + 1] = rows /\ \A i \in 1..Len(seqs) : all[i] = seqs[i]
  OBVIOUS
<1> HIDE DEF all
<1>2. PICK f : FlattensTo(all, f) BY <1>1, Flattens
<1> DEFINE n == Len(seqs)
<1>5. /\ f[0] = <<>> /\ n \in Nat /\ all[n + 1] = rows /\ \A i \in 1..n : all[i] = seqs[i]
      /\ \A i \in 1..n + 1 : f[i] = f[i - 1] \o all[i]
  BY <1>1, <1>2 DEF FlattensTo
<1> HIDE DEF n
<1>6. ASSUME NEW i \in 1..n PROVE f[i] = f[i - 1] \o seqs[i]
  <2>1. i \in 1..n + 1 BY <1>5
  <2> QED BY <1>5, <2>1
<1>3. FlattensTo(seqs, f) BY <1>5, <1>6 DEF FlattensTo, n
<1>7. n + 1 \in 1..n + 1 /\ (n + 1) - 1 = n BY <1>5
<1>4. f[n + 1] = f[n] \o rows BY <1>5, <1>7
<1>8. FlattenSeq(all) = f[n + 1] BY <1>1, <1>2, FlattenBy DEF n
<1>9. FlattenSeq(seqs) = f[n] BY <1>3, FlattenBy DEF n
<1> QED BY <1>4, <1>8, <1>9 DEF all

\* and those of the first one first.
LEMMA RowsInTurn ==
  ASSUME NEW u \in Seq(Rows), NEW v \in Seq(Rows), NEW w \in Seq(Rows)
  PROVE  (u \o v) \o w = u \o (v \o w)
BY ConcatAssociative

LEMMA FlattenFirst ==
  ASSUME NEW seqs \in Seq(Seq(Rows)), seqs # <<>>
  PROVE  FlattenSeq(seqs) = seqs[1] \o FlattenSeq(Tail(seqs))
<1> DEFINE n == Len(seqs)
<1> DEFINE V == Seq(Rows)
<1> DEFINE rest == Tail(seqs)
<1>1. /\ n \in Nat \ {0} /\ rest \in Seq(V) /\ Len(rest) = n - 1 /\ seqs[1] \in V
      /\ \A i \in 2..n : seqs[i] \in V /\ rest[i - 1] = seqs[i]
  OBVIOUS
<1>2. PICK f \in [0..Len(rest) -> V] : FlattensTo(rest, f) BY <1>1, Flattens
<1>3. \A v \in V : v \o <<>> = v /\ <<>> \o v = v BY ConcatEmptySeq
<1>10. \A u \in V, v \in V, w \in V : (u \o v) \o w = u \o (v \o w) BY RowsInTurn
<1> DEFINE e == [i \in 0..n |-> IF i = 0 THEN <<>> ELSE seqs[1] \o f[i - 1]]
<1> HIDE DEF n, rest, V
<1>11. \A i \in 1..n : i \in 0..n /\ i # 0 BY <1>1
<1>12. 0 \in 0..n BY <1>1
<1>4. e[0] = <<>> /\ \A i \in 1..n : e[i] = seqs[1] \o f[i - 1] BY <1>11, <1>12
<1> HIDE DEF e
<1>5. ASSUME NEW i \in 1..n PROVE e[i] = e[i - 1] \o seqs[i]
  <2>1. CASE i = 1
    <3>1. i - 1 = 0 /\ f[0] = <<>> /\ i \in 1..n BY <1>2, <2>1 DEF FlattensTo
    <3>3. e[i] = seqs[1] \o f[i - 1] BY <1>4
    <3>2. e[i] = seqs[1] /\ e[i - 1] = <<>> BY <1>1, <1>3, <1>4, <3>1, <3>3
    <3> QED BY <1>1, <1>3, <2>1, <3>2
  <2>2. CASE i # 1
    <3>1. /\ i \in 2..n /\ i - 1 \in 1..Len(rest) /\ i - 2 \in 0..Len(rest) /\ (i - 1) - 1 = i - 2
          /\ i - 1 \in 1..n
      BY <1>1, <2>2
    <3>2. f[i - 1] = f[i - 2] \o seqs[i] BY <1>1, <1>2, <3>1 DEF FlattensTo
    <3>3. e[i] = seqs[1] \o f[i - 1] /\ e[i - 1] = seqs[1] \o f[i - 2] BY <1>4, <3>1
    <3>4. f[i - 2] \in V /\ seqs[i] \in V /\ seqs[1] \in V BY <1>1, <1>2, <3>1
    <3>5. seqs[1] \o (f[i - 2] \o seqs[i]) = (seqs[1] \o f[i - 2]) \o seqs[i] BY <1>10, <3>4
    <3> QED BY <3>2, <3>3, <3>5
  <2> QED BY <2>1, <2>2
<1>13. n \in 1..n BY <1>1
<1>6. e[n] = seqs[1] \o f[n - 1] BY <1>4, <1>13
<1>7. FlattensTo(seqs, e) BY <1>4, <1>5 DEF FlattensTo, n
<1>8. FlattenSeq(seqs) = e[n] BY <1>7, FlattenBy DEF n
<1>9. FlattenSeq(rest) = f[n - 1] BY <1>1, <1>2, FlattenBy DEF V
<1> QED BY <1>6, <1>8, <1>9 DEF rest

\* What a query means is rows: of a row,
LEMMA RefRowRows ==
  ASSUME WorldTyped, NEW stage \in Stages, NEW row \in Rows
  PROVE  RefRow(docs, stage, row) \in Seq(Rows)
<1>1. \A n \in Nat : Attach(row, n) \in Rows BY AttachedRow
<1>2. row.key # Missing => docs[row.key] \in Nat
  BY Numbers DEF Rows, RowKeys, Collections, WorldTyped
<1> HIDE DEF Rows
<1>3. RefAggregate(docs, row) \in Seq(Rows) BY <1>1, <1>2 DEF RefAggregate
<1>4. CASE stage.kind = "lookup"
  <2>1. stage.limit \in Nat BY <1>4, LookupStage
  <2> DEFINE n == IF row.key = Missing THEN 0 ELSE Least(docs[row.key], stage.limit)
  <2>2. n \in Nat /\ Least(n, 2) \in Nat BY <1>2, <2>1 DEF Least
  <2>3. \/ RefLookup(docs, stage, row) = <<>>
        \/ RefLookup(docs, stage, row) = <<Attach(row, Least(n, 2))>>
        \/ RefLookup(docs, stage, row) = <<Attach(row, n)>>
    BY DEF RefLookup
  <2>4. Attach(row, n) \in Rows /\ Attach(row, Least(n, 2)) \in Rows BY <1>1, <2>2
  <2> HIDE DEF n
  <2>6. \A x \in Rows : <<x>> \in Seq(Rows) OBVIOUS
  <2>7. <<>> \in Seq(Rows) OBVIOUS
  <2>5. RefLookup(docs, stage, row) \in Seq(Rows) BY <2>3, <2>4, <2>6, <2>7
  <2> QED BY <1>4, <2>5 DEF RefRow
<1> QED BY <1>3, <1>4 DEF RefRow

\* of the rows of a stage, one after another or all at once,
LEMMA RefStageRows ==
  ASSUME WorldTyped, NEW stage \in Stages, NEW rows \in Seq(Rows)
  PROVE  /\ RefStage(docs, stage, rows) \in Seq(Rows)
         /\ stage.kind \in OfRows =>
              /\ rows = <<>> => RefStage(docs, stage, rows) = <<>>
              /\ rows # <<>> =>
                   RefStage(docs, stage, rows)
                     = RefRow(docs, stage, Head(rows)) \o RefStage(docs, stage, Tail(rows))
<1>1. CASE stage.kind \notin OfRows BY <1>1, LocalRowsAreRows DEF RefStage
<1>2. CASE stage.kind \in OfRows
  <2> DEFINE Each(some) == [i \in DOMAIN some |-> RefRow(docs, stage, some[i])]
  <2>1. \A some : RefStage(docs, stage, some) = FlattenSeq(Each(some)) BY <1>2 DEF RefStage
  <2>2. ASSUME NEW some \in Seq(Rows) PROVE Each(some) \in Seq(Seq(Rows)) /\ Len(Each(some)) = Len(some)
    <3>1. \A i \in 1..Len(some) : RefRow(docs, stage, some[i]) \in Seq(Rows) BY RefRowRows
    <3>2. DOMAIN some = 1..Len(some) /\ Len(some) \in Nat OBVIOUS
    <3> QED BY <3>1, <3>2
  <2>3. CASE rows = <<>>
    <3>1. Each(rows) = <<>> BY <2>2, <2>3
    <3>2. FlattenSeq(<<>>) = <<>> BY DEF FlattenSeq
    <3> HIDE DEF Each
    <3>3. RefStage(docs, stage, rows) = <<>> BY <2>1, <3>1, <3>2
    <3> QED BY <2>3, <3>3
  <2>4. CASE rows # <<>>
    <3>1. /\ Tail(rows) \in Seq(Rows) /\ Len(rows) \in Nat \ {0} /\ Len(Tail(rows)) = Len(rows) - 1
          /\ Head(rows) = rows[1] /\ \A i \in 1..Len(rows) - 1 : Tail(rows)[i] = rows[i + 1]
      BY <2>4, HeadTailProperties
    <3>2. Each(rows) # <<>> /\ Each(rows)[1] = RefRow(docs, stage, Head(rows)) BY <2>2, <3>1
    <3>3. Tail(Each(rows)) = Each(Tail(rows))
      <4>1. Tail(Each(rows)) \in Seq(Seq(Rows)) /\ Len(Tail(Each(rows))) = Len(rows) - 1
        BY <2>2, <3>1, <3>2, HeadTailProperties
      <4>2. Each(Tail(rows)) \in Seq(Seq(Rows)) /\ Len(Each(Tail(rows))) = Len(rows) - 1 BY <2>2, <3>1
      <4>3. ASSUME NEW i \in 1..Len(rows) - 1 PROVE Tail(Each(rows))[i] = Each(Tail(rows))[i]
        BY <2>2, <3>1, <3>2, <4>1, HeadTailProperties
      <4> HIDE DEF Each
      <4> QED BY <4>1, <4>2, <4>3, SeqEqual
    <3> HIDE DEF Each
    <3>4. FlattenSeq(Each(rows)) = Each(rows)[1] \o FlattenSeq(Tail(Each(rows)))
      BY <2>2, <3>2, FlattenFirst
    <3> QED BY <2>1, <2>2, <2>4, <3>2, <3>3, <3>4, FlatRows
  <2> QED BY <2>3, <2>4
<1> QED BY <1>1, <1>2

\* of the source,
LEMMA RefSourceRows ==
  ASSUME WorldTyped, NEW b \in Branches
  PROVE  RefSource(docs, b) \in Seq(Rows)
<1>1. docs[Source] \in Nat /\ docs[Source] <= Len(KeyOf) /\ Len(KeyOf) \in Nat
  <2>1. docs[Source] \in 0..MaxDocs BY DEF WorldTyped, Collections
  <2> QED BY <2>1, Numbers, FdqlAssumption, DocsAssumption
<1>2. CASE b.aggregated BY <1>1, <1>2 DEF Row, Rows, RowKeys, RefSource
<1>3. CASE ~b.aggregated
  <2> DEFINE n == Least(docs[Source], b.limit)
  <2>1. n \in Nat /\ n <= Len(KeyOf) BY <1>1 DEF Least, Branches
  <2>2. ASSUME NEW i \in 1..n PROVE Row(KeyOf[i], <<>>) \in Rows
    <3>1. KeyOf[i] \in RowKeys BY <1>1, <2>1, FdqlAssumption DEF RowKeys
    <3> QED BY <3>1 DEF Row, Rows
  <2>3. RefSource(docs, b) = [i \in 1..n |-> Row(KeyOf[i], <<>>)] BY <1>3 DEF RefSource
  <2> HIDE DEF n
  <2> QED BY <2>1, <2>2, <2>3
<1> QED BY <1>2, <1>3

\* and after each stage of a branch; from a stage without rows on there are none.
StageAfter(b, i, rows) ==
  IF i > 1 /\ rows = <<>> THEN <<>> ELSE RefStage(docs, b.stages[i], rows)

LEMMA RefStagesAre ==
  ASSUME WorldTyped, NEW b \in Branches
  PROVE  LET f == RefStages(docs, b)
             n == Len(b.stages)
         IN /\ n \in Nat /\ \A i \in 0..n : f[i] \in Seq(Rows)
            /\ f[0] = RefSource(docs, b)
            /\ \A i \in 1..n : f[i] = StageAfter(b, i, f[i - 1])
            /\ \A i \in 1..n : f[i] = <<>> => f[n] = <<>>
<1> DEFINE n == Len(b.stages)
<1> DEFINE V == Seq(Rows)
<1> DEFINE F == [p \in V \X (1..n) |-> StageAfter(b, p[2], p[1])]
<1>1. n \in Nat /\ \A i \in 1..n : b.stages[i] \in Stages BY DEF Branches
<1>2. \A i \in 1..n, v \in V : StageAfter(b, i, v) \in V BY <1>1, RefStageRows DEF StageAfter
<1>3. RefSource(docs, b) \in V BY RefSourceRows
<1> DEFINE Is(f) == f = [i \in 0..n |-> IF i = 0 THEN RefSource(docs, b)
                                       ELSE IF i > 1 /\ f[i - 1] = <<>> THEN <<>>
                                       ELSE RefStage(docs, b.stages[i], f[i - 1])]
<1> DEFINE g == RefStages(docs, b)
<1>4. g = CHOOSE f : Is(f) BY DEF RefStages
<1> HIDE DEF V, n
<1>5. F \in [V \X (1..n) -> V] BY <1>2
<1>6. \A v \in V, i \in 1..n : F[<<v, i>>] = StageAfter(b, i, v) OBVIOUS
<1> HIDE DEF F
<1>7. Walk(n, V, RefSource(docs, b), F) BY <1>1, <1>3, <1>5, Walked
<1>8. PICK f \in [0..n -> V] : f[0] = RefSource(docs, b) /\ \A i \in 1..n : f[i] = F[<<f[i - 1], i>>]
  BY <1>7 DEF Walk
<1>9. \A i \in 1..n : i - 1 \in 0..n /\ i \in 0..n /\ i # 0 BY <1>1
<1>10. \A i \in 1..n : f[i] = StageAfter(b, i, f[i - 1]) BY <1>6, <1>8, <1>9
<1>11. \A i \in 0..n : i = 0 \/ i \in 1..n BY <1>1
<1>12. \A i \in 0..n : f[i] = IF i = 0 THEN RefSource(docs, b)
                             ELSE IF i > 1 /\ f[i - 1] = <<>> THEN <<>>
                             ELSE RefStage(docs, b.stages[i], f[i - 1])
  BY <1>8, <1>10, <1>11 DEF StageAfter
<1>13. Is(f) BY <1>8, <1>12
<1> HIDE DEF g
<1>14. Is(g) BY <1>4, <1>13
<1>15. 0 \in 0..n BY <1>1
<1>16. g[0] = RefSource(docs, b) /\ \A i \in 1..n : g[i] = StageAfter(b, i, g[i - 1])
  BY <1>9, <1>14, <1>15 DEF StageAfter
<1> HIDE DEF Is
<1>17. \A i \in 0..n : g[i] \in V
  <2> DEFINE Bad == {i \in 0..n : g[i] \notin V}
  <2>1. SUFFICES ASSUME Bad # {} PROVE FALSE OBVIOUS
  <2>2. Bad \in SUBSET Nat BY <1>1
  <2>3. PICK i \in Bad : \A j \in Bad : i <= j BY <2>1, <2>2, LeastOf
  <2>4. i \in 0..n /\ g[i] \notin V OBVIOUS
  <2>5. i \in 1..n BY <1>3, <1>11, <1>16, <2>4
  <2>6. i - 1 \in 0..n /\ ~(i <= i - 1) BY <1>1, <2>5
  <2>7. g[i - 1] \in V BY <2>3, <2>6
  <2> QED BY <1>2, <1>16, <2>4, <2>5, <2>7
<1>18. ASSUME NEW i \in 1..n, g[i] = <<>> PROVE g[n] = <<>>
  <2> DEFINE Bad == {j \in i..n : g[j] # <<>>}
  <2>0. n \in i..n BY <1>1
  <2>1. SUFFICES ASSUME Bad # {} PROVE FALSE BY <2>0
  <2>2. Bad \in SUBSET Nat BY <1>1
  <2>3. PICK j \in Bad : \A m \in Bad : j <= m BY <2>1, <2>2, LeastOf
  <2>4. j \in i..n /\ g[j] # <<>> OBVIOUS
  <2>5. j # i BY <1>18, <2>4
  <2>6. j \in 1..n /\ j > 1 /\ j - 1 \in i..n /\ ~(j <= j - 1) BY <1>1, <2>4, <2>5
  <2>7. g[j - 1] = <<>> BY <2>3, <2>6
  <2> QED BY <1>16, <2>4, <2>6, <2>7 DEF StageAfter
<1> QED BY <1>1, <1>16, <1>17, <1>18 DEF g, V, n

\* The branches of a run's plan, and what they mean together.
LEMMA BranchRows ==
  ASSUME WorldTyped, NEW s, s.plan \in DOMAIN Plans, s.branch \in DOMAIN Plan(s).branches
  PROVE  /\ Branch(s) \in Branches /\ RefBranch(docs, Branch(s)) \in Seq(Rows) /\ Before(s) \in Seq(Rows)
         /\ s.branch = 1 => Before(s) = <<>>
         /\ \A t : t.plan = s.plan /\ t.branch = s.branch + 1 =>
              Before(t) = Before(s) \o RefBranch(docs, Branch(s))
         /\ s.branch = Len(Plan(s).branches) =>
              Answer(docs, Plan(s)) = Before(s) \o RefBranch(docs, Branch(s))
<1> DEFINE p == Plan(s)
<1> DEFINE Refs(n) == [i \in 1..n |-> RefBranch(docs, p.branches[i])]
<1>1. p.branches \in Seq(Branches) BY PlanNumbers
<1>2. ASSUME NEW b \in Branches PROVE RefBranch(docs, b) \in Seq(Rows) BY RefStagesAre DEF RefBranch
<1>3. s.branch \in 1..Len(p.branches) /\ Len(p.branches) \in Nat BY <1>1
<1>4. Branch(s) \in Branches /\ Branch(s) = p.branches[s.branch] BY <1>1 DEF Branch
<1>5. \A i \in 1..Len(p.branches) : RefBranch(docs, p.branches[i]) \in Seq(Rows) BY <1>1, <1>2
<1> HIDE DEF p
<1>6. ASSUME NEW n \in 0..Len(p.branches) PROVE Refs(n) \in Seq(Seq(Rows)) /\ Len(Refs(n)) = n
  BY <1>3, <1>5
<1>7. Before(s) = FlattenSeq(Refs(s.branch - 1)) BY DEF Before, p
<1>8. s.branch - 1 \in 0..Len(p.branches) /\ s.branch \in 0..Len(p.branches) BY <1>3
<1>9. Refs(s.branch) = Append(Refs(s.branch - 1), RefBranch(docs, Branch(s)))
  <2> DEFINE a == Refs(s.branch)
  <2> DEFINE b == Append(Refs(s.branch - 1), RefBranch(docs, Branch(s)))
  <2>1. a \in Seq(Seq(Rows)) /\ Len(a) = s.branch BY <1>6, <1>8
  <2>2. Refs(s.branch - 1) \in Seq(Seq(Rows)) /\ Len(Refs(s.branch - 1)) = s.branch - 1 BY <1>6, <1>8
  <2>3. RefBranch(docs, Branch(s)) \in Seq(Rows) BY <1>2, <1>4
  <2>4. /\ b \in Seq(Seq(Rows)) /\ Len(b) = s.branch /\ b[s.branch] = RefBranch(docs, Branch(s))
        /\ \A i \in 1..s.branch - 1 : b[i] = Refs(s.branch - 1)[i]
    <3> HIDE DEF Refs
    <3> QED BY <1>3, <2>2, <2>3
  <2>5. ASSUME NEW i \in 1..s.branch PROVE a[i] = b[i] BY <1>3, <1>4, <2>4
  <2> HIDE DEF a, b
  <2>6. a = b BY <2>1, <2>4, <2>5, SeqEqual
  <2> QED BY <2>6 DEF a, b
<1>10. FlattenSeq(Refs(s.branch)) = Before(s) \o RefBranch(docs, Branch(s))
  <2> HIDE DEF Refs
  <2> QED BY <1>2, <1>4, <1>6, <1>7, <1>8, <1>9, FlattenLast
<1>11. Before(s) \in Seq(Rows) BY <1>6, <1>7, <1>8, FlatRows
<1>12. s.branch = 1 => Before(s) = <<>>
  <2>1. FlattenSeq(<<>>) = <<>> BY DEF FlattenSeq
  <2>2. s.branch = 1 => Refs(s.branch - 1) = <<>> BY <1>6, <1>8
  <2> HIDE DEF Refs
  <2> QED BY <1>7, <2>1, <2>2
<1>13. ASSUME NEW t, t.plan = s.plan, t.branch = s.branch + 1
       PROVE  Before(t) = Before(s) \o RefBranch(docs, Branch(s))
  <2>1. t.branch - 1 = s.branch /\ Plan(t) = p BY <1>3, <1>13 DEF p, Plan
  <2> QED BY <1>10, <2>1 DEF Before
<1>14. s.branch = Len(p.branches) => Answer(docs, p) = FlattenSeq(Refs(s.branch))
  BY <1>1 DEF p, Answer
<1> QED BY <1>2, <1>4, <1>10, <1>11, <1>12, <1>13, <1>14 DEF p

\* There are as many documents of a key as its collection has, and no more than 99.
LEMMA DocsOfKey ==
  ASSUME WorldTyped, NEW key \in Keys
  PROVE  docs[key] \in Nat /\ docs[key] <= NoLimit
<1>1. docs[key] \in 0..MaxDocs BY DEF WorldTyped, Collections
<1> QED BY <1>1, Numbers

\* A row without the value has no documents (executeLookup, executeProviderAggregateStage).
LEMMA MissingIsMeant ==
  ASSUME NEW stage, NEW row, row.key = Missing
  PROVE  LookedUp(stage, row, 0) = RefLookup(docs, stage, row) /\ RefAggregate(docs, row) = <<Attach(row, 0)>>
BY DEF LookedUp, RefLookup, RefAggregate, Least

\* A cached answer that is not bent is the one the row is to have (createRunCache, get).
LEMMA ServedIsMeant ==
  ASSUME WorldTyped, NEW stage \in Stages, stage.kind = "lookup", NEW row, row.key \in Keys,
         NEW max \in Nat, NEW k, k = LookupKey(stage, row.key, max), NEW n \in Nat,
         n = Least(docs[k.key], k.limit), ~Bends(stage, n, max)
  PROVE  LookedUp(stage, row, Least(n, max)) = RefLookup(docs, stage, row)
<1> DEFINE d == docs[row.key]
<1>1. d \in Nat /\ d <= 99 /\ row.key # Missing BY DocsOfKey, Numbers, FdqlAssumption
<1>2. k.key = row.key BY DEF LookupKey
<1>3. stage.limit \in Nat /\ stage.mode \in {"one", "many"} BY LookupStage
<1>4. n <= max /\ Least(n, max) = n BY DEF Bends, Least
<1>5. n = Least(d, k.limit) BY <1>2
<1> HIDE DEF d
<1>6. n = Least(d, stage.limit) /\ (stage.mode = "one" => n <= 1)
  BY <1>1, <1>3, <1>5, Numbers DEF LookupKey, Least, Bends
<1>7. RefLookup(docs, stage, row) =
        IF stage.required /\ n = 0 THEN <<>>
        ELSE <<Attach(row, IF stage.mode = "one" THEN Least(n, 2) ELSE n)>>
  BY <1>1, <1>6 DEF RefLookup, d
<1>8. stage.mode = "one" => Least(n, 1) = n /\ Least(n, 2) = n BY <1>6 DEF Least
<1> QED BY <1>4, <1>7, <1>8 DEF LookedUp

\* So is an answer that was read with budget left to read on (executeLookup), and it is
\* remembered as the answer of its key.
LEMMA ReadIsMeant ==
  ASSUME WorldTyped, NEW stage \in Stages, stage.kind = "lookup", NEW row, row.key \in Keys,
         NEW left \in Nat, NEW max \in Nat, max = Least(Least(stage.limit, OneCap(stage)), left),
         NEW n \in Nat, n = Least(max, docs[row.key]), n < left, stage.mode = "one" => n <= 1
  PROVE  /\ LookedUp(stage, row, n) = RefLookup(docs, stage, row)
         /\ n = Least(docs[row.key], LookupKey(stage, row.key, max).limit)
<1> DEFINE d == docs[row.key]
<1>1. d \in Nat /\ d <= 99 /\ row.key # Missing BY DocsOfKey, Numbers, FdqlAssumption
<1>3. stage.limit \in Nat /\ stage.mode \in {"one", "many"} BY LookupStage
<1>4. n = Least(max, d) OBVIOUS
<1> HIDE DEF d
<1>5. n = Least(d, stage.limit) BY <1>1, <1>3, <1>4, Numbers DEF OneCap, Least
<1>6. RefLookup(docs, stage, row) =
        IF stage.required /\ n = 0 THEN <<>>
        ELSE <<Attach(row, IF stage.mode = "one" THEN Least(n, 2) ELSE n)>>
  BY <1>1, <1>5 DEF RefLookup, d
<1>7. stage.mode = "one" => Least(n, 1) = n /\ Least(n, 2) = n BY DEF Least
<1>8. n = Least(d, LookupKey(stage, row.key, max).limit)
  BY <1>1, <1>3, <1>4, <1>5, Numbers DEF LookupKey, Least
<1> QED BY <1>6, <1>7, <1>8 DEF LookedUp, d

----------------
\* The step of one run r to t leaves what the others have meant.
LEMMA OneMeant ==
  ASSUME FdqlInv, CancelInv, MeantInv, FdqlInv', NEW r \in Runs, NEW t, Becomes(r, t),
         docs' = docs, clock' = clock, UnderWay(t),
         t.pc = "done" /\ t.reason = "completed" /\ Plan(t).kind = "read" /\ ~t.bent /\ ~t.disturbed =>
           t.shown = Answer(docs, Plan(t))
  PROVE  MeantInv'
<1>1. run' = [run EXCEPT ![r] = t] /\ DOMAIN run = Runs BY DEF Becomes, CancelInv
<1>2. run'[r] = t /\ \A q \in Runs \ {r} : run'[q] = run[q] BY <1>1
<1>3. \A q \in Runs : UnderWay(run'[q]) BY <1>2 DEF MeantInv
<1>4. ASSUME NEW q \in Runs, UnderWay(run'[q]) PROVE UnderWay(run[q])'
  <2>1. Exact(run'[q]) <=> Exact(run[q])' BY DEF Exact
  <2>2. MemoryMeant(run'[q]) => MemoryMeant(run[q])' BY DEF MemoryMeant
  <2>3. SourceMeant(run'[q]) => SourceMeant(run[q])'
    BY DEF SourceMeant, LeftAtFirst, Stopped, Plan, Branch
  <2>4. StageMeant(run'[q]) => StageMeant(run[q])'
    BY DEF StageMeant, LeftAtFirst, Plan, Branch, Stage
  <2>5. ShownMeant(run'[q]) => ShownMeant(run[q])' BY DEF ShownMeant, Before, Plan, Branch
  <2> QED BY <1>4, <2>1, <2>2, <2>3, <2>4, <2>5 DEF UnderWay
<1>5. t.reason = "completed" => t.pc = "done"
  <2>1. RunTyped(run'[r])
    <3>1. RunTyped(run[r])' BY DEF FdqlInv, RunOK
    <3> QED BY <3>1 DEF RunTyped
  <2> QED BY <1>2, <2>1 DEF RunTyped
<1>6. ASSUME NEW q \in Runs, run'[q].reason = "completed", Plan(run'[q]).kind = "read", ~run'[q].bent,
             ~run'[q].disturbed
      PROVE  run'[q].shown = Answer(docs, Plan(run'[q]))
  BY <1>2, <1>5, <1>6 DEF MeantInv, CompletedIsAnswer
<1>7. CompletedIsAnswer' BY <1>6 DEF CompletedIsAnswer, Plan
<1> QED BY <1>3, <1>4, <1>7 DEF MeantInv

\* A run goes on,
LEMMA OnMeant ==
  ASSUME FdqlInv, CancelInv, MeantInv, FdqlInv', NEW r \in Runs, NEW t,
         Goes(r, t) \/ Sends(r, t) \/ Resumes(r, t), t.pc # "done", UnderWay(t)
  PROVE  MeantInv'
BY OneMeant DEF Goes, Sends, Resumes

\* or ends without having completed.
LEMMA EndMeant ==
  ASSUME FdqlInv, CancelInv, MeantInv, FdqlInv', NEW r \in Runs, NEW s, DOMAIN s = RunFields,
         NEW reason, reason # "completed", Becomes(r, Over(s, reason)), docs' = docs, clock' = clock
  PROVE  MeantInv'
BY OverEnds, OneMeant DEF UnderWay

LEMMA StopsMeant ==
  ASSUME FdqlInv, CancelInv, MeantInv, FdqlInv', NEW r \in Runs, NEW s, DOMAIN s = RunFields, NEW u,
         \/ Ends(r, s, StopBefore(u)) \/ Ends(r, s, "failed") \/ Ends(r, s, "budget")
         \/ Ends(r, s, StopAfter(u))
  PROVE  MeantInv'
<1>1. StopBefore(u) # "completed" /\ StopAfter(u) # "completed" BY DEF StopBefore, StopAfter
<1>2. PICK reason : Ends(r, s, reason) /\ reason # "completed" BY <1>1
<1>3. Becomes(r, Over(s, reason)) /\ docs' = docs /\ clock' = clock BY <1>2 DEF Ends
<1> QED BY <1>2, <1>3, EndMeant

\* What a step keeps of a run, and does not make exact again.
Past(t, s) ==
  /\ t.plan = s.plan /\ t.branch = s.branch /\ t.shown = s.shown
  /\ (s.bent => t.bent) /\ (s.disturbed => t.disturbed) /\ (s.spent => t.spent)

LEMMA PastIsMeant ==
  ASSUME NEW s, NEW t, Past(t, s), UnderWay(s), s.pc \notin {"new", "done"}, Exact(t)
  PROVE  /\ MemoryMeant(s) /\ SourceMeant(s) /\ StageMeant(s) /\ ShownMeant(s)
         /\ ~s.bent /\ ~s.disturbed /\ ~s.spent
         /\ t.memory = s.memory => MemoryMeant(t)
         /\ Before(t) = Before(s) /\ Branch(t) = Branch(s) /\ Plan(t) = Plan(s)
         /\ s.pc # "return" /\ t.pc # "return" => ShownMeant(t)
<1>1. Exact(s) BY DEF Past, Exact
<1>2. Before(t) = Before(s) /\ Branch(t) = Branch(s) /\ Plan(t) = Plan(s) BY DEF Past, Before, Branch, Plan
<1>3. MemoryMeant(s) /\ SourceMeant(s) /\ StageMeant(s) /\ ShownMeant(s) BY <1>1 DEF UnderWay
<1>4. t.memory = s.memory => MemoryMeant(t) BY <1>3 DEF MemoryMeant
<1>5. s.pc # "return" /\ t.pc # "return" => ShownMeant(t) BY <1>2, <1>3 DEF ShownMeant, Past
<1> QED BY <1>1, <1>2, <1>3, <1>4, <1>5 DEF Exact

\* At the rows of a stage, a run that reads on for one of them.
LEMMA InnerMeant ==
  ASSUME NEW s, NEW t, Past(t, s), UnderWay(s), s.pc \in Inner, t.pc \in Inner, t.memory = s.memory,
         t.at = s.at, s.at # 0, t.todo = s.todo, t.next = s.next, s.at \in Nat,
         t.pc \in Pages /\ Exact(t) /\ Branch(s).stages # <<>> =>
           LeftAtFirst(t) > 0 \/ (s.pc \in Pages /\ LeftAtFirst(t) = LeftAtFirst(s))
  PROVE  UnderWay(t)
<1>1. SUFFICES ASSUME Exact(t) PROVE MemoryMeant(t) /\ SourceMeant(t) /\ StageMeant(t) /\ ShownMeant(t)
  BY DEF UnderWay
<1>2. s.pc \notin {"new", "done", "return"} /\ t.pc # "return" BY DEF Inner, Pages, Aggregates
<1>3. /\ StageMeant(s) /\ MemoryMeant(t) /\ ShownMeant(t) /\ Branch(t) = Branch(s)
  BY <1>1, <1>2, PastIsMeant
<1>4. Stage(t) = Stage(s) BY <1>3 DEF Stage
<1>5. StageMeant(t) BY <1>1, <1>3, <1>4 DEF StageMeant
<1> QED BY <1>3, <1>5 DEF SourceMeant

\* The source goes on, or ends, as all of it.
LEMMA FirstMeant ==
  ASSUME WorldTyped, NEW s, DOMAIN s = RunFields, AtStage(s), UnderWay(s),
         s.pc \notin {"new", "done", "return"}, NEW rows,
         Exact(s) => rows = RefSource(docs, Branch(s))
  PROVE  UnderWay(FirstStage(s, rows))
<1> DEFINE t == FirstStage(s, rows)
<1>1. /\ t.plan = s.plan /\ t.branch = s.branch /\ t.shown = s.shown /\ t.bent = s.bent /\ t.at = 1
      /\ t.disturbed = s.disturbed /\ t.spent = s.spent /\ t.memory = s.memory /\ t.pc = "stage"
      /\ t.todo = rows /\ t.next = <<>>
  BY DEF FirstStage, RunFields, NewRun
<1> HIDE DEF t
<1>2. SUFFICES ASSUME Exact(t) PROVE MemoryMeant(t) /\ SourceMeant(t) /\ StageMeant(t) /\ ShownMeant(t)
  BY DEF UnderWay, t
<1>3. Past(t, s) BY <1>1 DEF Past
<1>4. MemoryMeant(t) /\ ShownMeant(t) /\ Branch(t) = Branch(s) BY <1>1, <1>2, <1>3, PastIsMeant
<1>5. rows = RefSource(docs, Branch(s)) BY <1>1, <1>2 DEF Exact
<1>6. CASE Branch(s).stages = <<>>
  BY <1>1, <1>4, <1>5, <1>6 DEF StageMeant, SourceMeant, Inner, Pages, Aggregates
<1>7. CASE Branch(s).stages # <<>>
  <2> DEFINE b == Branch(s)
  <2>1. b \in Branches BY BranchRows DEF AtStage
  <2>2. b.stages \in Seq(Stages) BY <2>1 DEF Branches
  <2>3. 1 \in 1..Len(b.stages) /\ 1 \in 0..Len(b.stages) /\ 1 - 1 = 0 BY <1>7, <2>2
  <2> HIDE DEF b
  <2>4. /\ RefStages(docs, b)[1] \in Seq(Rows)
        /\ RefStages(docs, b)[0] = RefSource(docs, b)
        /\ RefStages(docs, b)[1] = StageAfter(b, 1, RefStages(docs, b)[1 - 1])
    BY <2>1, <2>3, RefStagesAre
  <2>5. RefStages(docs, b)[1] = RefStage(docs, b.stages[1], rows) BY <1>5, <2>3, <2>4 DEF StageAfter, b
  <2>6. <<>> \o RefStages(docs, b)[1] = RefStages(docs, b)[1] BY <2>4, ConcatEmptySeq
  <2>7. Stage(t) = b.stages[1] BY <1>1, <1>4 DEF Stage, b
  <2> QED BY <1>1, <1>4, <1>7, <2>5, <2>6, <2>7 DEF StageMeant, SourceMeant, Pages, b
<1> QED BY <1>6, <1>7

\* The end of a stage with all of its rows.
LEMMA NextStageMeant ==
  ASSUME WorldTyped, NEW s, DOMAIN s = RunFields, AtStage(s), UnderWay(s), s.at \in Nat,
         s.pc = "stage", Branch(s).stages # <<>>, NEW rows,
         Exact(s) => rows = RefStages(docs, Branch(s))[s.at]
  PROVE  UnderWay(NextStage(s, rows))
<1> DEFINE t == NextStage(s, rows)
<1> DEFINE b == Branch(s)
<1>1. /\ t.plan = s.plan /\ t.branch = s.branch /\ t.shown = s.shown /\ t.bent = s.bent
      /\ t.disturbed = s.disturbed /\ t.spent = s.spent /\ t.memory = s.memory /\ t.at = s.at + 1
      /\ t.todo = rows /\ t.next = <<>>
      /\ t.pc = IF rows = <<>> \/ s.at >= Len(b.stages) THEN "return" ELSE "stage"
  BY DEF NextStage, RunFields, NewRun
<1>2. b \in Branches /\ Before(s) \in Seq(Rows) BY BranchRows DEF AtStage
<1>3. b.stages \in Seq(Stages) BY <1>2 DEF Branches
<1>4. s.at \in 1..Len(b.stages) /\ Len(b.stages) \in Nat BY <1>3 DEF AtStage
<1> HIDE DEF t
<1>5. SUFFICES ASSUME Exact(t) PROVE MemoryMeant(t) /\ SourceMeant(t) /\ StageMeant(t) /\ ShownMeant(t)
  BY DEF UnderWay, t
<1>6. Past(t, s) BY <1>1 DEF Past
<1>7. /\ MemoryMeant(t) /\ ShownMeant(s) /\ Branch(t) = b /\ Before(t) = Before(s)
      /\ t.pc # "return" => ShownMeant(t)
  BY <1>1, <1>5, <1>6, PastIsMeant
<1>8. rows = RefStages(docs, b)[s.at] BY <1>1, <1>5 DEF Exact
<1>9. SourceMeant(t) BY <1>1, <1>4 DEF SourceMeant
<1> HIDE DEF b
<1>10. CASE rows = <<>> \/ s.at >= Len(b.stages)
  <2>1. s.at = Len(b.stages) \/ rows = <<>> BY <1>4, <1>10
  <2>2. rows = <<>> => RefStages(docs, b)[Len(b.stages)] = <<>> BY <1>2, <1>4, <1>8, RefStagesAre
  <2>3. rows = RefBranch(docs, b) BY <1>8, <2>1, <2>2 DEF RefBranch
  <2>4. ShownMeant(t) BY <1>1, <1>2, <1>7, <1>10, <2>3 DEF ShownMeant
  <2> QED BY <1>1, <1>7, <1>9, <1>10, <2>4 DEF StageMeant, Inner, Pages, Aggregates
<1>11. CASE ~(rows = <<>> \/ s.at >= Len(b.stages))
  <2> DEFINE i == s.at + 1
  <2>1. i \in 1..Len(b.stages) /\ i \in 0..Len(b.stages) /\ i - 1 = s.at BY <1>4, <1>11
  <2> HIDE DEF i
  <2>2. /\ RefStages(docs, b)[i] \in Seq(Rows)
        /\ RefStages(docs, b)[i] = StageAfter(b, i, RefStages(docs, b)[i - 1])
    BY <1>2, <2>1, RefStagesAre
  <2>3. RefStages(docs, b)[i] = RefStage(docs, b.stages[i], rows)
    BY <1>8, <1>11, <2>1, <2>2 DEF StageAfter
  <2>4. <<>> \o RefStages(docs, b)[i] = RefStages(docs, b)[i] BY <2>2, ConcatEmptySeq
  <2>5. Stage(t) = b.stages[i] /\ t.at = i BY <1>1, <1>7 DEF Stage, i
  <2>6. b.stages # <<>> BY DEF b
  <2> QED BY <1>1, <1>7, <1>9, <1>11, <2>3, <2>4, <2>5, <2>6 DEF StageMeant, Pages
<1> QED BY <1>10, <1>11

\* The next row of a stage, when the one before has got what it is to have.
Served(t, s, rows) ==
  /\ Past(t, s) /\ t.pc = "stage" /\ t.at = s.at /\ t.todo = Tail(s.todo) /\ t.next = s.next \o rows
  /\ (Exact(t) => Exact(s))

LEMMA NextRowMeant ==
  ASSUME WorldTyped, NEW s, AtStage(s), UnderWay(s), s.pc \in Inner, s.at \in Nat, s.at # 0,
         s.at \in DOMAIN Branch(s).stages, Stage(s).kind \in OfRows, s.todo \in Seq(Rows),
         s.next \in Seq(Rows), s.todo # <<>>, NEW rows, NEW t, Served(t, s, rows),
         Exact(t) => MemoryMeant(t) /\ rows = RefRow(docs, Stage(s), Head(s.todo))
  PROVE  UnderWay(t)
<1>0. /\ Past(t, s) /\ t.pc = "stage" /\ t.at = s.at /\ t.todo = Tail(s.todo)
      /\ t.next = s.next \o rows
  BY DEF Served
<1>1. SUFFICES ASSUME Exact(t) PROVE MemoryMeant(t) /\ SourceMeant(t) /\ StageMeant(t) /\ ShownMeant(t)
  BY DEF UnderWay
<1>2. s.pc \notin {"new", "done", "return"} BY DEF Inner, Pages, Aggregates
<1>3. StageMeant(s) /\ ShownMeant(t) /\ Branch(t) = Branch(s) BY <1>0, <1>1, <1>2, PastIsMeant
<1>4. Branch(s) \in Branches BY <1>2, BranchRows DEF AtStage
<1>5. Branch(s).stages \in Seq(Stages) BY <1>4 DEF Branches
<1>6. Stage(s) \in Stages /\ Stage(t) = Stage(s) /\ Branch(s).stages # <<>>
  BY <1>0, <1>3, <1>5 DEF Stage
<1>7. Head(s.todo) \in Rows /\ Tail(s.todo) \in Seq(Rows) BY HeadRow
<1> DEFINE last == RefStage(docs, Stage(s), Tail(s.todo))
<1>8. rows \in Seq(Rows) /\ last \in Seq(Rows) BY <1>1, <1>6, <1>7, RefRowRows, RefStageRows
<1>9. RefStage(docs, Stage(s), s.todo) = rows \o last BY <1>1, <1>6, RefStageRows
<1> HIDE DEF last
<1>10. (s.next \o rows) \o last = s.next \o (rows \o last) BY <1>8, RowsInTurn
<1>13. s.at > 0 OBVIOUS
<1>14. s.next \o RefStage(docs, Stage(s), s.todo) = RefStages(docs, Branch(s))[s.at]
  BY <1>3, <1>6, <1>13 DEF StageMeant
<1>11. s.next \o (rows \o last) = RefStages(docs, Branch(s))[s.at] BY <1>9, <1>14
<1>12. StageMeant(t) BY <1>0, <1>3, <1>6, <1>10, <1>11 DEF StageMeant, Pages, last
<1> QED BY <1>0, <1>1, <1>3, <1>12 DEF SourceMeant

\* A read goes on, or is over with all it may have.
LEMMA PagesMeant ==
  ASSUME NEW s, NEW t, Past(t, s), UnderWay(s), s.pc \in Pages, t.pc \in Pages, t.memory = s.memory,
         s.at \in Nat, s.got \in Nat, s.reads \in Nat, t.at = s.at, t.max = s.max, t.todo = s.todo,
         \/ t.got = s.got /\ t.reads = s.reads /\ t.next = s.next
         \/ /\ t.got = s.got + 1 /\ t.reads = s.reads + 1
            /\ t.next = IF s.at = 0 THEN Append(s.next, Row(KeyOf[s.got + 1], <<>>)) ELSE s.next
            /\ s.at = 0 /\ Exact(t) => t.reads < Plan(s).budget,
         s.at = 0 /\ Exact(t) /\ t.pc = "read" /\ ~Stopped(t) => t.got = Least(t.max, docs[Source])
  PROVE  UnderWay(t)
<1>1. Plan(t) = Plan(s) BY DEF Past, Plan
<1>2. LeftAtFirst(t) = LeftAtFirst(s) BY <1>1 DEF LeftAtFirst
<1>3. CASE s.at # 0 BY <1>2, <1>3, InnerMeant DEF Inner
<1>4. CASE s.at = 0
  <2>1. SUFFICES ASSUME Exact(t) PROVE MemoryMeant(t) /\ SourceMeant(t) /\ StageMeant(t) /\ ShownMeant(t)
    BY DEF UnderWay
  <2>2. s.pc \notin {"new", "done", "return"} /\ t.pc # "return" BY DEF Pages
  <2>3. SourceMeant(s) /\ MemoryMeant(t) /\ ShownMeant(t) /\ Branch(t) = Branch(s)
    BY <2>1, <2>2, PastIsMeant
  <2>4. /\ ~Branch(s).aggregated /\ LeftAtFirst(s) > 0
        /\ s.max = Least(Least(Branch(s).limit, NoLimit), LeftAtFirst(s))
        /\ s.got > 0 => s.reads < Plan(s).budget
        /\ s.next = [i \in 1..s.got |-> Row(KeyOf[i], <<>>)]
    BY <1>4, <2>3 DEF SourceMeant
  <2>5. t.next = [i \in 1..t.got |-> Row(KeyOf[i], <<>>)]
    <3> DEFINE e(i) == Row(KeyOf[i], <<>>)
    <3>1. s.next = [i \in 1..s.got |-> e(i)] BY <2>4
    <3> HIDE DEF e
    <3>2. CASE t.got = s.got /\ t.next = s.next BY <3>1, <3>2 DEF e
    <3>3. CASE t.got = s.got + 1 /\ t.next = Append(s.next, e(s.got + 1)) BY <3>1, <3>3 DEF e
    <3> QED BY <1>4, <3>2, <3>3 DEF e
  <2>6. t.got > 0 => t.reads < Plan(s).budget BY <1>4, <2>1, <2>4
  <2>7. t.pc \notin Aggregates /\ t.pc # "branch" BY DEF Pages, Aggregates
  <2>8. SourceMeant(t) BY <1>1, <1>2, <1>4, <2>1, <2>3, <2>4, <2>5, <2>6, <2>7 DEF SourceMeant
  <2> QED BY <1>4, <2>3, <2>8 DEF StageMeant
<1> QED BY <1>3, <1>4

----------------
\* A run between two of its steps.
LEMMA MeantFound ==
  ASSUME FdqlInv, CancelInv, MeantInv, NEW r \in Runs
  PROVE  LET s == run[r]
         IN /\ DOMAIN s = RunFields /\ UnderWay(s) /\ AtStage(s) /\ PagesRead(s) /\ WithinBudget(s)
            /\ CountRead(s) /\ WorldTyped /\ s.todo \in Seq(Rows) /\ s.next \in Seq(Rows)
            /\ s.at \in Nat /\ s.got \in Nat /\ s.reads \in Nat /\ s.max \in Nat /\ s.page \in Nat
            /\ s.bent \in BOOLEAN /\ s.disturbed \in BOOLEAN /\ s.spent \in BOOLEAN
BY RunFound DEF MeantInv, RunOK, RunTyped

\* A run whose pages change nothing but where it is.
Moved(t, s) ==
  /\ Past(t, s) /\ t.got = s.got /\ t.reads = s.reads /\ t.next = s.next /\ t.memory = s.memory
  /\ t.at = s.at /\ t.max = s.max /\ t.todo = s.todo
  /\ (Stopped(t) <=> Stopped(s)) /\ (Exact(t) => Exact(s))

LEMMA MovesMeant ==
  ASSUME NEW s, NEW t, UnderWay(s), s.pc \in Pages, s.at \in Nat, s.got \in Nat,
         s.reads \in Nat, Moved(t, s), t.pc \in Pages,
         s.at = 0 /\ Exact(s) /\ t.pc = "read" /\ ~Stopped(s) => s.got = Least(s.max, docs[Source])
  PROVE  UnderWay(t) /\ t.pc # "done"
<1>1. UnderWay(t) BY PagesMeant DEF Moved
<1> QED BY <1>1 DEF Pages

LEMMA AskMeant ==
  ASSUME FdqlInv, CancelInv, MeantInv, FdqlInv', NEW r \in Runs, Ask(r)
  PROVE  MeantInv'
<1>1. PICK s : s = run[r] OBVIOUS
<1>2. /\ DOMAIN s = RunFields /\ UnderWay(s) /\ s.at \in Nat /\ s.got \in Nat /\ s.reads \in Nat
      /\ s.max \in Nat /\ s.page \in Nat /\ PagesRead(s) /\ s.pc = "ask" /\ WorldTyped
  BY <1>1, MeantFound DEF Ask
<1>3. PICK t : /\ Goes(r, t) \/ Sends(r, t)
               /\ \/ t = [s EXCEPT !.pc = "read"] /\ (s.got >= s.max \/ Stopped(s))
                  \/ t = [s EXCEPT !.pc = "paging", !.asked = @ + 1]
  BY <1>1, <1>2 DEF Ask
<1>4. t.pc \in {"paging", "read"} /\ (t.pc = "read" => s.got >= s.max \/ Stopped(s))
  BY <1>2, <1>3 DEF RunFields, NewRun
<1>5. Moved(t, s)
  <2>1. CASE t = [s EXCEPT !.pc = "read"]
    BY <1>2, <2>1 DEF Moved, Past, Stopped, Exact, RunFields, NewRun
  <2>2. CASE t = [s EXCEPT !.pc = "paging", !.asked = @ + 1]
    BY <1>2, <2>2 DEF Moved, Past, Stopped, Exact, RunFields, NewRun
  <2> QED BY <1>3, <2>1, <2>2
<1>6. s.at = 0 /\ Exact(s) /\ t.pc = "read" /\ ~Stopped(s) => s.got = Least(s.max, docs[Source])
  <2>1. SUFFICES ASSUME s.at = 0, Exact(s), t.pc = "read", ~Stopped(s) PROVE s.got = Least(s.max, docs[Source])
    OBVIOUS
  <2>2. s.got + s.page <= s.max /\ s.got <= docs[Source]
    BY <1>2, <2>1 DEF PagesRead, Pages, Exact, Reading
  <2>3. s.got = s.max BY <1>2, <1>4, <2>1, <2>2
  <2>4. docs[Source] \in Nat BY <1>2, Numbers DEF WorldTyped, Collections
  <2> QED BY <1>2, <2>2, <2>3, <2>4 DEF Least
<1>8. s.pc \in Pages /\ t.pc \in Pages BY <1>2, <1>4 DEF Pages
<1>7. UnderWay(t) /\ t.pc # "done" BY <1>2, <1>5, <1>6, <1>8, MovesMeant
<1> QED BY <1>3, <1>7, OnMeant

LEMMA PageArrivesMeant ==
  ASSUME FdqlInv, CancelInv, MeantInv, FdqlInv', NEW r \in Runs, PageArrives(r)
  PROVE  MeantInv'
<1>1. PICK s : s = run[r] OBVIOUS
<1>2. /\ DOMAIN s = RunFields /\ UnderWay(s) /\ s.at \in Nat /\ s.got \in Nat /\ s.reads \in Nat
      /\ s.max \in Nat /\ s.page \in Nat /\ PagesRead(s) /\ s.pc = "paging" /\ WorldTyped /\ AtStage(s)
  BY <1>1, MeantFound DEF PageArrives
<1> DEFINE left == docs[Reading(s)] - s.got
<1> DEFINE n == IF left <= 0 THEN 0 ELSE Least(PageLimit(s), left)
<1>3. CASE Stopped(s) \/ n = 0
  <2>1. Resumes(r, [s EXCEPT !.pc = "read"]) BY <1>1, <1>3 DEF PageArrives
  <2>2. PICK t : t = [s EXCEPT !.pc = "read"] OBVIOUS
  <2>3. Moved(t, s) /\ t.pc = "read" BY <1>2, <2>2 DEF Moved, Past, Stopped, Exact, RunFields, NewRun
  <2>4. s.at = 0 /\ Exact(s) /\ ~Stopped(s) => s.got = Least(s.max, docs[Source])
    <3>1. SUFFICES ASSUME s.at = 0, Exact(s), ~Stopped(s) PROVE s.got = Least(s.max, docs[Source])
      OBVIOUS
    <3>2. s.got < s.max /\ s.got <= docs[Source] /\ Reading(s) = Source
      BY <1>2, <3>1 DEF PagesRead, Pages, Exact, Reading
    <3>3. docs[Source] \in Nat BY <1>2, Numbers DEF WorldTyped, Collections
    <3>4. Plan(s).pageSize \in Nat /\ Plan(s).pageSize > 0 BY <1>2, BranchFound
    <3>5. PageLimit(s) \in Nat /\ PageLimit(s) > 0 BY <1>2, <3>2, <3>4 DEF PageLimit, Least
    <3>6. docs[Source] - s.got <= 0
      <4>1. n = 0 BY <1>3, <3>1
      <4>2. ~(left <= 0) => n = PageLimit(s) \/ n = left BY DEF Least
      <4>3. left = docs[Source] - s.got BY <3>2
      <4> HIDE DEF n, left
      <4> QED BY <1>2, <3>3, <3>5, <4>1, <4>2, <4>3
    <3> QED BY <1>2, <3>2, <3>3, <3>6 DEF Least
  <2>5. UnderWay(t) /\ t.pc # "done" BY <1>2, <2>3, <2>4, MovesMeant DEF Pages
  <2> QED BY <2>1, <2>2, <2>5, OnMeant
<1>4. CASE ~(Stopped(s) \/ n = 0)
  <2>1. PICK short : Resumes(r, [s EXCEPT !.pc = "docs", !.page = n, !.short = short])
    BY <1>1, <1>4 DEF PageArrives
  <2> HIDE DEF n
  <2>2. PICK t : t = [s EXCEPT !.pc = "docs", !.page = n, !.short = short] OBVIOUS
  <2>3. Moved(t, s) /\ t.pc = "docs" BY <1>2, <2>2 DEF Moved, Past, Stopped, Exact, RunFields, NewRun
  <2>4. UnderWay(t) /\ t.pc # "done" BY <1>2, <2>3, MovesMeant DEF Pages
  <2> QED BY <2>1, <2>2, <2>4, OnMeant
<1> QED BY <1>3, <1>4

\* A run that waits for an aggregate, or has it, before its rows are made.
LEMMA CountsMeant ==
  ASSUME NEW s, NEW t, Past(t, s), UnderWay(s), s.pc \in Aggregates, t.pc \in Aggregates, s.at \in Nat,
         t.memory = s.memory, t.at = s.at, t.todo = s.todo, t.next = s.next
  PROVE  UnderWay(t) /\ t.pc # "done"
<1>1. s.at # 0 => UnderWay(t) BY InnerMeant DEF Inner, Aggregates, Pages
<1>2. s.at = 0 => UnderWay(t)
  <2>1. SUFFICES ASSUME s.at = 0, Exact(t)
                 PROVE  MemoryMeant(t) /\ SourceMeant(t) /\ StageMeant(t) /\ ShownMeant(t)
    BY DEF UnderWay
  <2>2. SourceMeant(s) /\ MemoryMeant(t) /\ ShownMeant(t) /\ Branch(t) = Branch(s)
    BY <2>1, PastIsMeant DEF Aggregates
  <2> QED BY <2>1, <2>2 DEF SourceMeant, StageMeant, Aggregates, Pages
<1> QED BY <1>1, <1>2 DEF Aggregates

LEMMA AbandonMeant ==
  ASSUME FdqlInv, CancelInv, MeantInv, FdqlInv', NEW r \in Runs, Abandon(r)
  PROVE  MeantInv'
<1>1. PICK s : s = run[r] OBVIOUS
<1>2. /\ DOMAIN s = RunFields /\ UnderWay(s) /\ s.at \in Nat /\ s.got \in Nat /\ s.reads \in Nat
      /\ Stopped(s)
  BY <1>1, MeantFound DEF Abandon
<1>3. CASE s.pc = "paging" /\ Resumes(r, [s EXCEPT !.pc = "read"])
  <2>1. PICK t : t = [s EXCEPT !.pc = "read"] OBVIOUS
  <2>2. Moved(t, s) /\ t.pc = "read" BY <1>2, <2>1 DEF Moved, Past, Stopped, Exact, RunFields, NewRun
  <2>3. UnderWay(t) /\ t.pc # "done" BY <1>2, <1>3, <2>2, MovesMeant DEF Pages
  <2> QED BY <1>3, <2>1, <2>3, OnMeant
<1>4. CASE s.pc = "aggregating" /\ Resumes(r, [s EXCEPT !.pc = "aggregated"])
  <2>1. PICK t : t = [s EXCEPT !.pc = "aggregated"] OBVIOUS
  <2>2. /\ Past(t, s) /\ t.pc = "aggregated" /\ t.memory = s.memory /\ t.at = s.at /\ t.todo = s.todo
        /\ t.next = s.next
    BY <1>2, <2>1 DEF Past, RunFields, NewRun
  <2>3. UnderWay(t) /\ t.pc # "done" BY <1>2, <1>4, <2>2, CountsMeant DEF Aggregates
  <2> QED BY <1>4, <2>1, <2>3, OnMeant
<1> QED BY <1>1, <1>3, <1>4 DEF Abandon

LEMMA ConnectedMeant ==
  ASSUME FdqlInv, CancelInv, MeantInv, FdqlInv', NEW r \in Runs, Connected(r)
  PROVE  MeantInv'
<1>1. PICK s : s = run[r] OBVIOUS
<1>2. DOMAIN s = RunFields /\ UnderWay(s) /\ s.at \in Nat /\ s.got \in Nat /\ s.reads \in Nat
  BY <1>1, MeantFound
<1>3. CASE s.pc = "connectRead"
  <2>1. PICK t : t = [s EXCEPT !.pc = "ask"] OBVIOUS
  <2>2. Moved(t, s) /\ t.pc = "ask" BY <1>2, <2>1 DEF Moved, Past, Stopped, Exact, RunFields, NewRun
  <2>3. UnderWay(t) /\ t.pc # "done" BY <1>2, <1>3, <2>2, MovesMeant DEF Pages
  <2>4. Resumes(r, t) BY <1>1, <1>3, <2>1 DEF Connected
  <2> QED BY <2>3, <2>4, OnMeant
<1>4. CASE s.pc = "connectAggregate"
  <2>1. PICK pc : pc = IF Stopped(s) THEN "aggregated" ELSE "aggregating" OBVIOUS
  <2>2. PICK t : t = [[s EXCEPT !.asked = @ + 1] EXCEPT !.pc = pc] OBVIOUS
  <2>3. /\ Past(t, s) /\ t.pc = pc /\ t.memory = s.memory /\ t.at = s.at /\ t.todo = s.todo
        /\ t.next = s.next
    BY <1>2, <2>2 DEF Past, RunFields, NewRun
  <2>4. UnderWay(t) /\ t.pc # "done" BY <1>2, <1>4, <2>1, <2>3, CountsMeant DEF Aggregates
  <2>5. Resumes(r, t) \/ Sends(r, t) BY <1>1, <1>4, <2>1, <2>2 DEF Connected
  <2> QED BY <2>4, <2>5, OnMeant
<1> QED BY <1>1, <1>3, <1>4 DEF Connected

LEMMA RequestFailsMeant ==
  ASSUME FdqlInv, CancelInv, MeantInv, FdqlInv', NEW r \in Runs, RequestFails(r)
  PROVE  MeantInv'
<1>1. PICK s : s = run[r] OBVIOUS
<1>2. DOMAIN s = RunFields BY <1>1, MeantFound
<1>3. Becomes(r, Over(s, "failed")) /\ docs' = docs /\ clock' = clock BY <1>1 DEF RequestFails
<1> QED BY <1>2, <1>3, EndMeant

LEMMA DocumentMeant ==
  ASSUME FdqlInv, CancelInv, MeantInv, FdqlInv', NEW r \in Runs, Document(r)
  PROVE  MeantInv'
<1>1. PICK s : s = run[r] OBVIOUS
<1>2. /\ DOMAIN s = RunFields /\ UnderWay(s) /\ s.at \in Nat /\ s.got \in Nat /\ s.reads \in Nat
      /\ s.max \in Nat /\ s.page \in Nat /\ PagesRead(s) /\ s.pc = "docs" /\ WorldTyped /\ AtStage(s)
  BY <1>1, MeantFound DEF Document
<1>3. PICK read : read = [s EXCEPT !.reads = @ + 1, !.got = @ + 1, !.page = @ - 1,
                        !.next = IF s.at = 0 THEN Append(@, Row(KeyOf[s.got + 1], <<>>)) ELSE @]
  OBVIOUS
<1>4. PICK more : more = IF read.got = s.max \/ (read.page = 0 /\ s.short) THEN "read"
              ELSE IF read.page = 0 THEN "ask" ELSE "docs"
  OBVIOUS
<1>5. \/ Stopped(s) /\ Goes(r, [s EXCEPT !.pc = "read"])
      \/ Goes(r, [read EXCEPT !.spent = TRUE, !.pc = "read"])
      \/ (s.at = 0 => ~(read.reads >= Plan(s).budget)) /\ Goes(r, [read EXCEPT !.pc = more])
      \/ Ends(r, read, StopAfter(read))
  BY <1>1, <1>3, <1>4 DEF Document
<1>6. /\ DOMAIN read = RunFields /\ read.got = s.got + 1 /\ read.reads = s.reads + 1
      /\ read.page = s.page - 1 /\ read.plan = s.plan /\ read.branch = s.branch /\ read.shown = s.shown
      /\ read.bent = s.bent /\ read.disturbed = s.disturbed /\ read.spent = s.spent
      /\ read.memory = s.memory /\ read.at = s.at /\ read.max = s.max /\ read.todo = s.todo
      /\ read.next = IF s.at = 0 THEN Append(s.next, Row(KeyOf[s.got + 1], <<>>)) ELSE s.next
  BY <1>2, <1>3 DEF RunFields, NewRun
<1>7. CASE Stopped(s) /\ Goes(r, [s EXCEPT !.pc = "read"])
  <2>1. PICK t : t = [s EXCEPT !.pc = "read"] OBVIOUS
  <2>2. Moved(t, s) /\ t.pc = "read" BY <1>2, <2>1 DEF Moved, Past, Stopped, Exact, RunFields, NewRun
  <2>3. UnderWay(t) /\ t.pc # "done" BY <1>2, <1>7, <2>2, MovesMeant DEF Pages
  <2> QED BY <1>7, <2>1, <2>3, OnMeant
<1>8. CASE Goes(r, [read EXCEPT !.spent = TRUE, !.pc = "read"])
  <2>1. PICK t : t = [read EXCEPT !.spent = TRUE, !.pc = "read"] OBVIOUS
  <2>2. t.spent = TRUE /\ t.pc = "read" BY <1>6, <2>1 DEF RunFields, NewRun
  <2>3. UnderWay(t) BY <2>2 DEF UnderWay, Exact
  <2> QED BY <1>8, <2>1, <2>2, <2>3, OnMeant
<1>9. CASE (s.at = 0 => ~(read.reads >= Plan(s).budget)) /\ Goes(r, [read EXCEPT !.pc = more])
  <2>1. PICK t : t = [read EXCEPT !.pc = more] OBVIOUS
  <2>2. /\ t.plan = s.plan /\ t.branch = s.branch /\ t.shown = s.shown /\ t.bent = s.bent
        /\ t.disturbed = s.disturbed /\ t.spent = s.spent /\ t.memory = s.memory /\ t.at = s.at
        /\ t.max = s.max /\ t.todo = s.todo /\ t.got = s.got + 1 /\ t.reads = s.reads + 1
        /\ t.next = IF s.at = 0 THEN Append(s.next, Row(KeyOf[s.got + 1], <<>>)) ELSE s.next
        /\ t.pc = more
    BY <1>6, <2>1 DEF RunFields, NewRun
  <2>3. Past(t, s) BY <2>2 DEF Past
  <2>4. s.pc \in Pages /\ t.pc \in Pages /\ t.pc # "done" BY <1>2, <1>4, <2>2 DEF Pages
  <2>5. s.at = 0 => t.reads < Plan(s).budget
    <3>1. Plan(s).budget \in Nat BY <1>2, BranchFound
    <3> QED BY <1>2, <1>6, <1>9, <2>2, <3>1
  <2>6. s.at = 0 /\ t.pc = "read" => t.got = Least(t.max, docs[Source])
    <3>1. SUFFICES ASSUME s.at = 0, more = "read" PROVE t.got = Least(t.max, docs[Source]) BY <2>2
    <3>2. docs[Source] \in Nat BY <1>2, Numbers DEF WorldTyped, Collections
    <3>3. /\ s.got + s.page <= s.max /\ s.page > 0 /\ s.got + s.page <= docs[Source]
          /\ s.short => s.got + s.page = docs[Source]
      BY <1>2, <3>1 DEF PagesRead, Pages, Reading
    <3>4. s.got + 1 = s.max \/ (s.page = 1 /\ s.short) BY <1>2, <1>4, <1>6, <3>1
    <3> QED BY <1>2, <2>2, <3>2, <3>3, <3>4 DEF Least
  <2>7. UnderWay(t) BY <1>2, <2>2, <2>3, <2>4, <2>5, <2>6, PagesMeant
  <2> QED BY <1>9, <2>1, <2>4, <2>7, OnMeant
<1>10. CASE Ends(r, read, StopAfter(read)) BY <1>6, <1>10, StopsMeant
<1> QED BY <1>5, <1>7, <1>8, <1>9, <1>10

LEMMA BeginBranchMeant ==
  ASSUME FdqlInv, CancelInv, MeantInv, FdqlInv', NEW r \in Runs, BeginBranch(r)
  PROVE  MeantInv'
<1>1. PICK s : s = run[r] OBVIOUS
<1>2. /\ DOMAIN s = RunFields /\ UnderWay(s) /\ s.reads \in Nat /\ s.pc = "branch" /\ WorldTyped
      /\ AtStage(s) /\ s.at = 0 /\ s.got = 0
  BY <1>1, MeantFound DEF BeginBranch, AtStage
<1>3. CASE Ends(r, s, StopBefore(s)) BY <1>2, <1>3, StopsMeant
<1>4. CASE Branch(s).aggregated /\ Sends(r, [s EXCEPT !.pc = "connectAggregate"])
  <2>1. PICK t : t = [s EXCEPT !.pc = "connectAggregate"] OBVIOUS
  <2>2. /\ t.plan = s.plan /\ t.branch = s.branch /\ t.shown = s.shown /\ t.bent = s.bent
        /\ t.disturbed = s.disturbed /\ t.spent = s.spent /\ t.memory = s.memory /\ t.at = 0
        /\ t.pc = "connectAggregate"
    BY <1>2, <2>1 DEF RunFields, NewRun
  <2>3. Past(t, s) BY <2>2 DEF Past
  <2>4. UnderWay(t)
    <3>1. SUFFICES ASSUME Exact(t) PROVE MemoryMeant(t) /\ SourceMeant(t) /\ StageMeant(t) /\ ShownMeant(t)
      BY DEF UnderWay
    <3>2. MemoryMeant(t) /\ ShownMeant(t) /\ Branch(t) = Branch(s)
      BY <1>2, <2>2, <2>3, <3>1, PastIsMeant
    <3> QED BY <1>4, <2>2, <3>2 DEF SourceMeant, StageMeant, Pages
  <2> QED BY <1>4, <2>1, <2>2, <2>4, OnMeant
<1> DEFINE request == [s EXCEPT !.max = MaxDocuments(s, Branch(s).limit, NoLimit),
                           !.bent = @ \/ (Remaining(s) = 0 /\ ~Branch(s).aggregated)]
<1>5. CASE ~Branch(s).aggregated /\ Sends(r, [request EXCEPT !.pc = "connectRead"])
  <2>1. PICK t : t = [request EXCEPT !.pc = "connectRead"] OBVIOUS
  <2>2. /\ t.plan = s.plan /\ t.branch = s.branch /\ t.shown = s.shown
        /\ t.disturbed = s.disturbed /\ t.spent = s.spent /\ t.memory = s.memory /\ t.at = 0
        /\ t.pc = "connectRead" /\ t.next = s.next /\ t.got = 0 /\ t.reads = s.reads
        /\ t.max = MaxDocuments(s, Branch(s).limit, NoLimit)
        /\ t.bent = (s.bent \/ (Remaining(s) = 0 /\ ~Branch(s).aggregated))
    BY <1>2, <2>1 DEF RunFields, NewRun
  <2>3. Past(t, s) BY <2>2 DEF Past
  <2>4. UnderWay(t)
    <3>1. SUFFICES ASSUME Exact(t) PROVE MemoryMeant(t) /\ SourceMeant(t) /\ StageMeant(t) /\ ShownMeant(t)
      BY DEF UnderWay
    <3>2. MemoryMeant(t) /\ ShownMeant(t) /\ Branch(t) = Branch(s) /\ Plan(t) = Plan(s) /\ SourceMeant(s)
      BY <1>2, <2>2, <2>3, <3>1, PastIsMeant
    <3>3. Plan(s).budget \in Nat BY <1>2, BranchFound
    <3>4. LeftAtFirst(t) = Remaining(s) BY <1>2, <2>2, <3>2, <3>3 DEF LeftAtFirst, Remaining
    <3>5. Remaining(s) \in Nat BY <1>2, <3>3 DEF Remaining
    <3>9. Remaining(s) # 0 BY <1>5, <2>2, <3>1 DEF Exact
    <3>6. t.next = <<>> BY <1>2, <2>2, <3>2 DEF SourceMeant
    <3>7. [i \in 1..t.got |-> Row(KeyOf[i], <<>>)] = <<>> BY <2>2
    <3>8. SourceMeant(t)
      BY <1>5, <2>2, <3>2, <3>4, <3>5, <3>6, <3>7, <3>9 DEF SourceMeant, MaxDocuments, Aggregates
    <3> QED BY <2>2, <3>2, <3>8 DEF StageMeant
  <2> QED BY <1>5, <2>1, <2>2, <2>4, OnMeant
<1> QED BY <1>1, <1>3, <1>4, <1>5 DEF BeginBranch

\* A source that has been read without a stop is all the rows it is to have.
LEMMA SourceIsRead ==
  ASSUME WorldTyped, NEW s, AtStage(s), SourceMeant(s), s.pc = "read", s.at = 0, ~Stopped(s),
         s.got \in Nat, s.reads \in Nat
  PROVE  s.next = RefSource(docs, Branch(s))
<1>1. /\ ~Branch(s).aggregated /\ LeftAtFirst(s) > 0
      /\ s.max = Least(Least(Branch(s).limit, NoLimit), LeftAtFirst(s))
      /\ s.got > 0 => s.reads < Plan(s).budget
      /\ s.next = [i \in 1..s.got |-> Row(KeyOf[i], <<>>)]
      /\ s.got = Least(s.max, docs[Source])
  BY DEF SourceMeant, Pages
<1>2. docs[Source] \in Nat /\ docs[Source] <= 99
  <2>1. docs[Source] \in 0..MaxDocs BY DEF WorldTyped, Collections
  <2> QED BY <2>1, Numbers
<1>3. Plan(s).budget \in Nat /\ Branch(s).limit \in Nat BY BranchFound
<1>4. LeftAtFirst(s) = Plan(s).budget - (s.reads - s.got) BY <1>1, <1>3 DEF LeftAtFirst
<1> DEFINE left == LeftAtFirst(s)
<1>5. left \in Nat /\ (s.got > 0 => s.got < left) /\ left > 0 BY <1>1, <1>3, <1>4
<1>6. s.got = Least(Least(Least(Branch(s).limit, 99), left), docs[Source]) BY <1>1, Numbers
<1> HIDE DEF left
<1>7. s.got = Least(docs[Source], Branch(s).limit) BY <1>2, <1>3, <1>5, <1>6 DEF Least
<1> QED BY <1>1, <1>7 DEF RefSource

LEMMA SourceReadMeant ==
  ASSUME FdqlInv, CancelInv, MeantInv, FdqlInv', NEW r \in Runs, SourceRead(r)
  PROVE  MeantInv'
<1>1. PICK s : s = run[r] OBVIOUS
<1>2. /\ DOMAIN s = RunFields /\ UnderWay(s) /\ s.got \in Nat /\ s.reads \in Nat
      /\ s.pc = "read" /\ s.at = 0 /\ WorldTyped /\ AtStage(s)
  BY <1>1, MeantFound DEF SourceRead
<1>3. CASE Ends(r, s, StopBefore(s)) BY <1>2, <1>3, StopsMeant
<1>4. CASE StopBefore(s) = "none" /\ Goes(r, FirstStage(s, s.next))
  BY <1>2, <1>4, StopReasons, SourceIsRead, FirstMeant, FormsKeep, OnMeant DEF UnderWay
<1> QED BY <1>1, <1>3, <1>4 DEF SourceRead

LEMMA RunStageMeant ==
  ASSUME FdqlInv, CancelInv, MeantInv, FdqlInv', NEW r \in Runs, RunStage(r)
  PROVE  MeantInv'
<1>1. PICK s : s = run[r] OBVIOUS
<1>2. /\ DOMAIN s = RunFields /\ UnderWay(s) /\ s.pc = "stage" /\ s.at \in Nat /\ s.at > 0 /\ WorldTyped
      /\ AtStage(s) /\ s.todo \in Seq(Rows) /\ s.next \in Seq(Rows)
  BY <1>1, MeantFound DEF RunStage, AtStage
<1>3. Branch(s) \in Branches /\ Before(s) \in Seq(Rows) BY <1>2, BranchRows DEF AtStage
<1>4. Exact(s) => StageMeant(s) /\ ShownMeant(s) BY <1>2 DEF UnderWay
<1>5. CASE Branch(s).stages = <<>> /\ Goes(r, [s EXCEPT !.pc = "return"])
  <2>1. PICK t : t = [s EXCEPT !.pc = "return"] OBVIOUS
  <2>2. /\ t.plan = s.plan /\ t.branch = s.branch /\ t.shown = s.shown /\ t.bent = s.bent
        /\ t.disturbed = s.disturbed /\ t.spent = s.spent /\ t.memory = s.memory /\ t.at = s.at
        /\ t.pc = "return" /\ t.todo = s.todo
    BY <1>2, <2>1 DEF RunFields, NewRun
  <2>3. Past(t, s) BY <2>2 DEF Past
  <2>4. UnderWay(t)
    <3>1. SUFFICES ASSUME Exact(t) PROVE MemoryMeant(t) /\ SourceMeant(t) /\ StageMeant(t) /\ ShownMeant(t)
      BY DEF UnderWay
    <3>2. MemoryMeant(t) /\ Branch(t) = Branch(s) /\ Before(t) = Before(s) /\ StageMeant(s) /\ ShownMeant(s)
      BY <1>2, <2>2, <2>3, <3>1, PastIsMeant
    <3>3. RefBranch(docs, Branch(s)) = RefSource(docs, Branch(s))
      <4>1. Len(Branch(s).stages) = 0 BY <1>5
      <4> QED BY <1>2, <1>3, <4>1, RefStagesAre DEF RefBranch
    <3>4. s.todo = RefSource(docs, Branch(s)) BY <1>2, <1>5, <3>2 DEF StageMeant, Inner
    <3>5. s.shown = Before(s) BY <1>2, <3>2 DEF ShownMeant
    <3>6. ShownMeant(t) BY <1>3, <2>2, <3>2, <3>3, <3>4, <3>5 DEF ShownMeant
    <3> QED BY <1>2, <2>2, <3>2, <3>6 DEF SourceMeant, StageMeant, Inner, Pages, Aggregates
  <2> QED BY <1>5, <2>1, <2>2, <2>4, OnMeant
<1>6. ASSUME NEW rows, Branch(s).stages # <<>>, Goes(r, NextStage(s, rows)),
             Exact(s) => rows = RefStages(docs, Branch(s))[s.at]
      PROVE  MeantInv'
  BY <1>2, <1>6, NextStageMeant, FormsKeep, OnMeant
<1>7. ASSUME Branch(s).stages # <<>>
      PROVE  /\ Stage(s) \in Stages
             /\ Exact(s) => s.next \o RefStage(docs, Stage(s), s.todo) = RefStages(docs, Branch(s))[s.at]
  BY <1>2, <1>4, <1>7, BranchFound DEF AtStage, StageMeant, Inner
<1>8. CASE /\ Branch(s).stages # <<>> /\ Stage(s).kind \notin OfRows
           /\ Goes(r, NextStage(s, LocalRows(Stage(s), s.todo)))
  <2>1. PICK rows : rows = LocalRows(Stage(s), s.todo) OBVIOUS
  <2>2. RefStage(docs, Stage(s), s.todo) = rows BY <1>8, <2>1 DEF RefStage
  <2>3. rows \in Seq(Rows) BY <1>2, <1>7, <1>8, <2>1, LocalRowsAreRows
  <2>4. <<>> \o rows = rows BY <2>3, ConcatEmptySeq
  <2>5. Exact(s) => s.next = <<>> BY <1>2, <1>4, <1>8 DEF StageMeant, Inner
  <2>6. Exact(s) => rows = RefStages(docs, Branch(s))[s.at] BY <1>7, <1>8, <2>2, <2>4, <2>5
  <2> QED BY <1>6, <1>8, <2>1, <2>6
<1>9. CASE /\ Branch(s).stages # <<>> /\ Stage(s).kind \in OfRows /\ s.todo = <<>>
           /\ Goes(r, NextStage(s, s.next))
  BY <1>2, <1>6, <1>7, <1>9, RefStageRows, ConcatEmptySeq
<1> QED BY <1>1, <1>5, <1>8, <1>9 DEF RunStage

LEMMA BeginLookupMeant ==
  ASSUME FdqlInv, CancelInv, MeantInv, FdqlInv', NEW r \in Runs, BeginLookup(r)
  PROVE  MeantInv'
<1>1. PICK s : s = run[r] OBVIOUS
<1>2. /\ DOMAIN s = RunFields /\ UnderWay(s) /\ s.pc = "stage" /\ s.at \in Nat /\ s.at # 0 /\ WorldTyped
      /\ AtStage(s) /\ s.todo \in Seq(Rows) /\ s.next \in Seq(Rows) /\ s.reads \in Nat /\ s.got = 0
      /\ s.bent \in BOOLEAN /\ s.disturbed \in BOOLEAN
      /\ Branch(s).stages # <<>> /\ Stage(s).kind = "lookup" /\ s.todo # <<>>
      /\ s.at \in DOMAIN Branch(s).stages
  <2>1. s.pc = "stage" /\ Branch(s).stages # <<>> /\ Stage(s).kind = "lookup" /\ s.todo # <<>>
    BY <1>1 DEF BeginLookup
  <2>2. /\ DOMAIN s = RunFields /\ UnderWay(s) /\ s.at \in Nat /\ WorldTyped
        /\ AtStage(s) /\ s.todo \in Seq(Rows) /\ s.next \in Seq(Rows) /\ s.reads \in Nat
        /\ s.bent \in BOOLEAN /\ s.disturbed \in BOOLEAN
    BY <1>1, MeantFound
  <2>3. s.at # 0 /\ s.got = 0 /\ s.at \in DOMAIN Branch(s).stages BY <2>1, <2>2 DEF AtStage
  <2> QED BY <2>1, <2>2, <2>3
<1>3. PICK row : row = Head(s.todo) OBVIOUS
<1>4. PICK max : max = LookupMax(s) OBVIOUS
<1>5. PICK k : k = LookupKey(Stage(s), row.key, max) OBVIOUS
<1>6. row \in Rows /\ (row.key # Missing => row.key \in Keys) BY <1>2, <1>3, HeadRow DEF RowKeys
<1>7. Stage(s) \in Stages /\ Plan(s).budget \in Nat BY <1>2, BranchFound
<1>8. Remaining(s) \in Nat /\ max \in Nat /\ (max # 0 => Remaining(s) # 0)
  BY <1>2, <1>4, <1>7, LookupStage, Numbers DEF Remaining, OneCap, LookupMax, MaxDocuments, Least
<1>9. s.pc \in Inner /\ Stage(s).kind \in OfRows BY <1>2 DEF Inner, OfRows
<1>10. RefRow(docs, Stage(s), row) = RefLookup(docs, Stage(s), row) BY <1>2 DEF RefRow
<1> DEFINE Serves(n) == [NextRow(s, LookedUp(Stage(s), row, Least(n, max))) EXCEPT
                      !.bent = @ \/ Bends(Stage(s), n, max),
                      !.disturbed = @ \/ IsStale(k)]
<1> DEFINE reads == [s EXCEPT !.max = max, !.pc = "connectRead", !.bent = @ \/ max = 0]
<1>11. ASSUME NEW n \in Nat, row.key # Missing, Exact(s) /\ ~IsStale(k) => n = Least(docs[k.key], k.limit)
       PROVE  UnderWay(Serves(n)) /\ Serves(n).pc # "done"
  <2>1. PICK rows : rows = LookedUp(Stage(s), row, Least(n, max)) OBVIOUS
  <2>2. PICK bent : bent = (s.bent \/ Bends(Stage(s), n, max)) OBVIOUS
  <2>3. PICK disturbed : disturbed = (s.disturbed \/ IsStale(k)) OBVIOUS
  <2>4. PICK t : t = Serves(n) OBVIOUS
  <2>5. Served(t, s, rows) /\ t.bent = bent /\ t.disturbed = disturbed /\ t.memory = s.memory
    BY <1>2, <2>1, <2>2, <2>3, <2>4 DEF Served, Past, Exact, NextRow, RunFields, NewRun
  <2> HIDE DEF Serves
  <2>6. ASSUME Exact(t) PROVE MemoryMeant(t) /\ rows = RefRow(docs, Stage(s), Head(s.todo))
    <3>1. Exact(s) /\ ~bent /\ ~disturbed BY <2>5, <2>6 DEF Served, Exact
    <3>2. n = Least(docs[k.key], k.limit) /\ ~Bends(Stage(s), n, max) BY <1>11, <2>2, <2>3, <3>1
    <3>3. rows = RefLookup(docs, Stage(s), row)
      BY <1>2, <1>5, <1>6, <1>7, <1>8, <1>11, <2>1, <3>2, ServedIsMeant
    <3>4. MemoryMeant(t) BY <1>2, <2>5, <3>1 DEF UnderWay, MemoryMeant
    <3> QED BY <1>3, <1>10, <3>3, <3>4
  <2>8. UnderWay(t) BY <1>2, <1>9, <2>5, <2>6, NextRowMeant
  <2>9. t.pc # "done" BY <2>5 DEF Served
  <2> QED BY <2>4, <2>8, <2>9
<1>12. UnderWay(reads) /\ reads.pc # "done"
  <2>1. PICK t : t = reads OBVIOUS
  <2>2. /\ t.plan = s.plan /\ t.branch = s.branch /\ t.shown = s.shown /\ t.bent = (s.bent \/ max = 0)
        /\ t.disturbed = s.disturbed /\ t.spent = s.spent /\ t.memory = s.memory /\ t.at = s.at
        /\ t.pc = "connectRead" /\ t.todo = s.todo /\ t.next = s.next /\ t.got = 0 /\ t.reads = s.reads
    BY <1>2, <2>1 DEF RunFields, NewRun
  <2>3. Past(t, s) BY <2>2 DEF Past
  <2>4. Exact(t) => LeftAtFirst(t) > 0
    <3>1. Plan(t) = Plan(s) BY <2>2 DEF Plan
    <3>2. LeftAtFirst(t) = Remaining(s) BY <1>2, <1>7, <2>2, <3>1 DEF LeftAtFirst, Remaining
    <3>3. Exact(t) => max # 0 BY <2>2 DEF Exact
    <3> QED BY <1>8, <3>2, <3>3
  <2>5. t.pc \in Inner BY <2>2 DEF Inner, Pages
  <2>6. UnderWay(t) BY <1>2, <1>9, <2>2, <2>3, <2>4, <2>5, InnerMeant
  <2> QED BY <2>1, <2>2, <2>6
<1>13. CASE Ends(r, s, StopBefore(s)) BY <1>2, <1>13, StopsMeant
<1>14. CASE row.key = Missing /\ Goes(r, NextRow(s, LookedUp(Stage(s), row, 0)))
  <2>1. PICK rows : rows = LookedUp(Stage(s), row, 0) OBVIOUS
  <2>2. PICK t : t = NextRow(s, rows) OBVIOUS
  <2>3. Served(t, s, rows) /\ t.memory = s.memory
    BY <1>2, <2>2 DEF Served, Past, Exact, NextRow, RunFields, NewRun
  <2>4. rows = RefRow(docs, Stage(s), Head(s.todo)) BY <1>3, <1>10, <1>14, <2>1, MissingIsMeant
  <2>5. Exact(t) => MemoryMeant(t) BY <1>2, <2>3 DEF UnderWay, Served, MemoryMeant
  <2>6. UnderWay(t) BY <1>2, <1>9, <2>3, <2>4, <2>5, NextRowMeant
  <2>7. t.pc # "done" BY <2>3 DEF Served
  <2> QED BY <1>14, <2>1, <2>2, <2>6, <2>7, OnMeant
<1>15. CASE row.key # Missing /\ k \in DOMAIN s.memory /\ Goes(r, Serves(s.memory[k]))
  <2>1. s.memory[k] \in Nat BY <1>1, <1>15, CachedNumbers
  <2>2. Exact(s) => s.memory[k] = Least(docs[k.key], k.limit) BY <1>2, <1>15 DEF UnderWay, MemoryMeant
  <2>3. UnderWay(Serves(s.memory[k])) /\ Serves(s.memory[k]).pc # "done" BY <1>11, <1>15, <2>1, <2>2
  <2> HIDE DEF Serves
  <2> QED BY <1>15, <2>3, OnMeant
<1>16. CASE Sends(r, reads)
  <2> HIDE DEF reads
  <2> QED BY <1>12, <1>16, OnMeant
<1>17. CASE /\ row.key # Missing
            /\ Becomes(r, IF Hits(k) THEN Serves(store[k].rows) ELSE reads)
            /\ docs' = docs /\ clock' = clock
  <2>1. PICK t : t = IF Hits(k) THEN Serves(store[k].rows) ELSE reads OBVIOUS
  <2>2. UnderWay(t) /\ t.pc # "done"
    <3>1. CASE Hits(k)
      <4>1. store[k].rows \in Nat BY <3>1, CachedNumbers
      <4>2. ~IsStale(k) => store[k].rows = Least(docs[k.key], k.limit)
        BY <3>1 DEF Hits, IsStale, FdqlInv, PersistedIsWhole
      <4>3. UnderWay(Serves(store[k].rows)) /\ Serves(store[k].rows).pc # "done"
        BY <1>11, <1>17, <4>1, <4>2
      <4> HIDE DEF Serves, reads
      <4> QED BY <2>1, <3>1, <4>3
    <3>2. CASE ~Hits(k)
      <4> HIDE DEF Serves, reads
      <4> QED BY <1>12, <2>1, <3>2
    <3> QED BY <3>1, <3>2
  <2> HIDE DEF Serves, reads
  <2>3. Becomes(r, t) BY <1>17, <2>1
  <2> QED BY <1>17, <2>2, <2>3, OneMeant
<1>18. \/ Ends(r, s, StopBefore(s))
       \/ row.key = Missing /\ Goes(r, NextRow(s, LookedUp(Stage(s), row, 0)))
       \/ row.key # Missing /\ k \in DOMAIN s.memory /\ Goes(r, Serves(s.memory[k]))
       \/ Sends(r, reads)
       \/ /\ row.key # Missing
          /\ Becomes(r, IF Hits(k) THEN Serves(store[k].rows) ELSE reads)
          /\ docs' = docs /\ clock' = clock
  <2>1. CASE StopBefore(s) # "none" BY <1>1, <2>1 DEF BeginLookup
  <2>2. CASE StopBefore(s) = "none" /\ row.key = Missing BY <1>1, <1>3, <2>2 DEF BeginLookup
  <2>3. CASE StopBefore(s) = "none" /\ row.key # Missing
    <3>1. CASE Stage(s).cache = "run" /\ k \in DOMAIN s.memory
      BY <1>1, <1>3, <1>4, <1>5, <2>3, <3>1 DEF BeginLookup
    <3>2. CASE ~(Stage(s).cache = "run" /\ k \in DOMAIN s.memory) /\ Stage(s).cache # "persistent"
      <4>1. Sends(r, reads) BY <1>1, <1>3, <1>4, <1>5, <2>3, <3>2 DEF BeginLookup
      <4> QED BY <4>1
    <3>3. CASE Stage(s).cache = "persistent" BY <1>1, <1>3, <1>4, <1>5, <2>3, <3>3 DEF BeginLookup
    <3> QED BY <3>1, <3>2, <3>3
  <2> QED BY <2>1, <2>2, <2>3
<1> HIDE DEF Serves, reads
<1> QED BY <1>13, <1>14, <1>15, <1>16, <1>17, <1>18

\* What is remembered with an answer that is meant is meant.
LEMMA MemoryWith ==
  ASSUME NEW s, NEW t, UnderWay(s), Exact(s), s.pc \notin {"new", "done"}, NEW k \in CacheKey, NEW n,
         n = Least(docs[k.key], k.limit),
         t.memory = [c \in DOMAIN s.memory \cup {k} |-> IF c = k THEN n ELSE s.memory[c]]
  PROVE  MemoryMeant(t)
BY DEF UnderWay, MemoryMeant

LEMMA LookupReadMeant ==
  ASSUME FdqlInv, CancelInv, MeantInv, FdqlInv', NEW r \in Runs, LookupRead(r)
  PROVE  MeantInv'
<1>1. PICK s : s = run[r] OBVIOUS
<1>2. /\ DOMAIN s = RunFields /\ UnderWay(s) /\ s.pc = "read" /\ s.at \in Nat /\ s.at > 0 /\ WorldTyped
      /\ AtStage(s) /\ PagesRead(s) /\ WithinBudget(s) /\ s.todo \in Seq(Rows) /\ s.next \in Seq(Rows)
      /\ s.reads \in Nat /\ s.got \in Nat /\ s.max \in Nat
  BY <1>1, MeantFound DEF LookupRead
<1>3. /\ s.at \in DOMAIN Branch(s).stages /\ Stage(s).kind = "lookup" /\ s.todo # <<>>
      /\ Head(s.todo).key \in Keys
  BY <1>2 DEF AtStage, Pages
<1>4. PICK row : row = Head(s.todo) OBVIOUS
<1>5. PICK k : k = LookupKey(Stage(s), row.key, s.max) OBVIOUS
<1>6. PICK rows : rows = LookedUp(Stage(s), row, s.got) OBVIOUS
<1>7. Stage(s) \in Stages /\ Plan(s).budget \in Nat /\ Branch(s).stages # <<>> BY <1>2, <1>3, BranchFound
<1>8. s.pc \in Inner /\ s.pc \in Pages /\ Stage(s).kind \in OfRows BY <1>2, <1>3 DEF Inner, Pages, OfRows
<1>9. ASSUME Exact(s), ~Stopped(s), Stage(s).mode = "one" => s.got <= 1
      PROVE  rows = RefRow(docs, Stage(s), Head(s.todo)) /\ s.got = Least(docs[k.key], k.limit)
             /\ k \in CacheKey
  <2>1. LeftAtFirst(s) > 0 BY <1>2, <1>7, <1>8, <1>9 DEF UnderWay, StageMeant
  <2>2. LeftAtFirst(s) = Plan(s).budget - (s.reads - s.got) BY <1>7, <2>1 DEF LeftAtFirst
  <2>3. /\ s.max = Least(Least(Stage(s).limit, OneCap(Stage(s))), LeftAtFirst(s))
        /\ s.got > 0 => s.reads < Plan(s).budget
    BY <1>2, <1>8 DEF WithinBudget
  <2>4. LeftAtFirst(s) \in Nat /\ s.got < LeftAtFirst(s) BY <1>2, <1>7, <2>1, <2>2, <2>3
  <2>5. s.got = Least(s.max, docs[row.key]) BY <1>2, <1>4, <1>8, <1>9 DEF Reading, PagesRead, Exact
  <2>6. /\ LookedUp(Stage(s), row, s.got) = RefLookup(docs, Stage(s), row)
        /\ s.got = Least(docs[row.key], LookupKey(Stage(s), row.key, s.max).limit)
    BY <1>2, <1>3, <1>4, <1>7, <1>9, <2>3, <2>4, <2>5, ReadIsMeant
  <2>7. Stage(s).limit \in Nat BY <1>3, <1>7, LookupStage
  <2>8. k \in CacheKey BY <1>2, <1>3, <1>4, <1>5, <2>7, Numbers DEF LookupKey, CacheKey
  <2>9. k.key = row.key BY <1>5 DEF LookupKey
  <2> QED BY <1>3, <1>4, <1>5, <1>6, <2>6, <2>8, <2>9 DEF RefRow
<1>10. ASSUME NEW t, Served(t, s, rows), ~Stopped(s), Stage(s).mode = "one" => s.got <= 1,
              \/ t.memory = s.memory
              \/ t.memory = [c \in DOMAIN s.memory \cup {k} |-> IF c = k THEN s.got ELSE s.memory[c]]
       PROVE  UnderWay(t) /\ t.pc # "done"
  <2>1. ASSUME Exact(t) PROVE MemoryMeant(t) /\ rows = RefRow(docs, Stage(s), Head(s.todo))
    BY <1>2, <1>9, <1>10, <2>1, MemoryWith DEF Served, UnderWay, MemoryMeant
  <2>2. UnderWay(t) BY <1>2, <1>3, <1>8, <1>10, <2>1, NextRowMeant
  <2> QED BY <1>10, <2>2 DEF Served
<1>11. CASE Ends(r, s, StopBefore(s)) \/ Ends(r, s, "failed") BY <1>2, <1>11, StopsMeant
<1>12. CASE /\ ~Stopped(s) /\ (Stage(s).mode = "one" => s.got <= 1)
            /\ Becomes(r, NextRow(s, rows)) /\ docs' = docs /\ clock' = clock
  <2>1. PICK t : t = NextRow(s, rows) OBVIOUS
  <2>2. Served(t, s, rows) /\ t.memory = s.memory
    BY <1>2, <2>1 DEF Served, Past, Exact, NextRow, RunFields, NewRun
  <2>3. UnderWay(t) /\ t.pc # "done" BY <1>10, <1>12, <2>2
  <2> QED BY <1>12, <2>1, <2>3, OneMeant
<1>13. CASE /\ ~Stopped(s) /\ (Stage(s).mode = "one" => s.got <= 1)
            /\ Goes(r, [NextRow(s, rows) EXCEPT !.memory = [c \in DOMAIN @ \cup {k} |->
                                                     IF c = k THEN s.got ELSE @[c]]])
  <2>1. PICK t : t = [NextRow(s, rows) EXCEPT !.memory = [c \in DOMAIN @ \cup {k} |->
                                                     IF c = k THEN s.got ELSE @[c]]]
    OBVIOUS
  <2>2. /\ Served(t, s, rows)
        /\ t.memory = [c \in DOMAIN s.memory \cup {k} |-> IF c = k THEN s.got ELSE s.memory[c]]
    BY <1>2, <2>1 DEF Served, Past, Exact, NextRow, RunFields, NewRun
  <2>3. UnderWay(t) /\ t.pc # "done" BY <1>10, <1>13, <2>2
  <2> QED BY <1>13, <2>1, <2>3, OnMeant
<1>14. CASE StopBefore(s) = "none" /\ ~(Stage(s).mode = "one" /\ s.got > 1)
  <2>1. ~Stopped(s) /\ (Stage(s).mode = "one" => s.got <= 1) BY <1>2, <1>14, StopReasons
  <2>2. \/ Goes(r, NextRow(s, rows))
        \/ Goes(r, [NextRow(s, rows) EXCEPT !.memory = [c \in DOMAIN @ \cup {k} |->
                                                     IF c = k THEN s.got ELSE @[c]]])
        \/ Becomes(r, NextRow(s, rows)) /\ docs' = docs /\ clock' = clock
    BY <1>1, <1>4, <1>5, <1>6, <1>14 DEF LookupRead
  <2> QED BY <1>12, <1>13, <2>1, <2>2 DEF Goes
<1> QED BY <1>1, <1>11, <1>14 DEF LookupRead

\* A number of an aggregate is the answer of its key.
LEMMA CountIsMeant ==
  ASSUME WorldTyped, NEW key \in Keys, NEW stage, stage.kind = "providerAggregate", NEW row, row.key = key
  PROVE  LET k == AggregateKey(key)
         IN /\ k \in CacheKey /\ Least(docs[k.key], k.limit) = docs[key]
            /\ <<Attach(row, docs[key])>> = RefRow(docs, stage, row)
BY DocsOfKey, Numbers, FdqlAssumption DEF AggregateKey, CacheKey, Least, RefRow, RefAggregate

LEMMA BeginAggregateMeant ==
  ASSUME FdqlInv, CancelInv, MeantInv, FdqlInv', NEW r \in Runs, BeginAggregate(r)
  PROVE  MeantInv'
<1>1. PICK s : s = run[r] OBVIOUS
<1>2. /\ DOMAIN s = RunFields /\ UnderWay(s) /\ s.pc = "stage" /\ s.at \in Nat /\ s.at # 0 /\ WorldTyped
      /\ AtStage(s) /\ s.todo \in Seq(Rows) /\ s.next \in Seq(Rows)
      /\ Branch(s).stages # <<>> /\ Stage(s).kind = "providerAggregate" /\ s.todo # <<>>
      /\ s.at \in DOMAIN Branch(s).stages
  <2>1. s.pc = "stage" /\ Branch(s).stages # <<>> /\ Stage(s).kind = "providerAggregate" /\ s.todo # <<>>
    BY <1>1 DEF BeginAggregate
  <2>2. /\ DOMAIN s = RunFields /\ UnderWay(s) /\ s.at \in Nat /\ WorldTyped
        /\ AtStage(s) /\ s.todo \in Seq(Rows) /\ s.next \in Seq(Rows)
    BY <1>1, MeantFound
  <2>3. s.at # 0 /\ s.at \in DOMAIN Branch(s).stages BY <2>1, <2>2 DEF AtStage
  <2> QED BY <2>1, <2>2, <2>3
<1>3. PICK row : row = Head(s.todo) OBVIOUS
<1>5. PICK k : k = AggregateKey(row.key) OBVIOUS
<1>6. row \in Rows /\ (row.key # Missing => row.key \in Keys) BY <1>2, <1>3, HeadRow DEF RowKeys
<1>9. s.pc \in Inner /\ Stage(s).kind \in OfRows BY <1>2 DEF Inner, OfRows
<1> DEFINE Serves(n) == [NextRow(s, <<Attach(row, n)>>) EXCEPT !.disturbed = @ \/ IsStale(k)]
<1> DEFINE asks == [s EXCEPT !.pc = "connectAggregate"]
<1>11. ASSUME NEW n \in Nat, row.key = Missing => n = 0,
              row.key # Missing /\ Exact(s) /\ ~IsStale(k) => n = Least(docs[k.key], k.limit)
       PROVE  UnderWay(Serves(n)) /\ Serves(n).pc # "done"
  <2>1. PICK rows : rows = <<Attach(row, n)>> OBVIOUS
  <2>3. PICK disturbed : disturbed = (s.disturbed \/ IsStale(k)) OBVIOUS
  <2>4. PICK t : t = Serves(n) OBVIOUS
  <2>5. Served(t, s, rows) /\ t.disturbed = disturbed /\ t.memory = s.memory
    BY <1>2, <2>1, <2>3, <2>4 DEF Served, Past, Exact, NextRow, RunFields, NewRun
  <2> HIDE DEF Serves
  <2>6. ASSUME Exact(t) PROVE MemoryMeant(t) /\ rows = RefRow(docs, Stage(s), Head(s.todo))
    <3>1. Exact(s) /\ ~disturbed BY <2>5, <2>6 DEF Served, Exact
    <3>2. rows = RefRow(docs, Stage(s), row)
      <4>1. CASE row.key = Missing BY <1>2, <1>11, <2>1, <4>1, MissingIsMeant DEF RefRow
      <4>2. CASE row.key # Missing
        <5>1. n = Least(docs[k.key], k.limit) BY <1>11, <2>3, <3>1, <4>2
        <5> QED BY <1>2, <1>5, <1>6, <2>1, <4>2, <5>1, CountIsMeant
      <4> QED BY <4>1, <4>2
    <3>4. MemoryMeant(t) BY <1>2, <2>5, <3>1 DEF UnderWay, MemoryMeant
    <3> QED BY <1>3, <3>2, <3>4
  <2>8. UnderWay(t) BY <1>2, <1>9, <2>5, <2>6, NextRowMeant
  <2>9. t.pc # "done" BY <2>5 DEF Served
  <2> QED BY <2>4, <2>8, <2>9
<1>12. UnderWay(asks) /\ asks.pc # "done"
  <2>1. PICK t : t = asks OBVIOUS
  <2>2. /\ Past(t, s) /\ t.memory = s.memory /\ t.at = s.at /\ t.pc = "connectAggregate"
        /\ t.todo = s.todo /\ t.next = s.next
    BY <1>2, <2>1 DEF Past, RunFields, NewRun
  <2>3. t.pc \in Inner /\ t.pc \notin Pages BY <2>2 DEF Inner, Pages, Aggregates
  <2>4. UnderWay(t) BY <1>2, <1>9, <2>2, <2>3, InnerMeant
  <2> QED BY <2>1, <2>2, <2>4
<1>13. CASE Ends(r, s, StopBefore(s)) BY <1>2, <1>13, StopsMeant
<1>14. CASE row.key = Missing /\ Goes(r, Serves(0))
  <2>1. UnderWay(Serves(0)) /\ Serves(0).pc # "done" BY <1>11, <1>14
  <2> HIDE DEF Serves
  <2> QED BY <1>14, <2>1, OnMeant
<1>15. CASE row.key # Missing /\ k \in DOMAIN s.memory /\ Goes(r, Serves(s.memory[k]))
  <2>1. s.memory[k] \in Nat BY <1>1, <1>15, CachedNumbers
  <2>2. Exact(s) => s.memory[k] = Least(docs[k.key], k.limit) BY <1>2, <1>15 DEF UnderWay, MemoryMeant
  <2>3. UnderWay(Serves(s.memory[k])) /\ Serves(s.memory[k]).pc # "done" BY <1>11, <1>15, <2>1, <2>2
  <2> HIDE DEF Serves
  <2> QED BY <1>15, <2>3, OnMeant
<1>16. CASE Sends(r, asks)
  <2> HIDE DEF asks
  <2> QED BY <1>12, <1>16, OnMeant
<1>17. CASE /\ row.key # Missing
            /\ Becomes(r, IF Hits(k) THEN Serves(store[k].rows) ELSE asks)
            /\ docs' = docs /\ clock' = clock
  <2>1. PICK t : t = IF Hits(k) THEN Serves(store[k].rows) ELSE asks OBVIOUS
  <2>2. UnderWay(t) /\ t.pc # "done"
    <3>1. CASE Hits(k)
      <4>1. store[k].rows \in Nat BY <3>1, CachedNumbers
      <4>2. ~IsStale(k) => store[k].rows = Least(docs[k.key], k.limit)
        BY <3>1 DEF Hits, IsStale, FdqlInv, PersistedIsWhole
      <4>3. UnderWay(Serves(store[k].rows)) /\ Serves(store[k].rows).pc # "done"
        BY <1>11, <1>17, <4>1, <4>2
      <4> HIDE DEF Serves, asks
      <4> QED BY <2>1, <3>1, <4>3
    <3>2. CASE ~Hits(k)
      <4> HIDE DEF Serves, asks
      <4> QED BY <1>12, <2>1, <3>2
    <3> QED BY <3>1, <3>2
  <2> HIDE DEF Serves, asks
  <2>3. Becomes(r, t) BY <1>17, <2>1
  <2> QED BY <1>17, <2>2, <2>3, OneMeant
<1>18. \/ Ends(r, s, StopBefore(s))
       \/ row.key = Missing /\ Goes(r, Serves(0))
       \/ row.key # Missing /\ k \in DOMAIN s.memory /\ Goes(r, Serves(s.memory[k]))
       \/ Sends(r, asks)
       \/ /\ row.key # Missing
          /\ Becomes(r, IF Hits(k) THEN Serves(store[k].rows) ELSE asks)
          /\ docs' = docs /\ clock' = clock
  <2>1. CASE StopBefore(s) # "none" BY <1>1, <2>1 DEF BeginAggregate
  <2>2. CASE StopBefore(s) = "none" /\ row.key = Missing BY <1>1, <1>3, <1>5, <2>2 DEF BeginAggregate
  <2>3. CASE StopBefore(s) = "none" /\ row.key # Missing
    <3>1. CASE Stage(s).cache = "run" /\ k \in DOMAIN s.memory
      BY <1>1, <1>3, <1>5, <2>3, <3>1 DEF BeginAggregate
    <3>2. CASE ~(Stage(s).cache = "run" /\ k \in DOMAIN s.memory) /\ Stage(s).cache # "persistent"
      <4>1. Sends(r, asks) BY <1>1, <1>3, <1>5, <2>3, <3>2 DEF BeginAggregate
      <4> QED BY <4>1
    <3>3. CASE Stage(s).cache = "persistent" BY <1>1, <1>3, <1>5, <2>3, <3>3 DEF BeginAggregate
    <3> QED BY <3>1, <3>2, <3>3
  <2> QED BY <2>1, <2>2, <2>3
<1> HIDE DEF Serves, asks
<1> QED BY <1>13, <1>14, <1>15, <1>16, <1>17, <1>18

LEMMA AggregateArrivesMeant ==
  ASSUME FdqlInv, CancelInv, MeantInv, FdqlInv', NEW r \in Runs, AggregateArrives(r)
  PROVE  MeantInv'
<1>1. PICK s : s = run[r] OBVIOUS
<1>2. DOMAIN s = RunFields /\ UnderWay(s) /\ s.pc = "aggregating" /\ s.at \in Nat
  BY <1>1, MeantFound DEF AggregateArrives
<1> DEFINE counts == [s EXCEPT !.max = docs[Reading(s)], !.got = 1]
<1> DEFINE extreme == [s EXCEPT !.got = @ + 1,
                           !.page = @ + (IF docs[Reading(s)] > 0 THEN 1 ELSE 0)]
<1>3. PICK u : u = IF s.got = 0 THEN counts ELSE extreme OBVIOUS
<1>4. PICK t : t = IF u.got <= Extremes(s) THEN [u EXCEPT !.asked = @ + 1]
                   ELSE [u EXCEPT !.pc = "aggregated"]
  OBVIOUS
<1>5. Becomes(r, t) /\ docs' = docs /\ clock' = clock BY <1>1, <1>3, <1>4 DEF AggregateArrives
<1>6. /\ DOMAIN u = RunFields /\ Past(u, s) /\ u.memory = s.memory /\ u.at = s.at /\ u.todo = s.todo
      /\ u.next = s.next /\ u.pc = "aggregating"
  BY <1>2, <1>3 DEF Past, RunFields, NewRun
<1>7. /\ Past(t, s) /\ t.memory = s.memory /\ t.at = s.at /\ t.todo = s.todo /\ t.next = s.next
      /\ t.pc \in Aggregates
  BY <1>4, <1>6 DEF Aggregates, Past, RunFields, NewRun
<1>8. UnderWay(t) /\ t.pc # "done" BY <1>2, <1>7, CountsMeant DEF Aggregates
<1> QED BY <1>5, <1>8, OneMeant

LEMMA AggregatedMeant ==
  ASSUME FdqlInv, CancelInv, MeantInv, FdqlInv', NEW r \in Runs, Aggregated(r)
  PROVE  MeantInv'
<1>1. PICK s0 : s0 = run[r] OBVIOUS
<1>2. /\ DOMAIN s0 = RunFields /\ UnderWay(s0) /\ s0.pc = "aggregated" /\ s0.at \in Nat /\ WorldTyped
      /\ AtStage(s0) /\ CountRead(s0) /\ s0.todo \in Seq(Rows) /\ s0.next \in Seq(Rows)
  BY <1>1, MeantFound DEF Aggregated
<1>3. PICK s : s = [s0 EXCEPT !.reads = @ + s0.page] OBVIOUS
<1>4. /\ DOMAIN s = RunFields /\ Past(s, s0) /\ s.pc = "aggregated" /\ s.memory = s0.memory
      /\ s.at = s0.at /\ s.todo = s0.todo /\ s.next = s0.next /\ s.max = s0.max /\ s.disturbed = s0.disturbed
      /\ s.got = s0.got /\ s.page = s0.page /\ (Stopped(s) <=> Stopped(s0))
  BY <1>2, <1>3 DEF Past, Stopped, RunFields, NewRun
<1>5. Plan(s) = Plan(s0) /\ Branch(s) = Branch(s0) /\ Stage(s) = Stage(s0)
      /\ s.plan = s0.plan /\ s.branch = s0.branch
  BY <1>4 DEF Plan, Branch, Stage, Past
<1>6. UnderWay(s) BY <1>2, <1>4, CountsMeant DEF Aggregates
<1>7. AtStage(s) BY <1>2, <1>4, <1>5 DEF AtStage
<1>8. s.at \in Nat /\ s.todo \in Seq(Rows) /\ s.next \in Seq(Rows) BY <1>2, <1>4
<1>9. s.pc \in Inner /\ s.pc \notin {"new", "done", "return"} BY <1>4 DEF Inner, Aggregates
<1>10. Exact(s) /\ ~Stopped(s) => s.max = docs[Reading(s)]
  <2>1. Reading(s) = Reading(s0) BY <1>4 DEF Reading
  <2> QED BY <1>2, <1>4, <2>1 DEF CountRead, Exact
<1>11. CASE Ends(r, s, StopBefore(s)) BY <1>4, <1>11, StopsMeant
<1>12. CASE ~Stopped(s) /\ s.at = 0 /\ Goes(r, FirstStage(s, <<Row(Missing, <<s.max>>)>>))
  <2>1. PICK first : first = <<Row(Missing, <<s.max>>)>> OBVIOUS
  <2>2. Exact(s) => first = RefSource(docs, Branch(s))
    <3>1. SUFFICES ASSUME Exact(s) PROVE first = RefSource(docs, Branch(s)) OBVIOUS
    <3>2. Branch(s).aggregated BY <1>4, <1>6, <1>12, <3>1 DEF UnderWay, SourceMeant, Aggregates
    <3>3. s.max = docs[Source] BY <1>10, <1>12, <3>1 DEF Reading
    <3> QED BY <2>1, <3>2, <3>3 DEF RefSource
  <2>3. UnderWay(FirstStage(s, first)) BY <1>2, <1>4, <1>6, <1>7, <1>9, <2>2, FirstMeant
  <2>4. FirstStage(s, first).pc # "done" BY <1>4, FormsKeep
  <2>5. Goes(r, FirstStage(s, first)) BY <1>12, <2>1
  <2> QED BY <2>3, <2>4, <2>5, OnMeant
<1>13. PICK k : k = AggregateKey(Head(s.todo).key) OBVIOUS
<1>14. PICK rows : rows = <<Attach(Head(s.todo), s.max)>> OBVIOUS
<1>15. ASSUME ~Stopped(s), s.at # 0, NEW t, Served(t, s, rows),
              \/ t.memory = s.memory
              \/ t.memory = [c \in DOMAIN s.memory \cup {k} |-> IF c = k THEN s.max ELSE s.memory[c]]
       PROVE  UnderWay(t) /\ t.pc # "done"
  <2>1. /\ s.at \in DOMAIN Branch(s).stages /\ Stage(s).kind = "providerAggregate" /\ s.todo # <<>>
        /\ Head(s.todo).key \in Keys
    BY <1>4, <1>7, <1>8, <1>15 DEF AtStage, Pages, Aggregates
  <2>2. ASSUME Exact(s)
        PROVE  k \in CacheKey /\ s.max = Least(docs[k.key], k.limit)
               /\ rows = RefRow(docs, Stage(s), Head(s.todo))
    <3>1. s.max = docs[Head(s.todo).key] BY <1>10, <1>15, <2>2 DEF Reading
    <3> QED BY <1>2, <1>13, <1>14, <2>1, <3>1, CountIsMeant
  <2>3. ASSUME Exact(t) PROVE MemoryMeant(t) /\ rows = RefRow(docs, Stage(s), Head(s.todo))
    BY <1>6, <1>9, <1>15, <2>2, <2>3, MemoryWith DEF Served, UnderWay, MemoryMeant
  <2>4. Stage(s).kind \in OfRows BY <2>1 DEF OfRows
  <2>5. UnderWay(t) BY <1>2, <1>6, <1>7, <1>8, <1>9, <1>15, <2>1, <2>3, <2>4, NextRowMeant
  <2> QED BY <1>15, <2>5 DEF Served
<1>16. CASE ~Stopped(s) /\ s.at # 0 /\ Becomes(r, NextRow(s, rows)) /\ docs' = docs /\ clock' = clock
  <2>1. PICK t : t = NextRow(s, rows) OBVIOUS
  <2>2. Served(t, s, rows) /\ t.memory = s.memory
    BY <1>4, <2>1 DEF Served, Past, Exact, NextRow, RunFields, NewRun
  <2>3. UnderWay(t) /\ t.pc # "done" BY <1>15, <1>16, <2>2
  <2> QED BY <1>16, <2>1, <2>3, OneMeant
<1>17. CASE /\ ~Stopped(s) /\ s.at # 0
            /\ Goes(r, [NextRow(s, rows) EXCEPT !.memory = [c \in DOMAIN @ \cup {k} |->
                                                     IF c = k THEN s.max ELSE @[c]]])
  <2>1. PICK t : t = [NextRow(s, rows) EXCEPT !.memory = [c \in DOMAIN @ \cup {k} |->
                                                     IF c = k THEN s.max ELSE @[c]]]
    OBVIOUS
  <2>2. /\ Served(t, s, rows)
        /\ t.memory = [c \in DOMAIN s.memory \cup {k} |-> IF c = k THEN s.max ELSE s.memory[c]]
    BY <1>4, <2>1 DEF Served, Past, Exact, NextRow, RunFields, NewRun
  <2>3. UnderWay(t) /\ t.pc # "done" BY <1>15, <1>17, <2>2
  <2> QED BY <1>17, <2>1, <2>3, OnMeant
<1>18. CASE StopBefore(s) = "none"
  <2>1. ~Stopped(s) BY <1>18, StopReasons
  <2>2. CASE s.at = 0 BY <1>1, <1>3, <1>12, <1>18, <2>1, <2>2 DEF Aggregated
  <2>3. CASE s.at # 0
    <3> DEFINE key == AggregateKey(Head(s.todo).key)
    <3> DEFINE done == NextRow(s, <<Attach(Head(s.todo), s.max)>>)
    <3>1. \/ Goes(r, done)
          \/ Goes(r, [done EXCEPT !.memory = [c \in DOMAIN @ \cup {key} |->
                                               IF c = key THEN s.max ELSE @[c]]])
          \/ Becomes(r, done) /\ docs' = docs /\ clock' = clock
      BY <1>1, <1>3, <1>18, <2>3 DEF Aggregated
    <3>2. key = k /\ done = NextRow(s, rows) BY <1>13, <1>14
    <3> HIDE DEF key, done
    <3> QED BY <1>16, <1>17, <2>1, <2>3, <3>1, <3>2 DEF Goes
  <2> QED BY <2>2, <2>3
<1> QED BY <1>1, <1>3, <1>11, <1>18 DEF Aggregated

\* A row shown is the first of the rows still to show.
LEMMA ShownNext ==
  ASSUME NEW shown \in Seq(Rows), NEW todo \in Seq(Rows), todo # <<>>
  PROVE  /\ Append(shown, Head(todo)) \in Seq(Rows)
         /\ Append(shown, Head(todo)) \o Tail(todo) = shown \o todo
<1> DEFINE a == Append(shown, Head(todo))
<1> DEFINE b == Tail(todo)
<1>1. /\ Head(todo) \in Rows /\ b \in Seq(Rows) /\ Len(todo) \in Nat \ {0} /\ Len(b) = Len(todo) - 1
      /\ Head(todo) = todo[1] /\ \A i \in 1..Len(todo) - 1 : b[i] = todo[i + 1]
  BY HeadTailProperties
<1>2. a \in Seq(Rows) /\ Len(a) = Len(shown) + 1 /\ a[Len(shown) + 1] = todo[1]
      /\ (\A i \in 1..Len(shown) : a[i] = shown[i]) /\ Len(shown) \in Nat
  BY <1>1
<1> HIDE DEF a, b
<1>3. /\ a \o b \in Seq(Rows) /\ Len(a \o b) = Len(a) + Len(b)
      /\ \A i \in 1..Len(a) + Len(b) : (a \o b)[i] = IF i <= Len(a) THEN a[i] ELSE b[i - Len(a)]
  BY <1>1, <1>2, ConcatProperties
<1>4. /\ shown \o todo \in Seq(Rows) /\ Len(shown \o todo) = Len(shown) + Len(todo)
      /\ \A i \in 1..Len(shown) + Len(todo) :
           (shown \o todo)[i] = IF i <= Len(shown) THEN shown[i] ELSE todo[i - Len(shown)]
  BY ConcatProperties
<1>5. ASSUME NEW i \in 1..Len(shown) + Len(todo) PROVE (a \o b)[i] = (shown \o todo)[i]
  <2>1. i \in 1..Len(a) + Len(b) BY <1>1, <1>2
  <2>2. CASE i <= Len(shown) BY <1>2, <1>3, <1>4, <2>1, <2>2
  <2>3. CASE i = Len(shown) + 1 BY <1>2, <1>3, <1>4, <2>1, <2>3
  <2>4. CASE i > Len(shown) + 1
    <3>1. /\ i - Len(a) \in 1..Len(todo) - 1 /\ (i - Len(a)) + 1 = i - Len(shown)
          /\ ~(i <= Len(a)) /\ ~(i <= Len(shown))
      BY <1>1, <1>2, <2>4
    <3> QED BY <1>1, <1>3, <1>4, <2>1, <3>1
  <2>5. i \in Nat /\ Len(shown) \in Nat BY <1>1, <1>2
  <2>6. i <= Len(shown) \/ i = Len(shown) + 1 \/ i > Len(shown) + 1 BY <2>5
  <2> QED BY <2>2, <2>3, <2>4, <2>6
<1>6. Len(a \o b) = Len(shown \o todo) BY <1>1, <1>2, <1>3, <1>4
<1>7. a \o b = shown \o todo BY <1>3, <1>4, <1>5, <1>6, SeqEqual
<1> QED BY <1>2, <1>7 DEF a, b

LEMMA ReturnRowMeant ==
  ASSUME FdqlInv, CancelInv, MeantInv, FdqlInv', NEW r \in Runs, ReturnRow(r)
  PROVE  MeantInv'
<1>1. PICK s : s = run[r] OBVIOUS
<1>2. DOMAIN s = RunFields /\ UnderWay(s) /\ s.pc = "return" /\ s.todo # <<>> /\ s.todo \in Seq(Rows)
  BY <1>1, MeantFound DEF ReturnRow
<1>3. PICK t : t = [s EXCEPT !.shown = Append(@, Head(s.todo)), !.todo = Tail(@)] OBVIOUS
<1>4. IF StopBefore(s) # "none" THEN Ends(r, t, StopBefore(s)) ELSE Goes(r, t)
  BY <1>1, <1>3 DEF ReturnRow
<1>5. /\ DOMAIN t = RunFields /\ t.plan = s.plan /\ t.branch = s.branch /\ t.bent = s.bent
      /\ t.disturbed = s.disturbed /\ t.spent = s.spent /\ t.memory = s.memory /\ t.pc = "return"
      /\ t.shown = Append(s.shown, Head(s.todo)) /\ t.todo = Tail(s.todo)
  BY <1>2, <1>3 DEF RunFields, NewRun
<1>6. UnderWay(t)
  <2>1. SUFFICES ASSUME Exact(t) PROVE MemoryMeant(t) /\ SourceMeant(t) /\ StageMeant(t) /\ ShownMeant(t)
    BY DEF UnderWay
  <2>2. Exact(s) BY <1>5, <2>1 DEF Exact
  <2>3. MemoryMeant(s) /\ ShownMeant(s) BY <1>2, <2>2 DEF UnderWay
  <2>4. s.shown \in Seq(Rows) /\ s.shown \o s.todo = Before(s) \o RefBranch(docs, Branch(s))
    BY <1>2, <2>3 DEF ShownMeant
  <2>5. t.shown \in Seq(Rows) /\ t.shown \o t.todo = s.shown \o s.todo BY <1>2, <1>5, <2>4, ShownNext
  <2>6. Before(t) = Before(s) /\ Branch(t) = Branch(s) BY <1>5 DEF Before, Branch, Plan
  <2>7. ShownMeant(t) BY <1>5, <2>4, <2>5, <2>6 DEF ShownMeant
  <2>8. MemoryMeant(t) BY <1>5, <2>3 DEF MemoryMeant
  <2> QED BY <1>5, <2>7, <2>8 DEF SourceMeant, StageMeant, Inner, Pages, Aggregates
<1>7. CASE StopBefore(s) # "none" BY <1>4, <1>5, <1>7, StopsMeant
<1>8. CASE StopBefore(s) = "none" BY <1>4, <1>5, <1>6, <1>8, OnMeant
<1> QED BY <1>7, <1>8

LEMMA EndBranchMeant ==
  ASSUME FdqlInv, CancelInv, MeantInv, FdqlInv', NEW r \in Runs, EndBranch(r)
  PROVE  MeantInv'
<1>1. PICK s : s = run[r] OBVIOUS
<1>2. DOMAIN s = RunFields /\ UnderWay(s) /\ AtStage(s) /\ s.pc = "return" /\ s.todo = <<>> /\ WorldTyped
  BY <1>1, MeantFound DEF EndBranch
<1>3. s.plan \in DOMAIN Plans /\ s.branch \in DOMAIN Plan(s).branches BY <1>2 DEF AtStage
<1>4. s.branch \in 1..Len(Plan(s).branches) /\ Len(Plan(s).branches) \in Nat BY <1>3, PlanNumbers
<1>5. ASSUME Exact(s) PROVE s.shown = Before(s) \o RefBranch(docs, Branch(s)) /\ MemoryMeant(s)
  BY <1>2, <1>5, ConcatEmptySeq DEF UnderWay, ShownMeant
<1> DEFINE next == [s EXCEPT !.pc = "branch", !.branch = @ + 1, !.at = 0, !.next = <<>>,
                               !.max = 0, !.got = 0, !.page = 0, !.short = FALSE]
<1>6. CASE Ends(r, s, "budget") BY <1>2, <1>6, StopsMeant
<1>7. CASE Goes(r, next)
  <2>1. PICK t : t = next OBVIOUS
  <2>2. /\ t.plan = s.plan /\ t.branch = s.branch + 1 /\ t.bent = s.bent
        /\ t.disturbed = s.disturbed /\ t.spent = s.spent /\ t.memory = s.memory /\ t.pc = "branch"
        /\ t.shown = s.shown /\ t.next = <<>> /\ t.at = 0
    BY <1>2, <2>1 DEF RunFields, NewRun
  <2>3. UnderWay(t)
    <3>1. SUFFICES ASSUME Exact(t) PROVE MemoryMeant(t) /\ SourceMeant(t) /\ StageMeant(t) /\ ShownMeant(t)
      BY DEF UnderWay
    <3>2. Exact(s) BY <2>2, <3>1 DEF Exact
    <3>3. MemoryMeant(t) BY <1>5, <2>2, <3>2 DEF MemoryMeant
    <3>4. Before(t) = Before(s) \o RefBranch(docs, Branch(s)) BY <1>2, <1>3, <2>2, BranchRows
    <3>5. ShownMeant(t) BY <1>5, <2>2, <3>2, <3>4 DEF ShownMeant
    <3> QED BY <2>2, <3>3, <3>5 DEF SourceMeant, StageMeant, Pages, Aggregates
  <2> HIDE DEF next
  <2> QED BY <1>7, <2>1, <2>2, <2>3, OnMeant
<1>8. CASE ~s.spent /\ ~(s.branch < Len(Plan(s).branches)) /\ Ends(r, s, "completed")
  <2>1. PICK t : t = Over(s, "completed") OBVIOUS
  <2>2. /\ t.plan = s.plan /\ t.bent = s.bent /\ t.disturbed = s.disturbed /\ t.shown = s.shown
        /\ t.pc = "done"
    BY <1>2, <2>1 DEF Over, RunFields, NewRun
  <2>3. s.branch = Len(Plan(s).branches) BY <1>4, <1>8
  <2>4. Answer(docs, Plan(s)) = Before(s) \o RefBranch(docs, Branch(s)) BY <1>2, <1>3, <2>3, BranchRows
  <2>5. ~t.bent /\ ~t.disturbed => t.shown = Answer(docs, Plan(t))
    BY <1>5, <1>8, <2>2, <2>4 DEF Exact, Plan
  <2>6. UnderWay(t) BY <2>2 DEF UnderWay
  <2>7. Becomes(r, t) /\ docs' = docs /\ clock' = clock BY <1>8, <2>1 DEF Ends
  <2> QED BY <2>5, <2>6, <2>7, OneMeant
<1> QED BY <1>1, <1>6, <1>7, <1>8 DEF EndBranch

LEMMA StartMeant ==
  ASSUME FdqlInv, CancelInv, MeantInv, FdqlInv', NEW r \in Runs, NEW name \in PlansOf[r], Start(r, name)
  PROVE  MeantInv'
<1>1. PICK s0 : s0 = run[r] OBVIOUS
<1>2. s0 = NewRun /\ WorldTyped
  <2>1. s0.pc = "new" BY <1>1 DEF Start
  <2> QED BY <1>1, <2>1, RunFound DEF RunOK
<1>3. name \in DOMAIN Plans BY FdqlAssumption DEF Runs
<1>4. PICK s : s = [s0 EXCEPT !.startedAt = clock, !.plan = name] OBVIOUS
<1>5. DOMAIN s = RunFields /\ s.plan = name BY <1>2, <1>4 DEF RunFields, NewRun
<1>6. Plan(s) = Plans[name] BY <1>5 DEF Plan
<1>7. \/ /\ Plans[name].kind = "read" /\ Becomes(r, [s EXCEPT !.pc = "branch"])
         /\ docs' = docs /\ clock' = clock
      \/ Ends(r, s, "failed")
      \/ /\ Plans[name].kind = "clearCache" /\ Becomes(r, Over(s, "completed"))
         /\ docs' = docs /\ clock' = clock
  BY <1>1, <1>4, <1>6 DEF Start
<1>8. CASE /\ Plans[name].kind = "read" /\ Becomes(r, [s EXCEPT !.pc = "branch"])
           /\ docs' = docs /\ clock' = clock
  <2>1. PICK t : t = [s EXCEPT !.pc = "branch"] OBVIOUS
  <2>2. /\ t.plan = name /\ t.branch = 1 /\ t.memory = <<>> /\ t.pc = "branch" /\ t.at = 0
        /\ t.next = <<>> /\ t.shown = <<>>
    BY <1>2, <1>4, <2>1 DEF RunFields, NewRun
  <2>3. Plan(t) = Plans[name] BY <2>2 DEF Plan
  <2>4. 1 \in DOMAIN Plan(t).branches BY <1>3, <1>8, <2>2, <2>3, PlanNumbers
  <2>5. Before(t) = <<>> BY <1>2, <1>3, <2>2, <2>4, BranchRows
  <2>6. DOMAIN t.memory = {} BY <2>2
  <2>7. UnderWay(t)
    BY <2>2, <2>5, <2>6 DEF UnderWay, MemoryMeant, SourceMeant, StageMeant, ShownMeant, Pages, Aggregates
  <2> QED BY <1>8, <2>1, <2>2, <2>7, OneMeant
<1>9. CASE Ends(r, s, "failed") BY <1>5, <1>9, StopsMeant
<1>10. CASE /\ Plans[name].kind = "clearCache" /\ Becomes(r, Over(s, "completed"))
            /\ docs' = docs /\ clock' = clock
  <2>1. PICK t : t = Over(s, "completed") OBVIOUS
  <2>2. t.plan = name /\ t.pc = "done" BY <1>5, <2>1 DEF Over, RunFields, NewRun
  <2>3. Plan(t).kind # "read" /\ UnderWay(t) BY <1>10, <2>2 DEF Plan, UnderWay
  <2> QED BY <1>10, <2>1, <2>3, OneMeant
<1> QED BY <1>7, <1>8, <1>9, <1>10

\* A cancellation stops a run: nothing more is asked of its source.
LEMMA CancelMeant ==
  ASSUME FdqlInv, CancelInv, MeantInv, FdqlInv', NEW r \in Runs, Cancel(r)
  PROVE  MeantInv'
<1>1. PICK s : s = run[r] OBVIOUS
<1>2. DOMAIN s = RunFields /\ UnderWay(s) /\ s.pc \notin {"new", "done"} BY <1>1, MeantFound DEF Cancel
<1>3. PICK t : t = [s EXCEPT !.aborted = TRUE] OBVIOUS
<1>4. Becomes(r, t) /\ docs' = docs /\ clock' = clock BY <1>1, <1>3 DEF Cancel
<1>5. /\ t.plan = s.plan /\ t.pc = s.pc /\ t.aborted = TRUE /\ t.branch = s.branch /\ t.reads = s.reads
      /\ t.memory = s.memory /\ t.spent = s.spent /\ t.at = s.at /\ t.todo = s.todo
      /\ t.next = s.next /\ t.max = s.max /\ t.got = s.got /\ t.bent = s.bent
      /\ t.disturbed = s.disturbed /\ t.shown = s.shown
  BY <1>2, <1>3 DEF RunFields, NewRun
<1>6. Plan(t) = Plan(s) /\ Branch(t) = Branch(s) /\ Stage(t) = Stage(s) /\ Before(t) = Before(s)
      /\ LeftAtFirst(t) = LeftAtFirst(s) /\ Stopped(t)
  BY <1>5 DEF Plan, Branch, Stage, Before, LeftAtFirst, Stopped
<1>7. UnderWay(t)
  <2>1. SUFFICES ASSUME Exact(t) PROVE MemoryMeant(t) /\ SourceMeant(t) /\ StageMeant(t) /\ ShownMeant(t)
    BY DEF UnderWay
  <2>2. Exact(s) BY <1>5, <2>1 DEF Exact
  <2>3. MemoryMeant(s) /\ SourceMeant(s) /\ StageMeant(s) /\ ShownMeant(s) BY <1>2, <2>2 DEF UnderWay
  <2>4. MemoryMeant(t) BY <1>5, <2>3 DEF MemoryMeant
  <2>5. SourceMeant(t) BY <1>5, <1>6, <2>3 DEF SourceMeant
  <2>6. StageMeant(t) BY <1>5, <1>6, <2>3 DEF StageMeant
  <2>7. ShownMeant(t) BY <1>5, <1>6, <2>3 DEF ShownMeant
  <2> QED BY <2>4, <2>5, <2>6, <2>7
<1> QED BY <1>2, <1>4, <1>5, <1>7, OneMeant

\* So does the deadline, when it comes.
LEMMA TickMeant ==
  ASSUME FdqlInv, CancelInv, MeantInv, Tick \/ UNCHANGED vars
  PROVE  MeantInv'
<1>1. docs' = docs /\ run' = run BY DEF Tick, vars
<1>2. clock \in Nat /\ (clock' = clock \/ clock' = clock + 1)
  BY Numbers DEF FdqlInv, WorldTyped, Tick, vars
<1>3. ASSUME NEW q \in Runs PROVE UnderWay(run[q])'
  <2>1. UnderWay(run[q]) /\ run[q].startedAt \in Nat BY RunFound DEF MeantInv, RunTyped
  <2>2. Stopped(run[q]) => Stopped(run[q])' BY <1>1, <1>2, <2>1, Numbers DEF Stopped
  <2>3. MemoryMeant(run[q]) => MemoryMeant(run[q])' BY <1>1 DEF MemoryMeant
  <2>4. SourceMeant(run[q]) => SourceMeant(run[q])'
    BY <1>1, <2>2 DEF SourceMeant, LeftAtFirst, Plan, Branch
  <2>5. StageMeant(run[q]) => StageMeant(run[q])'
    BY <1>1 DEF StageMeant, LeftAtFirst, Plan, Branch, Stage
  <2>6. ShownMeant(run[q]) => ShownMeant(run[q])' BY <1>1 DEF ShownMeant, Before, Plan, Branch
  <2> QED BY <1>1, <2>1, <2>3, <2>4, <2>5, <2>6 DEF UnderWay, Exact
<1>4. CompletedIsAnswer' BY <1>1 DEF MeantInv, CompletedIsAnswer, Plan
<1> QED BY <1>3, <1>4 DEF MeantInv

\* A write of another client disturbs every run that has started.
LEMMA OutsideWriteMeant ==
  ASSUME FdqlInv, CancelInv, NEW c \in Collections, NEW n \in 0..MaxDocs, OutsideWrite(c, n)
  PROVE  MeantInv'
<1>1. ASSUME NEW q \in Runs
      PROVE  run'[q].disturbed \/ (run'[q].pc = "new" /\ run'[q].reason # "completed")
  <2>1. run'[q] = IF run[q].pc = "new" THEN run[q] ELSE [run[q] EXCEPT !.disturbed = TRUE]
    BY DEF OutsideWrite
  <2>2. CASE run[q].pc = "new"
    <3>1. run[q].reason = "none" BY <2>2, RunFound DEF RunTyped
    <3> QED BY <2>1, <2>2, <3>1
  <2>3. CASE run[q].pc # "new"
    <3>1. PICK t : t = [run[q] EXCEPT !.disturbed = TRUE] OBVIOUS
    <3>2. t.disturbed BY <3>1, RunFound DEF RunFields, NewRun
    <3> QED BY <2>1, <2>3, <3>1, <3>2
  <2> QED BY <2>2, <2>3
<1>2. \A q \in Runs : UnderWay(run[q])' BY <1>1 DEF UnderWay, Exact
<1>3. CompletedIsAnswer' BY <1>1 DEF CompletedIsAnswer
<1> QED BY <1>2, <1>3 DEF MeantInv

LEMMA MeantInit == Init => MeantInv
<1> SUFFICES ASSUME Init PROVE MeantInv OBVIOUS
<1>1. \A q \in Runs : run[q].pc = "new" /\ run[q].reason = "none" BY DEF Init, NewRun
<1> QED BY <1>1 DEF MeantInv, CompletedIsAnswer, UnderWay

\* Every step keeps what the runs mean.
LEMMA MeantNext ==
  ASSUME FdqlInv, CancelInv, MeantInv, [Next]_vars
  PROVE  MeantInv'
<1>0. FdqlInv' BY FdqlInvNext
<1>1. ASSUME NEW r \in Runs, Step(r) PROVE MeantInv'
  BY <1>0, <1>1, AskMeant, DocumentMeant, BeginBranchMeant, SourceReadMeant, RunStageMeant, BeginLookupMeant,
     LookupReadMeant, BeginAggregateMeant, AggregatedMeant, ReturnRowMeant, EndBranchMeant DEF Step
<1>2. ASSUME NEW r \in Runs,
             \/ \E name \in PlansOf[r] : Start(r, name)
             \/ Cancel(r) \/ Abandon(r) \/ RequestFails(r)
             \/ Connected(r) \/ PageArrives(r) \/ AggregateArrives(r)
      PROVE  MeantInv'
  BY <1>0, <1>2, StartMeant, CancelMeant, AbandonMeant, ConnectedMeant, RequestFailsMeant, PageArrivesMeant,
     AggregateArrivesMeant
<1>3. CASE Tick \/ UNCHANGED vars BY <1>3, TickMeant
<1>5. CASE \E c \in Collections, n \in 0..MaxDocs : OutsideWrite(c, n) BY <1>5, OutsideWriteMeant
<1> QED BY <1>1, <1>2, <1>3, <1>5 DEF Next

\* A run that has completed has returned what its query means, in order and of every
\* branch: whatever the pages, the caches, the budget and the interleaving of the runs,
\* but for the four cases bent marks and the writes of others (executeFdql,
\* executeReadBranch, executeLookup and createRunCache).
THEOREM CompletedRunsReturnTheirAnswer == Spec => []CompletedIsAnswer
<1>1. FdqlInv /\ CancelInv /\ MeantInv /\ [Next]_vars => MeantInv' BY MeantNext
<1>2. MeantInv => CompletedIsAnswer BY DEF MeantInv
<1> QED BY <1>1, <1>2, MeantInit, FdqlInvariant, CancelInvariant, PTL DEF Spec
=============================================================================
