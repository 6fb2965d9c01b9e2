-------------------------- MODULE ScriptRunsProofs --------------------------
(* Proofs about ScriptRuns, for any number of tabs, runs, values, logged
   ids and failures: a run that is over leaves no process behind
   (ScriptInv), a tab shows only what is true of the run it last started,
   and each run gets into the activity log once (ResultInv).  What comes
   back to the renderer cannot be trusted to be in order, so the second
   invariant says of everything that is on its way that it is true, and
   counts the values a script has yielded wherever they are: sent by its
   process, among the events, and shown. *)
EXTENDS ScriptRuns, FiniteSetTheorems, SequenceTheorems, TLAPS

\* What the calls, the runs and their processes range over.
RunTypes ==
  /\ owner \in Seq(Tabs)
  /\ active \in [Tabs -> Runs \cup {NoRun}]
  /\ calls \in Seq(Call)
  /\ main \in [Runs -> {"none", "resolving", "active", "settled"}]
  /\ child \in [Runs -> {"none", "running", "exiting", "dead"}]
  /\ killed \subseteq Runs

\* The step that makes a run active forks its process.
ForkedWhenActive == \A r \in Runs : main[r] \in {"none", "resolving"} => child[r] = "none"

\* A call of run() that is on its way is for a run that has not begun, and no run has two.
RunCallsFresh ==
  \A i \in 1..Len(calls) : calls[i].type = "run" =>
    /\ main[calls[i].run] = "none"
    /\ \A j \in 1..Len(calls) :
         calls[j].type = "run" /\ calls[j].run = calls[i].run => i = j

\* Nobody has called run() for a run that is yet to be numbered.
UnnumberedUnknown ==
  \A r \in Runs : r > Len(owner) =>
    /\ main[r] = "none"
    /\ \A i \in 1..Len(calls) : calls[i].type = "run" => calls[i].run # r

ScriptInv == RunTypes /\ ForkedWhenActive /\ RunCallsFresh /\ UnnumberedUnknown /\ NoStray

----------------
(* Steps of one kind *)

\* Each call on its way is for a run.
LEMMA CallOf ==
  ASSUME NEW q \in Seq(Call), NEW i \in 1..Len(q)
  PROVE  q[i] \in Call /\ q[i].run \in Runs
<1>1. q[i] \in Call OBVIOUS
<1> QED BY <1>1 DEF Call

\* A call that is not one of run() disturbs nothing.
LEMMA CallAdded ==
  ASSUME ScriptInv, NEW call \in Call, call.type # "run",
         calls' = Append(calls, call), UNCHANGED <<owner, main, child, killed, spared>>,
         active' \in [Tabs -> Runs \cup {NoRun}]
  PROVE  ScriptInv'
<1> USE DEF ScriptInv, RunTypes
<1>1. /\ calls' \in Seq(Call) /\ Len(calls') = Len(calls) + 1
      /\ \A i \in 1..Len(calls') : calls'[i].type = "run" => i \in 1..Len(calls) /\ calls'[i] = calls[i]
  OBVIOUS
<1>2. RunCallsFresh' BY <1>1 DEF RunCallsFresh
<1>3. UnnumberedUnknown' BY <1>1 DEF UnnumberedUnknown
<1> QED BY <1>1, <1>2, <1>3 DEF ForkedWhenActive, NoStray

\* Nor does a step that leaves calls, runs and processes alone.
LEMMA Elsewhere ==
  ASSUME ScriptInv, UNCHANGED <<owner, calls, main, child, killed, spared>>,
         active' \in [Tabs -> Runs \cup {NoRun}]
  PROVE  ScriptInv'
BY DEF ScriptInv, RunTypes, ForkedWhenActive, RunCallsFresh, UnnumberedUnknown, NoStray

\* The first call has been taken.
LEMMA CallTaken ==
  ASSUME calls \in Seq(Call), calls # <<>>, calls' = Tail(calls)
  PROVE  /\ Head(calls) = calls[1] /\ Head(calls) \in Call
         /\ calls' \in Seq(Call) /\ Len(calls) = Len(calls') + 1
         /\ \A i \in 1..Len(calls') : i + 1 \in 1..Len(calls) /\ calls'[i] = calls[i + 1]
OBVIOUS

\* A run that has begun gets on, and its process with it.
LEMMA RunGetsOn ==
  ASSUME ScriptInv, NEW r \in Runs, main[r] # "none",
         main' \in [Runs -> {"none", "resolving", "active", "settled"}],
         child' \in [Runs -> {"none", "running", "exiting", "dead"}],
         killed \subseteq killed', killed' \subseteq Runs, spared \subseteq spared',
         \A q \in Runs \ {r} : main'[q] = main[q] /\ child'[q] = child[q],
         main'[r] \in {"active", "settled"},
         main'[r] = "settled" => child'[r] \in {"none", "dead"} \/ r \in (killed \cup spared)',
         UNCHANGED <<owner, active, calls>>
  PROVE  ScriptInv'
<1> USE DEF ScriptInv, RunTypes
<1>1. ForkedWhenActive' BY DEF ForkedWhenActive
<1>2. RunCallsFresh'
  <2> SUFFICES ASSUME NEW i \in 1..Len(calls), calls[i].type = "run"
               PROVE  main'[calls[i].run] = "none"
    BY DEF RunCallsFresh
  <2>1. calls[i].run \in Runs BY CallOf
  <2> QED BY <2>1 DEF RunCallsFresh
<1>3. UnnumberedUnknown' BY DEF UnnumberedUnknown
<1>4. NoStray' BY DEF NoStray
<1> QED BY <1>1, <1>2, <1>3, <1>4

\* finish() settles the run and leaves no process to itself.
LEMMA FinishKeeps ==
  ASSUME ScriptInv, NEW r \in Runs, NEW kind, NEW n, NEW used, main[r] = "active",
         Finish(r, kind, n, used), UNCHANGED <<owner, active, calls, child>>
  PROVE  ScriptInv'
BY RunGetsOn DEF Finish, Kills, ScriptInv, RunTypes

----------------
(* The invariant *)

LEMMA InitInv == Init => ScriptInv
BY DEF Init, ScriptInv, RunTypes, ForkedWhenActive, RunCallsFresh, UnnumberedUnknown, NoStray, NoRun

\* A new run gets the next number, for which nobody has called run() yet.
LEMMA RunKeeps == ASSUME ScriptInv, MaxRuns \in Nat, NEW t \in Tabs, Run(t) PROVE ScriptInv'
<1> USE DEF ScriptInv, RunTypes
<1> DEFINE r == Len(owner) + 1
           call == [type |-> "run", run |-> r]
<1>1. r \in Runs /\ call \in Call BY DEF Run, Runs, Call
<1>2. /\ owner' = Append(owner, t) /\ active' = [active EXCEPT ![t] = r]
      /\ calls' = Append(calls, call) /\ UNCHANGED <<main, child, killed, spared>>
  BY DEF Run, repository, process
<1>3. /\ owner' \in Seq(Tabs) /\ Len(owner') = r
      /\ calls' \in Seq(Call) /\ Len(calls') = Len(calls) + 1 /\ calls'[Len(calls) + 1] = call
      /\ Len(calls) \in Nat /\ Len(owner) \in Nat
      /\ \A i \in 1..Len(calls) : calls'[i] = calls[i]
  BY <1>1, <1>2
<1>4. /\ main[r] = "none"
      /\ \A i \in 1..Len(calls) : calls[i].type = "run" => calls[i].run # r
  BY <1>1 DEF UnnumberedUnknown
<1>5. call.run = r /\ r > Len(owner) BY <1>3
<1>6. RunCallsFresh BY DEF ScriptInv
<1>7. RunCallsFresh'
  <2> HIDE DEF r, call, ScriptInv, RunTypes
  <2> SUFFICES ASSUME NEW i \in 1..Len(calls'), calls'[i].type = "run"
               PROVE  /\ main[calls'[i].run] = "none"
                      /\ \A j \in 1..Len(calls') :
                           calls'[j].type = "run" /\ calls'[j].run = calls'[i].run => i = j
    BY <1>2 DEF RunCallsFresh
  <2>1. \A j \in 1..Len(calls') : j = Len(calls) + 1 \/ j \in 1..Len(calls) BY <1>3
  <2>2. CASE i = Len(calls) + 1 BY <1>3, <1>4, <1>5, <2>1, <2>2
  <2>3. CASE i \in 1..Len(calls) BY <1>3, <1>4, <1>5, <1>6, <2>1, <2>3 DEF RunCallsFresh
  <2> QED BY <2>1, <2>2, <2>3
<1>8. UnnumberedUnknown'
  <2> SUFFICES ASSUME NEW q \in Runs, q > r
               PROVE  /\ main[q] = "none"
                      /\ \A i \in 1..Len(calls') : calls'[i].type = "run" => calls'[i].run # q
    BY <1>2, <1>3 DEF UnnumberedUnknown
  <2>1. q > Len(owner) /\ q # r BY <1>3 DEF Runs
  <2>2. /\ main[q] = "none"
        /\ \A i \in 1..Len(calls) : calls[i].type = "run" => calls[i].run # q
    BY <2>1 DEF UnnumberedUnknown
  <2> HIDE DEF r, call, ScriptInv, RunTypes
  <2>3. \A i \in 1..Len(calls') : i = Len(calls) + 1 \/ i \in 1..Len(calls) BY <1>3
  <2> QED BY <2>1, <2>2, <2>3, <1>3, <1>5
<1> QED BY <1>1, <1>2, <1>3, <1>7, <1>8 DEF ForkedWhenActive, NoStray

LEMMA ReceiveRunKeeps == ASSUME ScriptInv, ReceiveRun PROVE ScriptInv'
<1> USE DEF ScriptInv, RunTypes
<1>1. /\ calls # <<>> /\ calls' = Tail(calls) /\ Head(calls).type = "run"
      /\ main' = [main EXCEPT ![Head(calls).run] = "resolving"]
      /\ UNCHANGED <<owner, active, child, killed, spared>>
  BY DEF ReceiveRun, renderer, process
<1> DEFINE r == calls[1].run
<1>2. /\ Head(calls) = calls[1] /\ calls[1].type = "run" /\ 1 \in 1..Len(calls)
      /\ calls' \in Seq(Call) /\ Len(calls) = Len(calls') + 1 /\ Len(calls') \in Nat
      /\ \A i \in 1..Len(calls') : i + 1 \in 1..Len(calls) /\ calls'[i] = calls[i + 1]
  BY <1>1, CallTaken
<1>3. r \in Runs /\ main[r] = "none" /\ main' = [main EXCEPT ![r] = "resolving"]
  BY <1>1, <1>2, CallOf DEF RunCallsFresh
<1>4. RunCallsFresh'
  <2> SUFFICES ASSUME NEW i \in 1..Len(calls'), calls'[i].type = "run"
               PROVE  /\ main'[calls'[i].run] = "none"
                      /\ \A j \in 1..Len(calls') :
                           calls'[j].type = "run" /\ calls'[j].run = calls'[i].run => i = j
    BY DEF RunCallsFresh
  <2>1. i + 1 \in 1..Len(calls) /\ i + 1 # 1 /\ calls'[i] = calls[i + 1] BY <1>2
  <2>2. main[calls'[i].run] = "none" /\ calls'[i].run # r BY <2>1, <1>2 DEF RunCallsFresh
  <2>3. calls'[i].run \in Runs BY <1>2, CallOf
  <2>4. ASSUME NEW j \in 1..Len(calls'), calls'[j].type = "run", calls'[j].run = calls'[i].run
        PROVE  i = j
    <3>1. j + 1 \in 1..Len(calls) /\ calls'[j] = calls[j + 1] BY <1>2
    <3>2. i + 1 = j + 1 BY <2>1, <2>4, <3>1 DEF RunCallsFresh
    <3> QED BY <3>2
  <2> QED BY <1>3, <2>2, <2>3, <2>4
<1>5. UnnumberedUnknown' BY <1>1, <1>2, <1>3 DEF UnnumberedUnknown
<1>6. ForkedWhenActive' BY <1>1, <1>3 DEF ForkedWhenActive
<1>7. NoStray' BY <1>1, <1>3 DEF NoStray
<1> QED BY <1>1, <1>2, <1>3, <1>4, <1>5, <1>6, <1>7

\* A cancel call is taken: its run may be sent a signal.
LEMMA CancelCallKeeps ==
  ASSUME ScriptInv, calls # <<>>, calls' = Tail(calls), killed \subseteq killed',
         killed' \subseteq Runs,
         UNCHANGED <<owner, active, main, child, spared>>
  PROVE  ScriptInv'
<1> USE DEF ScriptInv, RunTypes
<1>1. /\ calls' \in Seq(Call)
      /\ \A i \in 1..Len(calls') : i + 1 \in 1..Len(calls) /\ calls'[i] = calls[i + 1]
  BY CallTaken
<1>2. Len(calls') \in Nat BY <1>1
<1>3. RunCallsFresh'
  <2> SUFFICES ASSUME NEW i \in 1..Len(calls'), calls'[i].type = "run"
               PROVE  /\ main[calls'[i].run] = "none"
                      /\ \A j \in 1..Len(calls') :
                           calls'[j].type = "run" /\ calls'[j].run = calls'[i].run => i = j
    BY DEF RunCallsFresh
  <2> QED BY <1>1, <1>2 DEF RunCallsFresh
<1>4. UnnumberedUnknown' BY <1>1 DEF UnnumberedUnknown
<1> QED BY <1>1, <1>3, <1>4 DEF ForkedWhenActive, NoStray

LEMMA NextInv == ASSUME ScriptInv, MaxRuns \in Nat, [Next]_vars PROVE ScriptInv'
<1> USE DEF ScriptInv, RunTypes
<1>1. ASSUME NEW t \in Tabs, Run(t) PROVE ScriptInv' BY <1>1, RunKeeps
<1>2. ASSUME NEW t \in Tabs, CancelRun(t) PROVE ScriptInv'
  <2> DEFINE call == [type |-> "cancel", run |-> active[t]]
  <2>1. call \in Call /\ call.type # "run" BY <1>2 DEF CancelRun, Call
  <2>2. /\ calls' = Append(calls, call) /\ active' = [active EXCEPT ![t] = NoRun]
        /\ UNCHANGED <<owner, main, child, killed, spared>>
    BY <1>2 DEF CancelRun, CallCancel, Ends, repository, process
  <2> QED BY <2>1, <2>2, CallAdded
<1>3. ASSUME NEW t \in Tabs, ClearTab(t) PROVE ScriptInv'
  <2> DEFINE call == [type |-> "clear", run |-> active[t]]
  <2>1. active' = [active EXCEPT ![t] = NoRun] /\ UNCHANGED <<owner, main, child, killed, spared>>
    BY <1>3 DEF ClearTab, repository, process
  <2>2. CASE active[t] # NoRun
    BY <1>3, <2>1, <2>2, CallAdded DEF Call, ClearTab, CallCancelIfRunning, CallCancel
  <2>3. CASE active[t] = NoRun
    <3>1. UNCHANGED calls BY <1>3, <2>3 DEF ClearTab, CallCancelIfRunning
    <3> QED BY <2>1, <3>1, Elsewhere
  <2> QED BY <2>2, <2>3
<1>4. CASE ReceiveRun BY <1>4, ReceiveRunKeeps
<1>5. CASE ReceiveCancel
  BY <1>5, CallTaken, CancelCallKeeps DEF ReceiveCancel, renderer, process, Call
<1>6. CASE CancelRejects BY <1>6, CancelCallKeeps DEF CancelRejects, renderer, process
<1>7. CASE ReceiveEvent BY <1>7, Elsewhere DEF ReceiveEvent, repository, process, Ends
<1>8. CASE ReceiveAnswer BY <1>8, Elsewhere DEF ReceiveAnswer, repository, process, Ends
<1>9. CASE ReceiveRefusal BY <1>9, Elsewhere DEF ReceiveRefusal, repository, process
<1>10. ASSUME NEW r \in Runs, Resolve(r) PROVE ScriptInv'
  <2>1. CASE r \in cancelledRuns BY <1>10, <2>1, RunGetsOn DEF Resolve, renderer, ForkedWhenActive
  <2>2. CASE r \notin cancelledRuns
    <3>1. /\ main[r] = "resolving" /\ main' = [main EXCEPT ![r] = "active"]
          /\ child' = [child EXCEPT ![r] = "running"]
          /\ UNCHANGED <<owner, active, calls, killed, spared>>
      BY <1>10, <2>2 DEF Resolve, renderer
    <3> QED BY <3>1, RunGetsOn
  <2> QED BY <2>1, <2>2
<1>11. ASSUME NEW r \in Runs, ResolveFails(r) PROVE ScriptInv'
  BY <1>11, RunGetsOn DEF ResolveFails, renderer, process, ForkedWhenActive
<1>12. ASSUME NEW r \in Runs, HandleMessage(r) PROVE ScriptInv'
  <2> DEFINE message == Head(sent[r])
  <2>1. main[r] = "active" /\ UNCHANGED <<owner, active, calls, child>>
    BY <1>12 DEF HandleMessage, renderer, process
  <2>2. CASE message.type = "output"
    <3>1. UNCHANGED <<main, killed, spared>> BY <1>12, <2>2 DEF HandleMessage
    <3> QED BY <2>1, <3>1, Elsewhere
  <2>3. CASE message.type = "result" BY <1>12, <2>1, <2>3, FinishKeeps DEF HandleMessage
  <2> QED BY <1>12, <2>2, <2>3 DEF HandleMessage
<1>13. ASSUME NEW r \in Runs, HandleError(r) PROVE ScriptInv'
  BY <1>13, FinishKeeps DEF HandleError, renderer, process
<1>14. ASSUME NEW r \in Runs, HandleExit(r) PROVE ScriptInv'
  BY <1>14, FinishKeeps DEF HandleExit, renderer, process
<1>15. ASSUME NEW r \in Runs, Yield(r) PROVE ScriptInv'
  BY <1>15, Elsewhere DEF Yield, renderer, repository, channels
<1>16. ASSUME NEW r \in Runs, NEW s \in {"exiting", "dead"}, child[r] \in {"running", "exiting"},
              child' = [child EXCEPT ![r] = s], UNCHANGED <<owner, active, calls, main, killed, spared>>
       PROVE  ScriptInv'
  BY <1>16 DEF ForkedWhenActive, RunCallsFresh, UnnumberedUnknown, NoStray
<1>17. ASSUME NEW r \in Runs, ScriptEnds(r) \/ WorkerFails(r) PROVE ScriptInv'
  BY <1>16, <1>17 DEF ScriptEnds, WorkerFails, SendsResult, renderer, repository, channels
<1>18. ASSUME NEW r \in Runs, Die(r) PROVE ScriptInv'
  BY <1>16, <1>18 DEF Die, renderer, repository, channels
<1>19. CASE UNCHANGED vars BY <1>19, Elsewhere DEF vars, renderer, repository, process, channels
<1> QED BY <1>1, <1>2, <1>3, <1>4, <1>5, <1>6, <1>7, <1>8, <1>9, <1>10, <1>11, <1>12, <1>13, <1>14,
     <1>15, <1>17, <1>18, <1>19 DEF Next

\* The inductive invariant holds throughout.
THEOREM ScriptInvariant == Spec => []ScriptInv
<1>1. MaxRuns \in Nat BY ScriptAssumption
<1> QED BY <1>1, InitInv, NextInv, PTL DEF Spec

\* Whatever the calls, failures and exits, and in whatever order they come, a run that is
\* over for the main process has no process that nobody has sent a signal, or tried to and
\* failed.
THEOREM NoneStray == Spec => []NoStray
<1>1. ScriptInv => NoStray BY DEF ScriptInv
<1> QED BY <1>1, ScriptInvariant, PTL

----------------
(* How often a sequence has a value *)

\* How often a sequence has a value.
Occurrences(q, x) == Cardinality({i \in DOMAIN q : q[i] = x})

\* It is a number, for a sequence is finite.
LEMMA OccurrencesNat ==
  ASSUME NEW S, NEW q \in Seq(S), NEW x
  PROVE  Occurrences(q, x) \in Nat /\ IsFiniteSet({i \in DOMAIN q : q[i] = x})
<1>1. Len(q) \in Nat /\ DOMAIN q = 1..Len(q) BY LenProperties
<1>2. IsFiniteSet(1..Len(q)) BY <1>1, FS_Interval
<1>3. IsFiniteSet({i \in DOMAIN q : q[i] = x}) BY <1>1, <1>2, FS_Subset
<1> QED BY <1>3, FS_CardinalityType DEF Occurrences

LEMMA OccurrencesEmpty == ASSUME NEW x PROVE Occurrences(<<>>, x) = 0
BY FS_EmptySet DEF Occurrences

\* One more value at the end counts if it is the one asked for.
LEMMA OccurrencesAppend ==
  ASSUME NEW S, NEW q \in Seq(S), NEW e \in S, NEW x
  PROVE  Occurrences(Append(q, e), x) = Occurrences(q, x) + (IF e = x THEN 1 ELSE 0)
<1> DEFINE A == {i \in DOMAIN q : q[i] = x}
           n == Len(q) + 1
           B == {i \in DOMAIN Append(q, e) : Append(q, e)[i] = x}
<1>1. IsFiniteSet(A) /\ Cardinality(A) \in Nat BY OccurrencesNat DEF Occurrences
<1>2. Len(q) \in Nat /\ DOMAIN q = 1..Len(q) /\ n \notin A BY LenProperties
<1>3. /\ DOMAIN Append(q, e) = 1..n /\ Append(q, e)[n] = e
      /\ \A i \in 1..Len(q) : Append(q, e)[i] = q[i]
  BY <1>2
<1>0. Occurrences(q, x) = Cardinality(A) /\ Occurrences(Append(q, e), x) = Cardinality(B)
  BY DEF Occurrences
<1> HIDE DEF A, B
<1>4. CASE e = x
  <2>1. B = A \cup {n} BY <1>2, <1>3, <1>4 DEF A, B
  <2> QED BY <1>0, <1>1, <1>2, <1>4, <2>1, FS_AddElement
<1>5. CASE e # x
  <2>1. B = A BY <1>2, <1>3, <1>5 DEF A, B
  <2> QED BY <1>0, <1>1, <1>5, <2>1
<1> QED BY <1>4, <1>5

\* The first value counts if it is the one asked for.
LEMMA OccurrencesTail ==
  ASSUME NEW S, NEW q \in Seq(S), q # <<>>, NEW x
  PROVE  Occurrences(q, x) = Occurrences(Tail(q), x) + (IF Head(q) = x THEN 1 ELSE 0)
<1> DEFINE t == Tail(q)
           A == {i \in DOMAIN q : q[i] = x}
           B == {i \in DOMAIN t : t[i] = x}
           f == [i \in B |-> i + 1]
<1>1. IsFiniteSet(A) /\ Cardinality(A) \in Nat BY OccurrencesNat DEF Occurrences
<1>2. Len(q) \in Nat /\ Len(q) >= 1 /\ DOMAIN q = 1..Len(q) /\ Head(q) = q[1]
  BY LenProperties, EmptySeq
<1>3. t \in Seq(S) /\ Len(t) = Len(q) - 1 /\ \A i \in 1..Len(t) : t[i] = q[i + 1]
  BY HeadTailProperties
<1>4. DOMAIN t = 1..Len(t) BY <1>3, LenProperties
<1>5. IsFiniteSet(B) /\ Cardinality(B) \in Nat BY <1>3, OccurrencesNat DEF Occurrences
<1>0. Occurrences(q, x) = Cardinality(A) /\ Occurrences(t, x) = Cardinality(B) BY DEF Occurrences
<1> HIDE DEF t, A, B
<1>6. f \in Bijection(B, A \ {1})
  <2>1. \A i \in B : i \in Nat /\ i + 1 \in A \ {1} BY <1>2, <1>3, <1>4 DEF A, B
  <2>2. \A j \in A \ {1} : j - 1 \in B /\ j = (j - 1) + 1 BY <1>2, <1>3, <1>4 DEF A, B
  <2>3. f \in [B -> A \ {1}] BY <2>1
  <2>4. DOMAIN f = B /\ \A i, j \in B : f[i] = f[j] => i = j BY <2>1
  <2>5. \A j \in A \ {1} : \E i \in B : f[i] = j BY <2>2
  <2> HIDE DEF f
  <2> QED BY <2>3, <2>4, <2>5 DEF Bijection, Injection, Surjection, IsInjective
<1>7. Cardinality(A \ {1}) = Cardinality(B) BY <1>5, <1>6, FS_Bijection DEF ExistsBijection
<1>8. 1 \in A <=> q[1] = x BY <1>2 DEF A
<1>9. Cardinality(A \ {1}) = IF 1 \in A THEN Cardinality(A) - 1 ELSE Cardinality(A)
  BY <1>1, FS_RemoveElement
<1> QED BY <1>0, <1>1, <1>2, <1>5, <1>7, <1>8, <1>9 DEF t

----------------
(* What the results are true of: the second invariant *)

\* A result tells no more than is true of its run.
Truthful(x) ==
  /\ x.run \in DOMAIN owner /\ x.kind # "partial" /\ x.stream <= yielded[x.run]
  /\ x.kind = "success" => ended[x.run] = "success" /\ x.stream = yielded[x.run]
  /\ x.kind = "cancelled" => x.run \in stopped

\* What comes back to the renderer tells the truth, of runs it has started.
ResultsTrue ==
  /\ \A x \in answers : Truthful(x)
  /\ \A i \in DOMAIN events :
       /\ events[i].type = "complete" => Truthful(events[i].result)
       /\ events[i].type = "output" => events[i].run \in DOMAIN owner

\* A process that is listened to says the truth of its script.
MessagesTrue ==
  \A r \in Runs :
    /\ main[r] # "active" => sent[r] = <<>>
    /\ \A i \in DOMAIN sent[r] : sent[r][i].type = "result" =>
         /\ sent[r][i].kind \in {"success", "failure"} /\ sent[r][i].stream <= yielded[r]
         /\ sent[r][i].kind = "success" =>
              ended[r] = "success" /\ sent[r][i].stream = yielded[r]

\* A script that has ended is not executed any more.
EndsOnce == \A r \in Runs : child[r] \in {"none", "running"} => ended[r] = "no"

\* Nothing is cancelled but on the renderer's call.
CancelsAsked ==
  /\ cancelling \cup cancelledRuns \subseteq stopped
  /\ \A i \in DOMAIN calls : calls[i].type # "run" => calls[i].run \in stopped

\* What a tab shows of a run it has, and what is on its way to it, has been yielded;
\* and so has what the repository has counted.
OutputOf(r) == [type |-> "output", run |-> r]
Output == [type |-> "output"]
ShownOf(r) == IF active[owner[r]] = r THEN shown[owner[r]].stream ELSE 0

OutputsYielded ==
  /\ \A r \in Runs : stream[r] + Occurrences(sent[r], Output) <= yielded[r]
  /\ \A r \in DOMAIN owner :
       ShownOf(r) + Occurrences(events, OutputOf(r)) + Occurrences(sent[r], Output) <= yielded[r]

ActiveOwned ==
  \A t \in Tabs : active[t] # NoRun => active[t] \in DOMAIN owner /\ owner[active[t]] = t

\* The log has each run at most once, when its tab does not have it any more; and it
\* has what is remembered as logged.
LogOnce ==
  /\ \A i \in DOMAIN log :
       /\ log[i].run \in DOMAIN owner /\ active[owner[log[i].run]] # log[i].run
       /\ log[i].kind = "success" => ended[log[i].run] = "success"
       /\ log[i].kind = "cancelled" => log[i].run \in stopped
       /\ log[i].kind # "partial"
       /\ \A j \in DOMAIN log : log[i].run = log[j].run => i = j
  /\ \A r \in DOMAIN owner :
       active[owner[r]] # r /\ r \notin gone => \E i \in DOMAIN log : log[i].run = r
  /\ \A i \in DOMAIN logged : \E j \in DOMAIN log : log[j].run = logged[i]

ResultInv ==
  /\ TypeOK /\ ScriptInv /\ ResultsTrue /\ MessagesTrue /\ EndsOnce /\ CancelsAsked
  /\ OutputsYielded /\ ActiveOwned /\ LogOnce /\ ShowsItsRun

\* What only grows, and what a script that has ended leaves as it is.
Later ==
  /\ DOMAIN owner \subseteq DOMAIN owner' /\ \A r \in DOMAIN owner : owner'[r] = owner[r]
  /\ stopped \subseteq stopped'
  /\ \A r \in Runs : /\ yielded'[r] \in Nat /\ yielded[r] <= yielded'[r]
                     /\ ended[r] = "success" => ended'[r] = "success" /\ yielded'[r] = yielded[r]

\* What a longer sequence has, and where.
LEMMA AppendOf ==
  ASSUME NEW S, NEW q \in Seq(S), NEW e \in S
  PROVE  /\ Append(q, e) \in Seq(S) /\ Len(Append(q, e)) = Len(q) + 1 /\ Len(q) \in Nat
         /\ DOMAIN q = 1..Len(q) /\ DOMAIN Append(q, e) = 1..(Len(q) + 1)
         /\ Append(q, e)[Len(q) + 1] = e /\ \A i \in DOMAIN q : Append(q, e)[i] = q[i]
         /\ \A i \in DOMAIN Append(q, e) : i = Len(q) + 1 \/ i \in DOMAIN q
BY LenProperties

\* What a sequence has without its first value, and where.
LEMMA TailOf ==
  ASSUME NEW S, NEW q \in Seq(S), q # <<>>
  PROVE  /\ Head(q) \in S /\ Head(q) = q[1] /\ 1 \in DOMAIN q
         /\ Tail(q) \in Seq(S)
         /\ \A i \in DOMAIN Tail(q) : i + 1 \in DOMAIN q /\ Tail(q)[i] = q[i + 1]
<1> DEFINE t == Tail(q)
<1>1. /\ Len(q) \in Nat /\ Len(q) >= 1 /\ DOMAIN q = 1..Len(q) /\ Head(q) = q[1]
      /\ Head(q) \in S
  BY LenProperties, EmptySeq, HeadTailProperties
<1>2. t \in Seq(S) /\ Len(t) = Len(q) - 1 /\ \A i \in 1..Len(t) : t[i] = q[i + 1]
  BY HeadTailProperties
<1>3. DOMAIN t = 1..Len(t) BY <1>2, LenProperties
<1> HIDE DEF t
<1>4. \A i \in DOMAIN t : i + 1 \in DOMAIN q /\ t[i] = q[i + 1] BY <1>1, <1>2, <1>3
<1> QED BY <1>1, <1>2, <1>4 DEF t

\* The runs so far are runs.
LEMMA OwnedRuns ==
  ASSUME TypeOK, ScriptAssumption
  PROVE  DOMAIN owner \subseteq Runs /\ DOMAIN owner = 1..Len(owner)
BY LenProperties DEF TypeOK, ScriptAssumption, Runs

\* What is true of a run stays true.
LEMMA TruthKept ==
  ASSUME TypeOK, ScriptAssumption, Later, NEW x \in Result, Truthful(x)
  PROVE  Truthful(x)'
<1>1. x.run \in Runs /\ x.stream \in Nat BY DEF Result
<1>2. /\ yielded[x.run] \in Nat /\ yielded'[x.run] \in Nat /\ yielded[x.run] <= yielded'[x.run]
      /\ ended[x.run] = "success" => ended'[x.run] = "success" /\ yielded'[x.run] = yielded[x.run]
  BY <1>1 DEF Later, TypeOK
<1>3. x.run \in DOMAIN owner' BY DEF Truthful, Later
<1>4. x.kind = "cancelled" => x.run \in stopped' BY DEF Truthful, Later
<1>5. CASE ended[x.run] = "success" BY <1>1, <1>2, <1>3, <1>4, <1>5 DEF Truthful
<1>6. CASE ended[x.run] # "success" BY <1>1, <1>2, <1>3, <1>4, <1>6 DEF Truthful
<1> QED BY <1>5, <1>6

\* A step that yields, starts and ends nothing.
LEMMA LaterWhen ==
  ASSUME TypeOK, UNCHANGED <<owner, yielded, ended>>, stopped \subseteq stopped'
  PROVE  Later
BY DEF Later, TypeOK

\* The run of tab t is over, with what is true of it.
LEMMA EndsKeeps ==
  ASSUME ResultInv, ScriptAssumption, NEW t \in Tabs, active[t] # NoRun, NEW x \in Result,
         x.run = active[t],
         Ends(t, x), Truthful(x)', UNCHANGED <<owner, yielded, ended, gone>>, stopped \subseteq stopped'
  PROVE  /\ active' \in [Tabs -> Runs \cup {NoRun}] /\ shown' \in [Tabs -> Result \cup {NoResult}]
         /\ logged' \in Seq(Runs) /\ Len(logged') <= MaxLogged
         /\ log' \in Seq([run : Runs, kind : Kinds])
         /\ ActiveOwned' /\ LogOnce' /\ ShowsItsRun'
         /\ \A r \in DOMAIN owner : ShownOf(r)' = IF r = x.run THEN 0 ELSE ShownOf(r)
<1> DEFINE r == active[t]
           entry == [run |-> r, kind |-> x.kind]
<1> USE DEF ResultInv
<1>1. /\ r \in Runs /\ r \in DOMAIN owner /\ owner[r] = t /\ r # NoRun
      /\ x.kind \in Kinds /\ entry \in [run : Runs, kind : Kinds]
  BY DEF TypeOK, ActiveOwned, Result, Runs, NoRun
<1>2. /\ active' = [active EXCEPT ![t] = NoRun] /\ shown' = [shown EXCEPT ![t] = x]
      /\ active \in [Tabs -> Runs \cup {NoRun}] /\ shown \in [Tabs -> Result \cup {NoResult}]
      /\ log \in Seq([run : Runs, kind : Kinds]) /\ logged \in Seq(Runs) /\ owner \in Seq(Tabs)
      /\ Len(logged) <= MaxLogged /\ MaxLogged \in Nat \ {0}
  BY DEF Ends, TypeOK, ScriptAssumption
<1>3. \A i \in DOMAIN log : log[i].run # r BY <1>1 DEF LogOnce
<1>4. r \notin ToSet(logged) BY <1>3 DEF LogOnce, ToSet
<1>5. /\ log' = Append(log, entry)
      /\ logged' = IF Len(Append(logged, r)) > MaxLogged THEN Tail(Append(logged, r))
                                                         ELSE Append(logged, r)
  BY <1>4 DEF Ends, Recorded
<1>6. /\ log' \in Seq([run : Runs, kind : Kinds]) /\ Len(log) \in Nat
      /\ DOMAIN log = 1..Len(log) /\ DOMAIN log' = 1..(Len(log) + 1) /\ log'[Len(log) + 1] = entry
      /\ \A i \in DOMAIN log : log'[i] = log[i]
      /\ \A i \in DOMAIN log' : i = Len(log) + 1 \/ i \in DOMAIN log
  BY <1>1, <1>2, <1>5, AppendOf
<1>7. /\ logged' \in Seq(Runs) /\ Len(logged') <= MaxLogged
      /\ \A i \in DOMAIN logged' : logged'[i] = r \/ \E j \in DOMAIN logged : logged'[i] = logged[j]
  <2> DEFINE ids == Append(logged, r)
  <2>1. /\ ids \in Seq(Runs) /\ Len(ids) = Len(logged) + 1 /\ Len(logged) \in Nat
        /\ \A i \in DOMAIN ids : ids[i] = r \/ \E j \in DOMAIN logged : ids[i] = logged[j]
    BY <1>1, <1>2, AppendOf
  <2>2. CASE Len(ids) > MaxLogged
    <3>1. logged' = Tail(ids) /\ ids # <<>> BY <1>5, <2>1, <2>2
    <3>2. /\ Tail(ids) \in Seq(Runs)
          /\ \A i \in DOMAIN Tail(ids) : i + 1 \in DOMAIN ids /\ Tail(ids)[i] = ids[i + 1]
      BY <2>1, <3>1, TailOf
    <3>3. Len(Tail(ids)) = Len(ids) - 1 BY <2>1, <3>1, HeadTailProperties
    <3> QED BY <1>2, <2>1, <3>1, <3>2, <3>3
  <2>3. CASE ~(Len(ids) > MaxLogged) BY <1>2, <1>5, <2>1, <2>3
  <2> QED BY <2>2, <2>3
<1>8. ActiveOwned' BY <1>2 DEF ActiveOwned
<1>9. LogOnce'
  <2>1. \A i \in DOMAIN log' :
       /\ log'[i].run \in DOMAIN owner /\ active'[owner[log'[i].run]] # log'[i].run
       /\ log'[i].kind = "success" => ended[log'[i].run] = "success"
       /\ log'[i].kind = "cancelled" => log'[i].run \in stopped'
       /\ log'[i].kind # "partial"
       /\ \A j \in DOMAIN log' : log'[i].run = log'[j].run => i = j
    <3> SUFFICES ASSUME NEW i \in DOMAIN log'
                 PROVE  /\ log'[i].run \in DOMAIN owner /\ active'[owner[log'[i].run]] # log'[i].run
                        /\ log'[i].kind = "success" => ended[log'[i].run] = "success"
                        /\ log'[i].kind = "cancelled" => log'[i].run \in stopped'
                        /\ log'[i].kind # "partial"
                        /\ \A j \in DOMAIN log' : log'[i].run = log'[j].run => i = j
      OBVIOUS
    <3>1. CASE i = Len(log) + 1 BY <1>1, <1>2, <1>3, <1>6, <3>1 DEF Truthful
    <3>2. CASE i \in DOMAIN log
      <4>1. log'[i] = log[i] /\ log[i].run # r BY <1>3, <1>6, <3>2
      <4>2. \A j \in DOMAIN log' : log'[i].run = log'[j].run => j \in DOMAIN log /\ log'[j] = log[j]
        BY <1>6, <4>1
      <4>3. log[i].run \in DOMAIN owner /\ owner[log[i].run] \in Tabs BY <1>2, <3>2 DEF LogOnce
      <4>4. active'[owner[log[i].run]] \in {active[owner[log[i].run]], NoRun} BY <1>2, <4>3
      <4>5. log[i].run # NoRun
        <5>1. log[i].run \in Runs BY <4>3, OwnedRuns
        <5> QED BY <5>1 DEF Runs, NoRun
      <4> QED BY <3>2, <4>1, <4>2, <4>3, <4>4, <4>5 DEF LogOnce
    <3> QED BY <1>6, <3>1, <3>2
  <2>2. \A q \in DOMAIN owner :
          active'[owner[q]] # q /\ q \notin gone => \E i \in DOMAIN log' : log'[i].run = q
    <3> SUFFICES ASSUME NEW q \in DOMAIN owner, active'[owner[q]] # q, q \notin gone
                 PROVE  \E i \in DOMAIN log' : log'[i].run = q
      OBVIOUS
    <3>1. CASE q = r BY <1>6, <3>1
    <3>2. CASE q # r
      <4>1. active[owner[q]] # q BY <1>2, <3>2
      <4>2. PICK i \in DOMAIN log : log[i].run = q BY <4>1 DEF LogOnce
      <4> QED BY <1>6, <4>2
    <3> QED BY <3>1, <3>2
  <2>3. \A i \in DOMAIN logged' : \E j \in DOMAIN log' : log'[j].run = logged'[i]
    <3> SUFFICES ASSUME NEW i \in DOMAIN logged'
                 PROVE  \E j \in DOMAIN log' : log'[j].run = logged'[i]
      OBVIOUS
    <3>1. CASE logged'[i] = r BY <1>6, <3>1
    <3>2. ASSUME NEW k \in DOMAIN logged, logged'[i] = logged[k]
          PROVE  \E j \in DOMAIN log' : log'[j].run = logged'[i]
      <4>1. PICK j \in DOMAIN log : log[j].run = logged[k] BY DEF LogOnce
      <4> QED BY <1>6, <3>2, <4>1
    <3> QED BY <1>7, <3>1, <3>2
  <2> QED BY <2>1, <2>2, <2>3 DEF LogOnce
<1>10. ShowsItsRun'
  <2>1. \A u \in Tabs : LatestRun(u)' = LatestRun(u) BY DEF LatestRun
  <2>2. LatestRun(t) = r BY <1>1 DEF ShowsItsRun
  <2> SUFFICES ASSUME NEW u \in Tabs
               PROVE  /\ active'[u] \in {NoRun, LatestRun(u)}
                      /\ shown'[u] # NoResult =>
                           /\ shown'[u].run = LatestRun(u)
                           /\ (shown'[u].kind = "partial") = (active'[u] = shown'[u].run)
                           /\ shown'[u].stream <= yielded[shown'[u].run]
                           /\ shown'[u].kind = "success" =>
                                /\ ended[shown'[u].run] = "success"
                                /\ shown'[u].stream = yielded[shown'[u].run]
                           /\ shown'[u].kind = "cancelled" => shown'[u].run \in stopped'
    BY <2>1 DEF ShowsItsRun
  <2>3. CASE u = t BY <1>1, <1>2, <2>2, <2>3 DEF Truthful
  <2>4. CASE u # t BY <1>2, <2>4 DEF ShowsItsRun
  <2> QED BY <2>3, <2>4
<1>11. \A q \in DOMAIN owner : ShownOf(q)' = IF q = x.run THEN 0 ELSE ShownOf(q)
  <2> SUFFICES ASSUME NEW q \in DOMAIN owner PROVE ShownOf(q)' = IF q = x.run THEN 0 ELSE ShownOf(q)
    OBVIOUS
  <2>1. owner[q] \in Tabs /\ q # NoRun BY <1>2, OwnedRuns DEF Runs, NoRun
  <2> QED BY <1>1, <1>2, <2>1 DEF ShownOf
<1> QED BY <1>2, <1>6, <1>7, <1>8, <1>9, <1>10, <1>11

\* What was on its way tells the truth, and so does what is added.
LEMMA ResultsKept ==
  ASSUME TypeOK, ScriptAssumption, ResultsTrue, Later,
         \A x \in answers' : x \in answers \/ Truthful(x)',
         \A i \in DOMAIN events' :
           \/ \E j \in DOMAIN events : events'[i] = events[j]
           \/ /\ events'[i].type = "complete" =>
                   \E x \in Result : events'[i].result = x /\ Truthful(x)'
              /\ events'[i].type = "output" => events'[i].run \in DOMAIN owner'
  PROVE  ResultsTrue'
<1>1. \A x \in answers : Truthful(x)' BY TruthKept DEF ResultsTrue, TypeOK
<1>2. ASSUME NEW j \in DOMAIN events
      PROVE  /\ events[j].type = "complete" =>
                  \E x \in Result : events[j].result = x /\ Truthful(x)'
             /\ events[j].type = "output" => events[j].run \in DOMAIN owner'
  <2>1. events[j] \in Event BY DEF TypeOK
  <2>2. ASSUME events[j].type = "complete"
        PROVE  \E x \in Result : events[j].result = x /\ Truthful(x)'
    <3>1. events[j].result \in Result BY <2>1, <2>2 DEF Event
    <3>2. PICK x \in Result : x = events[j].result BY <3>1
    <3>3. Truthful(x) BY <2>2, <3>2 DEF ResultsTrue, Truthful
    <3> QED BY <3>2, <3>3, TruthKept
  <2> QED BY <2>2 DEF ResultsTrue, Later
<1>3. ASSUME NEW i \in DOMAIN events'
      PROVE  /\ events'[i].type = "complete" =>
                  \E x \in Result : events'[i].result = x /\ Truthful(x)'
             /\ events'[i].type = "output" => events'[i].run \in DOMAIN owner'
  BY <1>2
<1> QED BY <1>1, <1>3 DEF ResultsTrue, Truthful

\* Steps that the renderer does not see.
LEMMA RendererKept ==
  ASSUME ResultInv, ScriptAssumption, Later, UNCHANGED <<owner, active, shown, logged, log, gone>>
  PROVE  /\ ActiveOwned' /\ LogOnce' /\ ShowsItsRun'
         /\ \A r \in DOMAIN owner : ShownOf(r)' = ShownOf(r)
<1> USE DEF ResultInv
<1>1. ActiveOwned' /\ \A r \in DOMAIN owner : ShownOf(r)' = ShownOf(r) BY DEF ActiveOwned, ShownOf
<1>2. LogOnce' BY OwnedRuns DEF LogOnce, Later
<1>3. ShowsItsRun'
  <2>1. \A u \in Tabs : LatestRun(u)' = LatestRun(u) BY DEF LatestRun
  <2> SUFFICES ASSUME NEW u \in Tabs, shown[u] # NoResult
               PROVE  /\ shown[u].stream <= yielded'[shown[u].run]
                      /\ shown[u].kind = "success" =>
                           /\ ended'[shown[u].run] = "success"
                           /\ shown[u].stream = yielded'[shown[u].run]
                      /\ shown[u].kind = "cancelled" => shown[u].run \in stopped'
    BY <2>1 DEF ShowsItsRun
  <2>2. shown[u] \in Result BY DEF TypeOK
  <2>3. shown[u].run \in Runs /\ shown[u].stream \in Nat /\ yielded[shown[u].run] \in Nat
    BY <2>2 DEF Result, TypeOK
  <2> QED BY <2>3 DEF ShowsItsRun, Later
<1> QED BY <1>1, <1>2, <1>3

\* The numbers that OutputsYielded adds up are numbers.
LEMMA Counts ==
  ASSUME ResultInv, ScriptAssumption
  PROVE  /\ \A r \in Runs : /\ Occurrences(sent[r], Output) \in Nat /\ yielded[r] \in Nat
                            /\ stream[r] \in Nat
         /\ \A r \in DOMAIN owner : /\ Occurrences(events, OutputOf(r)) \in Nat /\ ShownOf(r) \in Nat
                                    /\ r \in Runs /\ r # NoRun /\ owner[r] \in Tabs
<1> USE DEF ResultInv
<1>1. ASSUME NEW r \in Runs
      PROVE  Occurrences(sent[r], Output) \in Nat /\ yielded[r] \in Nat /\ stream[r] \in Nat
  <2>1. sent[r] \in Seq(Message) /\ yielded[r] \in Nat /\ stream[r] \in Nat BY DEF TypeOK
  <2> QED BY <2>1, OccurrencesNat
<1>2. ASSUME NEW r \in DOMAIN owner
      PROVE  /\ Occurrences(events, OutputOf(r)) \in Nat /\ ShownOf(r) \in Nat
             /\ r \in Runs /\ r # NoRun /\ owner[r] \in Tabs
  <2>1. r \in Runs /\ owner[r] \in Tabs BY OwnedRuns DEF TypeOK
  <2>2. shown[owner[r]].stream \in Nat BY <2>1 DEF TypeOK, Result, NoResult
  <2>3. Occurrences(events, OutputOf(r)) \in Nat BY OccurrencesNat DEF TypeOK
  <2> QED BY <2>1, <2>2, <2>3 DEF ShownOf, Runs, NoRun
<1> QED BY <1>1, <1>2

\* A step that neither counts, sends nor passes on a value.
LEMMA OutputsKept ==
  ASSUME ResultInv, ScriptAssumption, UNCHANGED <<owner, events, sent, stream>>,
         \A r \in Runs : yielded'[r] \in Nat /\ yielded[r] <= yielded'[r],
         \A r \in DOMAIN owner : ShownOf(r)' = ShownOf(r) \/ ShownOf(r)' = 0
  PROVE  OutputsYielded'
BY Counts DEF ResultInv, OutputsYielded

\* What a tab shows of the run it has, that run has yielded.
LEMMA ShownYielded ==
  ASSUME ResultInv, ScriptAssumption, NEW t \in Tabs, active[t] # NoRun
  PROVE  /\ active[t] \in DOMAIN owner /\ owner[active[t]] = t /\ active[t] \in Runs
         /\ ShownOf(active[t]) = shown[t].stream /\ shown[t].stream <= yielded[active[t]]
         /\ shown[t].stream \in 0..MaxOutputs
<1>1. active[t] \in DOMAIN owner /\ owner[active[t]] = t BY DEF ResultInv, ActiveOwned
<1>2. shown[t].stream \in 0..MaxOutputs BY DEF ResultInv, TypeOK, Result, NoResult, ScriptAssumption
<1>3. ShownOf(active[t]) = shown[t].stream BY <1>1 DEF ShownOf
<1>4. shown[t].stream + Occurrences(events, OutputOf(active[t]))
        + Occurrences(sent[active[t]], Output) <= yielded[active[t]]
  BY <1>1, <1>3 DEF ResultInv, OutputsYielded
<1> QED BY <1>1, <1>2, <1>3, <1>4, Counts

----------------
(* What the user does *)

\* A new run is the latest of its tab, of which nothing is on its way.
LEMMA RunResults ==
  ASSUME ResultInv, ScriptAssumption, NEW t \in Tabs, Run(t), ScriptInv'
  PROVE  ResultInv'
<1> USE DEF ResultInv
<1> DEFINE n == Len(owner) + 1
           call == [type |-> "run", run |-> n]
<1>1. /\ active[t] = NoRun /\ Len(owner) < MaxRuns /\ owner' = Append(owner, t)
      /\ active' = [active EXCEPT ![t] = n] /\ shown' = [shown EXCEPT ![t] = NoResult]
      /\ calls' = Append(calls, call)
      /\ UNCHANGED <<logged, gone, log, stopped, main, cancelledRuns, cancelling, stream, killed,
                     spared, child, yielded, ended, sent, events, answers, refusals, faults>>
  BY DEF Run, Cleared, repository, process
<1>2. /\ n \in Runs /\ n # NoRun /\ call \in Call /\ MaxRuns \in Nat /\ Len(owner) \in Nat
      /\ DOMAIN owner = 1..Len(owner) /\ n \notin DOMAIN owner
  <2>1. MaxRuns \in Nat /\ Len(owner) \in Nat /\ DOMAIN owner = 1..Len(owner)
    BY OwnedRuns DEF ScriptAssumption, TypeOK
  <2>2. n \in Runs /\ n # NoRun /\ n \notin DOMAIN owner BY <1>1, <2>1 DEF Runs, NoRun
  <2> QED BY <2>1, <2>2 DEF Call
<1>3. /\ owner' \in Seq(Tabs) /\ DOMAIN owner' = 1..n /\ owner'[n] = t /\ Len(owner') = n
      /\ \A r \in DOMAIN owner : owner'[r] = owner[r]
      /\ \A r \in DOMAIN owner' : r = n \/ r \in DOMAIN owner
  BY <1>1, AppendOf DEF TypeOK
<1>4. /\ calls' \in Seq(Call)
      /\ \A i \in DOMAIN calls' : calls'[i] = call \/ \E j \in DOMAIN calls : calls'[i] = calls[j]
  BY <1>1, <1>2, AppendOf DEF TypeOK
<1>5. Later BY <1>1, <1>2, <1>3 DEF Later, TypeOK
<1>6. TypeOK' BY <1>1, <1>2, <1>3, <1>4 DEF TypeOK
<1>7. ResultsTrue' BY <1>1, <1>5, ResultsKept
<1>8. MessagesTrue' /\ EndsOnce' BY <1>1 DEF MessagesTrue, EndsOnce
<1>9. CancelsAsked' BY <1>1, <1>4 DEF CancelsAsked
<1>10. ActiveOwned'
  <2> SUFFICES ASSUME NEW u \in Tabs, active'[u] # NoRun
               PROVE  active'[u] \in DOMAIN owner' /\ owner'[active'[u]] = u
    BY DEF ActiveOwned
  <2>1. CASE u = t
    <3>1. active'[u] = n BY <1>1, <2>1 DEF TypeOK
    <3> QED BY <1>2, <1>3, <2>1, <3>1
  <2>2. CASE u # t BY <1>1, <1>2, <1>3, <2>2 DEF TypeOK, ActiveOwned
  <2> QED BY <2>1, <2>2
<1>11. \A r \in DOMAIN owner : r # n /\ owner[r] \in Tabs /\ r # NoRun /\ r \in Runs
  <2> TAKE r \in DOMAIN owner
  <2>1. r \in Runs BY OwnedRuns
  <2>2. r # n /\ r # NoRun BY <1>2, <2>1 DEF Runs, NoRun
  <2>3. owner[r] \in Tabs BY DEF TypeOK
  <2> QED BY <2>1, <2>2, <2>3
<1>12. OutputsYielded'
  <2>1. \A r \in DOMAIN owner : ShownOf(r)' = ShownOf(r)
    BY <1>1, <1>2, <1>3, <1>11 DEF ShownOf, TypeOK
  <2>2. \A r \in Runs : r = n => ShownOf(r)' = 0
    <3>1. shown'[t].stream = 0 BY <1>1 DEF TypeOK, NoResult
    <3> QED BY <1>3, <3>1 DEF ShownOf
  <2>3. Occurrences(events, OutputOf(n)) = 0
    <3>1. \A i \in DOMAIN events : events[i] # OutputOf(n) BY <1>2 DEF ResultsTrue, OutputOf
    <3>2. {i \in DOMAIN events : events[i] = OutputOf(n)} = {} BY <3>1
    <3> QED BY <3>2, FS_EmptySet DEF Occurrences
  <2>4. Occurrences(sent[n], Output) = 0 /\ yielded[n] \in Nat
    <3>1. main[n] = "none" BY <1>2 DEF ScriptInv, UnnumberedUnknown
    <3>2. sent[n] = <<>> BY <1>2, <3>1 DEF MessagesTrue
    <3> QED BY <1>2, <3>2, OccurrencesEmpty DEF TypeOK
  <2> SUFFICES ASSUME NEW r \in DOMAIN owner'
               PROVE  ShownOf(r)' + Occurrences(events, OutputOf(r)) + Occurrences(sent[r], Output)
                        <= yielded[r]
    BY <1>1 DEF OutputsYielded
  <2>5. CASE r = n BY <1>2, <2>2, <2>3, <2>4, <2>5
  <2>6. CASE r \in DOMAIN owner BY <2>1, <2>6 DEF OutputsYielded
  <2> QED BY <1>3, <2>5, <2>6
<1>13. LogOnce'
  <2>1. \A r \in DOMAIN owner : active'[owner'[r]] # r <=> active[owner[r]] # r
    BY <1>1, <1>3, <1>11 DEF TypeOK
  <2>2. active'[owner'[n]] = n BY <1>1, <1>3 DEF TypeOK
  <2>3. DOMAIN owner \subseteq DOMAIN owner' BY <1>2, <1>3
  <2>4. \A r \in DOMAIN owner' : active'[owner'[r]] # r => r \in DOMAIN owner BY <1>3, <2>2
  <2> QED BY <1>1, <2>1, <2>3, <2>4 DEF LogOnce
<1>14. ShowsItsRun'
  <2>1. ASSUME NEW u \in Tabs, u # t PROVE LatestRun(u)' = LatestRun(u)
    <3> DEFINE now == {r \in DOMAIN owner' : owner'[r] = u}
               own == {r \in DOMAIN owner : owner[r] = u}
    <3>1. now = own BY <1>2, <1>3, <2>1
    <3>2. /\ LatestRun(u)' = IF now = {} THEN NoRun ELSE CHOOSE r \in now : \A q \in now : q <= r
          /\ LatestRun(u) = IF own = {} THEN NoRun ELSE CHOOSE r \in own : \A q \in own : q <= r
      BY DEF LatestRun
    <3> HIDE DEF now, own
    <3> QED BY <3>1, <3>2
  <2>2. LatestRun(t)' = n
    <3> DEFINE own == {r \in DOMAIN owner' : owner'[r] = t}
    <3>1. n \in own /\ own \subseteq 1..n /\ n \in Nat BY <1>2, <1>3
    <3>5. own # {} BY <3>1
    <3>6. LatestRun(t)' = IF own = {} THEN NoRun ELSE CHOOSE r \in own : \A q \in own : q <= r
      BY DEF LatestRun
    <3>2. LatestRun(t)' = CHOOSE r \in own : \A q \in own : q <= r BY <3>5, <3>6
    <3> HIDE DEF own, n
    <3>3. \A q \in own : q <= n BY <3>1
    <3>4. \A r \in own : (\A q \in own : q <= r) => r = n BY <3>1
    <3> QED BY <3>1, <3>2, <3>3, <3>4
  <2>3. ASSUME NEW u \in Tabs, u # t PROVE active'[u] = active[u] /\ shown'[u] = shown[u]
    BY <1>1, <2>3 DEF TypeOK
  <2>4. active'[t] = n /\ shown'[t] = NoResult BY <1>1 DEF TypeOK
  <2>5. UNCHANGED <<yielded, ended, stopped>> BY <1>1
  <2>6. ASSUME NEW u \in Tabs, u # t
        PROVE  /\ active[u] \in {NoRun, LatestRun(u)}
               /\ shown[u] # NoResult =>
                    /\ shown[u].run = LatestRun(u)
                    /\ (shown[u].kind = "partial") = (active[u] = shown[u].run)
                    /\ shown[u].stream <= yielded[shown[u].run]
                    /\ shown[u].kind = "success" => /\ ended[shown[u].run] = "success"
                                                   /\ shown[u].stream = yielded[shown[u].run]
                    /\ shown[u].kind = "cancelled" => shown[u].run \in stopped
    BY DEF ShowsItsRun
  <2> QED BY <2>1, <2>2, <2>3, <2>4, <2>5, <2>6 DEF ShowsItsRun
<1> QED BY <1>6, <1>7, <1>8, <1>9, <1>10, <1>12, <1>13, <1>14

\* A run is cancelled: it is over for its tab at once.
LEMMA CancelRunResults==
  ASSUME ResultInv, ScriptAssumption, NEW t \in Tabs, CancelRun(t), ScriptInv'
  PROVE  ResultInv'
<1> USE DEF ResultInv
<1> DEFINE r == active[t]
           x == [run |-> active[t], kind |-> "cancelled", stream |-> shown[t].stream]
           call == [type |-> "cancel", run |-> active[t]]
<1>1. /\ r # NoRun /\ Ends(t, x) /\ calls' = Append(calls, call) /\ stopped' = stopped \cup {r}
      /\ UNCHANGED <<owner, gone, main, cancelledRuns, cancelling, stream, killed, spared,
                     child, yielded, ended, sent, events, answers, refusals, faults>>
  BY DEF CancelRun, CallCancel, repository, process
<1>2. /\ r \in DOMAIN owner /\ owner[r] = t /\ r \in Runs
      /\ shown[t].stream <= yielded[r] /\ shown[t].stream \in 0..MaxOutputs
  BY <1>1, ShownYielded
<1>3. x \in Result /\ call \in Call /\ r \in stopped' BY <1>1, <1>2 DEF Result, Kinds, Call
<1>13. PICK y \in Result : y = x BY <1>3
<1>4. y.run = r /\ Ends(t, y) /\ Truthful(y)' BY <1>1, <1>2, <1>3, <1>13 DEF Truthful
<1>5. Later BY <1>1, LaterWhen
<1>6. /\ active' \in [Tabs -> Runs \cup {NoRun}] /\ shown' \in [Tabs -> Result \cup {NoResult}]
      /\ logged' \in Seq(Runs) /\ Len(logged') <= MaxLogged
      /\ log' \in Seq([run : Runs, kind : Kinds])
      /\ ActiveOwned' /\ LogOnce' /\ ShowsItsRun'
      /\ \A q \in DOMAIN owner : ShownOf(q)' = IF q = r THEN 0 ELSE ShownOf(q)
  BY <1>1, <1>4, EndsKeeps
<1>7. /\ calls' \in Seq(Call)
      /\ \A i \in DOMAIN calls' : calls'[i] = call \/ \E j \in DOMAIN calls : calls'[i] = calls[j]
  BY <1>1, <1>3, AppendOf DEF TypeOK
<1>8. TypeOK'
  <2>1. stopped' \subseteq Runs BY <1>1, <1>2 DEF TypeOK
  <2> HIDE DEF r, call, x
  <2> QED BY <1>1, <1>6, <1>7, <2>1 DEF TypeOK
<1>9. ResultsTrue' BY <1>1, <1>5, ResultsKept
<1>10. MessagesTrue' /\ EndsOnce' BY <1>1 DEF MessagesTrue, EndsOnce
<1>11. CancelsAsked' BY <1>1, <1>3, <1>7 DEF CancelsAsked
<1>12. OutputsYielded' BY <1>1, <1>6, OutputsKept, Counts
<1> QED BY <1>6, <1>8, <1>9, <1>10, <1>11, <1>12

\* A tab is cleared: it shows nothing, and its run is not recorded.
LEMMA ClearTabResults ==
  ASSUME ResultInv, ScriptAssumption, NEW t \in Tabs, ClearTab(t), ScriptInv'
  PROVE  ResultInv'
<1> USE DEF ResultInv
<1> DEFINE call == [type |-> "clear", run |-> active[t]]
<1>1. /\ active' = [active EXCEPT ![t] = NoRun] /\ shown' = [shown EXCEPT ![t] = NoResult]
      /\ gone' = gone \cup {r \in DOMAIN owner : owner[r] = t} /\ CallCancelIfRunning(t)
      /\ UNCHANGED <<owner, logged, log, main, cancelledRuns, cancelling, stream, killed, spared,
                     child, yielded, ended, sent, events, answers, refusals, faults>>
  BY DEF ClearTab, Cleared, repository, process
<1>2. /\ calls' \in Seq(Call) /\ stopped \subseteq stopped' /\ stopped' \subseteq Runs
      /\ \A i \in DOMAIN calls' :
           \/ calls'[i].run \in stopped'
           \/ \E j \in DOMAIN calls : calls'[i] = calls[j]
  <2>1. CASE active[t] = NoRun BY <1>1, <2>1 DEF CallCancelIfRunning, TypeOK
  <2>2. CASE active[t] # NoRun
    <3>1. calls' = Append(calls, call) /\ stopped' = stopped \cup {active[t]}
      BY <1>1, <2>2 DEF CallCancelIfRunning, CallCancel
    <3>2. call \in Call BY <2>2 DEF Call, TypeOK
    <3>3. /\ calls' \in Seq(Call)
          /\ \A i \in DOMAIN calls' : calls'[i] = call \/ \E j \in DOMAIN calls : calls'[i] = calls[j]
      BY <3>1, <3>2, AppendOf DEF TypeOK
    <3>4. active[t] \in Runs /\ stopped' \subseteq Runs BY <2>2, <3>1 DEF TypeOK
    <3>5. call.run \in stopped' BY <3>1
    <3> HIDE DEF call
    <3> QED BY <3>1, <3>3, <3>4, <3>5
  <2> QED BY <2>1, <2>2
<1>3. Later BY <1>1, <1>2, LaterWhen
<1>4. TypeOK'
  <2>1. DOMAIN owner \subseteq Runs BY OwnedRuns
  <2> QED BY <1>1, <1>2, <2>1 DEF TypeOK
<1>5. ResultsTrue' BY <1>1, <1>3, ResultsKept
<1>6. MessagesTrue' /\ EndsOnce' BY <1>1 DEF MessagesTrue, EndsOnce
<1>7. CancelsAsked' BY <1>1, <1>2 DEF CancelsAsked
<1>8. ActiveOwned' BY <1>1 DEF ActiveOwned, TypeOK
<1>9. \A r \in DOMAIN owner : /\ owner[r] = t => active'[owner[r]] # r /\ ShownOf(r)' = 0
                              /\ owner[r] # t => /\ active'[owner[r]] = active[owner[r]]
                                                 /\ ShownOf(r)' = ShownOf(r)
  BY <1>1, Counts DEF ShownOf, TypeOK
<1>10. OutputsYielded' BY <1>1, <1>9, Counts, OutputsKept
<1>11. LogOnce' BY <1>1, <1>2, <1>9 DEF LogOnce
<1>12. ShowsItsRun'
  <2>1. \A u \in Tabs : LatestRun(u)' = LatestRun(u) BY <1>1 DEF LatestRun
  <2>2. active'[t] = NoRun /\ shown'[t] = NoResult BY <1>1 DEF TypeOK
  <2>3. \A u \in Tabs : u # t => active'[u] = active[u] /\ shown'[u] = shown[u] BY <1>1 DEF TypeOK
  <2> QED BY <1>1, <1>2, <2>1, <2>2, <2>3 DEF ShowsItsRun
<1> QED BY <1>4, <1>5, <1>6, <1>7, <1>8, <1>10, <1>11, <1>12

----------------
(* The main process *)

\* A step of the main process that takes a call, or leaves the calls alone.
LEMMA CancelsKept ==
  ASSUME TypeOK, CancelsAsked, UNCHANGED stopped,
         cancelling' \cup cancelledRuns' \subseteq stopped,
         UNCHANGED calls \/ (calls # <<>> /\ calls' = Tail(calls))
  PROVE  CancelsAsked'
<1>1. CASE UNCHANGED calls BY <1>1 DEF CancelsAsked
<1>2. CASE calls # <<>> /\ calls' = Tail(calls) BY <1>2, TailOf DEF TypeOK, CancelsAsked
<1> QED BY <1>1, <1>2

\* A call of run() is taken.
LEMMA ReceiveRunResults ==
  ASSUME ResultInv, ScriptAssumption, ReceiveRun, ScriptInv'
  PROVE  ResultInv'
<1> USE DEF ResultInv
<1> DEFINE r == calls[1].run
<1>1. /\ calls # <<>> /\ calls' = Tail(calls) /\ Head(calls).type = "run"
      /\ main' = [main EXCEPT ![Head(calls).run] = "resolving"]
      /\ UNCHANGED <<owner, active, shown, logged, gone, log, stopped, cancelledRuns, cancelling,
                     stream,
                     killed, spared, child, yielded, ended, sent, events, answers, refusals, faults>>
  BY DEF ReceiveRun, renderer, process
<1>2. /\ Head(calls) = calls[1] /\ calls[1] \in Call /\ calls[1].type = "run"
      /\ 1 \in 1..Len(calls) /\ calls' \in Seq(Call)
  BY <1>1, CallTaken DEF TypeOK
<1>3. r \in Runs /\ main[r] = "none" /\ main' = [main EXCEPT ![r] = "resolving"]
  BY <1>1, <1>2 DEF Call, ScriptInv, RunCallsFresh
<1>4. TypeOK' BY <1>1, <1>2, <1>3 DEF TypeOK
<1>5. Later BY <1>1, LaterWhen
<1>6. ActiveOwned' /\ LogOnce' /\ ShowsItsRun' /\ \A q \in DOMAIN owner : ShownOf(q)' = ShownOf(q)
  BY <1>1, <1>5, RendererKept
<1>7. ResultsTrue' BY <1>1, <1>5, ResultsKept
<1>8. MessagesTrue'
  <2>1. \A q \in Runs : main'[q] # "active" => main[q] # "active" BY <1>3 DEF TypeOK
  <2> QED BY <1>1, <2>1 DEF MessagesTrue
<1>9. EndsOnce' BY <1>1 DEF EndsOnce
<1>10. CancelsAsked' BY <1>1, CancelsKept DEF CancelsAsked
<1>11. OutputsYielded' BY <1>1, <1>6, Counts, OutputsKept
<1> QED BY <1>4, <1>6, <1>7, <1>8, <1>9, <1>10, <1>11

\* A cancel call is taken, whether or not the signal can be sent.
LEMMA CancelCallResults ==
  ASSUME ResultInv, ScriptAssumption, ReceiveCancel \/ CancelRejects, ScriptInv'
  PROVE  ResultInv'
<1> USE DEF ResultInv
<1> DEFINE r == Head(calls).run
<1>1. /\ calls # <<>> /\ calls' = Tail(calls) /\ Head(calls).type # "run"
      /\ cancelling' \subseteq cancelling \cup {r} /\ cancelledRuns' \subseteq cancelledRuns \cup {r}
      /\ killed' \subseteq killed \cup {r} /\ refusals' \subseteq refusals \cup {r}
      /\ UNCHANGED faults \/ Fault
      /\ UNCHANGED <<owner, active, shown, logged, gone, log, stopped, main, stream, spared,
                     child, yielded, ended, sent, events, answers>>
  BY DEF ReceiveCancel, CancelRejects, CancelEarly, renderer, process
<1>2. Head(calls) = calls[1] /\ Head(calls) \in Call /\ 1 \in DOMAIN calls /\ Tail(calls) \in Seq(Call)
  BY <1>1, TailOf DEF TypeOK
<1>3. r \in Runs /\ r \in stopped BY <1>1, <1>2 DEF Call, CancelsAsked
<1>4. TypeOK'
  <2>1. faults' \in 0..MaxFaults BY <1>1 DEF TypeOK, Fault, ScriptAssumption
  <2>2. {cancelledRuns', cancelling', killed', spared', refusals'} \subseteq SUBSET Runs
    BY <1>1, <1>3 DEF TypeOK
  <2> QED BY <1>1, <1>2, <2>1, <2>2 DEF TypeOK
<1>5. Later BY <1>1, LaterWhen
<1>6. ActiveOwned' /\ LogOnce' /\ ShowsItsRun' /\ \A q \in DOMAIN owner : ShownOf(q)' = ShownOf(q)
  BY <1>1, <1>5, RendererKept
<1>7. ResultsTrue' BY <1>1, <1>5, ResultsKept
<1>8. MessagesTrue' /\ EndsOnce' BY <1>1 DEF MessagesTrue, EndsOnce
<1>9. CancelsAsked' BY <1>1, <1>3, CancelsKept DEF CancelsAsked
<1>10. OutputsYielded' BY <1>1, <1>6, Counts, OutputsKept
<1> QED BY <1>4, <1>6, <1>7, <1>8, <1>9, <1>10

\* A run that has begun has been started by a tab.
LEMMA BegunOwned ==
  ASSUME ResultInv, ScriptAssumption, NEW r \in Runs, main[r] # "none"
  PROVE  r \in DOMAIN owner
BY LenProperties DEF ResultInv, TypeOK, ScriptInv, UnnumberedUnknown, Runs

\* run() after its await answers, or forks the process.
LEMMA ResolveResults ==
  ASSUME ResultInv, ScriptAssumption, NEW r \in Runs, Resolve(r) \/ ResolveFails(r), ScriptInv'
  PROVE  ResultInv'
<1> USE DEF ResultInv
<1>1. /\ main[r] = "resolving" /\ cancelledRuns' \subseteq cancelledRuns
      /\ main' = [main EXCEPT ![r] = "settled"] \/ main' = [main EXCEPT ![r] = "active"]
      /\ child' = child \/ child' = [child EXCEPT ![r] = "running"]
      /\ \/ answers' = answers
         \/ answers' = answers \cup {Answer(r, "failure", 0)}
         \/ r \in cancelledRuns /\ answers' = answers \cup {Answer(r, "cancelled", 0)}
      /\ UNCHANGED faults \/ Fault
      /\ UNCHANGED <<owner, active, shown, logged, gone, log, stopped, cancelling, stream, killed,
                     spared, sent,
                     yielded, ended, calls, events, refusals>>
  BY DEF Resolve, ResolveFails, renderer, process
<1>2. r \in DOMAIN owner /\ sent[r] = <<>> /\ child[r] = "none" /\ ended[r] = "no"
  BY <1>1, BegunOwned DEF MessagesTrue, ScriptInv, ForkedWhenActive, EndsOnce
<1>3. \A x \in answers' : x \in Result /\ (x \in answers \/ Truthful(x))
  <2>1. Answer(r, "failure", 0) \in Result /\ Answer(r, "cancelled", 0) \in Result
    BY DEF Answer, Result, Kinds, ScriptAssumption
  <2>2. 0 <= yielded[r] BY Counts
  <2>3. Truthful(Answer(r, "failure", 0)) BY <1>2, <2>2 DEF Truthful, Answer
  <2>4. r \in cancelledRuns => Truthful(Answer(r, "cancelled", 0))
    BY <1>2, <2>2 DEF Truthful, Answer, CancelsAsked
  <2> QED BY <1>1, <2>1, <2>3, <2>4 DEF TypeOK
<1>4. TypeOK'
  <2>1. faults' \in 0..MaxFaults BY <1>1 DEF TypeOK, Fault, ScriptAssumption
  <2>2. /\ main' \in [Runs -> {"none", "resolving", "active", "settled"}]
        /\ child' \in [Runs -> {"none", "running", "exiting", "dead"}]
    BY <1>1 DEF TypeOK
  <2>3. answers' \subseteq Result BY <1>3
  <2>4. cancelledRuns' \subseteq Runs BY <1>1 DEF TypeOK
  <2> QED BY <1>1, <2>1, <2>2, <2>3, <2>4 DEF TypeOK
<1>5. Later BY <1>1, LaterWhen
<1>6. ActiveOwned' /\ LogOnce' /\ ShowsItsRun' /\ \A q \in DOMAIN owner : ShownOf(q)' = ShownOf(q)
  BY <1>1, <1>5, RendererKept
<1>7. ResultsTrue' BY <1>1, <1>3, <1>5, TruthKept, ResultsKept
<1>8. MessagesTrue'
  <2>1. \A q \in Runs : main'[q] # "active" => sent[q] = <<>> BY <1>1, <1>2 DEF MessagesTrue, TypeOK
  <2> QED BY <1>1, <2>1 DEF MessagesTrue
<1>9. EndsOnce' BY <1>1, <1>2 DEF EndsOnce, TypeOK
<1>10. CancelsAsked' BY <1>1, CancelsKept DEF CancelsAsked
<1>11. OutputsYielded' BY <1>1, <1>6, Counts, OutputsKept
<1> QED BY <1>4, <1>6, <1>7, <1>8, <1>9, <1>10, <1>11

\* finish(), with a result that is true of the run.
LEMMA FinishResults ==
  ASSUME ResultInv, ScriptAssumption, ScriptInv', NEW r \in Runs, NEW kind \in Kinds,
         NEW n \in 0..MaxOutputs, NEW used, Finish(r, kind, n, used), Truthful(Answer(r, kind, n)),
         faults' \in 0..MaxFaults, UNCHANGED <<renderer, cancelledRuns, process, calls, refusals>>
  PROVE  ResultInv'
<1> USE DEF ResultInv
<1>0. PICK x \in Result : x = Answer(r, kind, n) BY DEF Answer, Result
<1>1. PICK e \in Event : e = [type |-> "complete", result |-> x] BY DEF Event
<1>2. /\ main' = [main EXCEPT ![r] = "settled"] /\ cancelling' = cancelling \ {r}
      /\ stream' = [stream EXCEPT ![r] = 0] /\ sent' = [sent EXCEPT ![r] = <<>>]
      /\ killed' \subseteq killed \cup {r} /\ spared' \subseteq spared \cup {r}
      /\ events' = Append(events, e)
      /\ answers' = answers \cup {x}
      /\ UNCHANGED <<owner, active, shown, logged, gone, log, stopped, cancelledRuns,
                     child, yielded, ended, calls, refusals>>
  BY <1>0, <1>1 DEF Finish, Kills, renderer, process
<1>3. /\ events' \in Seq(Event) /\ \A i \in DOMAIN events' : i = Len(events) + 1 \/ i \in DOMAIN events
      /\ events'[Len(events) + 1] = e /\ \A i \in DOMAIN events : events'[i] = events[i]
  <2>1. events \in Seq(Event) /\ events' = Append(events, e) BY <1>2 DEF TypeOK
  <2> QED BY <2>1, AppendOf
<1>4. TypeOK'
  <2>1. /\ main' \in [Runs -> {"none", "resolving", "active", "settled"}]
        /\ stream' \in [Runs -> 0..MaxOutputs]
    BY <1>2 DEF TypeOK, ScriptAssumption
  <2>2. sent' \in [Runs -> Seq(Message)]
    <3>1. <<>> \in Seq(Message) OBVIOUS
    <3> QED BY <1>2, <3>1 DEF TypeOK
  <2>3. answers' \subseteq Result /\ {killed', spared', cancelling'} \subseteq SUBSET Runs
    BY <1>2 DEF TypeOK
  <2>4. /\ {cancelledRuns', cancelling', killed', spared', refusals', gone', stopped'} \subseteq SUBSET Runs
        /\ yielded' \in [Runs -> 0..MaxOutputs]
    BY <1>2, <2>3 DEF TypeOK
  <2>5. /\ owner' \in Seq(Tabs) /\ Len(owner') <= MaxRuns
        /\ active' \in [Tabs -> Runs \cup {NoRun}] /\ shown' \in [Tabs -> Result \cup {NoResult}]
        /\ logged' \in Seq(Runs) /\ Len(logged') <= MaxLogged
    BY <1>2 DEF TypeOK
  <2>6. /\ calls' \in Seq(Call) /\ child' \in [Runs -> {"none", "running", "exiting", "dead"}]
        /\ ended' \in [Runs -> {"no", "success", "failure", "broken"}]
        /\ log' \in Seq([run : Runs, kind : Kinds])
    BY <1>2 DEF TypeOK
  <2> QED BY <1>3, <2>1, <2>2, <2>3, <2>4, <2>5, <2>6 DEF TypeOK
<1>5. Later BY <1>2, LaterWhen
<1>6. ActiveOwned' /\ LogOnce' /\ ShowsItsRun' /\ \A q \in DOMAIN owner : ShownOf(q)' = ShownOf(q)
  BY <1>2, <1>5, RendererKept
<1>7. ResultsTrue' BY <1>0, <1>1, <1>2, <1>3, <1>5, TruthKept, ResultsKept
<1>8. MessagesTrue'
  <2>1. sent'[r] = <<>> /\ \A q \in Runs : q # r => sent'[q] = sent[q] /\ main'[q] = main[q]
    BY <1>2 DEF TypeOK
  <2>2. DOMAIN sent'[r] = {} BY <2>1
  <2> SUFFICES ASSUME NEW q \in Runs
               PROVE  /\ main'[q] # "active" => sent'[q] = <<>>
                      /\ \A i \in DOMAIN sent'[q] : sent'[q][i].type = "result" =>
                           /\ sent'[q][i].kind \in {"success", "failure"}
                           /\ sent'[q][i].stream <= yielded[q]
                           /\ sent'[q][i].kind = "success" =>
                                ended[q] = "success" /\ sent'[q][i].stream = yielded[q]
    BY <1>2 DEF MessagesTrue
  <2>3. CASE q = r BY <2>1, <2>2, <2>3
  <2>4. CASE q # r BY <2>1, <2>4 DEF MessagesTrue
  <2> QED BY <2>3, <2>4
<1>9. EndsOnce' BY <1>2 DEF EndsOnce
<1>10. CancelsAsked' BY <1>2, CancelsKept DEF CancelsAsked
<1>11. OutputsYielded'
  <2>1. \A q \in Runs : Occurrences(sent'[q], Output) \in Nat /\
                        Occurrences(sent'[q], Output) <= Occurrences(sent[q], Output)
    <3> TAKE q \in Runs
    <3>1. CASE q = r
      <4>1. sent'[q] = <<>> BY <1>2, <3>1 DEF TypeOK
      <4> QED BY <4>1, OccurrencesEmpty, Counts
    <3>2. CASE q # r
      <4>1. sent'[q] = sent[q] BY <1>2, <3>2 DEF TypeOK
      <4> QED BY <4>1, Counts
    <3> QED BY <3>1, <3>2
  <2>2. \A q \in Runs : stream'[q] \in {stream[q], 0} BY <1>2 DEF TypeOK
  <2>3. \A q \in DOMAIN owner : Occurrences(events', OutputOf(q)) = Occurrences(events, OutputOf(q))
    <3> TAKE q \in DOMAIN owner
    <3>1. e # OutputOf(q) BY <1>1 DEF OutputOf
    <3>2. Occurrences(Append(events, e), OutputOf(q))
            = Occurrences(events, OutputOf(q)) + (IF e = OutputOf(q) THEN 1 ELSE 0)
      BY OccurrencesAppend DEF TypeOK
    <3> QED BY <1>2, <3>1, <3>2, Counts
  <2>4. \A q \in Runs : stream'[q] + Occurrences(sent'[q], Output) <= yielded[q]
    BY <2>1, <2>2, Counts DEF OutputsYielded
  <2>5. \A q \in DOMAIN owner :
          ShownOf(q) + Occurrences(events', OutputOf(q)) + Occurrences(sent'[q], Output) <= yielded[q]
    BY <2>1, <2>3, Counts DEF OutputsYielded
  <2> QED BY <1>2, <1>6, <2>4, <2>5 DEF OutputsYielded
<1> QED BY <1>4, <1>6, <1>7, <1>8, <1>9, <1>10, <1>11

\* The result that the repository makes up has what it has counted.
LEMMA PartialTrue ==
  ASSUME ResultInv, ScriptAssumption, NEW r \in Runs, main[r] = "active",
         NEW kind \in {"cancelled", "failure"}, kind = "cancelled" => r \in cancelling
  PROVE  Partial(r) \in 0..MaxOutputs /\ kind \in Kinds /\ Truthful(Answer(r, kind, Partial(r)))
<1> USE DEF ResultInv
<1>1. r \in DOMAIN owner BY BegunOwned
<1>2. stream[r] <= yielded[r] BY Counts DEF OutputsYielded
<1>3. stream[r] \in 0..MaxOutputs BY DEF TypeOK
<1>4. kind = "cancelled" => r \in stopped BY DEF CancelsAsked
<1> QED BY <1>1, <1>2, <1>3, <1>4 DEF Partial, Truthful, Answer, Kinds

\* The process fails or is dead.
LEMMA HandleEndResults ==
  ASSUME ResultInv, ScriptAssumption, NEW r \in Runs, HandleError(r) \/ HandleExit(r), ScriptInv'
  PROVE  ResultInv'
<1>1. main[r] = "active" /\ UNCHANGED <<renderer, cancelledRuns, process, calls, refusals>>
  BY DEF HandleError, HandleExit
<1>2. faults' \in 0..MaxFaults
  <2>1. faults \in 0..MaxFaults /\ MaxFaults \in Nat BY DEF ResultInv, TypeOK, ScriptAssumption
  <2>2. CASE HandleError(r) BY <2>1, <2>2 DEF HandleError, Finish, Kills
  <2>3. CASE HandleExit(r) BY <2>1, <2>3 DEF HandleExit, Finish, Kills
  <2> QED BY <2>2, <2>3
<1>3. PICK kind \in {"cancelled", "failure"} :
        /\ kind = "cancelled" => r \in cancelling
        /\ Finish(r, kind, Partial(r), faults) \/ Finish(r, kind, Partial(r), faults + 1)
  <2>1. CASE HandleError(r) BY <2>1 DEF HandleError
  <2>2. CASE HandleExit(r)
    <3>1. CASE r \in cancelling BY <2>2, <3>1 DEF HandleExit
    <3>2. CASE r \notin cancelling BY <2>2, <3>2 DEF HandleExit
    <3> QED BY <3>1, <3>2
  <2> QED BY <2>1, <2>2
<1>4. Partial(r) \in 0..MaxOutputs /\ kind \in Kinds /\ Truthful(Answer(r, kind, Partial(r)))
  BY <1>1, <1>3, PartialTrue
<1> QED BY <1>1, <1>2, <1>3, <1>4, FinishResults

\* handleMessage: a value the script has yielded is counted and passed on.
LEMMA OutputResults ==
  ASSUME ResultInv, ScriptAssumption, ScriptInv', NEW r \in Runs, main[r] = "active",
         sent[r] # <<>>,
         Head(sent[r]).type = "output", HandleMessage(r)
  PROVE  ResultInv'
<1> USE DEF ResultInv
<1>1. PICK e \in Event : e = OutputOf(r) BY DEF Event, OutputOf
<1>2. /\ stream' = [stream EXCEPT ![r] = @ + 1] /\ events' = Append(events, e)
      /\ sent' = [sent EXCEPT ![r] = Tail(@)]
      /\ UNCHANGED <<owner, active, shown, logged, gone, log, stopped, main, cancelling,
                     cancelledRuns,
                     killed, spared, child, yielded, ended, calls, answers, refusals, faults>>
  BY <1>1 DEF HandleMessage, OutputOf, renderer, process
<1>3. /\ events' \in Seq(Event) /\ \A i \in DOMAIN events' : i = Len(events) + 1 \/ i \in DOMAIN events
      /\ events'[Len(events) + 1] = e /\ \A i \in DOMAIN events : events'[i] = events[i]
  <2>1. events \in Seq(Event) /\ events' = Append(events, e) BY <1>2 DEF TypeOK
  <2> QED BY <2>1, AppendOf
<1>4. sent[r] \in Seq(Message) BY DEF TypeOK
<1>19. Head(sent[r]) \in Message /\ Tail(sent[r]) \in Seq(Message) BY <1>4, TailOf
<1>20. PICK rest \in Seq(Message) : rest = Tail(sent[r]) BY <1>19
<1>5. /\ Head(sent[r]) \in Message
      /\ \A i \in DOMAIN rest : i + 1 \in DOMAIN sent[r] /\ rest[i] = sent[r][i + 1]
  BY <1>4, <1>19, <1>20, TailOf
<1>6. Head(sent[r]) = Output BY <1>5 DEF Message, Output
<1>7. /\ Occurrences(sent[r], Output) = Occurrences(rest, Output) + 1
      /\ Occurrences(rest, Output) \in Nat
  BY <1>4, <1>6, <1>20, OccurrencesTail, OccurrencesNat
<1>8. /\ sent'[r] = rest /\ stream'[r] = stream[r] + 1
      /\ \A q \in Runs : q # r => sent'[q] = sent[q] /\ stream'[q] = stream[q]
  BY <1>2, <1>20 DEF TypeOK
<1>9. r \in DOMAIN owner BY BegunOwned
<1>10. stream[r] + 1 \in 0..MaxOutputs
  <2>1. stream[r] + Occurrences(sent[r], Output) <= yielded[r] BY DEF OutputsYielded
  <2>2. yielded[r] \in 0..MaxOutputs /\ stream[r] \in Nat /\ MaxOutputs \in Nat
    BY DEF TypeOK, ScriptAssumption
  <2> QED BY <1>7, <2>1, <2>2
<1>11. TypeOK' BY <1>2, <1>3, <1>10, <1>19 DEF TypeOK
<1>12. Later BY <1>2, LaterWhen
<1>13. ActiveOwned' /\ LogOnce' /\ ShowsItsRun' /\ \A q \in DOMAIN owner : ShownOf(q)' = ShownOf(q)
  BY <1>2, <1>12, RendererKept
<1>14. ResultsTrue'
  <2>1. e.type = "output" /\ e.run = r BY <1>1 DEF OutputOf
  <2> QED BY <1>2, <1>3, <1>9, <1>12, <2>1, ResultsKept
<1>15. MessagesTrue'
  <2> SUFFICES ASSUME NEW q \in Runs
               PROVE  /\ main[q] # "active" => sent'[q] = <<>>
                      /\ \A i \in DOMAIN sent'[q] : sent'[q][i].type = "result" =>
                           /\ sent'[q][i].kind \in {"success", "failure"}
                           /\ sent'[q][i].stream <= yielded[q]
                           /\ sent'[q][i].kind = "success" =>
                                ended[q] = "success" /\ sent'[q][i].stream = yielded[q]
    BY <1>2 DEF MessagesTrue
  <2>1. CASE q = r BY <1>5, <1>8, <2>1 DEF MessagesTrue
  <2>2. CASE q # r BY <1>8, <2>2 DEF MessagesTrue
  <2> QED BY <2>1, <2>2
<1>16. EndsOnce' BY <1>2 DEF EndsOnce
<1>17. CancelsAsked' BY <1>2, CancelsKept DEF CancelsAsked
<1>18. OutputsYielded'
  <2>1. \A q \in Runs : stream'[q] + Occurrences(sent'[q], Output)
                          = stream[q] + Occurrences(sent[q], Output)
    <3> TAKE q \in Runs
    <3>1. CASE q = r
      <4>1. stream[r] \in Nat BY Counts
      <4>2. stream'[r] + Occurrences(rest, Output) = stream[r] + Occurrences(sent[r], Output)
        <5>1. /\ stream'[r] = stream[r] + 1 /\ Occurrences(rest, Output) \in Nat
              /\ Occurrences(sent[r], Output) = Occurrences(rest, Output) + 1
          BY <1>7, <1>8
        <5> HIDE DEF ResultInv
        <5> QED BY <4>1, <5>1
      <4>3. sent'[q] = rest BY <1>8, <3>1
      <4> QED BY <3>1, <4>2, <4>3
    <3>2. CASE q # r BY <1>8, <3>2
    <3> QED BY <3>1, <3>2
  <2>2. \A q \in DOMAIN owner :
          Occurrences(events', OutputOf(q)) + Occurrences(sent'[q], Output)
            = Occurrences(events, OutputOf(q)) + Occurrences(sent[q], Output)
    <3> TAKE q \in DOMAIN owner
    <3>1. e = OutputOf(q) <=> q = r BY <1>1 DEF OutputOf
    <3>2. Occurrences(Append(events, e), OutputOf(q))
            = Occurrences(events, OutputOf(q)) + (IF e = OutputOf(q) THEN 1 ELSE 0)
      BY OccurrencesAppend DEF TypeOK
    <3>3. q \in Runs /\ Occurrences(events, OutputOf(q)) \in Nat BY Counts
    <3>4. CASE q = r
      <4>1. Occurrences(events', OutputOf(q)) = Occurrences(events, OutputOf(q)) + 1
        BY <1>2, <3>1, <3>2, <3>4
      <4>2. sent'[q] = rest BY <1>8, <3>4
      <4>3. Occurrences(sent[q], Output) = Occurrences(rest, Output) + 1 BY <1>7, <3>4
      <4> QED BY <1>7, <3>3, <4>1, <4>2, <4>3
    <3>5. CASE q # r BY <1>2, <1>8, <3>1, <3>2, <3>3, <3>5, Counts
    <3> QED BY <3>4, <3>5
  <2>3. \A q \in Runs : Occurrences(sent'[q], Output) \in Nat
    <3> TAKE q \in Runs
    <3>1. CASE q = r BY <1>7, <1>8, <3>1
    <3>2. CASE q # r BY <1>8, <3>2, Counts
    <3> QED BY <3>1, <3>2
  <2>4. \A q \in DOMAIN owner : Occurrences(events', OutputOf(q)) \in Nat BY <1>3, OccurrencesNat
  <2>5. \A q \in Runs : stream'[q] + Occurrences(sent'[q], Output) <= yielded[q]
    BY <2>1 DEF OutputsYielded
  <2>6. \A q \in DOMAIN owner :
          ShownOf(q) + Occurrences(events', OutputOf(q)) + Occurrences(sent'[q], Output) <= yielded[q]
    <3> TAKE q \in DOMAIN owner
    <3>1. q \in Runs /\ ShownOf(q) \in Nat /\ Occurrences(events, OutputOf(q)) \in Nat BY Counts
    <3>2. Occurrences(sent[q], Output) \in Nat /\ yielded[q] \in Nat BY <3>1, Counts
    <3>3. ShownOf(q) + Occurrences(events, OutputOf(q)) + Occurrences(sent[q], Output) <= yielded[q]
      BY DEF OutputsYielded
    <3>4. Occurrences(events', OutputOf(q)) \in Nat /\ Occurrences(sent'[q], Output) \in Nat
      BY <2>3, <2>4, <3>1
    <3> QED BY <2>2, <3>1, <3>2, <3>3, <3>4
  <2> QED BY <1>2, <1>13, <2>5, <2>6 DEF OutputsYielded
<1> QED BY <1>11, <1>13, <1>14, <1>15, <1>16, <1>17, <1>18

\* A message of the process is handled.
LEMMA HandleMessageResults ==
  ASSUME ResultInv, ScriptAssumption, NEW r \in Runs, HandleMessage(r), ScriptInv'
  PROVE  ResultInv'
<1> DEFINE m == Head(sent[r])
<1>1. /\ main[r] = "active" /\ sent[r] # <<>>
      /\ UNCHANGED <<renderer, cancelledRuns, process, calls, refusals>>
  BY DEF HandleMessage
<1>2. CASE m.type = "output" BY <1>1, <1>2, OutputResults
<1>3. CASE m.type = "result"
  <2>1. sent[r] \in Seq(Message) BY DEF ResultInv, TypeOK
  <2>2. m \in Message /\ m = sent[r][1] /\ 1 \in DOMAIN sent[r] BY <1>1, <2>1, TailOf
  <2>3. m.kind \in Kinds /\ m.stream \in 0..MaxOutputs BY <1>3, <2>2 DEF Message
  <2>4. r \in DOMAIN owner BY <1>1, BegunOwned
  <2>5. Truthful(Answer(r, m.kind, m.stream))
    BY <1>3, <2>2, <2>4 DEF Truthful, Answer, ResultInv, MessagesTrue
  <2>6. Finish(r, m.kind, m.stream, faults) BY <1>3 DEF HandleMessage
  <2>7. faults' \in 0..MaxFaults BY <2>6, ScriptAssumption DEF Finish, Kills, ResultInv, TypeOK
  <2> HIDE DEF m
  <2> QED BY <1>1, <2>3, <2>5, <2>6, <2>7, FinishResults
<1> QED BY <1>2, <1>3 DEF HandleMessage

----------------
(* The child process *)

\* What a process sends gets no longer unless somebody listens.
LEMMA SendKept ==
  ASSUME TypeOK, NEW r \in Runs, NEW m \in Message, Send(r, m)
  PROVE  /\ sent' \in [Runs -> Seq(Message)] /\ \A q \in Runs : q # r => sent'[q] = sent[q]
         /\ main[r] # "active" => sent'[r] = sent[r]
         /\ \A i \in DOMAIN sent'[r] :
              (\E j \in DOMAIN sent[r] : sent'[r][i] = sent[r][j]) \/ sent'[r][i] = m
         /\ Occurrences(sent'[r], Output) \in Nat
         /\ Occurrences(sent'[r], Output)
              <= Occurrences(sent[r], Output) + (IF m = Output THEN 1 ELSE 0)
<1>1. sent \in [Runs -> Seq(Message)] /\ sent[r] \in Seq(Message) BY DEF TypeOK
<1>2. Occurrences(sent[r], Output) \in Nat BY <1>1, OccurrencesNat
<1>3. CASE main[r] = "active"
  <2>1. PICK longer \in Seq(Message) : longer = Append(sent[r], m) BY <1>1, AppendOf
  <2>2. \A i \in DOMAIN longer : (\E j \in DOMAIN sent[r] : longer[i] = sent[r][j]) \/ longer[i] = m
    BY <1>1, <2>1, AppendOf
  <2>3. /\ Occurrences(longer, Output) \in Nat
        /\ Occurrences(longer, Output) = Occurrences(sent[r], Output) + (IF m = Output THEN 1 ELSE 0)
    <3>1. Occurrences(Append(sent[r], m), Output)
            = Occurrences(sent[r], Output) + (IF m = Output THEN 1 ELSE 0)
      BY <1>1, OccurrencesAppend
    <3>2. Occurrences(longer, Output) \in Nat BY <2>1, OccurrencesNat
    <3> QED BY <2>1, <3>1, <3>2
  <2>4. sent' = [sent EXCEPT ![r] = longer] BY <1>3, <2>1 DEF Send
  <2>5. /\ sent'[r] = longer /\ sent' \in [Runs -> Seq(Message)]
        /\ \A q \in Runs : q # r => sent'[q] = sent[q]
    BY <1>1, <2>4
  <2> QED BY <1>2, <1>3, <2>2, <2>3, <2>5
<1>4. CASE main[r] # "active" BY <1>1, <1>2, <1>4 DEF Send
<1> QED BY <1>3, <1>4

\* The script yields a value, which is sent if somebody listens.
LEMMA YieldResults ==
  ASSUME ResultInv, ScriptAssumption, NEW r \in Runs, Yield(r), ScriptInv'
  PROVE  ResultInv'
<1> USE DEF ResultInv
<1>1. /\ child[r] = "running" /\ yielded[r] < MaxOutputs /\ yielded' = [yielded EXCEPT ![r] = @ + 1]
      /\ Send(r, Output)
      /\ UNCHANGED <<owner, active, shown, logged, gone, log, stopped, main, cancelledRuns,
                     cancelling,
                     stream, killed, spared, child, ended, calls, events, answers, refusals, faults>>
  BY DEF Yield, Output, renderer, repository, channels
<1>2. Output \in Message BY DEF Output, Message
<1>3. /\ sent' \in [Runs -> Seq(Message)] /\ \A q \in Runs : q # r => sent'[q] = sent[q]
      /\ main[r] # "active" => sent'[r] = sent[r]
      /\ \A i \in DOMAIN sent'[r] :
           (\E j \in DOMAIN sent[r] : sent'[r][i] = sent[r][j]) \/ sent'[r][i] = Output
      /\ Occurrences(sent'[r], Output) \in Nat
      /\ Occurrences(sent'[r], Output) <= Occurrences(sent[r], Output) + 1
  BY <1>1, <1>2, SendKept
<1>4. /\ yielded[r] \in Nat /\ yielded'[r] = yielded[r] + 1 /\ ended[r] = "no"
      /\ \A q \in Runs : q # r => yielded'[q] = yielded[q]
      /\ yielded' \in [Runs -> 0..MaxOutputs]
  BY <1>1 DEF TypeOK, EndsOnce, ScriptAssumption
<1>5. \A q \in Runs : yielded'[q] \in Nat /\ yielded[q] <= yielded'[q] BY <1>4, Counts
<1>6. Later BY <1>1, <1>4, <1>5 DEF Later
<1>7. TypeOK' BY <1>1, <1>3, <1>4 DEF TypeOK
<1>8. ActiveOwned' /\ LogOnce' /\ ShowsItsRun' /\ \A q \in DOMAIN owner : ShownOf(q)' = ShownOf(q)
  BY <1>1, <1>6, RendererKept
<1>9. ResultsTrue' BY <1>1, <1>6, ResultsKept
<1>10. MessagesTrue'
  <2> SUFFICES ASSUME NEW q \in Runs
               PROVE  /\ main[q] # "active" => sent'[q] = <<>>
                      /\ \A i \in DOMAIN sent'[q] : sent'[q][i].type = "result" =>
                           /\ sent'[q][i].kind \in {"success", "failure"}
                           /\ sent'[q][i].stream <= yielded'[q]
                           /\ sent'[q][i].kind = "success" =>
                                ended[q] = "success" /\ sent'[q][i].stream = yielded'[q]
    BY <1>1 DEF MessagesTrue
  <2>1. CASE q # r BY <1>3, <1>4, <2>1 DEF MessagesTrue
  <2>2. CASE q = r
    <3>1. main[r] # "active" => sent'[r] = <<>> BY <1>3 DEF MessagesTrue
    <3>2. ASSUME NEW i \in DOMAIN sent'[r], sent'[r][i].type = "result"
          PROVE  /\ sent'[r][i].kind \in {"success", "failure"} /\ sent'[r][i].stream <= yielded'[r]
                 /\ sent'[r][i].kind # "success"
      <4>1. sent'[r][i] # Output BY <3>2 DEF Output
      <4>2. PICK j \in DOMAIN sent[r] : sent'[r][i] = sent[r][j] BY <1>3, <4>1
      <4>3. sent[r][j] \in Message /\ sent[r][j].type = "result" BY <3>2, <4>2 DEF TypeOK
      <4>4. sent[r][j].stream \in Nat BY <4>3 DEF Message
      <4>5. /\ sent[r][j].kind \in {"success", "failure"} /\ sent[r][j].stream <= yielded[r]
            /\ sent[r][j].kind # "success"
        BY <1>4, <4>3 DEF MessagesTrue
      <4> QED BY <1>4, <4>2, <4>4, <4>5
    <3> QED BY <2>2, <3>1, <3>2
  <2> QED BY <2>1, <2>2
<1>11. EndsOnce' BY <1>1 DEF EndsOnce
<1>12. CancelsAsked' BY <1>1, CancelsKept DEF CancelsAsked
<1>13. OutputsYielded'
  <2>1. ASSUME NEW q \in Runs
        PROVE  /\ Occurrences(sent'[q], Output) \in Nat /\ Occurrences(sent[q], Output) \in Nat
               /\ yielded[q] \in Nat /\ yielded'[q] \in Nat /\ stream[q] \in Nat
               /\ Occurrences(sent'[q], Output) - Occurrences(sent[q], Output)
                    <= yielded'[q] - yielded[q]
    <3>1. CASE q = r BY <1>3, <1>4, <3>1, Counts
    <3>2. CASE q # r BY <1>3, <1>4, <3>2, Counts
    <3> QED BY <3>1, <3>2
  <2>2. \A q \in Runs : stream[q] + Occurrences(sent'[q], Output) <= yielded'[q]
    <3> TAKE q \in Runs
    <3>1. stream[q] + Occurrences(sent[q], Output) <= yielded[q] BY DEF OutputsYielded
    <3> QED BY <2>1, <3>1
  <2>3. \A q \in DOMAIN owner :
          ShownOf(q) + Occurrences(events, OutputOf(q)) + Occurrences(sent'[q], Output) <= yielded'[q]
    <3> TAKE q \in DOMAIN owner
    <3>1. ShownOf(q) + Occurrences(events, OutputOf(q)) + Occurrences(sent[q], Output) <= yielded[q]
      BY DEF OutputsYielded
    <3>2. q \in Runs /\ ShownOf(q) \in Nat /\ Occurrences(events, OutputOf(q)) \in Nat BY Counts
    <3> QED BY <2>1, <3>1, <3>2
  <2> QED BY <1>1, <1>8, <2>2, <2>3 DEF OutputsYielded
<1> QED BY <1>7, <1>8, <1>9, <1>10, <1>11, <1>12, <1>13

\* The worker says how the script ended.
LEMMA EndResults ==
  ASSUME ResultInv, ScriptAssumption, NEW r \in Runs, ScriptEnds(r) \/ WorkerFails(r), ScriptInv'
  PROVE  ResultInv'
<1> USE DEF ResultInv
<1>1. faults' \in 0..MaxFaults /\ yielded[r] \in Nat
  <2>1. UNCHANGED faults \/ Fault BY DEF ScriptEnds, WorkerFails
  <2>2. faults' \in 0..MaxFaults BY <2>1 DEF Fault, TypeOK, ScriptAssumption
  <2> QED BY <2>2, Counts
<1>2. PICK end \in {"success", "failure", "broken"}, n \in 0..MaxOutputs :
        SendsResult(r, end, n) /\ n <= yielded[r] /\ (end = "success" => n = yielded[r])
  BY <1>1 DEF TypeOK, ScriptAssumption, ScriptEnds, WorkerFails
<1>3. PICK m \in Message :
        m = [type |-> "result", stream |-> n,
             kind |-> IF end = "success" THEN "success" ELSE "failure"]
  <2>1. (IF end = "success" THEN "success" ELSE "failure") \in Kinds BY DEF Kinds
  <2> QED BY <2>1 DEF Message
<1>4. /\ child[r] = "running" /\ child' = [child EXCEPT ![r] = "exiting"]
      /\ ended' = [ended EXCEPT ![r] = end] /\ Send(r, m)
      /\ UNCHANGED <<owner, active, shown, logged, gone, log, stopped, main, cancelledRuns,
                     cancelling,
                     stream, killed, spared, yielded, calls, events, answers, refusals>>
  BY <1>2, <1>3 DEF SendsResult, renderer, repository, channels
<1>5. m # Output BY <1>3 DEF Output
<1>6. /\ sent' \in [Runs -> Seq(Message)] /\ \A q \in Runs : q # r => sent'[q] = sent[q]
      /\ main[r] # "active" => sent'[r] = sent[r]
      /\ \A i \in DOMAIN sent'[r] :
           (\E j \in DOMAIN sent[r] : sent'[r][i] = sent[r][j]) \/ sent'[r][i] = m
      /\ Occurrences(sent'[r], Output) \in Nat
      /\ Occurrences(sent'[r], Output) <= Occurrences(sent[r], Output)
  BY <1>4, <1>5, Counts, SendKept
<1>7. ended[r] = "no" /\ ended'[r] = end /\ \A q \in Runs : q # r => ended'[q] = ended[q]
  BY <1>4 DEF TypeOK, EndsOnce
<1>8. Later BY <1>4, <1>7, Counts DEF Later
<1>9. TypeOK' BY <1>1, <1>4, <1>6 DEF TypeOK
<1>10. ActiveOwned' /\ LogOnce' /\ ShowsItsRun' /\ \A q \in DOMAIN owner : ShownOf(q)' = ShownOf(q)
  BY <1>4, <1>8, RendererKept
<1>11. ResultsTrue' BY <1>4, <1>8, ResultsKept
<1>12. MessagesTrue'
  <2> SUFFICES ASSUME NEW q \in Runs
               PROVE  /\ main[q] # "active" => sent'[q] = <<>>
                      /\ \A i \in DOMAIN sent'[q] : sent'[q][i].type = "result" =>
                           /\ sent'[q][i].kind \in {"success", "failure"}
                           /\ sent'[q][i].stream <= yielded[q]
                           /\ sent'[q][i].kind = "success" =>
                                ended'[q] = "success" /\ sent'[q][i].stream = yielded[q]
    BY <1>4 DEF MessagesTrue
  <2>1. CASE q # r BY <1>6, <1>7, <2>1 DEF MessagesTrue
  <2>2. CASE q = r BY <1>2, <1>3, <1>6, <1>7, <2>2 DEF MessagesTrue
  <2> QED BY <2>1, <2>2
<1>13. EndsOnce' BY <1>4, <1>7 DEF EndsOnce, TypeOK
<1>14. CancelsAsked' BY <1>4, CancelsKept DEF CancelsAsked
<1>15. OutputsYielded'
  <2>1. ASSUME NEW q \in Runs
        PROVE  /\ Occurrences(sent'[q], Output) \in Nat /\ Occurrences(sent[q], Output) \in Nat
               /\ yielded[q] \in Nat /\ stream[q] \in Nat
               /\ Occurrences(sent'[q], Output) <= Occurrences(sent[q], Output)
    <3>1. CASE q = r BY <1>6, <3>1, Counts
    <3>2. CASE q # r
      <4>1. sent'[q] = sent[q] BY <1>6, <3>2
      <4> QED BY <4>1, Counts
    <3> QED BY <3>1, <3>2
  <2>2. \A q \in Runs : stream[q] + Occurrences(sent'[q], Output) <= yielded[q]
    <3> TAKE q \in Runs
    <3>1. stream[q] + Occurrences(sent[q], Output) <= yielded[q] BY DEF OutputsYielded
    <3> QED BY <2>1, <3>1
  <2>3. \A q \in DOMAIN owner :
          ShownOf(q) + Occurrences(events, OutputOf(q)) + Occurrences(sent'[q], Output) <= yielded[q]
    <3> TAKE q \in DOMAIN owner
    <3>1. ShownOf(q) + Occurrences(events, OutputOf(q)) + Occurrences(sent[q], Output) <= yielded[q]
      BY DEF OutputsYielded
    <3>2. q \in Runs /\ ShownOf(q) \in Nat /\ Occurrences(events, OutputOf(q)) \in Nat BY Counts
    <3> QED BY <2>1, <3>1, <3>2
  <2> QED BY <1>4, <1>10, <2>2, <2>3 DEF OutputsYielded
<1> QED BY <1>9, <1>10, <1>11, <1>12, <1>13, <1>14, <1>15

\* A process that is dead has said what it has said.
LEMMA DieResults ==
  ASSUME ResultInv, ScriptAssumption, NEW r \in Runs, Die(r), ScriptInv'
  PROVE  ResultInv'
<1> USE DEF ResultInv
<1>1. /\ child' = [child EXCEPT ![r] = "dead"]
      /\ UNCHANGED faults \/ Fault
      /\ UNCHANGED <<owner, active, shown, logged, gone, log, stopped, main, cancelledRuns,
                     cancelling,
                     stream, killed, spared, sent, yielded, ended, calls, events, answers, refusals>>
  BY DEF Die, renderer, repository, channels
<1>2. Later BY <1>1, LaterWhen
<1>3. TypeOK'
  <2>1. child' \in [Runs -> {"none", "running", "exiting", "dead"}] BY <1>1 DEF TypeOK
  <2>2. faults' \in 0..MaxFaults BY <1>1 DEF TypeOK, Fault, ScriptAssumption
  <2> QED BY <1>1, <2>1, <2>2 DEF TypeOK
<1>4. ActiveOwned' /\ LogOnce' /\ ShowsItsRun' /\ \A q \in DOMAIN owner : ShownOf(q)' = ShownOf(q)
  BY <1>1, <1>2, RendererKept
<1>5. ResultsTrue' BY <1>1, <1>2, ResultsKept
<1>6. MessagesTrue' BY <1>1 DEF MessagesTrue
<1>7. EndsOnce' BY <1>1 DEF EndsOnce, TypeOK
<1>8. CancelsAsked' BY <1>1, CancelsKept DEF CancelsAsked
<1>9. OutputsYielded' BY <1>1, <1>4, Counts, OutputsKept
<1> QED BY <1>3, <1>4, <1>5, <1>6, <1>7, <1>8, <1>9

----------------
(* What comes back *)

\* The first event is taken, or none.
LEMMA EventsTaken ==
  ASSUME TypeOK, events' = events \/ (events # <<>> /\ events' = Tail(events))
  PROVE  /\ events' \in Seq(Event)
         /\ \A i \in DOMAIN events' : \E j \in DOMAIN events : events'[i] = events[j]
         /\ \A y : Occurrences(events', y) \in Nat /\ Occurrences(events', y) <= Occurrences(events, y)
<1>1. events \in Seq(Event) BY DEF TypeOK
<1>2. CASE events' = events
  <2>1. \A y : Occurrences(events, y) \in Nat BY <1>1, OccurrencesNat
  <2>2. \A y : Occurrences(events', y) = Occurrences(events, y) BY <1>2
  <2> QED BY <1>1, <1>2, <2>1, <2>2
<1>3. CASE events # <<>> /\ events' = Tail(events)
  <2>1. /\ Tail(events) \in Seq(Event)
        /\ \A i \in DOMAIN Tail(events) : i + 1 \in DOMAIN events /\ Tail(events)[i] = events[i + 1]
    BY <1>1, <1>3, TailOf
  <2>2. PICK rest \in Seq(Event) : rest = Tail(events) BY <2>1
  <2>3. ASSUME NEW y
        PROVE  Occurrences(rest, y) \in Nat /\ Occurrences(rest, y) <= Occurrences(events, y)
    <3>1. Occurrences(events, y) = Occurrences(rest, y) + (IF Head(events) = y THEN 1 ELSE 0)
      BY <1>1, <1>3, <2>2, OccurrencesTail
    <3>2. Occurrences(rest, y) \in Nat BY <2>2, OccurrencesNat
    <3> QED BY <3>1, <3>2
  <2>4. \A y : Occurrences(events', y) = Occurrences(rest, y) BY <1>3, <2>2
  <2> QED BY <1>3, <2>1, <2>2, <2>3, <2>4
<1> QED BY <1>2, <1>3

\* What comes back changes what the renderer keeps, and nothing else.
LEMMA ReceivesResults ==
  ASSUME ResultInv, ScriptAssumption, ScriptInv',
         active' \in [Tabs -> Runs \cup {NoRun}], shown' \in [Tabs -> Result \cup {NoResult}],
         logged' \in Seq(Runs), Len(logged') <= MaxLogged, log' \in Seq([run : Runs, kind : Kinds]),
         ActiveOwned', LogOnce', ShowsItsRun', answers' \subseteq answers,
         refusals' \subseteq refusals,
         events' = events \/ (events # <<>> /\ events' = Tail(events)),
         \A r \in DOMAIN owner :
           /\ ShownOf(r)' \in Nat
           /\ ShownOf(r)' + Occurrences(events', OutputOf(r))
                <= ShownOf(r) + Occurrences(events, OutputOf(r)),
         UNCHANGED <<owner, gone, stopped, repository, process, sent, calls, faults>>
  PROVE  ResultInv'
<1> USE DEF ResultInv
<1>1. UNCHANGED <<main, cancelledRuns, cancelling, stream, killed, spared, child, yielded, ended>>
  BY DEF repository, process
<1>2. Later BY <1>1, LaterWhen
<1>3. /\ events' \in Seq(Event)
      /\ \A i \in DOMAIN events' : \E j \in DOMAIN events : events'[i] = events[j]
      /\ \A y : Occurrences(events', y) \in Nat
  BY EventsTaken
<1>4. TypeOK'
  <2>1. /\ {cancelledRuns', cancelling', killed', spared', refusals', gone', stopped'} \subseteq SUBSET Runs
        /\ answers' \subseteq Result
    BY <1>1 DEF TypeOK
  <2> QED BY <1>1, <1>3, <2>1 DEF TypeOK
<1>5. ResultsTrue' BY <1>2, <1>3, ResultsKept
<1>6. MessagesTrue' /\ EndsOnce' BY <1>1 DEF MessagesTrue, EndsOnce
<1>7. CancelsAsked' BY <1>1, CancelsKept DEF CancelsAsked
<1>8. OutputsYielded'
  <2>1. \A r \in Runs : stream'[r] + Occurrences(sent'[r], Output) <= yielded'[r]
    BY <1>1 DEF OutputsYielded
  <2>2. \A r \in DOMAIN owner :
          ShownOf(r)' + Occurrences(events', OutputOf(r)) + Occurrences(sent[r], Output) <= yielded[r]
    <3> TAKE r \in DOMAIN owner
    <3>1. r \in Runs /\ ShownOf(r) \in Nat /\ Occurrences(events, OutputOf(r)) \in Nat BY Counts
    <3>2. Occurrences(sent[r], Output) \in Nat /\ yielded[r] \in Nat BY <3>1, Counts
    <3>3. ShownOf(r) + Occurrences(events, OutputOf(r)) + Occurrences(sent[r], Output) <= yielded[r]
      BY DEF OutputsYielded
    <3>4. /\ Occurrences(events', OutputOf(r)) \in Nat /\ ShownOf(r)' \in Nat
          /\ ShownOf(r)' + Occurrences(events', OutputOf(r))
               <= ShownOf(r) + Occurrences(events, OutputOf(r))
      BY <1>3
    <3> HIDE DEF ResultInv
    <3> QED BY <3>1, <3>2, <3>3, <3>4
  <2> QED BY <1>1, <2>1, <2>2 DEF OutputsYielded
<1> QED BY <1>4, <1>5, <1>6, <1>7, <1>8

\* The run that a tab has is over, with what has come back of it.
LEMMA EndsResults ==
  ASSUME ResultInv, ScriptAssumption, ScriptInv', NEW t \in Tabs, active[t] # NoRun,
         NEW x \in Result,
         x.run = active[t], Ends(t, x), Truthful(x), answers' \subseteq answers,
         events' = events \/ (events # <<>> /\ events' = Tail(events)),
         UNCHANGED <<owner, gone, stopped, repository, process, sent, calls, refusals, faults>>
  PROVE  ResultInv'
<1>1. UNCHANGED <<yielded, ended>> BY DEF process
<1>2. TypeOK BY DEF ResultInv
<1>3. Later BY <1>1, <1>2, LaterWhen
<1>4. Truthful(x)' BY <1>2, <1>3, TruthKept
<1>5. /\ active' \in [Tabs -> Runs \cup {NoRun}] /\ shown' \in [Tabs -> Result \cup {NoResult}]
      /\ logged' \in Seq(Runs) /\ Len(logged') <= MaxLogged
      /\ log' \in Seq([run : Runs, kind : Kinds])
      /\ ActiveOwned' /\ LogOnce' /\ ShowsItsRun'
      /\ \A r \in DOMAIN owner : ShownOf(r)' = IF r = x.run THEN 0 ELSE ShownOf(r)
  BY <1>1, <1>4, EndsKeeps
<1>6. \A y : Occurrences(events', y) \in Nat /\ Occurrences(events', y) <= Occurrences(events, y)
  BY <1>2, EventsTaken
<1>7. ASSUME NEW r \in DOMAIN owner
      PROVE  /\ ShownOf(r)' \in Nat
             /\ ShownOf(r)' + Occurrences(events', OutputOf(r))
                  <= ShownOf(r) + Occurrences(events, OutputOf(r))
  <2>1. ShownOf(r) \in Nat /\ Occurrences(events, OutputOf(r)) \in Nat BY Counts
  <2>2. ShownOf(r)' = 0 \/ ShownOf(r)' = ShownOf(r) BY <1>5
  <2>3. /\ Occurrences(events', OutputOf(r)) \in Nat
        /\ Occurrences(events', OutputOf(r)) <= Occurrences(events, OutputOf(r))
    BY <1>6
  <2> QED BY <2>1, <2>2, <2>3
<1> QED BY <1>5, <1>7, ReceivesResults

\* What comes back of a run that its tab does not have any more is dropped.
LEMMA DroppedResults ==
  ASSUME ResultInv, ScriptAssumption, ScriptInv', answers' \subseteq answers,
         events' = events \/ (events # <<>> /\ events' = Tail(events)),
         UNCHANGED <<owner, active, shown, logged, log, gone, stopped, repository, process, sent,
                     calls,
                     refusals, faults>>
  PROVE  ResultInv'
<1>1. UNCHANGED <<yielded, ended>> BY DEF process
<1>2. TypeOK BY DEF ResultInv
<1>3. Later BY <1>1, <1>2, LaterWhen
<1>4. ActiveOwned' /\ LogOnce' /\ ShowsItsRun' /\ \A q \in DOMAIN owner : ShownOf(q)' = ShownOf(q)
  BY <1>3, RendererKept
<1>5. \A y : Occurrences(events', y) \in Nat /\ Occurrences(events', y) <= Occurrences(events, y)
  BY <1>2, EventsTaken
<1>6. ASSUME NEW r \in DOMAIN owner
      PROVE  /\ ShownOf(r)' \in Nat
             /\ ShownOf(r)' + Occurrences(events', OutputOf(r))
                  <= ShownOf(r) + Occurrences(events, OutputOf(r))
  BY <1>4, <1>5, Counts
<1>7. /\ active' \in [Tabs -> Runs \cup {NoRun}] /\ shown' \in [Tabs -> Result \cup {NoResult}]
      /\ logged' \in Seq(Runs) /\ Len(logged') <= MaxLogged
      /\ log' \in Seq([run : Runs, kind : Kinds])
  BY <1>2 DEF TypeOK
<1> QED BY <1>4, <1>6, <1>7, ReceivesResults

\* A value of the run that a tab has is added to what the tab shows.
LEMMA OutputShownResults ==
  ASSUME ResultInv, ScriptAssumption, ScriptInv', NEW r \in DOMAIN owner, NEW t \in Tabs,
         t = owner[r], active[t] = r, events # <<>>, Head(events) = OutputOf(r),
                                                 events' = Tail(events),
         shown' = [shown EXCEPT ![t] = [run |-> r, kind |-> "partial",
         stream |-> shown[t].stream + 1]],
         UNCHANGED <<owner, active, logged, log, gone, stopped, repository, process, sent, calls,
                     answers,
                     refusals, faults>>
  PROVE  ResultInv'
<1> DEFINE n == shown[t].stream + 1
<1> USE DEF ResultInv
<1>1. UNCHANGED <<yielded, ended>> BY DEF process
<1>2. r \in Runs /\ r # NoRun BY Counts
<1>3. Occurrences(events, OutputOf(r)) = Occurrences(events', OutputOf(r)) + 1
      /\ Occurrences(events', OutputOf(r)) \in Nat
  BY OccurrencesTail, EventsTaken DEF TypeOK
<1>4. n \in 0..MaxOutputs /\ n <= yielded[r] /\ shown[t].stream \in Nat
  <2>1. ShownOf(r) = shown[t].stream BY DEF ShownOf
  <2>2. ShownOf(r) + Occurrences(events, OutputOf(r)) + Occurrences(sent[r], Output) <= yielded[r]
    BY DEF OutputsYielded
  <2>3. yielded[r] \in 0..MaxOutputs BY <1>2 DEF TypeOK
  <2>4. ShownOf(r) \in Nat /\ Occurrences(sent[r], Output) \in Nat BY <1>2, Counts
  <2> HIDE DEF ResultInv
  <2> QED BY <1>3, <2>1, <2>2, <2>3, <2>4 DEF ScriptAssumption
<1>5. PICK x \in Result : x = [run |-> r, kind |-> "partial", stream |-> n]
  BY <1>2, <1>4 DEF Result, Kinds
<1>6. /\ shown' = [shown EXCEPT ![t] = x] /\ x.run = r /\ x.kind = "partial" /\ x.stream = n
      /\ shown' \in [Tabs -> Result \cup {NoResult}]
  BY <1>5 DEF TypeOK
<1>7. Later BY <1>1, LaterWhen
<1>8. ActiveOwned' /\ LogOnce' BY <1>1 DEF ActiveOwned, LogOnce
<1>9. ShowsItsRun'
  <2>1. \A u \in Tabs : LatestRun(u)' = LatestRun(u) BY DEF LatestRun
  <2>2. LatestRun(t) = r BY <1>2 DEF ShowsItsRun
  <2> SUFFICES ASSUME NEW u \in Tabs
               PROVE  /\ active[u] \in {NoRun, LatestRun(u)}
                      /\ shown'[u] # NoResult =>
                           /\ shown'[u].run = LatestRun(u)
                           /\ (shown'[u].kind = "partial") = (active[u] = shown'[u].run)
                           /\ shown'[u].stream <= yielded[shown'[u].run]
                           /\ shown'[u].kind = "success" =>
                                /\ ended[shown'[u].run] = "success"
                                /\ shown'[u].stream = yielded[shown'[u].run]
                           /\ shown'[u].kind = "cancelled" => shown'[u].run \in stopped
    BY <1>1, <2>1 DEF ShowsItsRun
  <2>3. CASE u = t
    <3>1. shown'[u] = x BY <1>6, <2>3 DEF TypeOK
    <3> QED BY <1>4, <1>6, <2>2, <2>3, <3>1
  <2>4. CASE u # t
    <3>1. shown'[u] = shown[u] BY <1>6, <2>4 DEF TypeOK
    <3> QED BY <3>1 DEF ShowsItsRun
  <2> QED BY <2>3, <2>4
<1>10. \A q \in DOMAIN owner : /\ q = r => ShownOf(q)' = n /\ ShownOf(q) + 1 = n
                               /\ q # r => ShownOf(q)' = ShownOf(q)
  <2>1. shown'[t].stream = n BY <1>6 DEF TypeOK
  <2>2. \A u \in Tabs : u # t => shown'[u] = shown[u] BY <1>6 DEF TypeOK
  <2>3. \A q \in DOMAIN owner : owner[q] \in Tabs BY Counts
  <2> HIDE DEF ResultInv
  <2> QED BY <2>1, <2>2, <2>3 DEF ShownOf
<1>11. ASSUME NEW q \in DOMAIN owner
       PROVE  /\ ShownOf(q)' \in Nat
              /\ ShownOf(q)' + Occurrences(events', OutputOf(q))
                   <= ShownOf(q) + Occurrences(events, OutputOf(q))
  <2>1. ShownOf(q) \in Nat /\ Occurrences(events, OutputOf(q)) \in Nat BY Counts
  <2>2. /\ Occurrences(events', OutputOf(q)) \in Nat
        /\ Occurrences(events', OutputOf(q)) <= Occurrences(events, OutputOf(q))
    BY EventsTaken
  <2>3. CASE q = r
    <3>1. /\ Occurrences(events, OutputOf(q)) = Occurrences(events', OutputOf(q)) + 1
          /\ Occurrences(events', OutputOf(q)) \in Nat
      BY <1>3, <2>3
    <3>2. ShownOf(q)' = ShownOf(q) + 1 BY <1>10, <2>3
    <3> HIDE DEF ResultInv, n
    <3> QED BY <2>1, <3>1, <3>2
  <2>4. CASE q # r BY <1>10, <2>1, <2>2, <2>4
  <2> QED BY <2>3, <2>4
<1>12. /\ active' \in [Tabs -> Runs \cup {NoRun}] /\ logged' \in Seq(Runs) /\ Len(logged') <= MaxLogged
       /\ log' \in Seq([run : Runs, kind : Kinds])
  BY DEF TypeOK
<1> QED BY <1>6, <1>8, <1>9, <1>11, <1>12, ReceivesResults

\* An event is taken.
LEMMA ReceiveEventResults ==
  ASSUME ResultInv, ScriptAssumption, ReceiveEvent, ScriptInv'
  PROVE  ResultInv'
<1>1. /\ events # <<>> /\ events' = Tail(events)
      /\ UNCHANGED <<owner, gone, stopped, repository, process, sent, calls, answers, refusals, faults>>
  BY DEF ReceiveEvent
<1>2. Head(events) \in Event /\ Head(events) = events[1] /\ 1 \in DOMAIN events
  BY <1>1, TailOf DEF ResultInv, TypeOK
<1>3. PICK e \in Event : e = Head(events) /\ e = events[1] BY <1>2
<1>4. /\ e.type = "complete" => Truthful(e.result)
      /\ e.type = "output" => e.run \in DOMAIN owner
  BY <1>2, <1>3 DEF ResultInv, ResultsTrue
<1>5. CASE e.type = "output"
  <2>1. e = OutputOf(e.run) /\ e.run \in DOMAIN owner BY <1>4, <1>5 DEF Event, OutputOf
  <2>2. PICK r \in DOMAIN owner : r = e.run BY <2>1
  <2>3. PICK t \in Tabs : t = owner[r] BY Counts
  <2>4. \/ UNCHANGED <<active, shown, logged, log>>
        \/ /\ active[t] = r
           /\ shown' = [shown EXCEPT ![t] =
                           [run |-> r, kind |-> "partial", stream |-> shown[t].stream + 1]]
           /\ UNCHANGED <<active, logged, log>>
    BY <1>3, <1>5, <2>2, <2>3 DEF ReceiveEvent
  <2>5. CASE UNCHANGED <<active, shown, logged, log>> BY <1>1, <2>5, DroppedResults
  <2>6. Head(events) = OutputOf(r) BY <1>3, <2>1, <2>2
  <2> QED BY <1>1, <2>3, <2>4, <2>5, <2>6, OutputShownResults
<1>6. CASE e.type = "complete"
  <2>1. e.result \in Result BY <1>6 DEF Event
  <2>2. PICK x \in Result : x = e.result BY <2>1
  <2>3. Truthful(x) BY <1>4, <1>6, <2>2
  <2>4. x.run \in DOMAIN owner BY <2>3 DEF Truthful
  <2>5. PICK t \in Tabs : t = owner[x.run] BY <2>4, Counts
  <2>6. x.run # NoRun BY <2>4, Counts
  <2>7. \/ UNCHANGED <<active, shown, logged, log>>
        \/ active[t] = x.run /\ Ends(t, x)
    BY <1>3, <1>6, <2>2, <2>5 DEF ReceiveEvent
  <2>8. CASE UNCHANGED <<active, shown, logged, log>> BY <1>1, <2>8, DroppedResults
  <2>9. CASE active[t] = x.run /\ Ends(t, x) BY <1>1, <2>3, <2>6, <2>9, EndsResults
  <2> QED BY <2>7, <2>8, <2>9
<1> QED BY <1>5, <1>6 DEF Event

\* An answer is taken.
LEMMA ReceiveAnswerResults ==
  ASSUME ResultInv, ScriptAssumption, ReceiveAnswer, ScriptInv'
  PROVE  ResultInv'
<1>1. UNCHANGED <<owner, gone, stopped, repository, process, sent, calls, events, refusals, faults>>
  BY DEF ReceiveAnswer
<1>2. PICK x \in answers :
        /\ answers' = answers \ {x}
        /\ \/ active[owner[x.run]] = x.run /\ Ends(owner[x.run], x)
           \/ UNCHANGED <<active, shown, logged, log>>
  BY DEF ReceiveAnswer, Awaited
<1>3. x \in Result /\ Truthful(x) BY DEF ResultInv, TypeOK, ResultsTrue
<1>4. x.run \in DOMAIN owner BY <1>3 DEF Truthful
<1>5. PICK t \in Tabs : t = owner[x.run] BY <1>4, Counts
<1>6. x.run # NoRun BY <1>4, Counts
<1>7. CASE UNCHANGED <<active, shown, logged, log>> BY <1>1, <1>2, <1>7, DroppedResults
<1>8. CASE active[t] = x.run /\ Ends(t, x) BY <1>1, <1>2, <1>3, <1>6, <1>8, EndsResults
<1> QED BY <1>2, <1>5, <1>7, <1>8

\* What said cancelled says failed: the run is over all the same.
LEMMA ReceiveRefusalResults ==
  ASSUME ResultInv, ScriptAssumption, ReceiveRefusal, ScriptInv'
  PROVE  ResultInv'
<1>1. UNCHANGED <<owner, active, logged, gone, log, stopped, repository, process, sent, calls,
                  events,
                  answers, faults>>
  BY DEF ReceiveRefusal
<1>2. PICK r \in refusals :
        /\ refusals' = refusals \ {r}
        /\ \/ UNCHANGED shown
           \/ /\ shown[owner[r]].kind = "cancelled"
              /\ shown' = [shown EXCEPT ![owner[r]].kind = "failure"]
  BY DEF ReceiveRefusal
<1>3. /\ shown \in [Tabs -> Result \cup {NoResult}] /\ UNCHANGED <<yielded, ended>>
      /\ logged' \in Seq(Runs) /\ Len(logged') <= MaxLogged
      /\ log' \in Seq([run : Runs, kind : Kinds]) /\ active' \in [Tabs -> Runs \cup {NoRun}]
  BY <1>1 DEF ResultInv, TypeOK, process
<1>4. ASSUME NEW t \in Tabs
      PROVE  \/ shown'[t] = shown[t]
             \/ /\ shown'[t] \in Result /\ shown[t] \in Result /\ shown[t].kind = "cancelled"
                /\ shown'[t].kind = "failure" /\ shown'[t].run = shown[t].run
                /\ shown'[t].stream = shown[t].stream
  <2>1. CASE UNCHANGED shown BY <2>1
  <2>2. CASE shown[owner[r]].kind = "cancelled" /\ shown' = [shown EXCEPT ![owner[r]].kind = "failure"]
    <3>1. CASE t # owner[r] BY <1>3, <2>2, <3>1
    <3>2. CASE t = owner[r] BY <1>3, <2>2, <3>2 DEF NoResult, Result, Kinds
    <3> QED BY <3>1, <3>2
  <2> QED BY <1>2, <2>1, <2>2
<1>5. shown' \in [Tabs -> Result \cup {NoResult}] BY <1>2, <1>3, <1>4
<1>6. ActiveOwned' /\ LogOnce' BY <1>1, <1>3 DEF ResultInv, ActiveOwned, LogOnce
<1>7. ShowsItsRun'
  <2>1. \A u \in Tabs : LatestRun(u)' = LatestRun(u) BY <1>1 DEF LatestRun
  <2> SUFFICES ASSUME NEW u \in Tabs
               PROVE  /\ active[u] \in {NoRun, LatestRun(u)}
                      /\ shown'[u] # NoResult =>
                           /\ shown'[u].run = LatestRun(u)
                           /\ (shown'[u].kind = "partial") = (active[u] = shown'[u].run)
                           /\ shown'[u].stream <= yielded[shown'[u].run]
                           /\ shown'[u].kind = "success" =>
                                /\ ended[shown'[u].run] = "success"
                                /\ shown'[u].stream = yielded[shown'[u].run]
                           /\ shown'[u].kind = "cancelled" => shown'[u].run \in stopped
    BY <1>1, <1>3, <2>1 DEF ShowsItsRun
  <2>2. CASE shown'[u] = shown[u] BY <2>2 DEF ResultInv, ShowsItsRun
  <2>3. CASE /\ shown'[u] \in Result /\ shown[u] \in Result /\ shown[u].kind = "cancelled"
             /\ shown'[u].kind = "failure" /\ shown'[u].run = shown[u].run
             /\ shown'[u].stream = shown[u].stream
    <3>1. shown[u] # NoResult BY <2>3 DEF NoResult
    <3> QED BY <2>3, <3>1 DEF ResultInv, ShowsItsRun
  <2> QED BY <1>4, <2>2, <2>3
<1>8. \A q \in DOMAIN owner : ShownOf(q)' = ShownOf(q) BY <1>1, <1>4, Counts DEF ShownOf
<1>9. ASSUME NEW q \in DOMAIN owner
      PROVE  /\ ShownOf(q)' \in Nat
             /\ ShownOf(q)' + Occurrences(events', OutputOf(q))
                  <= ShownOf(q) + Occurrences(events, OutputOf(q))
  BY <1>1, <1>8, Counts
<1>10. answers' \subseteq answers /\ refusals' \subseteq refusals BY <1>1, <1>2
<1> QED BY <1>1, <1>3, <1>5, <1>6, <1>7, <1>9, <1>10, ReceivesResults

----------------
(* The invariant holds, and what follows from it *)

LEMMA InitResults == ASSUME Init, ScriptAssumption PROVE ResultInv
<1>1. TypeOK BY DEF Init, TypeOK, ScriptAssumption, Result, NoResult, Runs, NoRun, Kinds
<1>2. ScriptInv BY InitInv
<1>3. ResultsTrue /\ MessagesTrue /\ EndsOnce /\ CancelsAsked
  BY DEF Init, ResultsTrue, MessagesTrue, EndsOnce, CancelsAsked
<1>4. OutputsYielded
  <2>1. \A r \in Runs : Occurrences(sent[r], Output) = 0
    <3> TAKE r \in Runs
    <3>1. sent[r] = <<>> BY DEF Init
    <3> QED BY <3>1, OccurrencesEmpty
  <2>2. DOMAIN owner = {} BY DEF Init
  <2>3. \A r \in Runs : stream[r] = 0 /\ yielded[r] = 0 BY DEF Init
  <2> QED BY <2>1, <2>2, <2>3 DEF OutputsYielded
<1>5. ActiveOwned /\ LogOnce BY DEF Init, ActiveOwned, LogOnce
<1>6. ShowsItsRun BY DEF Init, ShowsItsRun, LatestRun
<1> QED BY <1>1, <1>2, <1>3, <1>4, <1>5, <1>6 DEF ResultInv

LEMMA NextResults ==
  ASSUME ResultInv, ScriptAssumption, [Next]_vars
  PROVE  ResultInv'
<1>1. ScriptInv' BY NextInv DEF ResultInv, ScriptAssumption
<1>2. ASSUME NEW t \in Tabs, Run(t) \/ CancelRun(t) \/ ClearTab(t) PROVE ResultInv'
  BY <1>1, <1>2, RunResults, CancelRunResults, ClearTabResults
<1>3. CASE ReceiveRun BY <1>1, <1>3, ReceiveRunResults
<1>4. CASE ReceiveCancel \/ CancelRejects BY <1>1, <1>4, CancelCallResults
<1>5. CASE ReceiveEvent BY <1>1, <1>5, ReceiveEventResults
<1>6. CASE ReceiveAnswer BY <1>1, <1>6, ReceiveAnswerResults
<1>7. CASE ReceiveRefusal BY <1>1, <1>7, ReceiveRefusalResults
<1>8. ASSUME NEW r \in Runs, Resolve(r) \/ ResolveFails(r) PROVE ResultInv'
  BY <1>1, <1>8, ResolveResults
<1>9. ASSUME NEW r \in Runs, HandleMessage(r) PROVE ResultInv' BY <1>1, <1>9, HandleMessageResults
<1>10. ASSUME NEW r \in Runs, HandleError(r) \/ HandleExit(r) PROVE ResultInv'
  BY <1>1, <1>10, HandleEndResults
<1>11. ASSUME NEW r \in Runs, Yield(r) PROVE ResultInv' BY <1>1, <1>11, YieldResults
<1>12. ASSUME NEW r \in Runs, ScriptEnds(r) \/ WorkerFails(r) PROVE ResultInv'
  BY <1>1, <1>12, EndResults
<1>13. ASSUME NEW r \in Runs, Die(r) PROVE ResultInv' BY <1>1, <1>13, DieResults
<1>14. CASE UNCHANGED vars BY <1>1, <1>14, DroppedResults DEF vars, renderer, channels
<1> QED
  BY <1>2, <1>3, <1>4, <1>5, <1>6, <1>7, <1>8, <1>9, <1>10, <1>11, <1>12, <1>13, <1>14 DEF Next

\* What the tabs show and the log has, with all that is on its way to them.
THEOREM ResultInvariant == Spec => []ResultInv
BY InitResults, NextResults, ScriptAssumption, PTL DEF Spec

\* Whatever comes back and in whatever order, the renderer, the main process and the
\* channels between them stay in their types: no count of values passes what a script can
\* yield, and no more ids are remembered as logged than loggedRunIds has room for.
THEOREM TypesKept == Spec => []TypeOK
<1>1. ResultInv => TypeOK BY DEF ResultInv
<1> QED BY <1>1, ResultInvariant, PTL

\* However late the events and answers of earlier runs come in, a tab shows nothing but the
\* run it last started, success only if that script ended so and with all it yielded, and
\* cancelled only if the renderer has asked for it.
THEOREM ItsRunShown == Spec => []ShowsItsRun
<1>1. ResultInv => ShowsItsRun BY DEF ResultInv
<1> QED BY <1>1, ResultInvariant, PTL

\* A run is in the activity log once its tab does not have it any more, unless the tab was
\* cleared, and never twice, though its end is heard of twice and only the latest ids are
\* remembered; the entry does not say more than is true.
THEOREM EachRunLogged == Spec => []LogTells
<1>1. ASSUME ResultInv PROVE LogTells
  <2> SUFFICES ASSUME NEW r \in DOMAIN owner
               PROVE  LET entries == {i \in DOMAIN log : log[i].run = r}
                      IN /\ Cardinality(entries) <= 1
                         /\ active[owner[r]] # r /\ r \notin gone => entries # {}
                         /\ \A i \in entries : /\ log[i].kind = "success" => ended[r] = "success"
                                               /\ log[i].kind = "cancelled" => r \in stopped
                                               /\ log[i].kind # "partial"
    BY DEF LogTells
  <2> DEFINE entries == {i \in DOMAIN log : log[i].run = r}
  <2>1. \A i, j \in entries : i = j BY <1>1 DEF ResultInv, LogOnce
  <2>2. active[owner[r]] # r /\ r \notin gone => entries # {} BY <1>1 DEF ResultInv, LogOnce
  <2>3. \A i \in entries : /\ log[i].kind = "success" => ended[r] = "success"
                           /\ log[i].kind = "cancelled" => r \in stopped
                           /\ log[i].kind # "partial"
    BY <1>1 DEF ResultInv, LogOnce
  <2>4. Cardinality(entries) <= 1
    <3> HIDE DEF entries
    <3>1. CASE entries = {} BY <3>1, FS_EmptySet
    <3>2. ASSUME NEW i \in entries PROVE Cardinality(entries) = 1
      <4>1. entries = {i} BY <2>1
      <4> QED BY <4>1, FS_Singleton
    <3> QED BY <3>1, <3>2
  <2> QED BY <2>2, <2>3, <2>4
<1> QED BY <1>1, ResultInvariant, PTL
=============================================================================
