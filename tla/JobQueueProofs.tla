--------------------------- MODULE JobQueueProofs ---------------------------
(* Machine-checked theorems about JobQueue, for every number of jobs,
   pending calls, cancellations, crashes and faults: QueueInv is an
   inductive invariant, so the queue has one drainer, what it executes is
   durable, and it implements SerialExecutor (no job's work is done twice,
   nor two jobs' at once).

   The actions move at most one worker.  The lemmas of the second section
   therefore take a step apart into what it does to that worker and to the
   queue of mutations, and every action is an instance of one of them. *)
EXTENDS JobQueue, TLAPS

----------------
(* Records and sequences *)

\* The workers of `new` are those of `old`, but v has pc c and job k.
MovesTo(old, new, v, c, k) ==
  /\ new \in [Workers -> Worker]
  /\ \A w \in Workers : /\ new[w].pc = IF w = v THEN c ELSE old[w].pc
                        /\ new[w].job = IF w = v THEN k ELSE old[w].job

\* No worker moves.
Stays(old, new) ==
  /\ new \in [Workers -> Worker]
  /\ \A w \in Workers : new[w].pc = old[w].pc /\ new[w].job = old[w].job

LEMMA WorkerTyped ==
  ASSUME NEW r \in Worker
  PROVE  /\ r.pc \in WorkerPc /\ r.job \in Jobs \cup {NoJob} /\ r.ahead \in Nat
         /\ r.outcome \in Status /\ r.catching \in BOOLEAN
BY DEF Worker

\* What an EXCEPT on one worker does to the fields the invariant speaks of.
LEMMA MovePc ==
  ASSUME NEW old \in [Workers -> Worker], NEW v \in Workers, NEW c \in WorkerPc
  PROVE  MovesTo(old, [old EXCEPT ![v].pc = c], v, c, old[v].job)
BY DEF MovesTo, Worker

LEMMA MovePcJob ==
  ASSUME NEW old \in [Workers -> Worker], NEW v \in Workers, NEW c \in WorkerPc,
         NEW k \in Jobs \cup {NoJob}
  PROVE  MovesTo(old, [old EXCEPT ![v].pc = c, ![v].job = k], v, c, k)
BY DEF MovesTo, Worker

LEMMA MoveFinal ==
  ASSUME NEW old \in [Workers -> Worker], NEW v \in Workers, NEW s \in Status, NEW b \in BOOLEAN
  PROVE  MovesTo(old, [old EXCEPT ![v].pc = "final", ![v].outcome = s, ![v].catching = b],
                 v, "final", old[v].job)
BY DEF MovesTo, Worker, WorkerPc

LEMMA IdleTyped == Idle \in Worker /\ Idle.pc = "idle" /\ Idle.job = NoJob
BY DEF Idle, Worker, WorkerPc, Status

LEMMA LookingTyped ==
  ASSUME NEW n \in Nat
  PROVE  Looking(n) \in Worker /\ Looking(n).pc = "lookup" /\ Looking(n).job = NoJob
BY DEF Looking, Idle, Worker, WorkerPc, Status

LEMMA MoveIdle ==
  ASSUME NEW old \in [Workers -> Worker], NEW v \in Workers
  PROVE  MovesTo(old, [old EXCEPT ![v] = Idle], v, "idle", NoJob)
BY IdleTyped DEF MovesTo

LEMMA MoveLooking ==
  ASSUME NEW old \in [Workers -> Worker], NEW v \in Workers, NEW n \in Nat
  PROVE  MovesTo(old, [old EXCEPT ![v] = Looking(n)], v, "lookup", NoJob)
BY LookingTyped DEF MovesTo

LEMMA NearerStays ==
  ASSUME worker \in [Workers -> Worker]
  PROVE  Stays(worker, Nearer)
<1> SUFFICES ASSUME NEW w \in Workers
             PROVE  /\ Nearer[w] \in Worker
                    /\ Nearer[w].pc = worker[w].pc /\ Nearer[w].job = worker[w].job
  BY DEF Stays, Nearer
<1>1. CASE worker[w].ahead > 0 BY <1>1 DEF Nearer, Worker
<1>2. CASE ~(worker[w].ahead > 0) BY <1>2 DEF Nearer, Worker
<1> QED BY <1>1, <1>2

LEMMA NearerOutcome ==
  ASSUME worker \in [Workers -> Worker], NEW w \in Workers
  PROVE  Nearer[w].outcome = worker[w].outcome /\ Nearer[w].catching = worker[w].catching
BY DEF Nearer, Worker

\* A move after the others came nearer is a move.
LEMMA MoveAfterStay ==
  ASSUME NEW old, NEW mid, NEW new, NEW v \in Workers, NEW c, NEW k,
         Stays(old, mid), MovesTo(mid, new, v, c, k)
  PROVE  MovesTo(old, new, v, c, k)
BY DEF Stays, MovesTo

LEMMA TailOf ==
  ASSUME NEW q \in Seq(Mutation), q # <<>>
  PROVE  /\ Tail(q) \in Seq(Mutation) /\ Head(q) \in Mutation /\ Head(q) = q[1]
         /\ 1 \in DOMAIN q
         /\ \A i \in DOMAIN Tail(q) : i + 1 \in DOMAIN q /\ Tail(q)[i] = q[i + 1] /\ i + 1 # 1
         /\ \A i, k \in DOMAIN Tail(q) : i + 1 = k + 1 => i = k
OBVIOUS

LEMMA AppendOf ==
  ASSUME NEW q \in Seq(Mutation), NEW m \in Mutation
  PROVE  /\ Append(q, m) \in Seq(Mutation)
         /\ DOMAIN Append(q, m) = DOMAIN q \cup {Len(q) + 1}
         /\ Len(q) + 1 \notin DOMAIN q
         /\ \A i \in DOMAIN q : Append(q, m)[i] = q[i]
         /\ Append(q, m)[Len(q) + 1] = m
OBVIOUS

LEMMA MutationTyped ==
  ASSUME NEW m \in Mutation
  PROVE  m.kind \in MutationKind /\ m.job \in Jobs \cup {NoJob} /\ m.status \in Status
BY DEF Mutation

LEMMA OfTyped ==
  ASSUME NEW kind \in MutationKind, NEW j \in Jobs \cup {NoJob}
  PROVE  Of(kind, j) \in Mutation /\ Of(kind, j).kind = kind /\ Of(kind, j).job = j
BY DEF Of, Mutation, Status

LEMMA FinalTyped ==
  ASSUME NEW j \in Jobs \cup {NoJob}, NEW s \in Status
  PROVE  /\ FinalUpdate(j, s) \in Mutation
         /\ FinalUpdate(j, s).kind = "final" /\ FinalUpdate(j, s).job = j
         /\ FinalUpdate(j, s).status = s
BY DEF FinalUpdate, Mutation, MutationKind

----------------
(* What a step does to the queue of mutations: the first n (0 or 1) leave,
   and at most one, m, is appended. *)

Drops(old, new, n) ==
  /\ new \in Seq(Mutation) /\ n \in {0, 1}
  /\ \A i \in DOMAIN new : i + n \in DOMAIN old /\ new[i] = old[i + n]

Adds(old, new, n, m) ==
  /\ new \in Seq(Mutation) /\ n \in {0, 1} /\ m \in Mutation
  /\ \A i \in DOMAIN new :
       \/ i + n \in DOMAIN old /\ new[i] = old[i + n]
       \/ i + n = Len(old) + 1 /\ new[i] = m

LEMMA DropNone ==
  ASSUME NEW q \in Seq(Mutation)
  PROVE  Drops(q, q, 0)
BY DEF Drops

LEMMA DropHead ==
  ASSUME NEW q \in Seq(Mutation), q # <<>>
  PROVE  Drops(q, Tail(q), 1)
BY DEF Drops

LEMMA AddOne ==
  ASSUME NEW q \in Seq(Mutation), NEW m \in Mutation
  PROVE  Adds(q, Append(q, m), 0, m)
BY DEF Adds

LEMMA AddAfterDrop ==
  ASSUME NEW q \in Seq(Mutation), q # <<>>, NEW m \in Mutation
  PROVE  Adds(q, Append(Tail(q), m), 1, m)
BY DEF Adds

\* The head leaves only with its renamed flag.
Flag(n) == IF n = 0 THEN UNCHANGED queue ELSE ~renamed'

\* A worker that awaits no mutation of its own: none is queued.
LEMMA NoneOwned ==
  ASSUME QueueInv, NEW v \in Workers,
         worker[v].pc \in {"lookup", "found", "work", "log"},
         NEW i \in DOMAIN mutations
  PROVE  mutations[i].kind \notin Owned
BY DEF QueueInv, MutationsOwned, DrainingMarks, OneDrainer, Owned

\* The drainer's own mutation leaves: no other is queued.
LEMMA RestUnowned ==
  ASSUME QueueInv, mutations # <<>>, Head(mutations).kind \in Owned,
         NEW i \in DOMAIN Tail(mutations)
  PROVE  Tail(mutations)[i].kind \notin Owned
BY TailOf DEF QueueInv, TypeOK, MutationsUnique

----------------
(* The kinds of step, each preserving QueueInv *)

\* No worker moves and at most the head leaves: the promises that settle or
\* reject without drainQueue, and the activity appends.
LEMMA KeptInv ==
  ASSUME QueueInv, TypeOK', alive, alive', NEW n,
         Stays(worker, worker'), Drops(mutations, mutations', n), Flag(n),
         UNCHANGED <<file, started, running, draining, executing, executed>>,
         initPc' = "interrupting" => initPc = "interrupting" /\ initLeft' = {},
         initPc # initPc' => initPc # "interrupting" \/ n = 1
  PROVE  QueueInv'
<1>1. DrainingMarks' BY DEF QueueInv, DrainingMarks, OneDrainer, Stays
<1>2. RunningMarks' BY DEF QueueInv, RunningMarks, Stays
<1>3. ExecutingOwned' /\ ExecutingIsDurable'
  BY DEF QueueInv, ExecutingOwned, ExecutingIsDurable, Stays
<1>4. MutationsOwned' BY DEF QueueInv, MutationsOwned, Stays, Drops
<1>5. MutationsUnique' BY DEF QueueInv, MutationsUnique, Drops
<1>6. AddsFresh' BY DEF QueueInv, AddsFresh, Drops, Stays, Flag, queue
<1>7. UnstartedUnknown' BY DEF QueueInv, UnstartedUnknown, Stays
<1>8. InterruptFirst' BY DEF QueueInv, InterruptFirst, Stays, Drops
<1>9. NeverRequeued' BY DEF QueueInv, NeverRequeued, Stays
<1>10. RunShows' BY DEF QueueInv, RunShows, Drops, Flag, queue
<1> QED BY <1>1, <1>2, <1>3, <1>4, <1>5, <1>6, <1>7, <1>8, <1>9, <1>10 DEF QueueInv, DeadIsEmpty

\* A call or a runner queues a mutation behind the others.
LEMMA HeadStays ==
  ASSUME NEW q \in Seq(Mutation), NEW m, q # <<>>
  PROVE  Append(q, m) # <<>> /\ Head(Append(q, m)) = Head(q)
OBVIOUS

\* An IPC call queues a mutation.
LEMMA CalledInv ==
  ASSUME QueueInv, TypeOK', alive, alive', NEW m \in Mutation,
         m.kind \notin Owned, m.kind \notin {"add", "interrupt"},
         mutations' = Append(mutations, m),
         UNCHANGED <<file, started, running, draining, executing, executed, worker,
                     renamed, touched, initPc, initLeft>>
  PROVE  QueueInv'
<1>0. mutations \in Seq(Mutation) BY DEF QueueInv, TypeOK
<1>1. Adds(mutations, mutations', 0, m) BY <1>0, AddOne
<1>2. DrainingMarks' /\ RunningMarks' /\ ExecutingOwned' /\ ExecutingIsDurable'
      /\ UnstartedUnknown' /\ NeverRequeued' /\ DeadIsEmpty'
  BY DEF QueueInv, DrainingMarks, OneDrainer, RunningMarks, ExecutingOwned,
         ExecutingIsDurable, UnstartedUnknown, NeverRequeued, DeadIsEmpty
<1>3. MutationsOwned' BY <1>1 DEF QueueInv, MutationsOwned, Adds, Owned
<1>4. MutationsUnique' BY <1>1 DEF QueueInv, MutationsUnique, Adds
<1>5. AddsFresh' BY <1>1 DEF QueueInv, AddsFresh, Adds
<1>6. InterruptFirst' BY <1>1 DEF QueueInv, InterruptFirst, Adds
<1>7. RunShows' BY <1>0, HeadStays DEF QueueInv, RunShows
<1> QED BY <1>2, <1>3, <1>4, <1>5, <1>6, <1>7 DEF QueueInv

\* drainQueue passes its guard: v becomes the drainer.
LEMMA DrainedInv ==
  ASSUME QueueInv, TypeOK', alive, alive', NEW n, NEW v \in Workers,
         ~draining, running = NoJob, draining',
         MovesTo(worker, worker', v, "lookup", NoJob),
         Drops(mutations, mutations', n), Flag(n),
         n = 0 => initPc # "interrupting",
         UNCHANGED <<file, started, running, executing, executed>>,
         initPc' = "interrupting" => initPc = "interrupting" /\ initLeft' = {}
  PROVE  QueueInv'
<1>0. \A w \in Workers : worker[w].pc = "idle" BY DEF QueueInv, DrainingMarks
<1>1. DrainingMarks' BY <1>0 DEF QueueInv, DrainingMarks, OneDrainer, MovesTo
<1>2. ExecutingOwned' /\ ExecutingIsDurable' /\ executing = {}
  BY <1>0 DEF QueueInv, ExecutingOwned, ExecutingIsDurable, Runs
<1>3. RunningMarks' BY <1>0, <1>2 DEF QueueInv, RunningMarks, MovesTo, Holding, Runs
<1>4. \A i \in DOMAIN mutations : mutations[i].kind \notin Owned
  BY <1>0 DEF QueueInv, MutationsOwned, Owned
<1>5. MutationsOwned' /\ MutationsUnique' BY <1>4 DEF MutationsOwned, MutationsUnique, Owned, Drops
<1>6. AddsFresh' BY <1>0 DEF QueueInv, AddsFresh, Drops, MovesTo, Flag, queue, NoJob
<1>7. UnstartedUnknown' BY DEF QueueInv, UnstartedUnknown, MovesTo, NoJob, Jobs
<1>8. InterruptFirst' BY DEF QueueInv, InterruptFirst, Drops
<1>9. NeverRequeued' BY DEF QueueInv, NeverRequeued, MovesTo
<1>10. RunShows' BY DEF QueueInv, RunShows, Flag, queue, Drops
<1> QED BY <1>1, <1>2, <1>3, <1>5, <1>6, <1>7, <1>8, <1>9, <1>10 DEF QueueInv, DeadIsEmpty

\* The drainer v leaves its job, for its next turn or altogether.
LEMMA LeftInv ==
  ASSUME QueueInv, TypeOK', alive, alive', NEW n, NEW v \in Workers, NEW c \in {"idle", "lookup"},
         worker[v].pc \notin {"idle", "work", "progress"},
         MovesTo(worker, worker', v, c, NoJob),
         draining' = (c = "lookup"),
         c = "lookup" => running' = NoJob,
         Drops(mutations, mutations', n), Flag(n),
         \A i \in DOMAIN mutations' : mutations'[i].kind \notin Owned,
         UNCHANGED <<file, started, executing, executed, initPc, initLeft>>
  PROVE  QueueInv'
<1>0. \A w \in Workers : w # v => worker[w].pc = "idle" BY DEF QueueInv, DrainingMarks, OneDrainer
<1>1. DrainingMarks' BY <1>0 DEF QueueInv, DrainingMarks, OneDrainer, MovesTo
<1>2. executing = {} BY <1>0 DEF QueueInv, ExecutingOwned, Runs
<1>3. RunningMarks' BY <1>0, <1>2 DEF QueueInv, RunningMarks, MovesTo, Holding, Runs
<1>4. ExecutingOwned' /\ ExecutingIsDurable' BY <1>2 DEF ExecutingOwned, ExecutingIsDurable
<1>5. MutationsOwned' /\ MutationsUnique' BY DEF MutationsOwned, MutationsUnique, Owned
<1>6. AddsFresh' BY DEF QueueInv, AddsFresh, Drops, MovesTo, Flag, queue, NoJob
<1>7. UnstartedUnknown' BY DEF QueueInv, UnstartedUnknown, MovesTo, NoJob, Jobs
<1>8. InterruptFirst' BY DEF QueueInv, InterruptFirst, Drops
<1>9. NeverRequeued' BY <1>0 DEF QueueInv, NeverRequeued, MovesTo
<1>10. RunShows' BY DEF QueueInv, RunShows, Flag, queue, Drops
<1> QED BY <1>1, <1>3, <1>4, <1>5, <1>6, <1>7, <1>8, <1>9, <1>10 DEF QueueInv, DeadIsEmpty

\* The runner of v is over, or the final steps of its job failed: the final
\* update m is queued.
LEMMA EndedInv ==
  ASSUME QueueInv, TypeOK', alive, alive', NEW n, NEW v \in Workers, NEW m,
         worker[v].pc \in {"work", "progress", "final", "log"},
         m.kind = "final", m.job = worker[v].job, m.status \in Final,
         MovesTo(worker, worker', v, "final", worker[v].job),
         Adds(mutations, mutations', n, m),
         IF n = 0 THEN mutations' = Append(mutations, m) /\ UNCHANGED <<renamed, touched>>
                  ELSE ~renamed',
         \A i \in DOMAIN mutations : i > n => mutations[i].kind \notin Owned,
         executing' = executing \ {worker[v].job},
         UNCHANGED <<file, started, running, draining, executed, initPc, initLeft>>
  PROVE  QueueInv'
<1>0. \A w \in Workers : w # v => worker[w].pc = "idle" BY DEF QueueInv, DrainingMarks, OneDrainer
<1>1. DrainingMarks' BY <1>0 DEF QueueInv, DrainingMarks, OneDrainer, MovesTo
<1>2. executing' = {} BY <1>0 DEF QueueInv, ExecutingOwned, Runs
<1>3. RunningMarks' BY <1>0, <1>2 DEF QueueInv, RunningMarks, MovesTo, Holding, Runs
<1>4. ExecutingOwned' /\ ExecutingIsDurable' /\ (executing \subseteq executed)'
  BY <1>2 DEF ExecutingOwned, ExecutingIsDurable
<1>5. \A i \in DOMAIN mutations' :
        mutations'[i].kind \in Owned => i + n = Len(mutations) + 1 /\ mutations'[i] = m
  BY DEF Adds
<1>6. MutationsOwned' BY <1>5 DEF MutationsOwned, Owned, MovesTo
<1>7. MutationsUnique' BY <1>5 DEF MutationsUnique, Adds
<1>8. AddsFresh' BY <1>5 DEF QueueInv, AddsFresh, Adds, MovesTo
<1>9. UnstartedUnknown' BY DEF QueueInv, UnstartedUnknown, MovesTo
<1>10. InterruptFirst' BY DEF QueueInv, InterruptFirst, Adds
<1>11. NeverRequeued' BY <1>0 DEF QueueInv, NeverRequeued, MovesTo
<1>12. RunShows' BY HeadStays DEF QueueInv, TypeOK, RunShows
<1> QED BY <1>1, <1>3, <1>4, <1>6, <1>7, <1>8, <1>9, <1>10, <1>11, <1>12 DEF QueueInv, DeadIsEmpty

\* The update v awaited has settled and its runner executes (again).
LEMMA WorksInv ==
  ASSUME QueueInv, TypeOK', alive, alive', NEW v \in Workers,
         worker[v].pc \in {"starting", "progress"},
         file[worker[v].job].status = "running",
         MovesTo(worker, worker', v, "work", worker[v].job),
         Drops(mutations, mutations', 1), ~renamed',
         \A i \in DOMAIN mutations' : mutations'[i].kind \notin Owned,
         executing' = executing \cup {worker[v].job},
         executed' = executed \cup {worker[v].job},
         UNCHANGED <<file, started, running, draining, initPc, initLeft>>
  PROVE  QueueInv'
<1>0. \A w \in Workers : w # v => worker[w].pc = "idle" BY DEF QueueInv, DrainingMarks, OneDrainer
<1>1. DrainingMarks' BY <1>0 DEF QueueInv, DrainingMarks, OneDrainer, MovesTo
<1>2. worker[v].job # NoJob /\ running = worker[v].job
      /\ \A w \in Workers : w # v => worker[w].job = NoJob
  BY <1>0 DEF QueueInv, RunningMarks, Holding
<1>3. RunningMarks' BY <1>0, <1>2 DEF QueueInv, RunningMarks, MovesTo, Holding, Runs
<1>4. ExecutingOwned' /\ ExecutingIsDurable' /\ (executing \subseteq executed)'
  BY <1>2 DEF QueueInv, ExecutingOwned, ExecutingIsDurable, MovesTo, Runs
<1>5. MutationsOwned' /\ MutationsUnique' BY DEF MutationsOwned, MutationsUnique, Owned
<1>6. AddsFresh' BY DEF QueueInv, AddsFresh, Drops, MovesTo
<1>7. UnstartedUnknown' BY DEF QueueInv, UnstartedUnknown, MovesTo
<1>8. InterruptFirst' BY DEF QueueInv, InterruptFirst, Drops
<1>9. NeverRequeued' BY <1>0, <1>2 DEF QueueInv, NeverRequeued, MovesTo
<1>10. RunShows' /\ DeadIsEmpty' BY DEF RunShows, DeadIsEmpty
<1> QED BY <1>1, <1>3, <1>4, <1>5, <1>6, <1>7, <1>8, <1>9, <1>10 DEF QueueInv

\* The final update of v has settled: runJob records it in the activity log.
LEMMA LogsInv ==
  ASSUME QueueInv, TypeOK', alive, alive', NEW v \in Workers,
         worker[v].pc = "final",
         MovesTo(worker, worker', v, "log", worker[v].job),
         Drops(mutations, mutations', 1), ~renamed',
         \A i \in DOMAIN mutations' : mutations'[i].kind \notin Owned,
         UNCHANGED <<file, started, running, draining, executing, executed, initPc, initLeft>>
  PROVE  QueueInv'
<1>0. \A w \in Workers : w # v => worker[w].pc = "idle" BY DEF QueueInv, DrainingMarks, OneDrainer
<1>1. DrainingMarks' BY <1>0 DEF QueueInv, DrainingMarks, OneDrainer, MovesTo
<1>2. executing = {} BY <1>0 DEF QueueInv, ExecutingOwned, Runs
<1>3. RunningMarks' BY <1>0, <1>2 DEF QueueInv, RunningMarks, MovesTo, Holding, Runs
<1>4. ExecutingOwned' /\ ExecutingIsDurable' BY <1>2 DEF ExecutingOwned, ExecutingIsDurable
<1>5. MutationsOwned' /\ MutationsUnique' BY DEF MutationsOwned, MutationsUnique, Owned
<1>6. AddsFresh' BY DEF QueueInv, AddsFresh, Drops, MovesTo
<1>7. UnstartedUnknown' BY DEF QueueInv, UnstartedUnknown, MovesTo
<1>8. InterruptFirst' BY DEF QueueInv, InterruptFirst, Drops
<1>9. NeverRequeued' BY <1>0 DEF QueueInv, NeverRequeued, MovesTo
<1>10. RunShows' /\ DeadIsEmpty' BY DEF RunShows, DeadIsEmpty
<1> QED BY <1>1, <1>3, <1>4, <1>5, <1>6, <1>7, <1>8, <1>9, <1>10 DEF QueueInv

\* runJob queues its first update, or the runner a progress update.
LEMMA AwaitsInv ==
  ASSUME QueueInv, TypeOK', alive, alive', NEW v \in Workers, NEW c, NEW m \in Mutation,
         \/ worker[v].pc = "found" /\ c = "starting" /\ m.kind = "run"
         \/ worker[v].pc = "work" /\ c = "progress" /\ m.kind = "progress",
         worker[v].job # NoJob, m.job = worker[v].job,
         running' = worker[v].job,
         MovesTo(worker, worker', v, c, worker[v].job),
         mutations' = Append(mutations, m),
         UNCHANGED <<file, started, renamed, touched, draining, executing, executed,
                     initPc, initLeft>>
  PROVE  QueueInv'
<1>0. \A w \in Workers : w # v => worker[w].pc = "idle" BY DEF QueueInv, DrainingMarks, OneDrainer
<1>1. DrainingMarks' BY <1>0 DEF QueueInv, DrainingMarks, OneDrainer, MovesTo
<1>2. mutations \in Seq(Mutation) BY DEF QueueInv, TypeOK
<1>3. Adds(mutations, mutations', 0, m) BY <1>2, AddOne
<1>4. RunningMarks' BY <1>0 DEF QueueInv, RunningMarks, MovesTo, Holding, Runs
<1>5. ExecutingOwned' BY DEF QueueInv, ExecutingOwned, MovesTo, Runs
<1>6. ExecutingIsDurable' BY <1>0 DEF QueueInv, ExecutingIsDurable, ExecutingOwned, Runs
<1>7. \A i \in DOMAIN mutations : mutations[i].kind \notin Owned BY NoneOwned
<1>8. \A i \in DOMAIN mutations' :
        mutations'[i].kind \in Owned => i = Len(mutations) + 1 /\ mutations'[i] = m
  BY <1>3, <1>7 DEF Adds
<1>9. MutationsOwned' BY <1>8 DEF MutationsOwned, Owned, MovesTo
<1>10. MutationsUnique' BY <1>8 DEF MutationsUnique
<1>11. AddsFresh' BY <1>3 DEF QueueInv, AddsFresh, Adds, MovesTo
<1>12. UnstartedUnknown' BY DEF QueueInv, UnstartedUnknown, MovesTo
<1>13. InterruptFirst' BY <1>3 DEF QueueInv, InterruptFirst, Adds
<1>14. NeverRequeued' BY <1>0 DEF QueueInv, NeverRequeued, MovesTo
<1>15. RunShows' /\ DeadIsEmpty' BY <1>2, <1>7, HeadStays DEF QueueInv, RunShows, DeadIsEmpty
<1> QED BY <1>1, <1>4, <1>5, <1>6, <1>9, <1>10, <1>11, <1>12, <1>13, <1>14, <1>15 DEF QueueInv

\* oldestQueued has read the file: v found job k, or none.
LEMMA FoundInv ==
  ASSUME QueueInv, TypeOK', alive, alive', NEW v \in Workers, NEW k \in Jobs \cup {NoJob},
         worker[v].pc = "lookup",
         k = NoJob \/ (k \in Jobs /\ file[k].status = "queued"),
         MovesTo(worker, worker', v, "found", k),
         UNCHANGED <<file, started, mutations, renamed, touched, running, draining,
                     executing, executed, initPc, initLeft>>
  PROVE  QueueInv'
<1>0. \A w \in Workers : w # v => worker[w].pc = "idle" BY DEF QueueInv, DrainingMarks, OneDrainer
<1>1. DrainingMarks' BY <1>0 DEF QueueInv, DrainingMarks, OneDrainer, MovesTo
<1>2. executing = {} BY <1>0 DEF QueueInv, ExecutingOwned, Runs
<1>3. RunningMarks' BY <1>0, <1>2 DEF QueueInv, RunningMarks, MovesTo, Holding, Runs
<1>4. ExecutingOwned' /\ ExecutingIsDurable' BY <1>2 DEF ExecutingOwned, ExecutingIsDurable
<1>5. \A i \in DOMAIN mutations : mutations[i].kind \notin Owned BY NoneOwned
<1>6. MutationsOwned' /\ MutationsUnique' BY <1>5 DEF MutationsOwned, MutationsUnique, Owned
<1>7. \A j \in Jobs : file[j] = Absent => j # k BY DEF Absent, Jobs, NoJob
<1>8. AddsFresh'
  <2>1. SUFFICES ASSUME NEW i \in DOMAIN mutations, mutations[i].kind = "add"
                 PROVE  /\ mutations[i].job # NoJob /\ mutations[i].job <= started
                        /\ \/ i = 1 /\ renamed
                           \/ /\ file[mutations[i].job] = Absent
                              /\ mutations[i].job \notin executed
                              /\ \A w \in Workers : worker'[w].job # mutations[i].job
                        /\ \A l \in DOMAIN mutations :
                             mutations[l].kind = "add" /\ mutations[l].job = mutations[i].job
                               => l = i
    BY DEF AddsFresh
  <2>2. mutations[i].job \in Jobs \cup {NoJob} BY MutationTyped DEF QueueInv, TypeOK
  <2> QED BY <2>1, <2>2, <1>7 DEF QueueInv, AddsFresh, MovesTo
<1>9. UnstartedUnknown' BY <1>7 DEF QueueInv, UnstartedUnknown, MovesTo
<1>10. InterruptFirst' BY DEF QueueInv, InterruptFirst
<1>11. NeverRequeued'
  <2>1. NoJob \notin executed BY DEF QueueInv, TypeOK, NoJob, Jobs
  <2>2. k \notin executed BY <2>1 DEF QueueInv, NeverRequeued
  <2> QED BY <2>2, <1>0 DEF QueueInv, NeverRequeued, MovesTo
<1>12. RunShows' /\ DeadIsEmpty' BY DEF QueueInv, RunShows, DeadIsEmpty
<1> QED BY <1>1, <1>3, <1>4, <1>6, <1>8, <1>9, <1>10, <1>11, <1>12 DEF QueueInv

\* A job is started: the next number, of which nothing is known yet.
LEMMA StartInv ==
  ASSUME QueueInv, TypeOK', Start
  PROVE  QueueInv'
<1> DEFINE m == Of("add", started + 1)
<1>0. /\ mutations \in Seq(Mutation) /\ started \in 0..MaxJobs /\ alive /\ alive'
      /\ started' = started + 1 /\ started + 1 \in Jobs
      /\ mutations' = Append(mutations, m)
      /\ UNCHANGED <<file, running, draining, executing, executed, worker,
                     renamed, touched, initPc, initLeft>>
  BY JobQueueAssumption DEF QueueInv, TypeOK, Start, Enqueue, service, initialising, history,
        Jobs
<1>1. m \in Mutation /\ m.kind = "add" /\ m.job = started + 1 BY <1>0, OfTyped DEF MutationKind
<1>2. Adds(mutations, mutations', 0, m) BY <1>0, <1>1, AddOne
<1>3. DrainingMarks' /\ RunningMarks' /\ ExecutingOwned' /\ ExecutingIsDurable'
      /\ NeverRequeued' /\ DeadIsEmpty'
  BY <1>0 DEF QueueInv, DrainingMarks, OneDrainer, RunningMarks, ExecutingOwned,
         ExecutingIsDurable, NeverRequeued, DeadIsEmpty
<1> HIDE DEF m
<1>4. MutationsOwned' BY <1>0, <1>1, <1>2 DEF QueueInv, MutationsOwned, Adds
<1>5. MutationsUnique' BY <1>0, <1>1, <1>2 DEF QueueInv, MutationsUnique, Adds, Owned
<1>6. AddsFresh'
  BY <1>0, <1>1, <1>2, MutationTyped DEF QueueInv, UnstartedUnknown, Jobs, AddsFresh, NoJob, Adds
<1>7. UnstartedUnknown' BY <1>0 DEF QueueInv, UnstartedUnknown, Jobs
<1>8. InterruptFirst' BY <1>0, <1>1, <1>2 DEF QueueInv, InterruptFirst, Adds
<1>9. RunShows' BY <1>0, HeadStays DEF QueueInv, RunShows
<1> QED BY <1>0, <1>3, <1>4, <1>5, <1>6, <1>7, <1>8, <1>9 DEF QueueInv

\* What a mutation may make of a record.
LEMMA EditedOf ==
  ASSUME file \in [Jobs -> Job], NEW m \in Mutation, NEW j \in Jobs
  PROVE  /\ Edited(m, j) \in Job
         /\ file[j] = Absent /\ ~(m.kind = "add" /\ m.job = j) => Edited(m, j) = Absent
         /\ Edited(m, j).status = "queued" =>
              \/ file[j].status = "queued"
              \/ m.kind = "add" /\ m.job = j
              \/ m.kind = "final" /\ m.status = "queued"
         /\ file[j].status = "running" =>
              \/ Edited(m, j).status = "running"
              \/ m.kind \in {"add", "final"} /\ m.job = j
              \/ m.kind = "interrupt"
         /\ m.kind = "run" /\ m.job = j /\ Present(j) => Edited(m, j).status = "running"
<1>1. /\ file[j] \in Job /\ Absent \in Job /\ Absent.status = "absent"
      /\ Absent.cancelRequested = FALSE /\ Absent.acknowledged = FALSE
  BY DEF Absent, Job, Status
<1> DEFINE e == Edited(m, j)
           r == file[j]
<1>2. \/ m.kind = "add" /\ j = m.job /\ e = [Absent EXCEPT !.status = "queued"]
      \/ m.kind = "cancelRunning" /\ Present(j) /\ e = [r EXCEPT !.cancelRequested = TRUE]
      \/ /\ m.kind = "cancelQueued" /\ r.status = "queued"
         /\ e = [r EXCEPT !.cancelRequested = TRUE, !.status = "cancelled"]
      \/ m.kind = "run" /\ Present(j) /\ e = [r EXCEPT !.status = "running"]
      \/ m.kind = "final" /\ j = m.job /\ Present(j) /\ e = [r EXCEPT !.status = m.status]
      \/ m.kind = "acknowledge" /\ r.status \in Issue /\ e = [r EXCEPT !.acknowledged = TRUE]
      \/ m.kind = "interrupt" /\ Active(j) /\ e = [r EXCEPT !.status = "interrupted"]
      \/ m.kind = "clear" /\ r.status \in Final /\ e = Absent
      \/ e = r /\ ~(m.kind = "run" /\ m.job = j /\ Present(j))
  BY DEF Edited, Cancellable, Clearable, InterruptedStatus
<1> HIDE DEF e
<1>3. e \in Job BY <1>1, <1>2 DEF Job, Status, Final, Mutation
<1>4. r = Absent /\ ~(m.kind = "add" /\ m.job = j) => e = Absent
  BY <1>1, <1>2 DEF Present, Active, Final, Issue
<1>9. \/ m.kind = "add" /\ e.status = "queued" /\ m.job = j
      \/ e.status = r.status
      \/ m.kind = "cancelQueued" /\ r.status = "queued" /\ e.status = "cancelled"
      \/ m.kind = "run" /\ e.status = "running"
      \/ m.kind = "final" /\ j = m.job /\ e.status = m.status
      \/ m.kind = "interrupt" /\ e.status = "interrupted"
      \/ m.kind = "clear" /\ r.status \in Final /\ e.status = "absent"
  BY <1>1, <1>2 DEF Job
<1>5. e.status = "queued" =>
        \/ r.status = "queued"
        \/ m.kind = "add" /\ m.job = j
        \/ m.kind = "final" /\ m.status = "queued"
  BY <1>9
<1>6. r.status = "running" =>
        \/ e.status = "running"
        \/ m.kind \in {"add", "final"} /\ m.job = j
        \/ m.kind = "interrupt"
  BY <1>9 DEF Final
<1>7. m.kind = "run" /\ m.job = j /\ Present(j) => e.status = "running" BY <1>1, <1>2 DEF Job
<1> QED BY <1>3, <1>4, <1>5, <1>6, <1>7 DEF e

\* The head is renamed into place.
LEMMA RenameInv ==
  ASSUME QueueInv, TypeOK', Rename
  PROVE  QueueInv'
<1> DEFINE h == Head(mutations)
<1>0. /\ file \in [Jobs -> Job] /\ mutations \in Seq(Mutation) /\ mutations # <<>>
      /\ ~renamed /\ renamed' /\ alive
      /\ \A j \in Jobs : file'[j] = Edited(h, j)
      /\ touched' = Touched(h)
      /\ UNCHANGED <<alive, started, mutations, running, draining, executing, executed, worker,
                     initPc, initLeft>>
  BY DEF QueueInv, TypeOK, Rename, starts, service, initialising, history
<1>1. 1 \in DOMAIN mutations /\ mutations[1] = h /\ h \in Mutation BY <1>0, TailOf
<1>2. \A j \in Jobs :
         /\ file[j] = Absent /\ ~(h.kind = "add" /\ h.job = j) => file'[j] = Absent
         /\ file'[j].status = "queued" =>
              \/ file[j].status = "queued"
              \/ h.kind = "add" /\ h.job = j
              \/ h.kind = "final" /\ h.status = "queued"
         /\ file[j].status = "running" =>
              \/ file'[j].status = "running"
              \/ h.kind \in {"add", "final"} /\ h.job = j
              \/ h.kind = "interrupt"
         /\ h.kind = "run" /\ h.job = j /\ Present(j) => file'[j].status = "running"
  BY <1>0, <1>1, EditedOf
<1>3. h.kind \in MutationKind /\ h.job \in Jobs \cup {NoJob} BY <1>1, MutationTyped
<1>4. DrainingMarks' /\ RunningMarks' /\ ExecutingOwned' /\ MutationsOwned' /\ MutationsUnique'
      /\ InterruptFirst' /\ DeadIsEmpty'
  BY <1>0 DEF QueueInv, DrainingMarks, OneDrainer, RunningMarks, ExecutingOwned, MutationsOwned,
         MutationsUnique, InterruptFirst, DeadIsEmpty
<1>5. h.kind = "add" => h.job # NoJob /\ h.job <= started /\ h.job \notin executed
                        /\ \A w \in Workers : worker[w].job # h.job
  BY <1>0, <1>1 DEF QueueInv, AddsFresh
<1>6. h.kind = "final" => h.status \in Final /\ \E w \in Workers : worker[w].pc = "final"
  BY <1>1 DEF QueueInv, MutationsOwned
<1>7. h.kind = "interrupt" => \A w \in Workers : worker[w].pc = "idle"
  BY <1>1 DEF QueueInv, InterruptFirst
<1>8. executing # {} => \E w \in Workers : worker[w].pc \in Runs BY DEF QueueInv, ExecutingOwned
<1>9. ExecutingIsDurable'
  BY <1>0, <1>2, <1>5, <1>6, <1>7, <1>8
    DEF QueueInv, DrainingMarks, OneDrainer, Runs, TypeOK, ExecutingIsDurable
<1>10. NeverRequeued' BY <1>0, <1>2, <1>5, <1>6 DEF QueueInv, TypeOK, NeverRequeued, Final
<1>11. UnstartedUnknown' BY <1>0, <1>2, <1>5 DEF QueueInv, UnstartedUnknown, TypeOK, Jobs
<1>12. AddsFresh' BY <1>0, <1>1, <1>2, MutationTyped DEF QueueInv, AddsFresh
<1>13. RunShows' BY <1>0, <1>2 DEF Touched, RunShows
<1> QED BY <1>0, <1>4, <1>9, <1>10, <1>11, <1>12, <1>13 DEF QueueInv

----------------
(* The operators the actions share, as steps of the kinds above.  `others`
   are the workers as they are, or nearer to their reads. *)

LEMMA OthersPc ==
  ASSUME NEW others, Stays(worker, others), NEW v \in Workers, NEW c \in WorkerPc
  PROVE  MovesTo(worker, [others EXCEPT ![v].pc = c], v, c, worker[v].job)
BY MovePc, MoveAfterStay DEF Stays

LEMMA FinishMoves ==
  ASSUME NEW others, Stays(worker, others), NEW v \in Workers, NEW pending,
         NEW s \in Status, NEW b \in BOOLEAN, Finish(v, others, pending, s, b)
  PROVE  MovesTo(worker, worker', v, "final", worker[v].job)
<1>1. others \in [Workers -> Worker] /\ others[v].job = worker[v].job BY DEF Stays
<1>2. MovesTo(others, worker', v, "final", worker[v].job) BY <1>1, MoveFinal DEF Finish
<1> QED BY <1>2, MoveAfterStay

LEMMA LeaveMoves ==
  ASSUME NEW others, Stays(worker, others), NEW v \in Workers, LeaveDrainQueue(v, others)
  PROVE  MovesTo(worker, worker', v, "idle", NoJob)
BY MoveIdle, MoveAfterStay DEF LeaveDrainQueue, Stays

LEMMA NextTurnMoves ==
  ASSUME NEW others, Stays(worker, others), NEW v \in Workers, NEW pending \in Seq(Mutation),
         NextTurn(v, others, pending)
  PROVE  MovesTo(worker, worker', v, "lookup", NoJob)
<1>0. Len(pending) \in Nat OBVIOUS
<1>1. MovesTo(others, worker', v, "lookup", NoJob) BY <1>0, MoveLooking DEF NextTurn, Stays
<1> QED BY <1>1, MoveAfterStay

LEMMA CallMoves ==
  ASSUME NEW others, Stays(worker, others), NEW pending \in Seq(Mutation),
         CallDrainQueue(others, pending)
  PROVE  \/ Stays(worker, worker') /\ UNCHANGED draining
         \/ /\ ~draining /\ running = NoJob /\ draining' = TRUE
            /\ \E v \in Workers : MovesTo(worker, worker', v, "lookup", NoJob)
<1>0. Len(pending) \in Nat OBVIOUS
<1>1. CASE DrainBusy BY <1>1 DEF CallDrainQueue
<1>2. CASE ~DrainBusy
  <2>1. PICK v \in Workers : worker' = [others EXCEPT ![v] = Looking(Len(pending))]
    BY <1>2 DEF CallDrainQueue
  <2>2. MovesTo(others, worker', v, "lookup", NoJob) BY <1>0, <2>1, MoveLooking DEF Stays
  <2>3. MovesTo(worker, worker', v, "lookup", NoJob) BY <2>2, MoveAfterStay
  <2> QED BY <1>2, <2>3 DEF CallDrainQueue, DrainBusy
<1> QED BY <1>1, <1>2

\* The workers as they are.
LEMMA AsTheyAre ==
  ASSUME worker \in [Workers -> Worker]
  PROVE  Stays(worker, worker)
BY DEF Stays

\* The head leaves.
LEMMA HeadLeaves ==
  ASSUME TypeOK, mutations # <<>>
  PROVE  /\ Rest \in Seq(Mutation) /\ Drops(mutations, Rest, 1)
         /\ Head(mutations) \in Mutation /\ Head(mutations).job \in Jobs \cup {NoJob}
         /\ Stays(worker, Nearer)
BY DropHead, TailOf, NearerStays, MutationTyped DEF TypeOK, Rest

----------------
(* The actions *)

LEMMA BudgetTyped ==
  ASSUME NEW b \in [cancels : Nat, crashes : Nat, faults : Nat]
  PROVE  /\ [b EXCEPT !.cancels = @ + 1] \in [cancels : Nat, crashes : Nat, faults : Nat]
         /\ [b EXCEPT !.crashes = @ + 1] \in [cancels : Nat, crashes : Nat, faults : Nat]
         /\ [b EXCEPT !.faults = @ + 1] \in [cancels : Nat, crashes : Nat, faults : Nat]
OBVIOUS

LEMMA InitInv == Init => QueueInv
<1> SUFFICES ASSUME Init PROVE QueueInv OBVIOUS
<1>1. /\ mutations = <<>> /\ ~renamed /\ running = NoJob /\ ~draining /\ initPc = "off"
      /\ initLeft = {} /\ executing = {} /\ executed = {} /\ started = 0 /\ ~alive
      /\ \A w \in Workers : worker[w] = Idle /\ worker[w].pc = "idle" /\ worker[w].job = NoJob
      /\ \A j \in Jobs : file[j] = Absent
  BY IdleTyped DEF Init
<1>2. Absent \in Job /\ started \in 0..MaxJobs BY <1>1, JobQueueAssumption DEF Absent, Job, Status
<1>3. TypeOK
  <2>1. /\ worker \in [Workers -> Worker] /\ file \in [Jobs -> Job]
        /\ mutations \in Seq(Mutation) /\ appends \in Seq(Entry) /\ log \in [Jobs -> Seq(Status)]
    BY <1>2, IdleTyped DEF Init
  <2>2. /\ created \in [Jobs -> Nat]
        /\ budget \in [cancels : Nat, crashes : Nat, faults : Nat]
    BY DEF Init
  <2> QED BY <1>1, <1>2, <2>1, <2>2 DEF Init, TypeOK
<1>4. DrainingMarks /\ RunningMarks /\ ExecutingOwned /\ ExecutingIsDurable
  BY <1>1 DEF DrainingMarks, OneDrainer, RunningMarks, ExecutingOwned, ExecutingIsDurable,
              Holding, Runs
<1>5. MutationsOwned /\ MutationsUnique /\ AddsFresh /\ InterruptFirst /\ RunShows
  BY <1>1 DEF MutationsOwned, MutationsUnique, AddsFresh, InterruptFirst, RunShows
<1>6. UnstartedUnknown /\ NeverRequeued /\ DeadIsEmpty
  BY <1>1, JobQueueAssumption DEF UnstartedUnknown, NeverRequeued, DeadIsEmpty, Jobs, NoJob
<1> QED BY <1>1, <1>3, <1>4, <1>5, <1>6 DEF QueueInv

LEMMA StutterStep == QueueInv /\ UNCHANGED vars => QueueInv'
<1> SUFFICES ASSUME QueueInv, UNCHANGED vars PROVE QueueInv' OBVIOUS
<1>1. TypeOK' /\ DrainingMarks' /\ RunningMarks' /\ ExecutingOwned' /\ ExecutingIsDurable'
  BY DEF QueueInv, vars, TypeOK, DrainingMarks, OneDrainer, RunningMarks, ExecutingOwned,
         ExecutingIsDurable
<1>2. MutationsOwned' /\ MutationsUnique' /\ AddsFresh' /\ UnstartedUnknown'
  BY DEF QueueInv, vars, MutationsOwned, MutationsUnique, AddsFresh, UnstartedUnknown
<1>3. InterruptFirst' /\ NeverRequeued' /\ RunShows' /\ DeadIsEmpty'
  BY DEF QueueInv, vars, InterruptFirst, NeverRequeued, RunShows, DeadIsEmpty
<1> QED BY <1>1, <1>2, <1>3 DEF QueueInv, vars

LEMMA LaunchStep == QueueInv /\ Launch => QueueInv'
<1> SUFFICES ASSUME QueueInv, Launch PROVE QueueInv' OBVIOUS
<1>0. /\ ~alive /\ alive' = TRUE /\ initPc' = "interrupting" /\ initLeft' = {}
      /\ mutations' = <<Of("interrupt", NoJob)>> /\ ~renamed'
      /\ ~draining /\ executing = {} /\ \A w \in Workers : worker[w].pc = "idle"
      /\ UNCHANGED <<file, started, touched, running, cancelFlag, draining, worker, renamed,
                     executing, executed, created, appends, log, budget, initLeft>>
  BY IdleTyped DEF QueueInv, DeadIsEmpty, ExecutingOwned, Launch, Runs, starts, service,
                   history, activity
<1>1. /\ mutations' \in Seq(Mutation) /\ DOMAIN mutations' = {1}
      /\ mutations'[1].kind = "interrupt"
  BY <1>0, OfTyped DEF MutationKind
<1>2. TypeOK' BY <1>0, <1>1 DEF QueueInv, TypeOK
<1>3. DrainingMarks' /\ RunningMarks' /\ ExecutingOwned' /\ ExecutingIsDurable'
      /\ UnstartedUnknown' /\ NeverRequeued'
  BY <1>0 DEF QueueInv, DrainingMarks, OneDrainer, RunningMarks, ExecutingOwned,
              ExecutingIsDurable, UnstartedUnknown, NeverRequeued
<1>4. MutationsOwned' /\ MutationsUnique' /\ AddsFresh' /\ InterruptFirst'
  BY <1>0, <1>1 DEF MutationsOwned, MutationsUnique, AddsFresh, InterruptFirst
<1>5. RunShows' /\ DeadIsEmpty' BY <1>0 DEF RunShows, DeadIsEmpty
<1> QED BY <1>0, <1>2, <1>3, <1>4, <1>5 DEF QueueInv

LEMMA CrashStep == QueueInv /\ Crash => QueueInv'
<1> SUFFICES ASSUME QueueInv, Crash PROVE QueueInv' OBVIOUS
<1>0. /\ ~alive' /\ mutations' = <<>> /\ ~renamed' /\ running' = NoJob /\ ~draining'
      /\ initPc' = "off" /\ initLeft' = {} /\ executing' = {}
      /\ worker' \in [Workers -> Worker]
      /\ \A w \in Workers :
           worker'[w] = Idle /\ worker'[w].pc = "idle" /\ worker'[w].job = NoJob
      /\ UNCHANGED <<file, started, executed, created, log>>
  BY IdleTyped DEF Crash, starts
<1>1. TypeOK'
  <2>1. budget' \in [cancels : Nat, crashes : Nat, faults : Nat]
    BY BudgetTyped DEF QueueInv, TypeOK, Crash
  <2>2. appends' = <<>> BY DEF Crash
  <2>3. touched' = {} /\ cancelFlag' = FALSE BY DEF Crash
  <2>4. mutations' \in Seq(Mutation) /\ appends' \in Seq(Entry) BY <1>0, <2>2
  <2>5. alive' = FALSE /\ renamed' = FALSE /\ draining' = FALSE BY DEF Crash
  <2> QED BY <1>0, <2>1, <2>3, <2>4, <2>5 DEF QueueInv, TypeOK
<1>2. DrainingMarks' /\ RunningMarks' /\ ExecutingOwned' /\ ExecutingIsDurable'
  BY <1>0 DEF DrainingMarks, OneDrainer, RunningMarks, ExecutingOwned, ExecutingIsDurable,
              Holding, Runs
<1>3. MutationsOwned' /\ MutationsUnique' /\ AddsFresh' /\ InterruptFirst' /\ RunShows'
  BY <1>0 DEF MutationsOwned, MutationsUnique, AddsFresh, InterruptFirst, RunShows
<1>4. UnstartedUnknown' /\ NeverRequeued' /\ DeadIsEmpty'
  BY <1>0 DEF QueueInv, UnstartedUnknown, NeverRequeued, DeadIsEmpty, Jobs, NoJob
<1> QED BY <1>0, <1>1, <1>2, <1>3, <1>4 DEF QueueInv

\* What every action may rely on.
LEMMA Known ==
  ASSUME QueueInv
  PROVE  /\ TypeOK /\ mutations \in Seq(Mutation) /\ worker \in [Workers -> Worker]
         /\ Stays(worker, worker) /\ Drops(mutations, mutations, 0)
         /\ budget \in [cancels : Nat, crashes : Nat, faults : Nat]
         /\ appends \in Seq(Entry) /\ log \in [Jobs -> Seq(Status)]
         /\ \A w \in Workers : worker[w] \in Worker
BY AsTheyAre, DropNone DEF QueueInv, TypeOK

LEMMA RecordedTyped ==
  ASSUME appends \in Seq(Entry), appends # <<>>, log \in [Jobs -> Seq(Status)],
         Recorded(Head(appends))
  PROVE  log' \in [Jobs -> Seq(Status)] /\ Tail(appends) \in Seq(Entry)
<1>1. Head(appends) \in Entry /\ Tail(appends) \in Seq(Entry) OBVIOUS
<1>2. Head(appends).job \in Jobs /\ Head(appends).status \in Status BY <1>1 DEF Entry
<1> QED BY <1>1, <1>2 DEF Recorded

LEMMA LogCancelStep == QueueInv /\ LogCancel => QueueInv'
<1> SUFFICES ASSUME QueueInv, LogCancel PROVE QueueInv' OBVIOUS
<1>0. /\ alive /\ appends # <<>> /\ appends' = Tail(appends) /\ Recorded(Head(appends))
      /\ UNCHANGED <<alive, file, started, created, mutations, renamed, touched, running,
                     cancelFlag, draining, worker, initPc, initLeft, executing, executed, budget>>
  BY DEF LogCancel, starts, queue, service, initialising, history
<1>1. TypeOK' BY <1>0, Known, RecordedTyped DEF TypeOK
<1>2. Stays(worker, worker') /\ Drops(mutations, mutations', 0) /\ Flag(0)
  BY <1>0, Known DEF Flag, queue
<1>3. initPc' = "interrupting" => initPc = "interrupting" /\ initLeft' = {}
  BY <1>0 DEF QueueInv, InterruptFirst
<1> QED BY <1>0, <1>1, <1>2, <1>3, KeptInv

LEMMA LogInterruptedFailsStep ==
  ASSUME QueueInv, NEW j \in Jobs, LogInterruptedFails(j)
  PROVE  QueueInv'
<1>0. /\ alive /\ j \in initLeft /\ initLeft' = initLeft \ {j} /\ initPc' = "off"
      /\ budget' = [budget EXCEPT !.faults = @ + 1]
      /\ UNCHANGED <<alive, file, started, created, mutations, renamed, touched, running,
                     cancelFlag, draining, worker, appends, log, executing, executed>>
  BY DEF LogInterruptedFails, starts, queue, service, activity, history
<1>1. TypeOK' BY <1>0, Known, BudgetTyped DEF TypeOK
<1>2. Stays(worker, worker') /\ Drops(mutations, mutations', 0) /\ Flag(0)
  BY <1>0, Known DEF Flag, queue
<1>3. initPc # "interrupting" BY <1>0 DEF QueueInv, InterruptFirst
<1> QED BY <1>0, <1>1, <1>2, <1>3, KeptInv

LEMMA LogInterruptedStep ==
  ASSUME QueueInv, NEW j \in Jobs, LogInterrupted(j)
  PROVE  QueueInv'
<1>0. /\ alive /\ j \in initLeft /\ initLeft' = initLeft \ {j}
      /\ log' = [log EXCEPT ![j] = Append(@, "interrupted")]
      /\ UNCHANGED <<alive, file, started, created, mutations, renamed, touched, running,
                     cancelFlag, appends, executing, executed, budget>>
      /\ \/ UNCHANGED <<initPc, draining, worker>>
         \/ initPc' = "off" /\ CallDrainQueue(worker, mutations)
  BY DEF LogInterrupted, starts, queue, history
<1>1. log' \in [Jobs -> Seq(Status)] /\ initLeft' \in SUBSET Jobs
  BY <1>0, Known DEF Status, Final, TypeOK
<1>2. Drops(mutations, mutations', 0) /\ Flag(0) BY <1>0, Known DEF Flag, queue
<1>3. initPc # "interrupting" BY <1>0 DEF QueueInv, InterruptFirst
<1>4. CASE Stays(worker, worker') /\ UNCHANGED draining /\ initPc' \in {initPc, "off"}
  <2>1. TypeOK' BY <1>0, <1>1, <1>4, Known DEF TypeOK, Stays
  <2> QED BY <1>0, <1>2, <1>3, <1>4, <2>1, KeptInv
<1>5. CASE /\ ~draining /\ running = NoJob /\ draining' = TRUE /\ initPc' = "off"
           /\ \E v \in Workers : MovesTo(worker, worker', v, "lookup", NoJob)
  <2>1. PICK v \in Workers : MovesTo(worker, worker', v, "lookup", NoJob) BY <1>5
  <2>2. TypeOK' BY <1>0, <1>1, <1>5, <2>1, Known DEF TypeOK, MovesTo
  <2> QED BY <1>0, <1>2, <1>3, <1>5, <2>1, <2>2, DrainedInv
<1> QED BY <1>0, <1>4, <1>5, Known, CallMoves

LEMMA SettleQuietlyStep == QueueInv /\ SettleQuietly => QueueInv'
<1> SUFFICES ASSUME QueueInv, SettleQuietly PROVE QueueInv' OBVIOUS
<1>0. /\ alive /\ mutations # <<>> /\ mutations' = Rest /\ renamed' = FALSE /\ touched' = {}
      /\ worker' = Nearer
      /\ UNCHANGED <<alive, file, started, created, running, cancelFlag, draining, initPc,
                     initLeft, appends, log, executing, executed, budget>>
  BY DEF SettleQuietly, Settles, starts, initialising, activity, history
<1>1. Stays(worker, worker') /\ Drops(mutations, mutations', 1) /\ Flag(1)
      /\ mutations' \in Seq(Mutation)
  BY <1>0, Known, HeadLeaves DEF Flag
<1>2. TypeOK' BY <1>0, <1>1, Known DEF TypeOK, Stays
<1>3. initPc' = "interrupting" => initPc = "interrupting" /\ initLeft' = {}
  BY <1>0 DEF QueueInv, InterruptFirst
<1> QED BY <1>0, <1>1, <1>2, <1>3, KeptInv

LEMMA SettleCancelQueuedStep == QueueInv /\ SettleCancelQueued => QueueInv'
<1> SUFFICES ASSUME QueueInv, SettleCancelQueued PROVE QueueInv' OBVIOUS
<1> DEFINE e(j) == [job |-> j, status |-> "cancelled", from |-> "cancel"]
<1>0. /\ alive /\ mutations # <<>> /\ mutations' = Rest /\ renamed' = FALSE /\ touched' = {}
      /\ worker' = Nearer
      /\ \/ \E j \in touched : appends' = Append(appends, e(j))
         \/ appends' = appends
      /\ UNCHANGED <<alive, file, started, created, running, cancelFlag, draining, initPc,
                     initLeft, log, executing, executed, budget>>
  BY DEF SettleCancelQueued, Settles, starts, initialising, history
<1>1. Stays(worker, worker') /\ Drops(mutations, mutations', 1) /\ Flag(1)
      /\ mutations' \in Seq(Mutation)
  BY <1>0, Known, HeadLeaves DEF Flag
<1>2. TypeOK'
  <2>1. \A j \in Jobs : e(j) \in Entry BY DEF Entry, Status, Final
  <2>2. touched \subseteq Jobs BY Known DEF TypeOK
  <2>3. appends' \in Seq(Entry)
    <3>1. CASE appends' = appends BY <3>1, Known
    <3>2. CASE \E j \in touched : appends' = Append(appends, e(j)) BY <3>2, <2>1, <2>2, Known
    <3> QED BY <3>1, <3>2, <1>0
  <2> QED BY <1>0, <1>1, <2>3, Known DEF TypeOK, Stays
<1>3. initPc' = "interrupting" => initPc = "interrupting" /\ initLeft' = {}
  BY <1>0 DEF QueueInv, InterruptFirst
<1> QED BY <1>0, <1>1, <1>2, <1>3, KeptInv

LEMMA RejectCallStep == QueueInv /\ RejectCall => QueueInv'
<1> SUFFICES ASSUME QueueInv, RejectCall PROVE QueueInv' OBVIOUS
<1>0. /\ alive /\ mutations # <<>> /\ mutations' = Rest /\ ~renamed
      /\ worker' = Nearer
      /\ budget' = [budget EXCEPT !.faults = @ + 1]
      /\ UNCHANGED <<alive, file, started, created, renamed, touched, running, cancelFlag, draining,
                     initPc, initLeft, appends, log, executing, executed>>
  BY DEF RejectCall, Rejects, starts, initialising, activity, history
<1>1. Stays(worker, worker') /\ Drops(mutations, mutations', 1) /\ Flag(1)
      /\ mutations' \in Seq(Mutation) /\ budget' \in [cancels : Nat, crashes : Nat, faults : Nat]
  <2>1. budget' \in [cancels : Nat, crashes : Nat, faults : Nat] BY <1>0, Known, BudgetTyped
  <2>2. ~renamed' BY <1>0
  <2> QED BY <1>0, <2>1, <2>2, Known, HeadLeaves DEF Flag
<1>2. TypeOK' BY <1>0, <1>1, Known DEF TypeOK, Stays
<1>3. initPc' = "interrupting" => initPc = "interrupting" /\ initLeft' = {}
  BY <1>0 DEF QueueInv, InterruptFirst
<1> QED BY <1>0, <1>1, <1>2, <1>3, KeptInv

LEMMA RejectInterruptStep == QueueInv /\ RejectInterrupt => QueueInv'
<1> SUFFICES ASSUME QueueInv, RejectInterrupt PROVE QueueInv' OBVIOUS
<1>0. /\ alive /\ mutations # <<>> /\ mutations' = Rest /\ ~renamed
      /\ worker' = Nearer /\ initPc' = "off"
      /\ budget' = [budget EXCEPT !.faults = @ + 1]
      /\ UNCHANGED <<alive, file, started, created, renamed, touched, running, cancelFlag, draining,
                     initLeft, appends, log, executing, executed>>
  BY DEF RejectInterrupt, Rejects, starts, activity, history
<1>1. Stays(worker, worker') /\ Drops(mutations, mutations', 1) /\ Flag(1)
      /\ mutations' \in Seq(Mutation) /\ budget' \in [cancels : Nat, crashes : Nat, faults : Nat]
  <2>1. budget' \in [cancels : Nat, crashes : Nat, faults : Nat] BY <1>0, Known, BudgetTyped
  <2>2. ~renamed' BY <1>0
  <2> QED BY <1>0, <2>1, <2>2, Known, HeadLeaves DEF Flag
<1>2. TypeOK' BY <1>0, <1>1, Known DEF TypeOK, Stays
<1> QED BY <1>0, <1>1, <1>2, KeptInv

LEMMA SettleInterruptStep == QueueInv /\ SettleInterrupt => QueueInv'
<1> SUFFICES ASSUME QueueInv, SettleInterrupt PROVE QueueInv' OBVIOUS
<1>0. /\ alive /\ mutations # <<>> /\ mutations' = Rest /\ renamed' = FALSE /\ touched' = {}
      /\ initLeft' = touched /\ initPc' \in {"logging", "off"}
      /\ \/ worker' = Nearer /\ UNCHANGED draining
         \/ CallDrainQueue(Nearer, Rest)
      /\ UNCHANGED <<alive, file, started, created, running, cancelFlag, appends, log,
                     executing, executed, budget>>
  BY DEF SettleInterrupt, Settles, starts, activity, history
<1>1. Stays(worker, Nearer) /\ Drops(mutations, mutations', 1) /\ Flag(1)
      /\ mutations' \in Seq(Mutation)
  BY <1>0, Known, HeadLeaves DEF Flag
<1>2. touched \in SUBSET Jobs BY Known DEF TypeOK
<1>3. CASE Stays(worker, worker') /\ UNCHANGED draining
  <2>1. TypeOK' BY <1>0, <1>1, <1>2, <1>3, Known DEF TypeOK, Stays
  <2> QED BY <1>0, <1>1, <1>3, <2>1, KeptInv
<1>4. CASE /\ ~draining /\ running = NoJob /\ draining' = TRUE
           /\ \E v \in Workers : MovesTo(worker, worker', v, "lookup", NoJob)
  <2>1. PICK v \in Workers : MovesTo(worker, worker', v, "lookup", NoJob) BY <1>4
  <2>2. TypeOK' BY <1>0, <1>1, <1>2, <1>4, <2>1, Known DEF TypeOK, MovesTo
  <2> QED BY <1>0, <1>1, <1>4, <2>1, <2>2, DrainedInv
<1> QED BY <1>0, <1>1, <1>3, <1>4, CallMoves

LEMMA SettleAddStep == QueueInv /\ SettleAdd => QueueInv'
<1> SUFFICES ASSUME QueueInv, SettleAdd PROVE QueueInv' OBVIOUS
<1>0. /\ alive /\ mutations # <<>> /\ mutations' = Rest /\ renamed' = FALSE /\ touched' = {}
      /\ CallDrainQueue(Nearer, Rest)
      /\ UNCHANGED <<alive, file, started, created, running, cancelFlag, appends, log,
                     initPc, initLeft, executing, executed, budget>>
  BY DEF SettleAdd, Settles, starts, initialising, activity, history
<1>1. Stays(worker, Nearer) /\ Drops(mutations, mutations', 1) /\ Flag(1)
      /\ mutations' \in Seq(Mutation)
  BY <1>0, Known, HeadLeaves DEF Flag
<1>2. initPc' = "interrupting" => initPc = "interrupting" /\ initLeft' = {}
  BY <1>0 DEF QueueInv, InterruptFirst
<1>3. CASE Stays(worker, worker') /\ UNCHANGED draining
  <2>1. TypeOK' BY <1>0, <1>1, <1>3, Known DEF TypeOK, Stays
  <2> QED BY <1>0, <1>1, <1>2, <1>3, <2>1, KeptInv
<1>4. CASE /\ ~draining /\ running = NoJob /\ draining' = TRUE
           /\ \E v \in Workers : MovesTo(worker, worker', v, "lookup", NoJob)
  <2>1. PICK v \in Workers : MovesTo(worker, worker', v, "lookup", NoJob) BY <1>4
  <2>2. TypeOK' BY <1>0, <1>1, <1>4, <2>1, Known DEF TypeOK, MovesTo
  <2> QED BY <1>0, <1>1, <1>2, <1>4, <2>1, <2>2, DrainedInv
<1> QED BY <1>0, <1>1, <1>3, <1>4, CallMoves

\* The three calls that only queue a mutation.
LEMMA QueuedCallStep ==
  ASSUME QueueInv, NEW m \in Mutation, m.kind \in {"acknowledge", "cancelQueued",
                                                   "cancelRunning", "clear"},
         alive, mutations' = Append(mutations, m), cancelFlag' \in BOOLEAN,
         budget' \in [cancels : Nat, crashes : Nat, faults : Nat],
         UNCHANGED <<alive, file, started, created, renamed, touched, running, draining, worker,
                     initPc, initLeft, appends, log, executing, executed>>
  PROVE  QueueInv'
BY Known, AppendOf, CalledInv DEF TypeOK, Owned

LEMMA CancelStep ==
  ASSUME QueueInv, NEW j \in Jobs, Cancel(j)
  PROVE  QueueInv'
<1>1. budget' \in [cancels : Nat, crashes : Nat, faults : Nat] BY Known, BudgetTyped DEF Cancel
<1>2. PICK kind \in {"cancelRunning", "cancelQueued"} :
        mutations' = Append(mutations, Of(kind, j)) /\ cancelFlag' \in BOOLEAN
  BY Known DEF Cancel, CancelKind, Enqueue, TypeOK
<1>3. Of(kind, j) \in Mutation /\ Of(kind, j).kind = kind BY OfTyped DEF MutationKind
<1>4. alive /\ UNCHANGED <<alive, file, started, created, renamed, touched, running, draining,
                           worker, initPc, initLeft, appends, log, executing, executed>>
  BY DEF Cancel, starts, initialising, activity, history
<1> QED BY <1>1, <1>2, <1>3, <1>4, QueuedCallStep

LEMMA AcknowledgeIssueStep ==
  ASSUME QueueInv, NEW j \in Jobs, AcknowledgeIssue(j)
  PROVE  QueueInv'
<1>1. mutations' = Append(mutations, Of("acknowledge", j))
      /\ UNCHANGED <<alive, file, started, created, renamed, touched, running, draining,
                     cancelFlag, budget,
                     worker, initPc, initLeft, appends, log, executing, executed>> /\ alive
  BY DEF AcknowledgeIssue, Enqueue, starts, service, initialising, activity, history
<1>2. Of("acknowledge", j) \in Mutation /\ Of("acknowledge", j).kind = "acknowledge"
  BY OfTyped DEF MutationKind
<1>3. cancelFlag' \in BOOLEAN /\ budget' \in [cancels : Nat, crashes : Nat, faults : Nat]
  BY <1>1, Known DEF TypeOK
<1> QED BY <1>1, <1>2, <1>3, QueuedCallStep

LEMMA ClearCompletedStep ==
  ASSUME QueueInv, ClearCompleted
  PROVE  QueueInv'
<1>1. mutations' = Append(mutations, Of("clear", NoJob))
      /\ UNCHANGED <<alive, file, started, created, renamed, touched, running, draining,
                     cancelFlag, budget,
                     worker, initPc, initLeft, appends, log, executing, executed>> /\ alive
  BY DEF ClearCompleted, Enqueue, starts, service, initialising, activity, history
<1>2. Of("clear", NoJob) \in Mutation /\ Of("clear", NoJob).kind = "clear"
  BY OfTyped DEF MutationKind
<1>3. cancelFlag' \in BOOLEAN /\ budget' \in [cancels : Nat, crashes : Nat, faults : Nat]
  BY <1>1, Known DEF TypeOK
<1> QED BY <1>1, <1>2, <1>3, QueuedCallStep

LEMMA StartStep == QueueInv /\ Start => QueueInv'
<1> SUFFICES ASSUME QueueInv, Start PROVE QueueInv' OBVIOUS
<1>1. started \in 0..MaxJobs /\ started < MaxJobs /\ started' = started + 1
      /\ mutations' = Append(mutations, Of("add", started + 1)) /\ created \in [Jobs -> Nat]
  BY Known DEF Start, TypeOK, Enqueue
<1>2. started + 1 \in Jobs /\ started' \in 0..MaxJobs BY <1>1, JobQueueAssumption DEF Jobs
<1>3. Of("add", started + 1) \in Mutation BY <1>2, OfTyped DEF MutationKind
<1>4. mutations' \in Seq(Mutation) BY <1>1, <1>3, Known, AppendOf
<1>5. created' \in [Jobs -> Nat]
  <2>1. PICK d \in {0, 1} :
          created' = [created EXCEPT ![started + 1] = d + IF started = 0 THEN 0 ELSE created[started]]
    BY DEF Start
  <2>2. started = 0 \/ created[started] \in Nat BY <1>1, JobQueueAssumption DEF Jobs
  <2>3. d + (IF started = 0 THEN 0 ELSE created[started]) \in Nat BY <2>2
  <2> QED BY <1>1, <2>1, <2>3
<1>6. UNCHANGED <<alive, file, renamed, touched, running, cancelFlag, draining, worker, initPc,
                  initLeft, appends, log, executing, executed, budget>>
  BY DEF Start, service, initialising, activity, history
<1>7. TypeOK' BY <1>2, <1>4, <1>5, <1>6, Known DEF TypeOK
<1> QED BY <1>7, StartInv

LEMMA RenameStep == QueueInv /\ Rename => QueueInv'
<1> SUFFICES ASSUME QueueInv, Rename PROVE QueueInv' OBVIOUS
<1>1. /\ file' = [j \in Jobs |-> Edited(Head(mutations), j)] /\ touched' = Touched(Head(mutations))
      /\ renamed' = TRUE /\ mutations # <<>>
      /\ UNCHANGED <<alive, started, created, mutations, running, cancelFlag, draining, worker,
                     initPc, initLeft, appends, log, executing, executed, budget>>
  BY DEF Rename, starts, service, initialising, activity, history
<1>2. file \in [Jobs -> Job] /\ Head(mutations) \in Mutation BY <1>1, Known, HeadLeaves DEF TypeOK
<1>3. file' \in [Jobs -> Job] BY <1>1, <1>2, EditedOf
<1>4. touched' \in SUBSET Jobs BY <1>1 DEF Touched
<1>5. TypeOK' BY <1>1, <1>3, <1>4, Known DEF TypeOK
<1> QED BY <1>5, RenameInv

LEMMA LookupStep ==
  ASSUME QueueInv, NEW v \in Workers, Lookup(v)
  PROVE  QueueInv'
<1>1. PICK k \in Jobs \cup {NoJob} :
        /\ OldestQueued = {k} \/ (OldestQueued = {} /\ k = NoJob)
        /\ worker' = [worker EXCEPT ![v].pc = "found", ![v].job = k]
  BY DEF Lookup
<1>2. k = NoJob \/ (k \in Jobs /\ file[k].status = "queued") BY <1>1 DEF OldestQueued
<1>3. MovesTo(worker, worker', v, "found", k) BY <1>1, Known, MovePcJob DEF WorkerPc
<1>4. /\ alive /\ worker[v].pc = "lookup"
      /\ UNCHANGED <<alive, file, started, created, mutations, renamed, touched, running, cancelFlag,
                     draining, initPc, initLeft, appends, log, executing, executed, budget>>
  BY DEF Lookup, starts, queue, initialising, activity, history
<1>5. TypeOK' BY <1>3, <1>4, Known DEF TypeOK, MovesTo
<1> QED BY <1>2, <1>3, <1>4, <1>5, FoundInv

LEMMA LookupFailsStep ==
  ASSUME QueueInv, NEW v \in Workers, LookupFails(v)
  PROVE  QueueInv'
<1>1. MovesTo(worker, worker', v, "idle", NoJob) BY Known, LeaveMoves DEF LookupFails
<1>2. /\ alive /\ worker[v].pc = "lookup" /\ draining' = FALSE
      /\ UNCHANGED <<alive, file, started, created, mutations, renamed, touched, running,
                     cancelFlag, initPc, initLeft, appends, log, executing, executed>>
  BY DEF LookupFails, LeaveDrainQueue, starts, queue, initialising, activity, history
<1>3. budget' \in [cancels : Nat, crashes : Nat, faults : Nat] BY Known, BudgetTyped DEF LookupFails
<1>4. TypeOK' BY <1>1, <1>2, <1>3, Known DEF TypeOK, MovesTo
<1>5. \A i \in DOMAIN mutations' : mutations'[i].kind \notin Owned BY <1>2, NoneOwned
<1>6. Drops(mutations, mutations', 0) /\ Flag(0) BY <1>2, Known DEF Flag, queue
<1> QED BY <1>1, <1>2, <1>4, <1>5, <1>6, LeftInv

LEMMA FoundNothingStep ==
  ASSUME QueueInv, NEW v \in Workers, FoundNothing(v)
  PROVE  QueueInv'
<1>1. MovesTo(worker, worker', v, "idle", NoJob) BY Known, LeaveMoves DEF FoundNothing
<1>2. /\ alive /\ worker[v].pc = "found" /\ draining' = FALSE
      /\ UNCHANGED <<alive, file, started, created, mutations, renamed, touched, running, budget,
                     cancelFlag, initPc, initLeft, appends, log, executing, executed>>
  BY DEF FoundNothing, LeaveDrainQueue, starts, queue, initialising, activity, history
<1>4. TypeOK' BY <1>1, <1>2, Known DEF TypeOK, MovesTo
<1>5. \A i \in DOMAIN mutations' : mutations'[i].kind \notin Owned BY <1>2, NoneOwned
<1>6. Drops(mutations, mutations', 0) /\ Flag(0) BY <1>2, Known DEF Flag, queue
<1> QED BY <1>1, <1>2, <1>4, <1>5, <1>6, LeftInv

LEMMA RunJobStep ==
  ASSUME QueueInv, NEW v \in Workers, RunJob(v)
  PROVE  QueueInv'
<1> DEFINE j == worker[v].job
           m == Of("run", j)
<1>1. /\ alive /\ worker[v].pc = "found" /\ j # NoJob /\ running' = j /\ cancelFlag' = FALSE
      /\ mutations' = Append(mutations, m)
      /\ UNCHANGED <<alive, file, started, created, renamed, touched, draining, initPc, initLeft,
                     appends, log, executing, executed, budget>>
  BY DEF RunJob, Enqueue, starts, initialising, activity, history
<1>2. j \in Jobs BY <1>1, Known, WorkerTyped
<1>3. m \in Mutation /\ m.kind = "run" /\ m.job = j BY <1>2, OfTyped DEF MutationKind
<1>4. MovesTo(worker, worker', v, "starting", j) BY Known, MovePc DEF RunJob, WorkerPc
<1>5. mutations' \in Seq(Mutation) BY <1>1, <1>3, Known, AppendOf
<1>6. TypeOK' BY <1>1, <1>2, <1>4, <1>5, Known DEF TypeOK, MovesTo
<1> QED BY <1>1, <1>3, <1>4, <1>6, AwaitsInv

LEMMA ReportProgressStep ==
  ASSUME QueueInv, NEW v \in Workers, ReportProgress(v)
  PROVE  QueueInv'
<1> DEFINE j == worker[v].job
           m == Of("progress", j)
<1>1. /\ alive /\ worker[v].pc = "work"
      /\ mutations' = Append(mutations, m)
      /\ UNCHANGED <<alive, file, started, created, renamed, touched, running, cancelFlag, draining,
                     initPc, initLeft, appends, log, executing, executed, budget>>
  BY DEF ReportProgress, Enqueue, starts, initialising, activity, history
<1>2. j \in Jobs /\ j # NoJob /\ running' = j
  BY <1>1, Known, WorkerTyped DEF QueueInv, RunningMarks, Holding
<1>3. m \in Mutation /\ m.kind = "progress" /\ m.job = j BY <1>2, OfTyped DEF MutationKind
<1>4. MovesTo(worker, worker', v, "progress", j) BY Known, MovePc DEF ReportProgress, WorkerPc
<1>5. mutations' \in Seq(Mutation) BY <1>1, <1>3, Known, AppendOf
<1>6. TypeOK' BY <1>1, <1>2, <1>4, <1>5, Known DEF TypeOK, MovesTo
<1> QED BY <1>1, <1>2, <1>3, <1>4, <1>6, AwaitsInv

\* The runner of v is over with status s, when no mutation is popped.
LEMMA FinishStep ==
  ASSUME QueueInv, NEW v \in Workers, NEW s \in {"cancelled", "failed", "succeeded"},
         NEW b \in BOOLEAN, alive, worker[v].pc \in {"work", "log"},
         Finish(v, worker, mutations, s, b),
         budget' \in [cancels : Nat, crashes : Nat, faults : Nat], appends' \in Seq(Entry),
         UNCHANGED <<alive, file, started, created, renamed, touched, running, cancelFlag,
                     draining, initPc, initLeft, log>>
  PROVE  QueueInv'
<1> DEFINE m == FinalUpdate(worker[v].job, s)
<1>1. s \in Status /\ s \in Final BY DEF Status, Final
<1>2. m \in Mutation /\ m.kind = "final" /\ m.job = worker[v].job /\ m.status = s
  <2>1. worker[v].job \in Jobs \cup {NoJob} BY Known, WorkerTyped
  <2> QED BY <1>1, <2>1, FinalTyped
<1>3. MovesTo(worker, worker', v, "final", worker[v].job) BY <1>1, Known, FinishMoves
<1>4. /\ mutations' = Append(mutations, m)
      /\ executing' = executing \ {worker[v].job} /\ UNCHANGED executed
  BY DEF Finish
<1>5. Adds(mutations, mutations', 0, m) /\ mutations' \in Seq(Mutation)
  BY <1>2, <1>4, Known, AddOne, AppendOf
<1>6. TypeOK' BY <1>3, <1>4, <1>5, Known DEF TypeOK, MovesTo
<1>7. \A i \in DOMAIN mutations : mutations[i].kind \notin Owned BY NoneOwned
<1> QED BY <1>1, <1>2, <1>3, <1>4, <1>5, <1>6, <1>7, EndedInv

LEMMA RunnerReturnsStep ==
  ASSUME QueueInv, NEW v \in Workers, RunnerReturns(v)
  PROVE  QueueInv'
<1>1. PICK s \in {"cancelled", "succeeded"} : Finish(v, worker, mutations, s, FALSE)
  BY DEF RunnerReturns
<1>2. /\ alive /\ worker[v].pc = "work"
      /\ UNCHANGED <<alive, file, started, created, renamed, touched, running, cancelFlag,
                     draining, initPc, initLeft, appends, log, budget>>
  BY DEF RunnerReturns, starts, initialising, activity
<1> QED BY <1>1, <1>2, Known, FinishStep

LEMMA RunnerThrowsStep ==
  ASSUME QueueInv, NEW v \in Workers, RunnerThrows(v)
  PROVE  QueueInv'
<1>1. PICK s \in {"cancelled", "failed"} : Finish(v, worker, mutations, s, TRUE) BY DEF RunnerThrows
<1>2. /\ alive /\ worker[v].pc = "work"
      /\ UNCHANGED <<alive, file, started, created, renamed, touched, running, cancelFlag,
                     draining, initPc, initLeft, appends, log, budget>>
  BY DEF RunnerThrows, starts, initialising, activity
<1> QED BY <1>1, <1>2, Known, FinishStep

\* A worker that awaits the head, whose kind is one of runJob's own.
LEMMA HeadAwaited ==
  ASSUME QueueInv, mutations # <<>>, Head(mutations).kind \in Owned
  PROVE  /\ \A i \in DOMAIN Rest : Rest[i].kind \notin Owned
         /\ \A i \in DOMAIN mutations : i > 1 => mutations[i].kind \notin Owned
BY Known, TailOf, RestUnowned DEF QueueInv, MutationsUnique, Rest

LEMMA SettleRunStep == QueueInv /\ SettleRun => QueueInv'
<1> SUFFICES ASSUME QueueInv, SettleRun PROVE QueueInv' OBVIOUS
<1>0. /\ alive /\ mutations # <<>> /\ renamed /\ Head(mutations).kind = "run"
      /\ mutations' = Rest /\ renamed' = FALSE /\ touched' = {}
      /\ UNCHANGED <<alive, file, started, created, initPc, initLeft, appends, log, budget>>
  BY DEF SettleRun, Settles, starts, initialising, activity
<1>1. PICK v \in Workers :
        /\ worker[v].pc = "starting" /\ worker[v].job = Head(mutations).job
        /\ \/ /\ touched # {}
              /\ worker' = [Nearer EXCEPT ![v].pc = "work"]
              /\ executing' = executing \cup {worker[v].job}
              /\ executed' = executed \cup {worker[v].job}
              /\ UNCHANGED <<running, cancelFlag, draining>>
           \/ /\ touched = {}
              /\ NextTurn(v, Nearer, Rest)
              /\ UNCHANGED history
  BY DEF SettleRun
<1>2. /\ Stays(worker, Nearer) /\ Drops(mutations, mutations', 1) /\ Flag(1)
      /\ mutations' \in Seq(Mutation) /\ \A i \in DOMAIN mutations' : mutations'[i].kind \notin Owned
  BY <1>0, Known, HeadLeaves, HeadAwaited DEF Flag, Owned
<1>3. worker[v].job \in Jobs /\ draining
  BY <1>1, Known, WorkerTyped DEF QueueInv, RunningMarks, Holding, DrainingMarks
<1>4. CASE touched # {}
  <2>0. /\ worker' = [Nearer EXCEPT ![v].pc = "work"]
        /\ executing' = executing \cup {worker[v].job}
        /\ executed' = executed \cup {worker[v].job}
        /\ UNCHANGED <<running, cancelFlag, draining>>
    BY <1>1, <1>4
  <2>1. MovesTo(worker, worker', v, "work", worker[v].job) BY <1>2, <2>0, OthersPc DEF WorkerPc
  <2>2. file[worker[v].job].status = "running" BY <1>0, <1>1, <1>4 DEF QueueInv, RunShows
  <2>3. TypeOK' BY <1>0, <1>2, <1>3, <2>0, <2>1, Known DEF TypeOK, MovesTo
  <2> QED BY <1>0, <1>1, <1>2, <2>0, <2>1, <2>2, <2>3, WorksInv
<1>5. CASE touched = {}
  <2>1. /\ NextTurn(v, Nearer, Rest) /\ running' = NoJob /\ cancelFlag' = FALSE
        /\ draining' = draining /\ UNCHANGED <<executing, executed>>
    BY <1>1, <1>5 DEF NextTurn, history
  <2>2. MovesTo(worker, worker', v, "lookup", NoJob) BY <1>0, <1>2, <2>1, NextTurnMoves
  <2>3. TypeOK' BY <1>0, <1>2, <2>1, <2>2, Known DEF TypeOK, MovesTo
  <2>4. draining' = TRUE BY <1>3, <2>1, <2>3 DEF TypeOK
  <2> QED BY <1>0, <1>1, <1>2, <2>1, <2>2, <2>3, <2>4, LeftInv
<1> QED BY <1>4, <1>5

LEMMA RejectRunStep == QueueInv /\ RejectRun => QueueInv'
<1> SUFFICES ASSUME QueueInv, RejectRun PROVE QueueInv' OBVIOUS
<1>0. /\ alive /\ mutations # <<>> /\ Head(mutations).kind = "run"
      /\ mutations' = Rest /\ ~renamed' /\ UNCHANGED <<renamed, touched>>
      /\ budget' = [budget EXCEPT !.faults = @ + 1]
      /\ UNCHANGED <<alive, file, started, created, initPc, initLeft, running, cancelFlag,
                     appends, log, executing, executed>>
  BY DEF RejectRun, Rejects, starts, initialising, activity, history
<1>1. PICK v \in Workers : worker[v].pc = "starting" /\ LeaveDrainQueue(v, Nearer) BY DEF RejectRun
<1>2. /\ Stays(worker, Nearer) /\ Drops(mutations, mutations', 1) /\ Flag(1)
      /\ mutations' \in Seq(Mutation) /\ \A i \in DOMAIN mutations' : mutations'[i].kind \notin Owned
  BY <1>0, Known, HeadLeaves, HeadAwaited DEF Flag, Owned
<1>3. MovesTo(worker, worker', v, "idle", NoJob) /\ draining' = FALSE
  BY <1>1, <1>2, LeaveMoves DEF LeaveDrainQueue
<1>4. budget' \in [cancels : Nat, crashes : Nat, faults : Nat] BY <1>0, Known, BudgetTyped
<1>5. TypeOK' BY <1>0, <1>2, <1>3, <1>4, Known DEF TypeOK, MovesTo
<1> QED BY <1>0, <1>1, <1>2, <1>3, <1>5, LeftInv

LEMMA SettleProgressStep == QueueInv /\ SettleProgress => QueueInv'
<1> SUFFICES ASSUME QueueInv, SettleProgress PROVE QueueInv' OBVIOUS
<1>0. /\ alive /\ mutations # <<>> /\ Head(mutations).kind = "progress"
      /\ mutations' = Rest /\ renamed' = FALSE /\ touched' = {}
      /\ UNCHANGED <<alive, file, started, created, initPc, initLeft, running, cancelFlag, draining,
                     appends, log, executing, executed, budget>>
  BY DEF SettleProgress, Settles, starts, initialising, activity, history
<1>1. PICK v \in Workers :
        worker[v].pc = "progress" /\ worker' = [Nearer EXCEPT ![v].pc = "work"]
  BY DEF SettleProgress
<1>2. /\ Stays(worker, Nearer) /\ Drops(mutations, mutations', 1) /\ Flag(1)
      /\ mutations' \in Seq(Mutation) /\ \A i \in DOMAIN mutations' : mutations'[i].kind \notin Owned
  BY <1>0, Known, HeadLeaves, HeadAwaited DEF Flag, Owned
<1>3. MovesTo(worker, worker', v, "work", worker[v].job) BY <1>1, <1>2, OthersPc DEF WorkerPc
<1>4. worker[v].job \in executing BY <1>1 DEF QueueInv, RunningMarks, Runs
<1>5. /\ executing' = executing \cup {worker[v].job} /\ executed' = executed \cup {worker[v].job}
      /\ file[worker[v].job].status = "running"
  BY <1>0, <1>4 DEF QueueInv, ExecutingIsDurable
<1>6. TypeOK' BY <1>0, <1>2, <1>3, Known DEF TypeOK, MovesTo
<1> QED BY <1>0, <1>1, <1>2, <1>3, <1>5, <1>6, WorksInv

\* The runner of v threw, or a final step failed, when the head leaves.
LEMMA FinishPoppedStep ==
  ASSUME QueueInv, NEW v \in Workers, alive, worker[v].pc \in {"progress", "final"},
         mutations # <<>>, ~renamed, Head(mutations).kind \in Owned,
         Finish(v, Nearer, Rest, "failed", TRUE),
         budget' = [budget EXCEPT !.faults = @ + 1],
         UNCHANGED <<alive, file, started, created, renamed, touched, running, cancelFlag,
                     draining, initPc, initLeft, appends, log>>
  PROVE  QueueInv'
<1> DEFINE m == FinalUpdate(worker[v].job, "failed")
<1>1. "failed" \in Status /\ "failed" \in Final BY DEF Status, Final
<1>2. m \in Mutation /\ m.kind = "final" /\ m.job = worker[v].job /\ m.status = "failed"
  <2>1. worker[v].job \in Jobs \cup {NoJob} BY Known, WorkerTyped
  <2> QED BY <1>1, <2>1, FinalTyped
<1>3. MovesTo(worker, worker', v, "final", worker[v].job) BY <1>1, Known, HeadLeaves, FinishMoves
<1>4. /\ mutations' = Append(Tail(mutations), m)
      /\ executing' = executing \ {worker[v].job} /\ UNCHANGED executed
  BY DEF Finish, Rest
<1> HIDE DEF m
<1>5. Adds(mutations, mutations', 1, m) /\ mutations' \in Seq(Mutation)
  BY <1>2, <1>4, Known, AddAfterDrop DEF Adds
<1>6. budget' \in [cancels : Nat, crashes : Nat, faults : Nat] BY Known, BudgetTyped
<1>7. TypeOK' BY <1>3, <1>4, <1>5, <1>6, Known DEF TypeOK, MovesTo
<1>8. \A i \in DOMAIN mutations : i > 1 => mutations[i].kind \notin Owned BY HeadAwaited
<1> QED BY <1>1, <1>2, <1>3, <1>4, <1>5, <1>7, <1>8, EndedInv

LEMMA RejectProgressStep == QueueInv /\ RejectProgress => QueueInv'
<1> SUFFICES ASSUME QueueInv, RejectProgress PROVE QueueInv' OBVIOUS
<1>1. /\ alive /\ mutations # <<>> /\ ~renamed /\ Head(mutations).kind \in Owned
      /\ budget' = [budget EXCEPT !.faults = @ + 1]
      /\ UNCHANGED <<alive, file, started, created, renamed, touched, running, cancelFlag,
                     draining, initPc, initLeft, appends, log>>
  BY DEF RejectProgress, Rejects, Owned, starts, initialising, activity
<1>2. PICK v \in Workers : worker[v].pc = "progress" /\ Finish(v, Nearer, Rest, "failed", TRUE)
  BY DEF RejectProgress
<1> QED BY <1>1, <1>2, FinishPoppedStep

LEMMA RejectFinalStep == QueueInv /\ RejectFinal => QueueInv'
<1> SUFFICES ASSUME QueueInv, RejectFinal PROVE QueueInv' OBVIOUS
<1>1. /\ alive /\ mutations # <<>> /\ ~renamed /\ Head(mutations).kind \in Owned
      /\ budget' = [budget EXCEPT !.faults = @ + 1]
      /\ UNCHANGED <<alive, file, started, created, renamed, touched, initPc, initLeft,
                     appends, log>>
  BY DEF RejectFinal, Rejects, Owned, starts, initialising, activity
<1>2. PICK v \in Workers :
        /\ worker[v].pc = "final"
        /\ \/ /\ Finish(v, Nearer, Rest, "failed", TRUE)
              /\ UNCHANGED <<running, cancelFlag, draining>>
           \/ /\ mutations' = Rest /\ running' = NoJob /\ cancelFlag' = FALSE
              /\ LeaveDrainQueue(v, Nearer)
              /\ UNCHANGED history
  BY DEF RejectFinal
<1>3. CASE Finish(v, Nearer, Rest, "failed", TRUE) /\ UNCHANGED <<running, cancelFlag, draining>>
  BY <1>1, <1>2, <1>3, FinishPoppedStep
<1>4. CASE /\ mutations' = Rest /\ running' = NoJob /\ cancelFlag' = FALSE
           /\ LeaveDrainQueue(v, Nearer) /\ UNCHANGED history
  <2>1. /\ Stays(worker, Nearer) /\ Drops(mutations, mutations', 1) /\ Flag(1)
        /\ mutations' \in Seq(Mutation)
        /\ \A i \in DOMAIN mutations' : mutations'[i].kind \notin Owned
    BY <1>1, <1>4, Known, HeadLeaves, HeadAwaited DEF Flag
  <2>2. MovesTo(worker, worker', v, "idle", NoJob) /\ draining' = FALSE
    BY <1>4, <2>1, LeaveMoves DEF LeaveDrainQueue
  <2>3. budget' \in [cancels : Nat, crashes : Nat, faults : Nat] BY <1>1, Known, BudgetTyped
  <2>4. UNCHANGED <<executing, executed>> BY <1>4 DEF history
  <2>5. TypeOK' BY <1>1, <1>4, <2>1, <2>2, <2>3, <2>4, Known DEF TypeOK, MovesTo
  <2> QED BY <1>1, <1>2, <2>1, <2>2, <2>4, <2>5, LeftInv
<1> QED BY <1>2, <1>3, <1>4

LEMMA SettleFinalStep == QueueInv /\ SettleFinal => QueueInv'
<1> SUFFICES ASSUME QueueInv, SettleFinal PROVE QueueInv' OBVIOUS
<1>0. /\ alive /\ mutations # <<>> /\ Head(mutations).kind \in Owned
      /\ mutations' = Rest /\ renamed' = FALSE /\ touched' = {}
      /\ UNCHANGED <<alive, file, started, created, initPc, initLeft, log, budget,
                     executing, executed>>
  BY DEF SettleFinal, Settles, Owned, starts, initialising, history
<1>1. PICK v \in Workers :
        /\ worker[v].pc = "final"
        /\ \/ /\ worker' = [Nearer EXCEPT ![v].pc = "log"]
              /\ appends' = Append(appends, FinalEntry(worker[v].job, worker[v].outcome))
              /\ UNCHANGED <<running, cancelFlag, draining>>
           \/ /\ NextTurn(v, Nearer, Rest)
              /\ UNCHANGED appends
  BY DEF SettleFinal
<1>2. /\ Stays(worker, Nearer) /\ Drops(mutations, mutations', 1) /\ Flag(1)
      /\ mutations' \in Seq(Mutation) /\ \A i \in DOMAIN mutations' : mutations'[i].kind \notin Owned
  BY <1>0, Known, HeadLeaves, HeadAwaited DEF Flag
<1>3. worker[v].job \in Jobs /\ worker[v].outcome \in Status /\ draining = TRUE
  BY <1>1, Known, WorkerTyped DEF QueueInv, RunningMarks, Holding, DrainingMarks, TypeOK
<1>4. CASE /\ worker' = [Nearer EXCEPT ![v].pc = "log"]
           /\ appends' = Append(appends, FinalEntry(worker[v].job, worker[v].outcome))
           /\ UNCHANGED <<running, cancelFlag, draining>>
  <2>1. MovesTo(worker, worker', v, "log", worker[v].job) BY <1>2, <1>4, OthersPc DEF WorkerPc
  <2>2. FinalEntry(worker[v].job, worker[v].outcome) \in Entry BY <1>3 DEF FinalEntry, Entry
  <2>3. appends' \in Seq(Entry) BY <1>4, <2>2, Known
  <2>4. TypeOK' BY <1>0, <1>2, <1>4, <2>1, <2>3, Known DEF TypeOK, MovesTo
  <2> QED BY <1>0, <1>1, <1>2, <1>4, <2>1, <2>4, LogsInv
<1>5. CASE NextTurn(v, Nearer, Rest) /\ UNCHANGED appends
  <2>1. running' = NoJob /\ cancelFlag' = FALSE /\ draining' = TRUE BY <1>3, <1>5 DEF NextTurn
  <2>2. MovesTo(worker, worker', v, "lookup", NoJob) BY <1>0, <1>2, <1>5, NextTurnMoves
  <2>3. TypeOK' BY <1>0, <1>2, <1>5, <2>1, <2>2, Known DEF TypeOK, MovesTo
  <2> QED BY <1>0, <1>1, <1>2, <2>1, <2>2, <2>3, LeftInv
<1> QED BY <1>1, <1>4, <1>5

LEMMA LogFinalStep == QueueInv /\ LogFinal => QueueInv'
<1> SUFFICES ASSUME QueueInv, LogFinal PROVE QueueInv' OBVIOUS
<1>0. /\ alive /\ appends # <<>> /\ appends' = Tail(appends) /\ Recorded(Head(appends))
      /\ UNCHANGED <<alive, file, started, created, mutations, renamed, touched, initPc, initLeft,
                     executing, executed, budget>>
  BY DEF LogFinal, starts, queue, initialising, history
<1>1. PICK v \in Workers : worker[v].pc = "log" /\ NextTurn(v, worker, mutations) BY DEF LogFinal
<1>2. MovesTo(worker, worker', v, "lookup", NoJob) BY <1>1, Known, NextTurnMoves
<1>3. draining = TRUE BY <1>1, Known DEF QueueInv, DrainingMarks, TypeOK
<1>4. running' = NoJob /\ cancelFlag' = FALSE /\ draining' = TRUE BY <1>1, <1>3 DEF NextTurn
<1>5. log' \in [Jobs -> Seq(Status)] /\ appends' \in Seq(Entry) BY <1>0, Known, RecordedTyped
<1>6. TypeOK' BY <1>0, <1>2, <1>4, <1>5, Known DEF TypeOK, MovesTo
<1>7. \A i \in DOMAIN mutations' : mutations'[i].kind \notin Owned BY <1>0, <1>1, NoneOwned
<1>8. Drops(mutations, mutations', 0) /\ Flag(0) BY <1>0, Known DEF Flag, queue
<1> QED BY <1>0, <1>1, <1>2, <1>4, <1>6, <1>7, <1>8, LeftInv

LEMMA LogFailsStep == QueueInv /\ LogFails => QueueInv'
<1> SUFFICES ASSUME QueueInv, LogFails PROVE QueueInv' OBVIOUS
<1>0. /\ alive /\ appends # <<>> /\ appends' = Tail(appends)
      /\ budget' = [budget EXCEPT !.faults = @ + 1]
      /\ UNCHANGED <<alive, file, started, created, renamed, touched, initPc, initLeft, log>>
  BY DEF LogFails, starts, initialising
<1>1. appends' \in Seq(Entry) /\ budget' \in [cancels : Nat, crashes : Nat, faults : Nat]
  <2>1. appends \in Seq(Entry) /\ appends # <<>> /\ appends' = Tail(appends) BY <1>0, Known
  <2>2. appends' \in Seq(Entry) BY <2>1
  <2> QED BY <1>0, <2>2, Known, BudgetTyped
<1>2. CASE UNCHANGED <<mutations, service, history>>
  <2>1. UNCHANGED <<mutations, running, cancelFlag, draining, worker, executing, executed>>
    BY <1>2 DEF service, history
  <2>2. TypeOK' BY <1>0, <1>1, <2>1, Known DEF TypeOK
  <2>3. Stays(worker, worker') /\ Drops(mutations, mutations', 0) /\ Flag(0)
    BY <1>0, <2>1, Known DEF Flag, queue
  <2>4. initPc' = "interrupting" => initPc = "interrupting" /\ initLeft' = {}
    BY <1>0 DEF QueueInv, InterruptFirst
  <2> QED BY <1>0, <2>1, <2>2, <2>3, <2>4, KeptInv
<1>3. CASE \E v \in Workers : /\ worker[v].pc = "log"
                              /\ Finish(v, worker, mutations, "failed", TRUE)
                              /\ UNCHANGED <<running, cancelFlag, draining>>
  BY <1>0, <1>1, <1>3, FinishStep
<1>4. CASE \E v \in Workers : /\ worker[v].pc = "log"
                              /\ running' = NoJob /\ cancelFlag' = FALSE
                              /\ LeaveDrainQueue(v, worker)
                              /\ UNCHANGED <<mutations, history>>
  <2>1. PICK v \in Workers : /\ worker[v].pc = "log"
                             /\ running' = NoJob /\ cancelFlag' = FALSE
                             /\ LeaveDrainQueue(v, worker)
                             /\ UNCHANGED <<mutations, executing, executed>>
    BY <1>4 DEF history
  <2>2. MovesTo(worker, worker', v, "idle", NoJob) /\ draining' = FALSE
    BY <2>1, Known, LeaveMoves DEF LeaveDrainQueue
  <2>3. TypeOK' BY <1>0, <1>1, <2>1, <2>2, Known DEF TypeOK, MovesTo
  <2>4. \A i \in DOMAIN mutations' : mutations'[i].kind \notin Owned BY <2>1, NoneOwned
  <2>5. Drops(mutations, mutations', 0) /\ Flag(0) BY <1>0, <2>1, Known DEF Flag, queue
  <2> QED BY <1>0, <2>1, <2>2, <2>3, <2>4, <2>5, LeftInv
<1> QED BY <1>2, <1>3, <1>4 DEF LogFails

----------------
(* The theorems *)

LEMMA NextStep == QueueInv /\ [Next]_vars => QueueInv'
<1> SUFFICES ASSUME QueueInv, [Next]_vars PROVE QueueInv' OBVIOUS
<1>1. CASE CallStep
  BY <1>1, StartStep, ClearCompletedStep, CancelStep, AcknowledgeIssueStep DEF CallStep
<1>2. CASE MutationStep
  BY <1>2, RenameStep, SettleAddStep, SettleCancelQueuedStep, SettleQuietlyStep, SettleRunStep,
     SettleProgressStep, SettleFinalStep, SettleInterruptStep, RejectCallStep, RejectRunStep,
     RejectProgressStep, RejectFinalStep, RejectInterruptStep DEF MutationStep
<1>3. CASE ActivityStep BY <1>3, LogCancelStep, LogFinalStep, LogFailsStep, LogInterruptedStep,
     LogInterruptedFailsStep DEF ActivityStep
<1>4. ASSUME NEW w \in Workers, WorkerStep(w) PROVE QueueInv'
  BY <1>4, LookupStep, LookupFailsStep, FoundNothingStep, RunJobStep, ReportProgressStep,
     RunnerReturnsStep, RunnerThrowsStep DEF WorkerStep
<1> QED BY <1>1, <1>2, <1>3, <1>4, LaunchStep, CrashStep, StutterStep DEF Next

\* The inductive invariant holds of every behaviour of the queue.
THEOREM QueueInvariant == Spec => []QueueInv
BY InitInv, NextStep, PTL DEF Spec

\* Every variable has its type.
THEOREM TypeCorrect == Spec => []TypeOK
<1>1. QueueInv => TypeOK BY DEF QueueInv
<1> QED BY <1>1, QueueInvariant, PTL

\* Whatever interleaves, one invocation of drainQueue at most is past its guard.
THEOREM AtMostOneDrainer == Spec => []OneDrainer
<1>1. QueueInv => OneDrainer BY DEF QueueInv, DrainingMarks
<1> QED BY <1>1, QueueInvariant, PTL

\* What a runner executes is what running names and what the file calls running.
THEOREM DurableExecution == Spec => []ExecutingIsDurable
<1>1. QueueInv => ExecutingIsDurable BY DEF QueueInv
<1> QED BY <1>1, QueueInvariant, PTL

\* Only SettleRun's call of a runner begins an execution: it begins an unexecuted
\* job when nothing executes.
LEMMA BeginStep ==
  ASSUME QueueInv, SettleRun
  PROVE  (\E j \in Jobs : Serial!Begin(j)) \/ UNCHANGED <<executing, executed>>
<1>1. PICK v \in Workers :
        /\ worker[v].pc = "starting"
        /\ \/ /\ executing' = executing \cup {worker[v].job}
              /\ executed' = executed \cup {worker[v].job}
           \/ UNCHANGED history
  BY DEF SettleRun
<1>2. worker[v].job \in Jobs /\ worker[v].job \notin executed
  BY <1>1, Known, WorkerTyped DEF QueueInv, RunningMarks, Holding, NeverRequeued
<1>3. executing = {} BY <1>1 DEF QueueInv, ExecutingOwned, DrainingMarks, OneDrainer, Runs
<1> QED BY <1>1, <1>2, <1>3 DEF Serial!Begin, history

\* The end of a runner empties executing.
LEMMA EndStep ==
  ASSUME QueueInv, NEW v \in Workers, worker[v].pc # "idle", NEW others, NEW pending, NEW s, NEW b,
         Finish(v, others, pending, s, b)
  PROVE  Serial!End \/ UNCHANGED <<executing, executed>>
<1>1. \A j \in executing : j = worker[v].job
  BY DEF QueueInv, ExecutingOwned, DrainingMarks, OneDrainer, Runs
<1>2. executing' = executing \ {worker[v].job} /\ executed' = executed BY DEF Finish
<1> QED BY <1>1, <1>2 DEF Serial!End

\* Every step of the queue is a step of the serial executor, or none.
LEMMA SerialStep ==
  ASSUME QueueInv, [Next]_vars
  PROVE  [Serial!Next]_<<executing, executed>>
<1>1. CASE CallStep BY <1>1 DEF CallStep, Start, ClearCompleted, Cancel, AcknowledgeIssue, history
<1>2. CASE MutationStep
  <2>1. CASE SettleRun BY <2>1, BeginStep DEF Serial!Next
  <2>2. CASE RejectProgress BY <2>2, EndStep DEF RejectProgress, Serial!Next
  <2>3. CASE RejectFinal BY <2>3, EndStep DEF RejectFinal, Serial!Next, history
  <2>4. CASE Rename \/ SettleAdd \/ SettleCancelQueued \/ SettleQuietly \/ SettleProgress
    BY <2>4 DEF Rename, SettleAdd, SettleCancelQueued, SettleQuietly, SettleProgress, history
  <2>5. CASE SettleFinal \/ SettleInterrupt \/ RejectCall \/ RejectRun \/ RejectInterrupt
    BY <2>5 DEF SettleFinal, SettleInterrupt, RejectCall, RejectRun, RejectInterrupt, history
  <2> QED BY <1>2, <2>1, <2>2, <2>3, <2>4, <2>5 DEF MutationStep
<1>3. CASE ActivityStep
  <2>1. CASE LogFails BY <2>1, EndStep DEF LogFails, Serial!Next, history
  <2>2. CASE LogCancel \/ LogFinal \/ \E j \in Jobs : LogInterrupted(j) \/ LogInterruptedFails(j)
    BY <2>2 DEF LogCancel, LogFinal, LogInterrupted, LogInterruptedFails, history
  <2> QED BY <1>3, <2>1, <2>2 DEF ActivityStep
<1>4. ASSUME NEW w \in Workers, WorkerStep(w) PROVE [Serial!Next]_<<executing, executed>>
  <2>1. CASE RunnerReturns(w) BY <2>1, EndStep DEF RunnerReturns, Serial!Next
  <2>2. CASE RunnerThrows(w) BY <2>2, EndStep DEF RunnerThrows, Serial!Next
  <2>3. CASE Lookup(w) \/ LookupFails(w) \/ FoundNothing(w) \/ RunJob(w) \/ ReportProgress(w)
    BY <2>3 DEF Lookup, LookupFails, FoundNothing, RunJob, ReportProgress, history
  <2> QED BY <1>4, <2>1, <2>2, <2>3 DEF WorkerStep
<1>5. CASE Launch BY <1>5 DEF Launch, history
<1>6. CASE Crash BY <1>6 DEF Crash, Serial!Next, Serial!End
<1>7. CASE UNCHANGED vars BY <1>7 DEF vars
<1> QED BY <1>1, <1>2, <1>3, <1>4, <1>5, <1>6, <1>7 DEF Next

\* No job's work is done twice and no two at once, across failures and restarts:
\* the queue implements the serial executor.
THEOREM ImplementsSerialExecutor == Spec => SerialExecution
<1>1. Init => Serial!Init BY DEF Init, Serial!Init
<1>2. QueueInv /\ [Next]_vars => [Serial!Next]_<<executing, executed>> BY SerialStep
<1> QED BY <1>1, <1>2, QueueInvariant, PTL DEF Spec, SerialExecution, Serial!Spec

----------------
(* What is written of the jobs.  The jobs file: without a fault of the
   file system, no record says running unless runJob is in that job, or
   the launch has yet to interrupt it.  The activity log: without a crash
   or a fault, once all has settled the log ends for each job with the
   status its record shows.

   QueueInv tells where the drainer and its mutations are.  RecordsInv
   adds what the file shows between a rename and the moment its caller
   goes on, which is what the caller then relies on; LogInv adds where an
   outcome is on its way to the log. *)
(* The inductive invariant *)

\* The head's operation, once renamed, shows in the file until it settles.
HeadShows ==
  renamed =>
    LET m == Head(mutations) IN
    \A j \in Jobs :
      \/ m.kind = "interrupt"
      \/ m.kind = "run" /\ touched = {} /\ j = m.job
      \/ m.kind = "final" /\ j = m.job
      => file[j].status # "running"

\* A job whose outcome is being recorded in the activity log is over on disk.
LoggedNotRunning ==
  \A w \in Workers, j \in Jobs :
    worker[w].pc = "log" /\ worker[w].job = j => file[j].status # "running"

\* While initialize() awaits it, its mutation is the head.
InterruptPending ==
  initPc = "interrupting" => mutations # <<>> /\ Head(mutations).kind = "interrupt"

RecordsInv ==
  /\ QueueInv
  /\ HeadShows /\ LoggedNotRunning /\ InterruptPending /\ NoOrphanRunning

----------------
(* What most steps do *)

\* The head is the one it was, or has not been renamed.
HeadKept ==
  \/ ~renamed'
  \/ /\ UNCHANGED <<renamed, touched>>
     /\ Head(mutations') = Head(mutations)

\* initialize() goes on awaiting its mutation, or awaited none.
InterruptKept ==
  /\ initPc' = "interrupting" => initPc = "interrupting"
  /\ initPc = "interrupting" =>
       initPc' = "interrupting" /\ mutations' # <<>> /\ Head(mutations') = Head(mutations)

\* A worker that records an outcome did so before.
NoNewLog ==
  \A w \in Workers :
    worker'[w].pc = "log" => worker[w].pc = "log" /\ worker'[w].job = worker[w].job

\* A fault is never forgotten.
FaultsKept == budget.faults > 0 => budget'.faults > 0

LEMMA FaultCounts ==
  ASSUME QueueInv, budget' = [budget EXCEPT !.faults = @ + 1]
  PROVE  budget'.faults > 0
BY Known

\* A step that leaves the file alone preserves RecordsInv if running leaves a
\* job only when its record is over, or under a fault.
LEMMA RecordsKept ==
  ASSUME RecordsInv, QueueInv', file' = file, alive' = alive, HeadKept, FaultsKept,
         \A w \in Workers, j \in Jobs :
           worker'[w].pc = "log" /\ worker'[w].job = j =>
             \/ worker[w].pc = "log" /\ worker[w].job = j
             \/ file[j].status # "running",
         \/ running' = running
         \/ budget'.faults > 0
         \/ \A j \in Jobs : running = j => file[j].status # "running",
         \/ InterruptKept
         \/ initPc' # "interrupting" /\ budget'.faults > 0
         \/ initPc' # "interrupting" /\ \A j \in Jobs : file[j].status # "running"
  PROVE  RecordsInv'
<1>1. HeadShows' BY DEF RecordsInv, HeadShows, HeadKept
<1>2. LoggedNotRunning' BY DEF RecordsInv, LoggedNotRunning
<1>3. InterruptPending' BY DEF RecordsInv, InterruptPending, InterruptKept
<1>4. NoOrphanRunning' BY DEF RecordsInv, NoOrphanRunning, InterruptKept, FaultsKept
<1> QED BY <1>1, <1>2, <1>3, <1>4 DEF RecordsInv

\* A call, or the drainer, appends a mutation.
LEMMA AppendKept ==
  ASSUME RecordsInv, NEW m, mutations' = Append(mutations, m),
         UNCHANGED <<renamed, touched, initPc>>
  PROVE  HeadKept /\ InterruptKept
BY Known, HeadStays DEF RecordsInv, QueueInv, RunShows, InterruptPending, HeadKept, InterruptKept

\* The mutations stay as they are.
LEMMA SameKept ==
  ASSUME RecordsInv, UNCHANGED queue, initPc' = initPc
  PROVE  HeadKept /\ InterruptKept
BY DEF RecordsInv, InterruptPending, HeadKept, InterruptKept, queue

\* The head leaves, and it is not that of initialize().
LEMMA PopKept ==
  ASSUME RecordsInv, ~renamed', initPc' = initPc, Head(mutations).kind # "interrupt"
  PROVE  HeadKept /\ InterruptKept
BY DEF RecordsInv, InterruptPending, HeadKept, InterruptKept

LEMMA StayLogs ==
  ASSUME Stays(worker, worker')
  PROVE  NoNewLog
BY DEF Stays, NoNewLog

LEMMA MoveLogs ==
  ASSUME NEW v \in Workers, NEW c, NEW k, MovesTo(worker, worker', v, c, k), c # "log"
  PROVE  NoNewLog
BY DEF MovesTo, NoNewLog

\* A step that frees no job and awaits no mutation of initialize().
LEMMA QuietKept ==
  ASSUME RecordsInv, QueueInv', UNCHANGED <<file, alive, running>>, HeadKept, FaultsKept,
         InterruptKept, NoNewLog
  PROVE  RecordsInv'
BY RecordsKept DEF NoNewLog

LEMMA UnchangedBudget ==
  ASSUME UNCHANGED budget
  PROVE  FaultsKept
BY DEF FaultsKept

----------------
(* The actions.  QueueInv' is known of each (JobQueueProofs). *)

\* Only the update to running makes a record say running.
LEMMA EditedRunning ==
  ASSUME file \in [Jobs -> Job], NEW m \in Mutation, NEW j \in Jobs,
         Edited(m, j).status = "running", m.kind = "final" => m.status \in Final
  PROVE  /\ (m.kind = "run" /\ m.job = j /\ Present(j)) \/ file[j].status = "running"
         /\ m.kind # "interrupt"
         /\ ~(m.kind = "final" /\ m.job = j)
<1>1. /\ file[j] \in Job /\ Absent \in Job /\ Absent.status = "absent" BY DEF Absent, Job, Status
<1> DEFINE e == Edited(m, j)
           r == file[j]
<1>2. \/ m.kind = "add" /\ e = [Absent EXCEPT !.status = "queued"]
      \/ m.kind = "cancelRunning" /\ e = [r EXCEPT !.cancelRequested = TRUE]
      \/ /\ m.kind = "cancelQueued"
         /\ e = [r EXCEPT !.cancelRequested = TRUE, !.status = "cancelled"]
      \/ m.kind = "run" /\ m.job = j /\ Present(j)
      \/ m.kind = "final" /\ j = m.job /\ Present(j) /\ e = [r EXCEPT !.status = m.status]
      \/ m.kind = "acknowledge" /\ e = [r EXCEPT !.acknowledged = TRUE]
      \/ m.kind = "interrupt" /\ Active(j) /\ e = [r EXCEPT !.status = "interrupted"]
      \/ m.kind = "clear" /\ e = Absent
      \/ e = r /\ ~(m.kind = "interrupt" /\ Active(j)) /\ ~(m.kind = "final" /\ j = m.job /\ Present(j))
  BY DEF Edited, Cancellable, Clearable, InterruptedStatus
<1> HIDE DEF e
<1>3. \/ m.kind = "run" /\ m.job = j /\ Present(j)
      \/ e.status = r.status /\ m.kind \notin {"interrupt", "final"}
      \/ e.status = r.status /\ ~(m.kind = "interrupt" /\ Active(j))
         /\ ~(m.kind = "final" /\ j = m.job /\ Present(j))
      \/ m.kind = "final" /\ e.status = m.status
      \/ e.status \in {"queued", "cancelled", "interrupted", "absent"}
  BY <1>1, <1>2 DEF Job
<1>4. e.status = "running" BY DEF e
<1> QED BY <1>3, <1>4 DEF Active, Present, Final

\* The rename of the head shows what HeadShows says, and makes no other job's
\* record say running than that of the drainer.
LEMMA RenameRecords ==
  ASSUME RecordsInv, QueueInv', Rename
  PROVE  RecordsInv'
<1> DEFINE h == Head(mutations)
<1>1. /\ renamed' /\ touched' = Touched(h) /\ mutations # <<>>
      /\ \A j \in Jobs : file'[j] = Edited(h, j)
      /\ UNCHANGED <<alive, mutations, running, worker, initPc, budget>>
  BY DEF Rename, starts, service, initialising
<1>2. /\ file \in [Jobs -> Job] /\ mutations \in Seq(Mutation)
      /\ 1 \in DOMAIN mutations /\ h = mutations[1] /\ h \in Mutation
  BY <1>1, Known, TailOf DEF RecordsInv, TypeOK
<1>3. h.kind = "final" => h.status \in Final BY <1>2 DEF RecordsInv, QueueInv, MutationsOwned
<1>4. h.kind = "run" =>
        /\ \A w \in Workers : worker[w].pc # "log"
        /\ running = h.job
  BY <1>2 DEF RecordsInv, QueueInv, MutationsOwned, DrainingMarks, OneDrainer, RunningMarks, Holding
<1>5. \A j \in Jobs : file'[j].status = "running" =>
        /\ (h.kind = "run" /\ h.job = j /\ Present(j)) \/ file[j].status = "running"
        /\ h.kind # "interrupt"
        /\ ~(h.kind = "final" /\ h.job = j)
  BY <1>1, <1>2, <1>3, EditedRunning
<1>6. \A j \in Jobs : h.kind = "run" /\ touched' = {} /\ j = h.job => file[j].status = "absent"
  BY <1>1 DEF Touched, Present
<1>7. HeadShows' BY <1>1, <1>5, <1>6 DEF HeadShows, Present
<1>8. LoggedNotRunning' BY <1>1, <1>4, <1>5 DEF RecordsInv, LoggedNotRunning
<1>9. InterruptPending' BY <1>1 DEF RecordsInv, InterruptPending
<1>10. NoOrphanRunning' BY <1>1, <1>4, <1>5 DEF RecordsInv, NoOrphanRunning
<1> QED BY <1>7, <1>8, <1>9, <1>10 DEF RecordsInv

\* The calls queue a mutation and change nothing the records rest on.
LEMMA CallRecords ==
  ASSUME RecordsInv, QueueInv', CallStep
  PROVE  RecordsInv'
<1>1. \E m : mutations' = Append(mutations, m)
  BY DEF CallStep, Start, ClearCompleted, Cancel, CancelKind, AcknowledgeIssue, Enqueue
<1>2. UNCHANGED <<file, alive, running, worker, renamed, touched, initPc>>
  BY DEF CallStep, Start, ClearCompleted, Cancel, AcknowledgeIssue, service, initialising
<1>3. FaultsKept
  <2>1. CASE \E j \in Jobs : Cancel(j) BY <2>1, Known DEF Cancel, RecordsInv, FaultsKept
  <2>2. CASE Start \/ ClearCompleted \/ \E j \in Jobs : AcknowledgeIssue(j)
    BY <2>2 DEF Start, ClearCompleted, AcknowledgeIssue, FaultsKept
  <2> QED BY <2>1, <2>2 DEF CallStep
<1>4. NoNewLog BY <1>2 DEF NoNewLog
<1> QED BY <1>1, <1>2, <1>3, <1>4, AppendKept, QuietKept

\* What drainQueue does up to the runner, and the runner's own steps.
LEMMA WorkerRecords ==
  ASSUME RecordsInv, QueueInv', NEW w \in Workers, WorkerStep(w)
  PROVE  RecordsInv'
<1>1. UNCHANGED <<file, alive, renamed, touched, initPc>>
  BY DEF WorkerStep, Lookup, LookupFails, FoundNothing, RunJob, ReportProgress, RunnerReturns,
         RunnerThrows, queue, initialising
<1>2. FaultsKept
  <2>1. CASE LookupFails(w) BY <2>1, FaultCounts DEF LookupFails, FaultsKept, RecordsInv
  <2>2. CASE ~LookupFails(w)
    BY <2>2 DEF WorkerStep, Lookup, FoundNothing, RunJob, ReportProgress, RunnerReturns,
                RunnerThrows, FaultsKept
  <2> QED BY <2>1, <2>2
<1>3. NoNewLog
  <2>1. CASE Lookup(w)
    <3>1. PICK k \in Jobs \cup {NoJob} : worker' = [worker EXCEPT ![w].pc = "found", ![w].job = k]
      BY <2>1 DEF Lookup
    <3>2. MovesTo(worker, worker', w, "found", k) BY <3>1, Known, MovePcJob DEF WorkerPc, RecordsInv
    <3> QED BY <3>2, MoveLogs
  <2>2. CASE LookupFails(w) \/ FoundNothing(w)
    BY <2>2, Known, LeaveMoves, MoveLogs DEF LookupFails, FoundNothing, RecordsInv
  <2>3. CASE RunJob(w) \/ ReportProgress(w)
    <3>1. PICK c \in {"starting", "progress"} : worker' = [worker EXCEPT ![w].pc = c]
      BY <2>3 DEF RunJob, ReportProgress
    <3>2. MovesTo(worker, worker', w, c, worker[w].job)
      BY <3>1, Known, MovePc DEF WorkerPc, RecordsInv
    <3> QED BY <3>2, MoveLogs
  <2>4. CASE RunnerReturns(w) \/ RunnerThrows(w)
    <3>1. PICK s \in {"cancelled", "failed", "succeeded"}, b \in BOOLEAN :
            Finish(w, worker, mutations, s, b)
      BY <2>4 DEF RunnerReturns, RunnerThrows
    <3>2. s \in Status BY DEF Status, Final
    <3>3. MovesTo(worker, worker', w, "final", worker[w].job)
      BY <3>1, <3>2, Known, FinishMoves DEF RecordsInv
    <3> QED BY <3>3, MoveLogs
  <2> QED BY <2>1, <2>2, <2>3, <2>4 DEF WorkerStep
<1>4. HeadKept /\ InterruptKept
  <2>1. CASE Lookup(w) \/ LookupFails(w) \/ FoundNothing(w)
    BY <1>1, <2>1, SameKept DEF Lookup, LookupFails, FoundNothing, queue
  <2>2. CASE RunJob(w) \/ ReportProgress(w) \/ RunnerReturns(w) \/ RunnerThrows(w)
    BY <1>1, <2>2, AppendKept DEF RunJob, ReportProgress, RunnerReturns, RunnerThrows, Enqueue, Finish
  <2> QED BY <2>1, <2>2 DEF WorkerStep
<1>5. running' = running \/ running = NoJob
  <2>1. CASE RunJob(w) BY <2>1 DEF RunJob, RecordsInv, QueueInv, RunningMarks
  <2>2. CASE ~RunJob(w)
    BY <2>2 DEF WorkerStep, Lookup, LookupFails, FoundNothing, ReportProgress, RunnerReturns,
                RunnerThrows
  <2> QED BY <2>1, <2>2
<1>6. running' = running \/ \A j \in Jobs : running = j => file[j].status # "running"
  BY <1>5 DEF NoJob, Jobs
<1> QED BY <1>1, <1>2, <1>3, <1>4, <1>6, RecordsKept DEF NoNewLog

\* The promise of a call, or of a progress update, settles.
LEMMA CallSettlesRecords ==
  ASSUME RecordsInv, QueueInv', SettleAdd \/ SettleCancelQueued \/ SettleQuietly \/ SettleProgress
  PROVE  RecordsInv'
<1>1. /\ mutations # <<>> /\ renamed' = FALSE /\ mutations' = Rest
      /\ Head(mutations).kind # "interrupt"
      /\ UNCHANGED <<file, alive, running, initPc, budget>>
  BY DEF SettleAdd, SettleCancelQueued, SettleQuietly, SettleProgress, Settles, initialising
<1>2. Stays(worker, Nearer) /\ Rest \in Seq(Mutation) BY <1>1, Known, HeadLeaves DEF RecordsInv
<1>3. NoNewLog
  <2>1. CASE SettleAdd BY <1>2, <2>1, CallMoves, StayLogs, MoveLogs DEF SettleAdd
  <2>2. CASE SettleCancelQueued \/ SettleQuietly
    BY <1>2, <2>2, StayLogs DEF SettleCancelQueued, SettleQuietly
  <2>3. CASE SettleProgress
    <3>1. PICK v \in Workers : worker' = [Nearer EXCEPT ![v].pc = "work"] BY <2>3 DEF SettleProgress
    <3>2. MovesTo(worker, worker', v, "work", worker[v].job) BY <1>2, <3>1, OthersPc DEF WorkerPc
    <3> QED BY <3>2, MoveLogs
  <2> QED BY <2>1, <2>2, <2>3
<1> QED BY <1>1, <1>3, PopKept, UnchangedBudget, QuietKept

\* The update to running settles: when it found no record, running is cleared.
LEMMA SettleRunRecords ==
  ASSUME RecordsInv, QueueInv', SettleRun
  PROVE  RecordsInv'
<1>1. /\ mutations # <<>> /\ renamed /\ renamed' = FALSE /\ Head(mutations).kind = "run"
      /\ UNCHANGED <<file, alive, initPc, budget>>
  BY DEF SettleRun, Settles, initialising
<1>2. Stays(worker, Nearer) /\ Rest \in Seq(Mutation) BY <1>1, Known, HeadLeaves DEF RecordsInv
<1>3. PICK v \in Workers :
        /\ worker[v].pc = "starting" /\ worker[v].job = Head(mutations).job
        /\ \/ worker' = [Nearer EXCEPT ![v].pc = "work"] /\ running' = running
           \/ touched = {} /\ NextTurn(v, Nearer, Rest)
  BY DEF SettleRun
<1>4. NoNewLog
  <2>1. CASE worker' = [Nearer EXCEPT ![v].pc = "work"]
    BY <1>2, <2>1, OthersPc, MoveLogs DEF WorkerPc
  <2>2. CASE NextTurn(v, Nearer, Rest) BY <1>2, <2>2, NextTurnMoves, MoveLogs
  <2> QED BY <1>3, <2>1, <2>2
<1>5. running' = running \/ \A j \in Jobs : running = j => file[j].status # "running"
  BY <1>1, <1>3 DEF RecordsInv, HeadShows, QueueInv, RunningMarks, Holding
<1> QED BY <1>1, <1>4, <1>5, PopKept, UnchangedBudget, RecordsKept DEF NoNewLog

\* The final update settles: the record is over, and its outcome is recorded.
LEMMA SettleFinalRecords ==
  ASSUME RecordsInv, QueueInv', SettleFinal
  PROVE  RecordsInv'
<1>1. /\ mutations # <<>> /\ renamed /\ renamed' = FALSE /\ Head(mutations).kind = "final"
      /\ UNCHANGED <<file, alive, initPc, budget>>
  BY DEF SettleFinal, Settles, initialising
<1>2. Stays(worker, Nearer) /\ Rest \in Seq(Mutation) BY <1>1, Known, HeadLeaves DEF RecordsInv
<1>3. PICK v \in Workers :
        /\ worker[v].pc = "final" /\ worker[v].job = Head(mutations).job
        /\ \/ worker' = [Nearer EXCEPT ![v].pc = "log"] /\ running' = running
           \/ NextTurn(v, Nearer, Rest)
  BY DEF SettleFinal
<1>4. /\ running = worker[v].job
      /\ \A j \in Jobs : j = worker[v].job => file[j].status # "running"
  BY <1>1, <1>3 DEF RecordsInv, HeadShows, QueueInv, RunningMarks, Holding
<1>5. \A w \in Workers, j \in Jobs :
        worker'[w].pc = "log" /\ worker'[w].job = j =>
          \/ worker[w].pc = "log" /\ worker[w].job = j
          \/ file[j].status # "running"
  <2>1. CASE worker' = [Nearer EXCEPT ![v].pc = "log"]
    <3>1. MovesTo(worker, worker', v, "log", worker[v].job) BY <1>2, <2>1, OthersPc DEF WorkerPc
    <3> QED BY <1>4, <3>1 DEF MovesTo
  <2>2. CASE NextTurn(v, Nearer, Rest) BY <1>2, <2>2, NextTurnMoves, MoveLogs DEF NoNewLog
  <2> QED BY <1>3, <2>1, <2>2
<1> QED BY <1>1, <1>4, <1>5, PopKept, UnchangedBudget, RecordsKept

\* initialize()'s mutation settles: what it found unfinished is interrupted.
LEMMA SettleInterruptRecords ==
  ASSUME RecordsInv, QueueInv', SettleInterrupt
  PROVE  RecordsInv'
BY Known, HeadLeaves, CallMoves, StayLogs, MoveLogs, UnchangedBudget, RecordsKept
  DEF SettleInterrupt, Settles, RecordsInv, HeadShows, HeadKept, NoNewLog

\* A mutation is rejected: a fault is counted, and NoOrphanRunning is excused.
LEMMA RejectRecords ==
  ASSUME RecordsInv, QueueInv',
         RejectCall \/ RejectRun \/ RejectProgress \/ RejectFinal \/ RejectInterrupt
  PROVE  RecordsInv'
<1>1. /\ mutations # <<>> /\ ~renamed' /\ UNCHANGED <<file, alive>>
      /\ budget' = [budget EXCEPT !.faults = @ + 1]
      /\ \/ initPc' = "off"
         \/ initPc' = initPc /\ Head(mutations).kind # "interrupt"
  <2>1. CASE RejectInterrupt BY <2>1 DEF RejectInterrupt, Rejects
  <2>2. CASE RejectCall BY <2>2 DEF RejectCall, Rejects, initialising
  <2>3. CASE RejectRun BY <2>3 DEF RejectRun, Rejects, initialising
  <2>4. CASE RejectProgress BY <2>4 DEF RejectProgress, Rejects, initialising
  <2>5. CASE RejectFinal BY <2>5 DEF RejectFinal, Rejects, initialising
  <2> QED BY <2>1, <2>2, <2>3, <2>4, <2>5
<1>2. Stays(worker, Nearer) BY <1>1, Known, HeadLeaves DEF RecordsInv
<1>3. budget'.faults > 0 BY <1>1, FaultCounts DEF RecordsInv
<1>4. NoNewLog
  <2>1. CASE RejectCall \/ RejectInterrupt BY <1>2, <2>1, StayLogs DEF RejectCall, RejectInterrupt
  <2>2. CASE RejectRun \/ RejectProgress \/ RejectFinal
    <3>1. PICK v \in Workers :
            Finish(v, Nearer, Rest, "failed", TRUE) \/ LeaveDrainQueue(v, Nearer)
      BY <2>2 DEF RejectRun, RejectProgress, RejectFinal
    <3>2. "failed" \in Status BY DEF Status, Final
    <3> QED BY <1>2, <3>1, <3>2, FinishMoves, LeaveMoves, MoveLogs
  <2> QED BY <2>1, <2>2
<1>5. InterruptKept \/ initPc' # "interrupting" BY <1>1, PopKept
<1> QED BY <1>1, <1>3, <1>4, <1>5, RecordsKept DEF HeadKept, FaultsKept, NoNewLog

\* The appends of the activity log leave the mutations alone.
LEMMA ActivityRecords ==
  ASSUME RecordsInv, QueueInv', ActivityStep
  PROVE  RecordsInv'
<1>1. CASE LogCancel
  BY <1>1, SameKept, UnchangedBudget, QuietKept DEF LogCancel, service, initialising, NoNewLog
<1>2. CASE LogFinal
  <2>1. /\ UNCHANGED <<file, alive, initPc, budget>> /\ UNCHANGED queue
    BY <1>2 DEF LogFinal, initialising
  <2>2. PICK v \in Workers : worker[v].pc = "log" /\ NextTurn(v, worker, mutations)
    BY <1>2 DEF LogFinal
  <2>3. NoNewLog BY <2>2, Known, NextTurnMoves, MoveLogs DEF RecordsInv
  <2>4. \A j \in Jobs : running = j => file[j].status # "running"
    BY <2>2 DEF RecordsInv, LoggedNotRunning, QueueInv, RunningMarks, Holding
  <2> QED BY <2>1, <2>3, <2>4, SameKept, UnchangedBudget, RecordsKept DEF NoNewLog
<1>3. CASE LogFails
  <2>1. /\ UNCHANGED <<file, alive, initPc, renamed, touched>>
        /\ budget' = [budget EXCEPT !.faults = @ + 1]
    BY <1>3 DEF LogFails, initialising
  <2>2. budget'.faults > 0 BY <2>1, FaultCounts DEF RecordsInv
  <2>3. NoNewLog /\ HeadKept /\ InterruptKept
    <3>1. CASE UNCHANGED <<mutations, service>> BY <2>1, <3>1, SameKept DEF queue, service, NoNewLog
    <3>2. ASSUME NEW v \in Workers, Finish(v, worker, mutations, "failed", TRUE)
          PROVE  NoNewLog /\ HeadKept /\ InterruptKept
      BY <2>1, <3>2, Known, FinishMoves, MoveLogs, AppendKept DEF Status, Final, RecordsInv, Finish
    <3>3. ASSUME NEW v \in Workers, LeaveDrainQueue(v, worker), UNCHANGED mutations
          PROVE  NoNewLog /\ HeadKept /\ InterruptKept
      BY <2>1, <3>3, Known, LeaveMoves, MoveLogs, SameKept DEF RecordsInv, queue
    <3> QED BY <1>3, <3>1, <3>2, <3>3 DEF LogFails
  <2> QED BY <2>1, <2>2, <2>3, RecordsKept DEF FaultsKept, NoNewLog
<1>4. ASSUME NEW j \in Jobs, LogInterrupted(j) \/ LogInterruptedFails(j) PROVE RecordsInv'
  <2>1. /\ UNCHANGED <<file, alive, running>> /\ UNCHANGED queue /\ j \in initLeft
        /\ initPc' \in {initPc, "off"}
    BY <1>4 DEF LogInterrupted, LogInterruptedFails, service
  <2>2. FaultsKept
    BY <1>4, FaultCounts DEF LogInterrupted, LogInterruptedFails, FaultsKept, RecordsInv
  <2>3. NoNewLog
    BY <1>4, Known, CallMoves, StayLogs, MoveLogs
      DEF LogInterrupted, RecordsInv, LogInterruptedFails, service, NoNewLog
  <2>4. initPc # "interrupting" BY <2>1 DEF RecordsInv, QueueInv, InterruptFirst
  <2>5. HeadKept /\ InterruptKept BY <2>1, <2>4 DEF HeadKept, InterruptKept, queue
  <2> QED BY <2>1, <2>2, <2>3, <2>5, QuietKept
<1> QED BY <1>1, <1>2, <1>3, <1>4 DEF ActivityStep

LEMMA RecordsInit == Init => RecordsInv
<1> SUFFICES ASSUME Init PROVE RecordsInv OBVIOUS
<1>1. QueueInv BY InitInv
<1>2. ~renamed /\ initPc = "off" /\ ~alive /\ \A w \in Workers : worker[w].pc = "idle"
  BY IdleTyped DEF Init
<1> QED BY <1>1, <1>2 DEF RecordsInv, HeadShows, LoggedNotRunning, InterruptPending, NoOrphanRunning

LEMMA RecordsStep == RecordsInv /\ [Next]_vars => RecordsInv'
<1> SUFFICES ASSUME RecordsInv, [Next]_vars PROVE RecordsInv' OBVIOUS
<1>0. QueueInv' BY NextStep DEF RecordsInv
<1>1. CASE Launch
  <2>1. /\ initPc' = "interrupting" /\ ~renamed'
        /\ mutations' = <<Of("interrupt", NoJob)>> /\ UNCHANGED <<file, worker>>
    BY <1>1 DEF Launch, RecordsInv, QueueInv, DeadIsEmpty, service
  <2>2. mutations' # <<>> /\ Head(mutations').kind = "interrupt" BY <2>1 DEF Of
  <2> QED BY <1>0, <2>1, <2>2 DEF RecordsInv, HeadShows, LoggedNotRunning, InterruptPending,
                            NoOrphanRunning
<1>2. CASE Crash
  BY <1>0, <1>2, IdleTyped DEF Crash, RecordsInv, HeadShows, LoggedNotRunning, InterruptPending, NoOrphanRunning
<1>3. CASE CallStep BY <1>0, <1>3, CallRecords
<1>4. CASE MutationStep
  BY <1>0, <1>4, RenameRecords, CallSettlesRecords, SettleRunRecords, SettleFinalRecords,
     SettleInterruptRecords, RejectRecords DEF MutationStep
<1>5. CASE ActivityStep BY <1>0, <1>5, ActivityRecords
<1>6. CASE \E w \in Workers : WorkerStep(w) BY <1>0, <1>6, WorkerRecords
<1>7. CASE UNCHANGED vars
  BY <1>0, <1>7 DEF vars, RecordsInv, HeadShows, LoggedNotRunning, InterruptPending,
                    NoOrphanRunning
<1> QED BY <1>1, <1>2, <1>3, <1>4, <1>5, <1>6, <1>7 DEF Next

----------------
(* The activity log

   Without a crash or a fault, an outcome is on its way from the record to
   the log at every moment: it is told by the head that has just been
   renamed, by an append under way, or by the log itself. *)

NoFault == budget.faults = 0 /\ budget.crashes = 0

\* What update() and cancel() will see of the record they changed.
HeadTouches ==
  renamed =>
    LET m == Head(mutations) IN
    /\ m.kind \in {"final", "cancelQueued"} => touched = {j \in Jobs : j = m.job /\ Present(j)}
    /\ m.kind = "final" => \A j \in touched : file[j].status = m.status
    /\ m.kind = "interrupt" => touched = {}

\* The outcome that runJob will record is the one it writes.
OutcomeAgrees ==
  \A i \in DOMAIN mutations, w \in Workers :
    mutations[i].kind = "final" /\ worker[w].pc = "final" =>
      mutations[i].status = worker[w].outcome

\* Before the first initialize() is over there is no job.
FirstLaunch ==
  /\ ~alive \/ initPc = "interrupting" => \A j \in Jobs : file[j] = Absent
  /\ initLeft = {}

\* The last append under way for j, or with none the last entry of j, is its status.
Told(j) ==
  \/ \E i \in DOMAIN appends :
       /\ appends[i].job = j /\ appends[i].status = file[j].status
       /\ \A k \in DOMAIN appends : k > i => appends[k].job # j
  \/ /\ \A i \in DOMAIN appends : appends[i].job # j
     /\ log[j] # <<>> /\ log[j][Len(log[j])] = file[j].status

\* The caller of the renamed head is about to append the entry of j.
Telling(j) ==
  /\ renamed
  /\ Head(mutations).job = j
  /\ \/ Head(mutations).kind = "final"
     \/ Head(mutations).kind = "cancelQueued" /\ file[j].status = "cancelled"

LogFollows == \A j \in Jobs : file[j].status \in Final => Telling(j) \/ Told(j)

LogParts == HeadTouches /\ OutcomeAgrees /\ FirstLaunch /\ LogFollows

LogInv == RecordsInv /\ (NoFault => LogParts)

LEMMA ToldAppend ==
  ASSUME appends \in Seq(Entry), NEW e \in Entry, appends' = Append(appends, e),
         UNCHANGED <<file, log>>, NEW j \in Jobs,
         Told(j) \/ e.job = j, e.job = j => e.status = file[j].status
  PROVE  Told(j)'
BY DEF Told

LEMMA LastOf ==
  ASSUME NEW q \in Seq(Status), NEW x \in Status
  PROVE  Append(q, x) # <<>> /\ Append(q, x)[Len(Append(q, x))] = x
OBVIOUS

LEMMA ToldRecorded ==
  ASSUME appends \in Seq(Entry), appends # <<>>, log \in [Jobs -> Seq(Status)],
         Recorded(Head(appends)), appends' = Tail(appends), file' = file,
         NEW j \in Jobs, Told(j)
  PROVE  Told(j)'
<1> DEFINE e == Head(appends)
<1>1. /\ e = appends[1] /\ e \in Entry /\ 1 \in DOMAIN appends
      /\ Len(appends) \in Nat /\ DOMAIN appends = 1..Len(appends)
      /\ DOMAIN appends' = 1..(Len(appends) - 1)
      /\ \A i \in DOMAIN appends' : appends'[i] = appends[i + 1]
  OBVIOUS
<1>2. e.job \in Jobs /\ e.status \in Status BY <1>1 DEF Entry
<1>3. log' = [log EXCEPT ![e.job] = Append(@, e.status)] BY DEF Recorded
<1> HIDE DEF e
<1>4. CASE \A i \in DOMAIN appends : i # 1 => appends[i].job # j
  <2>1. \A i \in DOMAIN appends' : appends'[i].job # j BY <1>1, <1>4
  <2>2. CASE e.job = j
    <3>1. e.status = file[j].status BY <1>1, <1>4, <2>2 DEF Told
    <3>2. log'[j] = Append(log[j], e.status) /\ log[j] \in Seq(Status) BY <1>2, <1>3, <2>2
    <3>3. log'[j] # <<>> /\ log'[j][Len(log'[j])] = e.status BY <1>2, <3>2, LastOf
    <3> QED BY <2>1, <3>1, <3>3 DEF Told
  <2>3. CASE e.job # j BY <1>1, <1>2, <1>3, <1>4, <2>1, <2>3 DEF Told
  <2> QED BY <2>2, <2>3
<1>5. CASE \E i \in DOMAIN appends : i # 1 /\ appends[i].job = j
  <2>1. PICK i \in DOMAIN appends :
          /\ appends[i].job = j /\ appends[i].status = file[j].status
          /\ \A k \in DOMAIN appends : k > i => appends[k].job # j
    BY <1>5 DEF Told
  <2>2. i # 1 BY <1>1, <1>5, <2>1
  <2>3. i - 1 \in DOMAIN appends' /\ appends'[i - 1] = appends[i] BY <1>1, <2>2
  <2>4. \A k \in DOMAIN appends' : k > i - 1 => appends'[k].job # j BY <1>1, <2>1
  <2> QED BY <2>1, <2>3, <2>4 DEF Told
<1> QED BY <1>4, <1>5

\* The outcome a worker awaits the record of is the one it had.
OutcomeKept ==
  \A w \in Workers :
    worker'[w].pc = "final" => worker[w].pc = "final" /\ worker'[w].outcome = worker[w].outcome

LEMMA NearerOutcomes ==
  ASSUME worker \in [Workers -> Worker], worker' = Nearer
  PROVE  OutcomeKept
BY NearerStays, NearerOutcome DEF OutcomeKept, Stays

\* The only worker that is not idle moves, or all were idle: none is in final.
LEMMA MoveOutcomes ==
  ASSUME QueueInv, NEW v \in Workers, NEW c, NEW k, MovesTo(worker, worker', v, c, k),
         c # "final", worker[v].pc # "idle" \/ ~draining
  PROVE  OutcomeKept
BY DEF QueueInv, DrainingMarks, OneDrainer, MovesTo, OutcomeKept

LEMMA DropOutcomes ==
  ASSUME OutcomeAgrees, OutcomeKept, NEW n, Drops(mutations, mutations', n)
  PROVE  OutcomeAgrees'
BY DEF OutcomeAgrees, OutcomeKept, Drops

LEMMA AddOutcomes ==
  ASSUME OutcomeAgrees, OutcomeKept, mutations \in Seq(Mutation), NEW m \in Mutation,
         m.kind # "final", mutations' = Append(mutations, m)
  PROVE  OutcomeAgrees'
BY AppendOf DEF OutcomeAgrees, OutcomeKept

\* A step that leaves file, appends and log alone, and does not settle a mutation
\* whose caller appends to the log.
LEMMA LogKept ==
  ASSUME RecordsInv, LogParts, OutcomeAgrees', HeadKept,
         UNCHANGED <<file, appends, log, initLeft, alive>>,
         initPc' = "interrupting" => initPc = "interrupting",
         renamed /\ ~renamed' => Head(mutations).kind \notin {"final", "cancelQueued"}
  PROVE  LogParts'
<1>1. HeadTouches' BY DEF LogParts, HeadTouches, HeadKept, Present
<1>2. FirstLaunch' BY DEF LogParts, FirstLaunch
<1>3. LogFollows' BY DEF Told, Telling, HeadKept, LogParts, LogFollows
<1> QED BY <1>1, <1>2, <1>3 DEF LogParts

\* The outcome of a rename: an update to a final status is about to be told.
LEMMA EditedFinal ==
  ASSUME file \in [Jobs -> Job], NEW m \in Mutation, NEW j \in Jobs,
         Edited(m, j).status \in Final
  PROVE  \/ Edited(m, j).status = file[j].status
         \/ m.kind = "final" /\ m.job = j
         \/ m.kind = "cancelQueued" /\ m.job = j /\ Edited(m, j).status = "cancelled"
         \/ m.kind = "interrupt" /\ Active(j)
<1>1. file[j] \in Job /\ Absent \in Job /\ Absent.status = "absent" BY DEF Absent, Job, Status
<1> DEFINE e == Edited(m, j)
           r == file[j]
<1>2. \/ m.kind = "add" /\ e = [Absent EXCEPT !.status = "queued"]
      \/ m.kind = "cancelRunning" /\ e = [r EXCEPT !.cancelRequested = TRUE]
      \/ /\ m.kind = "cancelQueued" /\ m.job = j
         /\ e = [r EXCEPT !.cancelRequested = TRUE, !.status = "cancelled"]
      \/ m.kind = "run" /\ e = [r EXCEPT !.status = "running"]
      \/ m.kind = "final" /\ j = m.job
      \/ m.kind = "acknowledge" /\ e = [r EXCEPT !.acknowledged = TRUE]
      \/ m.kind = "interrupt" /\ Active(j)
      \/ m.kind = "clear" /\ e = Absent
      \/ e = r
  BY DEF Edited
<1> HIDE DEF e
<1>3. \/ e.status = r.status
      \/ m.kind = "final" /\ m.job = j
      \/ m.kind = "cancelQueued" /\ m.job = j /\ e.status = "cancelled"
      \/ m.kind = "interrupt" /\ Active(j)
      \/ e.status \in {"queued", "running", "absent"}
  BY <1>1, <1>2 DEF Job
<1>4. e.status \in Final BY DEF e
<1> QED BY <1>3, <1>4 DEF e, Final

\* What the update to the final status leaves in the record it found.
LEMMA EditedOver ==
  ASSUME file \in [Jobs -> Job], NEW m \in Mutation, NEW j \in Jobs,
         m.job = j, Present(j), m.kind = "final"
  PROVE  Edited(m, j).status = m.status
BY DEF Edited, Job

\* An update neither makes nor removes a record.
LEMMA EditedPresent ==
  ASSUME file \in [Jobs -> Job], NEW m \in Mutation, NEW j \in Jobs,
         m.kind \in {"final", "cancelQueued"}, m.kind = "final" => m.status \in Final
  PROVE  Edited(m, j).status # "absent" <=> Present(j)
BY DEF Edited, Job, Present, Cancellable, Final

LEMMA RenameLogs ==
  ASSUME RecordsInv, LogParts, Rename
  PROVE  LogParts'
<1> DEFINE h == Head(mutations)
<1>1. /\ renamed' /\ touched' = Touched(h) /\ mutations # <<>> /\ ~renamed
      /\ \A j \in Jobs : file'[j] = Edited(h, j)
      /\ UNCHANGED <<alive, mutations, worker, initPc, initLeft, appends, log>> /\ alive
  BY DEF Rename, starts, service, initialising, activity
<1>2. /\ file \in [Jobs -> Job] /\ mutations \in Seq(Mutation)
      /\ 1 \in DOMAIN mutations /\ h = mutations[1] /\ h \in Mutation
  BY <1>1, Known, TailOf DEF RecordsInv, TypeOK
<1>3. h.kind = "final" => h.status \in Final BY <1>2 DEF RecordsInv, QueueInv, MutationsOwned
<1>4. h.kind = "interrupt" => \A j \in Jobs : file[j] = Absent /\ ~Active(j)
  <2>1. h.kind = "interrupt" => initPc = "interrupting"
    BY <1>2 DEF RecordsInv, QueueInv, InterruptFirst
  <2> QED BY <2>1 DEF LogParts, FirstLaunch, Active, Absent
<1>5. HeadTouches'
  BY <1>1, <1>2, <1>3, <1>4, EditedPresent, EditedOver DEF Present, Touched, HeadTouches
<1>6. OutcomeAgrees' BY <1>1 DEF LogParts, OutcomeAgrees
<1>7. FirstLaunch' BY <1>1, <1>4 DEF RecordsInv, InterruptPending, Edited, LogParts, FirstLaunch
<1>8. LogFollows'
  <2>1. SUFFICES ASSUME NEW j \in Jobs, file'[j].status \in Final
                 PROVE  Telling(j)' \/ Told(j)'
    BY DEF LogFollows
  <2>2. CASE h.kind = "final" /\ h.job = j BY <1>1, <2>2 DEF Telling
  <2>3. CASE h.kind = "cancelQueued" /\ h.job = j /\ file'[j].status = "cancelled"
    BY <1>1, <2>3 DEF Telling
  <2>4. CASE file'[j].status = file[j].status
    <3>1. Told(j) BY <1>1, <2>1, <2>4 DEF LogParts, LogFollows, Telling
    <3> QED BY <1>1, <2>4, <3>1 DEF Told
  <2> QED BY <1>1, <1>2, <1>4, <2>1, <2>2, <2>3, <2>4, EditedFinal
<1> QED BY <1>5, <1>6, <1>7, <1>8 DEF LogParts

LEMMA CallLogs ==
  ASSUME RecordsInv, LogParts, CallStep
  PROVE  LogParts'
<1>1. UNCHANGED <<file, alive, worker, renamed, touched, initPc, initLeft, appends, log>>
  BY DEF CallStep, Start, ClearCompleted, Cancel, AcknowledgeIssue, service, initialising, activity
<1>2. PICK kind \in MutationKind \ {"final"}, j \in Jobs \cup {NoJob} :
        mutations' = Append(mutations, Of(kind, j))
  <2>1. CASE Start
    <3>1. started \in 0..MaxJobs /\ started < MaxJobs BY <2>1, Known DEF RecordsInv, Start, TypeOK
    <3>2. started + 1 \in Jobs BY <3>1, JobQueueAssumption DEF Jobs
    <3> QED BY <2>1, <3>2 DEF Start, Enqueue, MutationKind
  <2>2. CASE ClearCompleted BY <2>2 DEF ClearCompleted, Enqueue, MutationKind
  <2>3. CASE \E k \in Jobs : Cancel(k) \/ AcknowledgeIssue(k)
    BY <2>3 DEF Cancel, CancelKind, AcknowledgeIssue, Enqueue, MutationKind
  <2> QED BY <2>1, <2>2, <2>3 DEF CallStep
<1>3. Of(kind, j) \in Mutation /\ Of(kind, j).kind # "final" BY OfTyped
<1>4. OutcomeAgrees' BY <1>1, <1>2, <1>3, Known, AddOutcomes DEF LogParts, RecordsInv, OutcomeKept
<1>5. HeadKept BY <1>1, <1>2, AppendKept
<1> QED BY <1>1, <1>4, <1>5, LogKept

\* The runner ends: the outcome goes into the mutation and into the worker.
LEMMA FinishOutcomes ==
  ASSUME RecordsInv, OutcomeAgrees, NEW w \in Workers, worker[w].pc = "work",
         NEW s \in Status, NEW b \in BOOLEAN, Finish(w, worker, mutations, s, b)
  PROVE  OutcomeAgrees'
<1> DEFINE m == FinalUpdate(worker[w].job, s)
<1>1. mutations \in Seq(Mutation) /\ worker \in [Workers -> Worker] /\ worker[w] \in Worker
  BY Known DEF RecordsInv
<1>2. m \in Mutation /\ m.status = s
  <2>1. worker[w].job \in Jobs \cup {NoJob} BY <1>1, WorkerTyped
  <2> QED BY <2>1, FinalTyped
<1>3. /\ worker'[w].outcome = s
      /\ \A v \in Workers : v # w => worker'[v].pc = "idle"
  BY <1>1 DEF Finish, RecordsInv, QueueInv, DrainingMarks, OneDrainer, Worker
<1>4. \A i \in DOMAIN mutations : mutations[i].kind # "final" BY NoneOwned DEF RecordsInv, Owned
<1>5. \A i \in DOMAIN mutations' : mutations'[i].kind = "final" => mutations'[i] = m
  BY <1>1, <1>2, <1>4, AppendOf DEF Finish
<1> QED BY <1>2, <1>3, <1>5 DEF OutcomeAgrees

LEMMA WorkerLogs ==
  ASSUME RecordsInv, LogParts, NEW w \in Workers, WorkerStep(w), ~LookupFails(w)
  PROVE  LogParts'
<1>1. UNCHANGED <<file, alive, renamed, touched, initPc, initLeft, appends, log>>
  BY DEF WorkerStep, Lookup, FoundNothing, RunJob, ReportProgress, RunnerReturns,
         RunnerThrows, queue, initialising, activity
<1>2. /\ QueueInv /\ mutations \in Seq(Mutation) /\ worker \in [Workers -> Worker]
      /\ worker[w] \in Worker /\ OutcomeAgrees
  BY Known DEF RecordsInv, LogParts
<1>3. CASE Lookup(w) \/ FoundNothing(w)
  <2>1. UNCHANGED mutations /\ worker[w].pc # "idle" BY <1>3 DEF Lookup, FoundNothing, queue
  <2>2. OutcomeKept
    <3>1. CASE Lookup(w)
      <4>1. PICK k \in Jobs \cup {NoJob} : worker' = [worker EXCEPT ![w].pc = "found", ![w].job = k]
        BY <3>1 DEF Lookup
      <4>2. MovesTo(worker, worker', w, "found", k) BY <1>2, <4>1, MovePcJob DEF WorkerPc
      <4> QED BY <1>2, <2>1, <4>2, MoveOutcomes
    <3>2. CASE FoundNothing(w)
      BY <1>2, <2>1, <3>2, Known, LeaveMoves, MoveOutcomes DEF FoundNothing, RecordsInv
    <3> QED BY <1>3, <3>1, <3>2
  <2>3. OutcomeAgrees' BY <1>2, <2>1, <2>2, DropNone, DropOutcomes
  <2>4. HeadKept BY <1>1, <2>1 DEF HeadKept
  <2> QED BY <1>1, <2>3, <2>4, LogKept
<1>4. CASE RunJob(w) \/ ReportProgress(w)
  <2>1. PICK kind \in {"run", "progress"}, c \in {"starting", "progress"} :
          /\ mutations' = Append(mutations, Of(kind, worker[w].job))
          /\ worker' = [worker EXCEPT ![w].pc = c]
    BY <1>4 DEF RunJob, ReportProgress, Enqueue
  <2>2. worker[w].pc # "idle" BY <1>4 DEF RunJob, ReportProgress
  <2>3. MovesTo(worker, worker', w, c, worker[w].job) BY <1>2, <2>1, MovePc DEF WorkerPc
  <2>4. OutcomeKept BY <1>2, <2>2, <2>3, MoveOutcomes
  <2>5. Of(kind, worker[w].job) \in Mutation /\ Of(kind, worker[w].job).kind # "final"
    BY <1>2, WorkerTyped, OfTyped DEF MutationKind
  <2>6. OutcomeAgrees' BY <1>2, <2>1, <2>4, <2>5, AddOutcomes
  <2>7. HeadKept BY <1>1, <2>1, AppendKept
  <2> QED BY <1>1, <2>6, <2>7, LogKept
<1>5. CASE RunnerReturns(w) \/ RunnerThrows(w)
  <2>1. PICK s \in {"cancelled", "failed", "succeeded"}, b \in BOOLEAN :
          Finish(w, worker, mutations, s, b)
    BY <1>5 DEF RunnerReturns, RunnerThrows
  <2>2. s \in Status /\ worker[w].pc = "work" BY <1>5 DEF Status, Final, RunnerReturns, RunnerThrows
  <2>3. OutcomeAgrees' BY <1>2, <2>1, <2>2, FinishOutcomes
  <2>4. HeadKept BY <1>1, <2>1, AppendKept DEF Finish
  <2> QED BY <1>1, <2>3, <2>4, LogKept
<1> QED BY <1>3, <1>4, <1>5 DEF WorkerStep

\* The promises whose caller appends nothing.
LEMMA SettleLogs ==
  ASSUME RecordsInv, LogParts,
         SettleAdd \/ SettleQuietly \/ SettleProgress \/ SettleRun \/ SettleInterrupt
  PROVE  LogParts'
<1>1. /\ mutations # <<>> /\ renamed /\ renamed' = FALSE /\ mutations' = Rest
      /\ Head(mutations).kind \notin {"final", "cancelQueued"}
      /\ UNCHANGED <<file, alive, appends, log>>
      /\ initPc' = "interrupting" => initPc = "interrupting"
      /\ \/ initLeft' = initLeft
         \/ Head(mutations).kind = "interrupt" /\ initLeft' = touched
  <2>1. CASE SettleInterrupt BY <2>1 DEF SettleInterrupt, Settles, activity
  <2>2. CASE SettleAdd \/ SettleQuietly
    BY <2>2 DEF SettleAdd, SettleQuietly, Settles, activity, initialising
  <2>3. CASE SettleProgress \/ SettleRun
    BY <2>3 DEF SettleProgress, SettleRun, Settles, activity, initialising
  <2> QED BY <2>1, <2>2, <2>3
<1>2. /\ QueueInv /\ Stays(worker, Nearer) /\ Rest \in Seq(Mutation)
      /\ Drops(mutations, mutations', 1) /\ worker \in [Workers -> Worker]
  BY <1>1, Known, HeadLeaves DEF RecordsInv
<1>3. initLeft' = initLeft BY <1>1 DEF LogParts, HeadTouches, FirstLaunch
<1>4. OutcomeKept
  <2>1. CASE worker' = Nearer BY <1>2, <2>1, NearerOutcomes
  <2>2. ASSUME CallDrainQueue(Nearer, Rest) PROVE OutcomeKept
    <3>1. CASE DrainBusy BY <1>2, <2>2, <3>1, NearerOutcomes DEF CallDrainQueue
    <3>2. CASE ~DrainBusy
      <4>1. PICK v \in Workers : worker' = [Nearer EXCEPT ![v] = Looking(Len(Rest))]
        BY <2>2, <3>2 DEF CallDrainQueue
      <4>2. Len(Rest) \in Nat /\ Nearer \in [Workers -> Worker] BY <1>2 DEF Stays
      <4>3. MovesTo(Nearer, worker', v, "lookup", NoJob) BY <4>1, <4>2, MoveLooking
      <4>4. MovesTo(worker, worker', v, "lookup", NoJob) BY <1>2, <4>3, MoveAfterStay
      <4> QED BY <1>2, <3>2, <4>4, MoveOutcomes DEF DrainBusy
    <3> QED BY <3>1, <3>2
  <2>3. CASE SettleProgress \/ SettleRun
    <3>1. PICK v \in Workers :
            /\ worker[v].pc # "idle"
            /\ worker' = [Nearer EXCEPT ![v].pc = "work"] \/ NextTurn(v, Nearer, Rest)
      BY <2>3 DEF SettleProgress, SettleRun
    <3>2. CASE worker' = [Nearer EXCEPT ![v].pc = "work"]
      BY <1>2, <3>1, <3>2, OthersPc, MoveOutcomes DEF WorkerPc
    <3>3. CASE NextTurn(v, Nearer, Rest) BY <1>2, <3>1, <3>3, NextTurnMoves, MoveOutcomes
    <3> QED BY <3>1, <3>2, <3>3
  <2> QED BY <2>1, <2>2, <2>3 DEF SettleAdd, SettleQuietly, SettleInterrupt
<1>5. OutcomeAgrees' BY <1>2, <1>4, DropOutcomes DEF LogParts
<1> QED BY <1>1, <1>3, <1>5, LogKept DEF HeadKept

\* The head's caller appends the entry of the job it names, or of none.
LEMMA TellLogs ==
  ASSUME RecordsInv, LogParts, renamed, renamed' = FALSE, OutcomeAgrees',
         UNCHANGED <<file, log, initPc, initLeft, alive>>,
         NEW h \in Jobs \cup {NoJob}, h = Head(mutations).job,
         \/ /\ UNCHANGED appends
            /\ \A j \in Jobs : j = h => ~(file[j].status \in Final /\ Telling(j))
         \/ \E e \in Entry : /\ appends' = Append(appends, e)
                             /\ e.job = h /\ e.status = file[h].status
  PROVE  LogParts'
<1>1. HeadTouches' /\ FirstLaunch' BY DEF LogParts, HeadTouches, FirstLaunch
<1>2. LogFollows'
  <2>1. SUFFICES ASSUME NEW j \in Jobs, file[j].status \in Final
                 PROVE  Told(j)'
    BY DEF LogFollows
  <2>2. j # h => Told(j) BY <2>1 DEF LogParts, LogFollows, Telling
  <2>3. CASE \E e \in Entry : /\ appends' = Append(appends, e)
                              /\ e.job = h /\ e.status = file[h].status
    BY <2>2, <2>3, Known, ToldAppend DEF RecordsInv
  <2>4. CASE UNCHANGED appends /\ ~(j = h /\ Telling(j))
    <3>1. Told(j) BY <2>1, <2>2, <2>4 DEF LogParts, LogFollows
    <3> QED BY <2>4, <3>1 DEF Told
  <2> QED BY <2>1, <2>3, <2>4
<1> QED BY <1>1, <1>2 DEF LogParts

LEMMA SettleFinalLogs ==
  ASSUME RecordsInv, LogParts, SettleFinal
  PROVE  LogParts'
<1> DEFINE h == Head(mutations).job
<1>1. /\ mutations # <<>> /\ renamed /\ renamed' = FALSE /\ mutations' = Rest
      /\ Head(mutations).kind = "final"
      /\ UNCHANGED <<file, alive, log, initPc, initLeft>>
  BY DEF SettleFinal, Settles, initialising
<1>2. /\ QueueInv /\ Stays(worker, Nearer) /\ Rest \in Seq(Mutation) /\ h \in Jobs \cup {NoJob}
      /\ Drops(mutations, mutations', 1) /\ worker \in [Workers -> Worker]
      /\ 1 \in DOMAIN mutations /\ Head(mutations) = mutations[1]
  BY <1>1, Known, HeadLeaves, TailOf DEF RecordsInv
<1>3. PICK v \in Workers :
        /\ worker[v].pc = "final" /\ worker[v].job = h
        /\ \/ /\ touched # {}
              /\ worker' = [Nearer EXCEPT ![v].pc = "log"]
              /\ appends' = Append(appends, FinalEntry(worker[v].job, worker[v].outcome))
           \/ /\ touched = {}
              /\ NextTurn(v, Nearer, Rest)
              /\ UNCHANGED appends
  BY DEF SettleFinal
<1>4. OutcomeKept
  <2>1. CASE worker' = [Nearer EXCEPT ![v].pc = "log"]
    BY <1>2, <1>3, <2>1, OthersPc, MoveOutcomes DEF WorkerPc
  <2>2. CASE NextTurn(v, Nearer, Rest) BY <1>2, <1>3, <2>2, NextTurnMoves, MoveOutcomes
  <2> QED BY <1>3, <2>1, <2>2
<1>5. OutcomeAgrees' BY <1>2, <1>4, DropOutcomes DEF LogParts
<1>6. /\ touched = {j \in Jobs : j = h /\ Present(j)}
      /\ \A j \in touched : file[j].status = Head(mutations).status
      /\ Head(mutations).status = worker[v].outcome
  BY <1>1, <1>2, <1>3 DEF LogParts, HeadTouches, OutcomeAgrees
<1>7. CASE touched # {}
  <2> DEFINE e == FinalEntry(h, worker[v].outcome)
  <2>1. h \in Jobs /\ file[h].status = worker[v].outcome BY <1>6, <1>7
  <2>2. worker[v].outcome \in Status BY <1>2, WorkerTyped
  <2>3. e \in Entry /\ e.job = h /\ e.status = file[h].status BY <2>1, <2>2 DEF FinalEntry, Entry
  <2>4. appends' = Append(appends, e) BY <1>3, <1>7
  <2> QED BY <1>1, <1>2, <1>5, <2>3, <2>4, TellLogs
<1>8. CASE touched = {} BY <1>1, <1>2, <1>3, <1>5, <1>6, <1>8, TellLogs DEF Present, Final
<1> QED BY <1>7, <1>8

LEMMA SettleCancelLogs ==
  ASSUME RecordsInv, LogParts, SettleCancelQueued
  PROVE  LogParts'
<1> DEFINE h == Head(mutations).job
<1>1. /\ mutations # <<>> /\ renamed /\ renamed' = FALSE /\ mutations' = Rest
      /\ Head(mutations).kind = "cancelQueued" /\ worker' = Nearer
      /\ UNCHANGED <<file, alive, log, initPc, initLeft>>
  BY DEF SettleCancelQueued, Settles, initialising
<1>2. /\ h \in Jobs \cup {NoJob}
      /\ Drops(mutations, mutations', 1) /\ worker \in [Workers -> Worker]
  BY <1>1, Known, HeadLeaves DEF RecordsInv
<1>3. OutcomeAgrees' BY <1>1, <1>2, NearerOutcomes, DropOutcomes DEF LogParts
<1>4. touched = {j \in Jobs : j = h /\ Present(j)} BY <1>1 DEF LogParts, HeadTouches
<1>5. ASSUME NEW j \in touched, file[j].status = "cancelled",
             appends' = Append(appends, [job |-> j, status |-> "cancelled", from |-> "cancel"])
      PROVE  LogParts'
  <2> DEFINE e == [job |-> j, status |-> "cancelled", from |-> "cancel"]
  <2>1. j = h /\ j \in Jobs BY <1>4, <1>5
  <2>2. e \in Entry /\ e.job = h /\ e.status = file[h].status BY <1>5, <2>1 DEF Entry, Status, Final
  <2> QED BY <1>1, <1>2, <1>3, <1>5, <2>2, TellLogs
<1>6. ASSUME UNCHANGED appends, \A j \in touched : file[j].status # "cancelled"
      PROVE  LogParts'
  BY <1>1, <1>2, <1>3, <1>4, <1>6, TellLogs DEF Telling, Present
<1> QED BY <1>5, <1>6 DEF SettleCancelQueued

\* The log takes the oldest append.
LEMMA RecordLogs ==
  ASSUME RecordsInv, LogParts, LogCancel \/ LogFinal
  PROVE  LogParts'
<1>1. /\ appends # <<>> /\ Recorded(Head(appends)) /\ appends' = Tail(appends)
      /\ UNCHANGED <<file, alive, mutations, renamed, touched, initPc, initLeft>>
  BY DEF LogCancel, LogFinal, queue, initialising
<1>2. /\ QueueInv /\ mutations \in Seq(Mutation) /\ worker \in [Workers -> Worker]
      /\ appends \in Seq(Entry) /\ log \in [Jobs -> Seq(Status)] /\ Stays(worker, worker)
      /\ Drops(mutations, mutations', 0)
  BY <1>1, Known DEF RecordsInv
<1>3. OutcomeKept
  <2>1. CASE LogCancel BY <2>1 DEF LogCancel, service, OutcomeKept
  <2>2. CASE LogFinal
    <3>1. PICK v \in Workers : worker[v].pc = "log" /\ NextTurn(v, worker, mutations)
      BY <2>2 DEF LogFinal
    <3>2. MovesTo(worker, worker', v, "lookup", NoJob) BY <1>2, <3>1, NextTurnMoves
    <3> QED BY <1>2, <3>1, <3>2, MoveOutcomes
  <2> QED BY <2>1, <2>2
<1>4. OutcomeAgrees' BY <1>2, <1>3, DropOutcomes DEF LogParts
<1>5. HeadTouches' /\ FirstLaunch' BY <1>1 DEF LogParts, HeadTouches, FirstLaunch, Present
<1>6. \A j \in Jobs : (Told(j) => Told(j)') /\ (Telling(j) => Telling(j)')
  BY <1>1, <1>2, ToldRecorded DEF Telling
<1>7. LogFollows' BY <1>1, <1>6 DEF LogParts, LogFollows
<1> QED BY <1>4, <1>5, <1>7 DEF LogParts

\* A fault ends what LogParts is about.
LEMMA FaultExcuses ==
  ASSUME QueueInv, budget' = [budget EXCEPT !.faults = @ + 1]
  PROVE  ~NoFault'
BY FaultCounts DEF NoFault

LEMMA LogInit == Init => LogInv
<1> SUFFICES ASSUME Init PROVE LogInv OBVIOUS
<1>1. /\ ~renamed /\ mutations = <<>> /\ initLeft = {} /\ \A j \in Jobs : file[j] = Absent
  BY DEF Init
<1>2. Absent.status \notin Final BY DEF Absent, Final
<1> QED BY <1>1, <1>2, RecordsInit DEF LogInv, LogParts, HeadTouches, OutcomeAgrees, FirstLaunch,
                                 LogFollows

LEMMA LogStep == LogInv /\ [Next]_vars => LogInv'
<1> SUFFICES ASSUME LogInv, [Next]_vars PROVE LogInv' OBVIOUS
<1>1. RecordsInv /\ RecordsInv' /\ QueueInv BY RecordsStep DEF LogInv, RecordsInv
<1> SUFFICES ASSUME NoFault' PROVE LogParts' BY <1>1 DEF LogInv
<1>2. /\ budget \in [cancels : Nat, crashes : Nat, faults : Nat]
      /\ budget' # [budget EXCEPT !.faults = @ + 1]
  BY <1>1, Known, FaultExcuses
<1>3. NoFault
  <2>1. \/ budget' = budget \/ budget' = [budget EXCEPT !.cancels = @ + 1]
        \/ budget' = [budget EXCEPT !.crashes = @ + 1]
    <3>1. CASE CallStep BY <3>1 DEF CallStep, Start, ClearCompleted, Cancel, AcknowledgeIssue
    <3>2. CASE MutationStep
      BY <1>2, <3>2 DEF MutationStep, Rename, SettleAdd, SettleCancelQueued, SettleQuietly,
         SettleRun, SettleProgress, SettleFinal, SettleInterrupt, RejectCall, RejectRun,
         RejectProgress, RejectFinal, RejectInterrupt, Rejects
    <3>3. CASE ActivityStep
      BY <1>2, <3>3 DEF ActivityStep, LogCancel, LogFinal, LogFails, LogInterrupted,
         LogInterruptedFails
    <3>4. CASE \E w \in Workers : WorkerStep(w)
      BY <1>2, <3>4 DEF WorkerStep, Lookup, LookupFails, FoundNothing, RunJob, ReportProgress,
         RunnerReturns, RunnerThrows
    <3>5. CASE Launch \/ Crash \/ UNCHANGED vars BY <3>5 DEF Launch, Crash, vars
    <3> QED BY <3>1, <3>2, <3>3, <3>4, <3>5 DEF Next
  <2>2. CASE budget' = [budget EXCEPT !.crashes = @ + 1] BY <1>2, <2>2 DEF NoFault
  <2>3. CASE budget' = budget \/ budget' = [budget EXCEPT !.cancels = @ + 1]
    BY <1>2, <2>3 DEF NoFault
  <2> QED BY <2>1, <2>2, <2>3
<1>4. LogParts BY <1>3 DEF LogInv
<1>5. CASE CallStep BY <1>1, <1>4, <1>5, CallLogs
<1>6. CASE MutationStep
  <2>1. ~(RejectCall \/ RejectRun \/ RejectProgress \/ RejectFinal \/ RejectInterrupt)
    BY <1>2 DEF RejectCall, RejectRun, RejectProgress, RejectFinal, RejectInterrupt, Rejects
  <2> QED BY <1>1, <1>4, <1>6, <2>1, RenameLogs, SettleLogs, SettleFinalLogs, SettleCancelLogs
       DEF MutationStep
<1>7. CASE ActivityStep
  BY <1>1, <1>2, <1>4, <1>7, RecordLogs
    DEF LogFails, LogInterrupted, LogInterruptedFails, LogParts, FirstLaunch, ActivityStep
<1>8. CASE \E w \in Workers : WorkerStep(w) BY <1>1, <1>2, <1>4, <1>8, WorkerLogs DEF LookupFails
<1>9. CASE Launch
  <2>1. /\ ~renamed' /\ \A j \in Jobs : file'[j] = Absent /\ initLeft' = {}
        /\ \A i \in DOMAIN mutations' : mutations'[i].kind # "final"
    BY <1>1, <1>4, <1>9 DEF Launch, QueueInv, DeadIsEmpty, LogParts, FirstLaunch, Of
  <2>2. Absent.status \notin Final /\ initLeft' = {}
    BY <1>4, <1>9 DEF Absent, Final, Launch, LogParts, FirstLaunch
  <2> QED BY <2>1, <2>2 DEF LogParts, HeadTouches, OutcomeAgrees, FirstLaunch, LogFollows
<1>10. CASE Crash BY <1>2, <1>10 DEF Crash, NoFault
<1>11. CASE UNCHANGED vars BY <1>1, <1>4, <1>11, LogKept DEF vars, HeadKept, LogParts, OutcomeAgrees
<1> QED BY <1>5, <1>6, <1>7, <1>8, <1>9, <1>10, <1>11 DEF Next

----------------
(* The theorems *)

\* Without a fault of the file system, a record on disk that says running is that
\* of the job runJob is in, whatever was cancelled, cleared, crashed and relaunched.
THEOREM RunningIsHeld == Spec => []NoOrphanRunning
<1>1. RecordsInv => NoOrphanRunning BY DEF RecordsInv
<1> QED BY <1>1, RecordsInit, RecordsStep, PTL DEF Spec

\* Without a crash or a fault, when all has settled the last activity entry of a job
\* that is over is the status its record shows: nothing is over without an entry,
\* nor is an older outcome recorded after a newer one.
THEOREM OutcomesAreLogged == Spec => []SettledIsLogged
<1>1. LogInv => SettledIsLogged
  BY DEF LogInv, RecordsInv, QueueInv, RunShows, NoFault, LogParts, LogFollows, Telling, Told,
         SettledIsLogged
<1> QED BY <1>1, LogInit, LogStep, PTL DEF Spec
=============================================================================
