------------------------ MODULE CollectionJobProofs ------------------------
(* Machine-checked theorems about CollectionJob, for every tree of
   documents, page, batch and chunk size, and number of failures.  The
   first part proves CollectionJobInv inductive: the variables keep their
   types, the documents a target held at the call are kept under the
   policies skip and fail, and a cancelled job starts no commit.  The
   second strengthens it to WholeJobInv, which follows each document from
   the generators through chunk, batches and split batches to Firestore:
   DeletesScope, TargetComplete, ReportsCommitted and NoPartialFile. *)
EXTENDS CollectionJob, FiniteSetTheorems, WellFoundedInduction, TLAPS


----------------
(* Numbers, sequences and queries *)

LEMMA LeastOf ==
  ASSUME NEW T \in SUBSET Nat, T # {}
  PROVE  \E n \in T : \A m \in T : n <= m
<1>1. PICK n \in T : \A m \in T : ~(<<m, n>> \in OpToRel(<, Nat)) BY NatLessThanWellFounded, WFMin
<1>2. \A m \in T : ~(m < n) BY <1>1 DEF OpToRel
<1> QED BY <1>2

LEMMA FirstTyped ==
  ASSUME NEW page \in SUBSET Docs, page # {}
  PROVE  First(page) \in page
BY LeastOf, TreeAssumption DEF First

LEMMA GreatestOf ==
  ASSUME NEW n \in Nat, NEW T \in SUBSET (1..n), T # {}
  PROVE  \E i \in T : \A k \in T : k <= i
<1> DEFINE D == {n - i : i \in T}
<1>1. D \in SUBSET Nat OBVIOUS
<1>2. D # {} OBVIOUS
<1> HIDE DEF D
<1>3. PICK d \in D : \A e \in D : d <= e BY <1>1, <1>2, LeastOf
<1>4. PICK i \in T : d = n - i BY DEF D
<1>5. ASSUME NEW k \in T PROVE k <= i
  <2>1. n - k \in D BY DEF D
  <2>2. n - i <= n - k BY <1>3, <1>4, <2>1
  <2>3. k \in Nat /\ i \in Nat OBVIOUS
  <2> QED BY <2>2, <2>3
<1> QED BY <1>5

LEMMA LastAboutTyped ==
  ASSUME NEW batch \in Seq(Op), NEW d, About(batch, d) # {}
  PROVE  LastAbout(batch, d) \in Nat
<1>1. About(batch, d) \in SUBSET (1..Len(batch)) /\ Len(batch) \in Nat BY DEF About
<1>2. \E i \in About(batch, d) : \A k \in About(batch, d) : k <= i BY <1>1, GreatestOf
<1>3. ASSUME NEW i \in About(batch, d) PROVE batch[i].line \in Nat
  <2>1. i \in DOMAIN batch BY DEF About
  <2>2. batch[i] \in Op BY <2>1
  <2> QED BY <2>2 DEF Op
<1> QED BY <1>2, <1>3 DEF LastAbout

LEMMA CountTyped ==
  ASSUME progress \in [Counter -> Nat], NEW c \in Counter, NEW n \in Nat
  PROVE  Count(c, n) \in [Counter -> Nat]
BY DEF Count

LEMMA CountedTyped ==
  ASSUME source \subseteq Docs
  PROVE  Counted \in Nat
BY TreeAssumption, FS_Subset, FS_CardinalityType DEF Direct, Counted

LEMMA TopTyped ==
  ASSUME stack \in Seq(Frame), stack # <<>>
  PROVE  /\ Top \in Frame /\ Top = stack[Len(stack)] /\ Len(stack) \in DOMAIN stack
         /\ Front(stack) \in Seq(Frame)
         /\ Len(Front(stack)) = Len(stack) - 1
         /\ \A i \in DOMAIN Front(stack) : i \in DOMAIN stack /\ Front(stack)[i] = stack[i]
<1>1. Len(stack) \in Nat \ {0} /\ DOMAIN stack = 1..Len(stack) OBVIOUS
<1>2. Top \in Frame /\ Top = stack[Len(stack)] /\ Len(stack) \in DOMAIN stack BY <1>1 DEF Top, Last
<1>3. /\ Front(stack) \in Seq(Frame)
      /\ Len(Front(stack)) = Len(stack) - 1
      /\ DOMAIN Front(stack) = 1..(Len(stack) - 1)
      /\ \A i \in 1..(Len(stack) - 1) : Front(stack)[i] = stack[i]
  BY <1>1 DEF Front
<1> QED BY <1>1, <1>2, <1>3

LEMMA SetTopTyped ==
  ASSUME stack \in Seq(Frame), stack # <<>>, NEW f \in Frame
  PROVE  /\ SetTop(f) \in Seq(Frame) /\ SetTop(f) # <<>>
         /\ Len(SetTop(f)) = Len(stack) /\ SetTop(f)[Len(stack)] = f
         /\ \A i \in DOMAIN SetTop(f) :
              i \in DOMAIN stack /\ (i # Len(stack) => SetTop(f)[i] = stack[i])
BY TopTyped DEF SetTop

LEMMA SequenceOfOne ==
  ASSUME NEW S, NEW x \in S
  PROVE  <<x>> \in Seq(S) /\ <<>> \in Seq(S)
OBVIOUS

LEMMA FrameOfTyped ==
  ASSUME NEW c \in Collections
  PROVE  FrameOf(c) \in Frame
BY DEF FrameOf, Frame

LEMMA HalvesTyped ==
  ASSUME NEW batch \in Seq(Op), Len(batch) > 1
  PROVE  /\ Halves(batch) \in Seq(Seq(Op))
         /\ \A i \in DOMAIN Halves(batch) : \A k \in DOMAIN Halves(batch)[i] :
              \E n \in DOMAIN batch : Halves(batch)[i][k] = batch[n]
<1> DEFINE k == (Len(batch) + 1) \div 2
           one == SubSeq(batch, 1, k)
           two == SubSeq(batch, k + 1, Len(batch))
<1>1. k \in 1..Len(batch) OBVIOUS
<1>2. one \in Seq(Op) /\ \A n \in DOMAIN one : n \in DOMAIN batch /\ one[n] = batch[n] BY <1>1
<1>3. two \in Seq(Op) /\ \A n \in DOMAIN two : k + n \in DOMAIN batch /\ two[n] = batch[k + n]
  BY <1>1
<1>4. Halves(batch) = <<one, two>> BY DEF Halves
<1> HIDE DEF k, one, two
<1> QED BY <1>2, <1>3, <1>4
LEMMA CleanedTyped ==
  ASSUME files \in [{"output", "temp"} -> File]
  PROVE  Cleaned \in [{"output", "temp"} -> File]
<1>1. NoFile \in File BY DEF NoFile, File
<1> QED BY <1>1 DEF Cleaned

----------------
(* The initial state *)

\* A job starts with the invariant.
LEMMA InitKeeps ==
  ASSUME Init
  PROVE  CollectionJobInv
<1>1. source \subseteq Docs /\ target \subseteq Docs BY JobAssumption DEF Init
<1>2. lines \in Seq(Docs \cup {Bad})
  <2>1. lines \in Files \/ lines = <<>> BY DEF Init
  <2>2. Files \subseteq Seq(Docs \cup {Bad}) BY JobAssumption
  <2>3. <<>> \in Seq(Docs \cup {Bad}) OBVIOUS
  <2> QED BY <2>1, <2>2, <2>3
<1>3. stack \in Seq(Frame) /\ (Kind # "import" => stack = <<FrameOf(Root)>>)
  BY FrameOfTyped, TreeAssumption, SequenceOfOne DEF Init
<1>4. files \in [{"output", "temp"} -> File]
  <2>1. NoFile \in File /\ Created \in File BY DEF NoFile, Created, File
  <2>2. PICK output \in File, temp \in File : files = [output |-> output, temp |-> temp]
    BY <2>1 DEF Init
  <2> QED BY <2>2
<1>5. request \in Request /\ begun = [source |-> source, target |-> target, lines |-> lines]
  BY DEF Init
<1>6. TypeOK
  <2>1. line \in [Docs -> Nat] /\ progress \in [Counter -> Nat] BY DEF Init
  <2>2. begun \in [source : SUBSET Docs, target : SUBSET Docs, lines : Seq(Docs \cup {Bad})]
    BY <1>1, <1>2, <1>5
  <2>3. /\ chunk \in Seq(Docs) /\ writable \subseteq Docs /\ pending \in Seq(Op)
        /\ committing \in Seq(Seq(Op)) /\ pc \in Pc /\ cancelled \in BOOLEAN
        /\ outcome \in {"running", "returned", "cancelled", "failed"}
        /\ committed \in Nat /\ touched \subseteq Docs /\ faults \in Nat
    <3>1. /\ chunk = <<>> /\ writable = {} /\ pending = <<>> /\ committing = <<>>
          /\ pc = "count" /\ cancelled = FALSE /\ outcome = "running"
          /\ committed = 0 /\ touched = {} /\ faults = 0
      BY DEF Init
    <3>2. cancelled \in BOOLEAN BY <3>1
    <3>3. pc \in Pc /\ outcome \in {"running", "returned", "cancelled", "failed"} BY <3>1 DEF Pc
    <3>4. chunk \in Seq(Docs) /\ pending \in Seq(Op) /\ committing \in Seq(Seq(Op)) BY <3>1
    <3> QED BY <3>1, <3>2, <3>3, <3>4
  <2> QED BY <1>1, <1>2, <1>3, <1>4, <1>5, <2>1, <2>2, <2>3 DEF TypeOK
<1>7. KindShapes BY <1>3 DEF Init, KindShapes, Kind
<1>8. CursorsKnown BY <1>3 DEF Init, CursorsKnown, Kind
<1>9. PushesHead /\ SparesExisting /\ KeepsExisting
  BY <1>1, <1>5 DEF Init, PushesHead, SparesExisting, KeepsExisting
<1> QED BY <1>6, <1>7, <1>8, <1>9 DEF CollectionJobInv

----------------
(* What actions have in common *)

\* Nothing is added to what is writable, pending or being committed.
LEMMA SparesKept ==
  ASSUME SparesExisting, UNCHANGED <<request, begun, target, writable, pending, committing>>,
         pc' \in {"write", "push"} => pc \in {"write", "push"}
  PROVE  SparesExisting'
BY DEF SparesExisting

LEMMA KeepsExistingKept ==
  ASSUME KeepsExisting, UNCHANGED <<request, begun, line>>
  PROVE  KeepsExisting'
BY DEF KeepsExisting

\* The state run() leaves when it throws.
LEMMA ThrowsKeeps ==
  ASSUME CollectionJobInv,
         \E how \in {"cancelled", "failed"} : Throws(how),
         committing' \in {committing, <<>>}, faults' \in Nat,
         source' \subseteq Docs, target' \subseteq Docs, target \subseteq target',
         line' \in [Docs -> Nat], KeepsExisting',
         UNCHANGED <<reader, chunk, writable, pending, progress, committed, world>>
  PROVE  CollectionJobInv'
<1>1. /\ TypeOK /\ KindShapes /\ CursorsKnown /\ SparesExisting
      /\ pc' = "over" /\ outcome' \in {"cancelled", "failed"}
  BY DEF CollectionJobInv, Throws, Ends
<1>2. files' \in [{"output", "temp"} -> File] BY <1>1, CleanedTyped DEF TypeOK, Throws
<1>3. committing' \in Seq(Seq(Op))
  <2>1. committing \in Seq(Seq(Op)) /\ <<>> \in Seq(Seq(Op)) BY <1>1 DEF TypeOK
  <2> QED BY <2>1
<1>4. TypeOK' BY <1>1, <1>2, <1>3 DEF TypeOK, Pc, reader, world
<1>5. KindShapes' BY <1>1 DEF KindShapes, Kind, reader, world
<1>6. CursorsKnown' BY <1>1 DEF CursorsKnown, reader
<1>7. PushesHead' BY <1>1 DEF PushesHead
<1>8. SparesExisting' BY <1>1 DEF SparesExisting, world
<1> QED BY <1>4, <1>5, <1>6, <1>7, <1>8 DEF CollectionJobInv

\* A generator returns: below it is one that waits with its cursor.
LEMMA ReturnKeeps ==
  ASSUME TypeOK, CursorsKnown, stack # <<>>, Return
  PROVE  /\ stack' \in Seq(Frame)
         /\ pc' \in {"finish", "check", "subs"}
         /\ pc' = "subs" => stack' # <<>>
         /\ \A i \in DOMAIN stack' : stack'[i].cursor \in Docs
<1>1. stack \in Seq(Frame) /\ stack' = Front(stack) BY DEF TypeOK, Return
<1>2. /\ stack' \in Seq(Frame)
      /\ Len(stack') = Len(stack) - 1
      /\ \A i \in DOMAIN stack' : i \in DOMAIN stack /\ stack'[i] = stack[i]
  BY <1>1, TopTyped
<1>3. \A i \in DOMAIN stack' : stack'[i].cursor \in Docs BY <1>1, <1>2 DEF CursorsKnown
<1>4. pc' \in {"finish", "check", "subs"} /\ (pc' = "subs" => Len(stack) # 1) BY DEF Return, Ended
<1>5. pc' = "subs" => stack' # <<>> BY <1>1, <1>2, <1>4
<1> QED BY <1>2, <1>3, <1>4, <1>5

\* A document is given: a deletion, which overwrites, may write it.
LEMMA GiveKeeps ==
  ASSUME TypeOK, KindShapes, NEW d \in Docs, Kind # "import", Give(d)
  PROVE  /\ chunk' \in Seq(Docs) /\ writable' \subseteq Docs
         /\ progress' \in [Counter -> Nat]
         /\ files' \in [{"output", "temp"} -> File]
         /\ pc' \in {"write", "check", "list", "next"}
         /\ pc' = "write" => request.policy = "overwrite"
<1>1. /\ chunk \in Seq(Docs) /\ writable \subseteq Docs /\ progress \in [Counter -> Nat]
      /\ files \in [{"output", "temp"} -> File]
  BY DEF TypeOK
<1>2. Resumed \in {"list", "next"} BY DEF Resumed
<1>3. CASE Kind = "delete"
  <2>1. /\ chunk' = <<d>> /\ writable' = {d} /\ pc' = "write"
        /\ UNCHANGED <<progress, files>>
    BY <1>3 DEF Give, Exports
  <2>2. request.policy = "overwrite" BY <1>3 DEF KindShapes
  <2>3. <<d>> \in Seq(Docs) OBVIOUS
  <2> QED BY <1>1, <2>1, <2>2, <2>3
<1>4. CASE Kind = "copy"
  <2>1. /\ chunk' = Append(chunk, d)
        /\ pc' \in {Resumed, "check"}
        /\ UNCHANGED <<writable, progress, files>>
    BY <1>4 DEF Give, Exports
  <2>2. Append(chunk, d) \in Seq(Docs) BY <1>1
  <2> QED BY <1>1, <1>2, <2>1, <2>2
<1>5. CASE Kind \in Exports
  <2>1. /\ \E f \in {"output", "temp"} : files' = [files EXCEPT ![f].docs = @ \cup {d}]
        /\ progress' = Count("read", 1)
        /\ pc' = Resumed
        /\ UNCHANGED <<chunk, writable>>
    BY <1>5 DEF Give, Exports
  <2>2. progress' \in [Counter -> Nat] BY <1>1, <2>1, CountTyped DEF Counter
  <2>3. files' \in [{"output", "temp"} -> File]
    <3>1. PICK f \in {"output", "temp"} : files' = [files EXCEPT ![f].docs = @ \cup {d}] BY <2>1
    <3>2. files[f] \in File BY <1>1
    <3>3. [files[f] EXCEPT !.docs = @ \cup {d}] \in File BY <3>2 DEF File
    <3>4. files' = [files EXCEPT ![f] = [files[f] EXCEPT !.docs = @ \cup {d}]] BY <3>1
    <3> QED BY <1>1, <3>3, <3>4
  <2> QED BY <1>1, <1>2, <2>1, <2>2, <2>3
<1> QED BY <1>3, <1>4, <1>5 DEF Give
----------------
(* Every action keeps the invariant *)

LEMMA RejectsKeeps ==
  ASSUME CollectionJobInv, Rejects
  PROVE  CollectionJobInv'
<1>1. KeepsExisting /\ TypeOK BY DEF CollectionJobInv
<1>2. /\ Throws("failed") /\ UNCHANGED <<db, reader, batcher, progress, committed, world>>
      /\ faults' \in Nat
  BY <1>1 DEF Rejects, Fault, TypeOK
<1>3. KeepsExisting' BY <1>1, <1>2, KeepsExistingKept DEF db, world
<1> QED BY <1>1, <1>2, <1>3, ThrowsKeeps DEF TypeOK, db, batcher

LEMMA SeesCancelKeeps ==
  ASSUME CollectionJobInv, SeesCancel
  PROVE  CollectionJobInv'
BY KeepsExistingKept, ThrowsKeeps DEF CollectionJobInv, SeesCancel, db, world, TypeOK, batcher

LEMMA CountCollectionKeeps ==
  ASSUME CollectionJobInv, CountCollection
  PROVE  CollectionJobInv'
<1>1. TypeOK /\ KindShapes /\ CursorsKnown /\ SparesExisting /\ KeepsExisting
  BY DEF CollectionJobInv
<1>2. /\ pc = "count" /\ Kind # "import" /\ pc' = "query" /\ progress' = Count("total", Counted)
      /\ UNCHANGED <<db, reader, batcher, files, outcome, committed, world, faults>>
  BY DEF CountCollection, At
<1>3. progress' \in [Counter -> Nat] BY <1>1, <1>2, CountedTyped, CountTyped DEF TypeOK, Counter
<1>4. TypeOK' BY <1>1, <1>2, <1>3 DEF TypeOK, Pc, db, reader, batcher, world
<1>5. KindShapes' BY <1>1, <1>2 DEF KindShapes, Kind, reader, world
<1>6. CursorsKnown' BY <1>1, <1>2 DEF CursorsKnown, reader
<1>7. PushesHead' BY <1>2 DEF PushesHead
<1>8. SparesExisting' BY <1>1, <1>2, SparesKept DEF db, batcher, world
<1>9. KeepsExisting' BY <1>1, <1>2, KeepsExistingKept DEF db, world
<1> QED BY <1>4, <1>5, <1>6, <1>7, <1>8, <1>9 DEF CollectionJobInv

\* A step that only moves the generators.
LEMMA ReaderKeeps ==
  ASSUME CollectionJobInv, Kind # "import",
         stack' \in Seq(Frame),
         pc' \in {"count", "query", "next", "list", "subs", "finish", "check"},
         pc' \in {"count", "query", "next", "list", "subs"} => stack' # <<>>,
         \A i \in DOMAIN stack' :
           stack'[i].cursor \in Docs \/ (i = Len(stack') /\ pc' \in {"count", "query", "next"}),
         UNCHANGED <<db, lines, batcher, progress, files, outcome, committed, world, faults>>
  PROVE  CollectionJobInv'
<1>1. TypeOK /\ KindShapes /\ SparesExisting /\ KeepsExisting BY DEF CollectionJobInv
<1>2. TypeOK' BY <1>1 DEF TypeOK, Pc, db, batcher, world
<1>3. KindShapes' BY <1>1 DEF KindShapes, Kind, world
<1>4. CursorsKnown' BY DEF CursorsKnown
<1>5. PushesHead' BY DEF PushesHead
<1>6. SparesExisting' BY <1>1, SparesKept DEF db, batcher, world
<1>7. KeepsExisting' BY <1>1, KeepsExistingKept DEF db, world
<1> QED BY <1>2, <1>3, <1>4, <1>5, <1>6, <1>7 DEF CollectionJobInv

\* While a generator is awaited, it is on the stack.
LEMMA StackedThere ==
  ASSUME CollectionJobInv, Kind # "import", pc \in {"count", "query", "next", "list", "subs"}
  PROVE  stack \in Seq(Frame) /\ stack # <<>> /\ Top \in Frame
BY TopTyped DEF CollectionJobInv, TypeOK, KindShapes

LEMMA FetchPageKeeps ==
  ASSUME CollectionJobInv, FetchPage
  PROVE  CollectionJobInv'
<1>1. /\ pc = "query"
      /\ UNCHANGED <<db, lines, batcher, progress, files, outcome, committed, world, faults>>
  BY DEF FetchPage, At
<1>2. TypeOK /\ CursorsKnown /\ Kind # "import" BY <1>1 DEF CollectionJobInv, KindShapes
<1>3. stack \in Seq(Frame) /\ stack # <<>> /\ Top \in Frame BY <1>1, <1>2, StackedThere
<1> DEFINE page == Page(source, Top.coll, Top.cursor)
           frame == [Top EXCEPT !.page = page, !.more = More(page)]
<1>4. CASE Return BY <1>1, <1>2, <1>3, <1>4, ReturnKeeps, ReaderKeeps
<1>5. CASE stack' = SetTop(frame) /\ pc' = "next"
  <2>1. page \subseteq Docs BY <1>2 DEF Page, Direct, TypeOK
  <2>2. More(page) \in BOOLEAN BY DEF More
  <2>3. frame \in Frame
    <3> HIDE DEF page
    <3> QED BY <1>3, <2>1, <2>2 DEF Frame
  <2>4. /\ stack' \in Seq(Frame) /\ stack' # <<>> /\ Len(stack') = Len(stack)
        /\ \A i \in DOMAIN stack' :
             i \in DOMAIN stack /\ (i # Len(stack) => stack'[i] = stack[i])
    BY <1>3, <1>5, <2>3, SetTopTyped
  <2>5. \A i \in DOMAIN stack' : stack'[i].cursor \in Docs \/ i = Len(stack')
    BY <1>2, <2>4 DEF CursorsKnown
  <2> QED BY <1>1, <1>2, <1>5, <2>4, <2>5, ReaderKeeps
<1> QED BY <1>4, <1>5 DEF FetchPage

LEMMA EndPageKeeps ==
  ASSUME CollectionJobInv, EndPage
  PROVE  CollectionJobInv'
<1>1. /\ pc = "next" /\ Kind # "import"
      /\ UNCHANGED <<db, lines, batcher, progress, files, outcome, committed, world, faults>>
  BY DEF EndPage, At
<1>2. TypeOK /\ CursorsKnown BY DEF CollectionJobInv
<1>3. stack \in Seq(Frame) /\ stack # <<>> BY <1>1, StackedThere
<1>4. CASE Return BY <1>1, <1>2, <1>3, <1>4, ReturnKeeps, ReaderKeeps
<1>5. CASE pc' = "query" /\ stack' = stack BY <1>1, <1>2, <1>3, <1>5, ReaderKeeps DEF CursorsKnown
<1> QED BY <1>4, <1>5 DEF EndPage

\* A document is given, by a generator that knows it as its cursor.
LEMMA GivesKeeps ==
  ASSUME CollectionJobInv, Kind # "import", NEW d \in Docs, Give(d),
         stack' \in Seq(Frame), stack' # <<>>,
         \A i \in DOMAIN stack' : stack'[i].cursor \in Docs,
         UNCHANGED <<db, lines, pending, committing, outcome, committed, world, faults>>
  PROVE  CollectionJobInv'
<1>1. TypeOK /\ KindShapes /\ SparesExisting /\ KeepsExisting BY DEF CollectionJobInv
<1>2. /\ chunk' \in Seq(Docs) /\ writable' \subseteq Docs
      /\ progress' \in [Counter -> Nat]
      /\ files' \in [{"output", "temp"} -> File]
      /\ pc' \in {"write", "check", "list", "next"}
      /\ pc' = "write" => request.policy = "overwrite"
  BY <1>1, GiveKeeps
<1>3. TypeOK' BY <1>1, <1>2 DEF TypeOK, Pc, db, world
<1>4. KindShapes' BY <1>1, <1>2 DEF KindShapes, Kind, world
<1>5. CursorsKnown' BY DEF CursorsKnown
<1>6. PushesHead' BY <1>2 DEF PushesHead
<1>7. SparesExisting' BY <1>1, <1>2 DEF SparesExisting, db, world
<1>8. KeepsExisting' BY <1>1, KeepsExistingKept DEF db, world
<1> QED BY <1>3, <1>4, <1>5, <1>6, <1>7, <1>8 DEF CollectionJobInv
LEMMA NextDocumentKeeps ==
  ASSUME CollectionJobInv, NextDocument
  PROVE  CollectionJobInv'
<1> DEFINE d == First(Top.page)
           frame == [Top EXCEPT !.cursor = d, !.page = @ \ {d}]
<1>1. /\ pc = "next" /\ Kind # "import" /\ Top.page # {}
      /\ stack' = SetTop(frame)
      /\ \/ ListsBefore /\ pc' = "list" /\ UNCHANGED <<chunk, writable, progress, files>>
         \/ ~ListsBefore /\ Give(d)
      /\ UNCHANGED <<db, lines, pending, committing, outcome, committed, world, faults>>
  BY DEF NextDocument, At
<1>2. TypeOK /\ CursorsKnown BY DEF CollectionJobInv
<1>3. stack \in Seq(Frame) /\ stack # <<>> /\ Top \in Frame BY <1>1, StackedThere
<1>4. Top.page \in SUBSET Docs BY <1>3 DEF Frame
<1>5. d \in Docs BY <1>1, <1>4, FirstTyped
<1>6. frame \in Frame /\ frame.cursor = d
  <2> HIDE DEF d
  <2>1. d \in Nat BY <1>5, TreeAssumption
  <2> QED BY <1>3, <2>1 DEF Frame
<1> HIDE DEF d, frame
<1>7. /\ stack' \in Seq(Frame) /\ stack' # <<>>
      /\ Len(stack') = Len(stack) /\ stack'[Len(stack)] = frame
      /\ \A i \in DOMAIN stack' :
           i \in DOMAIN stack /\ (i # Len(stack) => stack'[i] = stack[i])
  BY <1>1, <1>3, <1>6, SetTopTyped
<1>8. \A i \in DOMAIN stack' : stack'[i].cursor \in Docs BY <1>2, <1>5, <1>6, <1>7 DEF CursorsKnown
<1>9. CASE ListsBefore /\ pc' = "list" /\ UNCHANGED <<chunk, writable, progress, files>>
  BY <1>1, <1>7, <1>8, <1>9, ReaderKeeps DEF batcher
<1>10. CASE ~ListsBefore /\ Give(d) BY <1>1, <1>5, <1>7, <1>8, <1>10, GivesKeeps
<1> QED BY <1>1, <1>9, <1>10

\* At the awaits of the subcollections every generator has its cursor.
LEMMA CursorsThere ==
  ASSUME CollectionJobInv, pc \in {"list", "subs", "check", "write", "push"}
  PROVE  \A i \in DOMAIN stack : stack[i].cursor \in Docs
BY DEF CollectionJobInv, CursorsKnown

LEMMA ListSubcollectionsKeeps ==
  ASSUME CollectionJobInv, ListSubcollections
  PROVE  CollectionJobInv'
<1> DEFINE frame == [Top EXCEPT !.subs = Subcollections(source, Top.cursor)]
<1>1. /\ pc = "list" /\ stack' = SetTop(frame) /\ pc' = "subs"
      /\ UNCHANGED <<db, lines, batcher, progress, files, outcome, committed, world, faults>>
  BY DEF ListSubcollections, At
<1>2. Kind # "import" BY <1>1 DEF CollectionJobInv, KindShapes
<1>3. stack \in Seq(Frame) /\ stack # <<>> /\ Top \in Frame /\ Top = stack[Len(stack)]
      /\ Len(stack) \in DOMAIN stack
  BY <1>1, <1>2, StackedThere, TopTyped
<1>4. frame \in Frame /\ frame.cursor = Top.cursor BY <1>3 DEF Subcollections, Frame
<1> HIDE DEF frame
<1>5. /\ stack' \in Seq(Frame) /\ stack' # <<>>
      /\ Len(stack') = Len(stack) /\ stack'[Len(stack)] = frame
      /\ \A i \in DOMAIN stack' :
           i \in DOMAIN stack /\ (i # Len(stack) => stack'[i] = stack[i])
  BY <1>1, <1>3, <1>4, SetTopTyped
<1>6. \A i \in DOMAIN stack' : stack'[i].cursor \in Docs BY <1>1, <1>3, <1>4, <1>5, CursorsThere
<1> QED BY <1>1, <1>2, <1>5, <1>6, ReaderKeeps

LEMMA DescendKeeps ==
  ASSUME CollectionJobInv, Descend
  PROVE  CollectionJobInv'
<1>1. PICK c \in Top.subs :
        stack' = Append(SetTop([Top EXCEPT !.subs = @ \ {c}]), FrameOf(c))
  BY DEF Descend
<1>2. /\ pc = "subs" /\ pc' = "count"
      /\ UNCHANGED <<db, lines, batcher, progress, files, outcome, committed, world, faults>>
  BY DEF Descend, At
<1>3. Kind # "import" BY <1>2 DEF CollectionJobInv, KindShapes
<1>4. stack \in Seq(Frame) /\ stack # <<>> /\ Top \in Frame /\ Top = stack[Len(stack)]
      /\ Len(stack) \in DOMAIN stack
  BY <1>2, <1>3, StackedThere, TopTyped
<1> DEFINE frame == [Top EXCEPT !.subs = @ \ {c}]
           below == SetTop(frame)
<1>5. c \in Collections /\ frame \in Frame /\ frame.cursor = Top.cursor BY <1>4 DEF Frame
<1> HIDE DEF frame
<1>6. /\ below \in Seq(Frame)
      /\ Len(below) = Len(stack) /\ below[Len(stack)] = frame
      /\ \A i \in DOMAIN below :
           i \in DOMAIN stack /\ (i # Len(stack) => below[i] = stack[i])
  BY <1>4, <1>5, SetTopTyped
<1>7. \A i \in DOMAIN below : below[i].cursor \in Docs BY <1>2, <1>4, <1>5, <1>6, CursorsThere
<1>8. FrameOf(c) \in Frame BY <1>5, FrameOfTyped
<1>9. stack' = Append(below, FrameOf(c)) BY <1>1 DEF frame
<1> HIDE DEF below
<1>10. /\ stack' \in Seq(Frame) /\ stack' # <<>>
       /\ \A i \in DOMAIN stack' : i = Len(stack') \/ (i \in DOMAIN below /\ stack'[i] = below[i])
  BY <1>6, <1>8, <1>9
<1> QED BY <1>2, <1>3, <1>7, <1>10, ReaderKeeps

LEMMA EndSubcollectionsKeeps ==
  ASSUME CollectionJobInv, EndSubcollections
  PROVE  CollectionJobInv'
<1>1. /\ pc = "subs"
      /\ \/ ListsBefore /\ Give(Top.cursor)
         \/ ~ListsBefore /\ pc' = "next" /\ UNCHANGED <<chunk, writable, progress, files>>
      /\ UNCHANGED <<db, reader, pending, committing, outcome, committed, world, faults>>
  BY DEF EndSubcollections, At
<1>2. Kind # "import" BY <1>1 DEF CollectionJobInv, KindShapes
<1>3. stack \in Seq(Frame) /\ stack # <<>> /\ Top = stack[Len(stack)] /\ Len(stack) \in DOMAIN stack
  BY <1>1, <1>2, StackedThere, TopTyped
<1>4. stack' = stack /\ lines' = lines /\ \A i \in DOMAIN stack' : stack'[i].cursor \in Docs
  BY <1>1, CursorsThere DEF reader
<1>5. CASE ListsBefore /\ Give(Top.cursor)
  <2>1. Top.cursor \in Docs BY <1>3, <1>4
  <2> QED BY <1>1, <1>2, <1>3, <1>4, <1>5, <2>1, GivesKeeps
<1>6. CASE ~ListsBefore /\ pc' = "next" /\ UNCHANGED <<chunk, writable, progress, files>>
  BY <1>1, <1>2, <1>3, <1>4, <1>6, ReaderKeeps DEF batcher
<1> QED BY <1>1, <1>5, <1>6

LEMMA CountLinesKeeps ==
  ASSUME CollectionJobInv, CountLines
  PROVE  CollectionJobInv'
<1>1. TypeOK /\ KindShapes /\ CursorsKnown /\ SparesExisting /\ KeepsExisting
  BY DEF CollectionJobInv
<1>2. /\ pc = "count" /\ Kind = "import" /\ pc' = "next" /\ progress' = Count("total", Len(lines))
      /\ UNCHANGED <<db, reader, batcher, files, outcome, committed, world, faults>>
  BY DEF CountLines, At
<1>3. progress' \in [Counter -> Nat] BY <1>1, <1>2, CountTyped DEF TypeOK, Counter
<1>4. TypeOK' BY <1>1, <1>2, <1>3 DEF TypeOK, Pc, db, reader, batcher, world
<1>5. KindShapes' BY <1>1, <1>2 DEF KindShapes, Kind, reader, world
<1>6. CursorsKnown' BY <1>1, <1>2 DEF CursorsKnown, reader
<1>7. PushesHead' BY <1>2 DEF PushesHead
<1>8. SparesExisting' BY <1>1, <1>2, SparesKept DEF db, batcher, world
<1>9. KeepsExisting' BY <1>1, <1>2, KeepsExistingKept DEF db, world
<1> QED BY <1>4, <1>5, <1>6, <1>7, <1>8, <1>9 DEF CollectionJobInv

LEMMA NextLineKeeps ==
  ASSUME CollectionJobInv, NextLine
  PROVE  CollectionJobInv'
<1>1. TypeOK /\ KindShapes /\ CursorsKnown /\ SparesExisting /\ KeepsExisting
  BY DEF CollectionJobInv
<1>2. /\ pc = "next" /\ committing = <<>> /\ Kind = "import"
      /\ UNCHANGED <<db, stack, writable, pending, committing, progress, committed, world, faults>>
  BY DEF NextLine, At
<1>3. /\ stack = <<>> /\ lines \in Seq(Docs \cup {Bad}) /\ chunk \in Seq(Docs)
  BY <1>1, <1>2 DEF TypeOK, KindShapes
<1>4. KeepsExisting' BY <1>1, <1>2, KeepsExistingKept DEF db, world
<1>5. CASE Throws("failed") /\ UNCHANGED <<lines, chunk>>
  BY <1>1, <1>2, <1>4, <1>5, ThrowsKeeps DEF TypeOK, db, reader
<1>6. ASSUME lines' \in Seq(Docs \cup {Bad}), chunk' \in Seq(Docs),
             pc' \in {"finish", "check", "next"}, UNCHANGED <<outcome, files>>
      PROVE  CollectionJobInv'
  <2>1. TypeOK' BY <1>1, <1>2, <1>6 DEF TypeOK, Pc, db, world
  <2>2. KindShapes' BY <1>1, <1>2, <1>6 DEF KindShapes, Kind, world
  <2>3. CursorsKnown' BY <1>2, <1>3 DEF CursorsKnown
  <2>4. PushesHead' BY <1>6 DEF PushesHead
  <2>5. SparesExisting' BY <1>1, <1>2, <1>6, SparesKept DEF db, world
  <2> QED BY <1>4, <2>1, <2>2, <2>3, <2>4, <2>5 DEF CollectionJobInv
<1>7. CASE lines = <<>> /\ pc' = Ended /\ UNCHANGED <<lines, chunk, outcome, files>>
  BY <1>3, <1>6, <1>7 DEF Ended
<1>8. CASE /\ lines # <<>> /\ Head(lines) # Bad
           /\ lines' = Tail(lines)
           /\ chunk' = Append(chunk, Head(lines))
           /\ pc' \in {"next", "check"}
           /\ UNCHANGED <<outcome, files>>
  BY <1>3, <1>6, <1>8
<1> QED BY <1>5, <1>7, <1>8 DEF NextLine
\* A step at the chunk or at the end, which leaves the reader and the database
\* alone and makes nothing writable or pending that is to be kept.
LEMMA WriterKeeps ==
  ASSUME CollectionJobInv,
         chunk' \in Seq(Docs), writable' \subseteq Docs, pending' \in Seq(Op),
         committing' \in Seq(Seq(Op)), progress' \in [Counter -> Nat],
         files' \in [{"output", "temp"} -> File],
         outcome' \in {"running", "returned", "cancelled", "failed"},
         pc' \in Pc \ {"count", "query", "subs"},
         pc \notin {"count", "query", "next", "over"},
         pc' \in {"next", "list"} => Kind = "import" \/ stack # <<>>,
         pc' = "list" => Kind # "import",
         pc' = "push" => chunk' # <<>> /\ Head(chunk') \in writable',
         SparesExisting',
         UNCHANGED <<db, reader, committed, world, faults>>
  PROVE  CollectionJobInv'
<1>1. TypeOK /\ KindShapes /\ CursorsKnown /\ KeepsExisting BY DEF CollectionJobInv
<1>2. TypeOK' BY <1>1 DEF TypeOK, db, reader, world
<1>3. KindShapes' BY <1>1 DEF reader, world, KindShapes, Kind
<1>4. CursorsKnown' BY <1>1 DEF CursorsKnown, reader
<1>5. PushesHead' BY DEF PushesHead
<1>6. KeepsExisting' BY <1>1, KeepsExistingKept DEF db, world
<1> QED BY <1>2, <1>3, <1>4, <1>5, <1>6 DEF CollectionJobInv

LEMMA CheckTargetsKeeps ==
  ASSUME CollectionJobInv, CheckTargets
  PROVE  CollectionJobInv'
<1>1. TypeOK /\ SparesExisting /\ KeepsExisting BY DEF CollectionJobInv
<1>2. /\ pc = "check" /\ committing = <<>>
      /\ UNCHANGED <<db, reader, chunk, pending, committing, progress, committed, world, faults>>
  BY DEF CheckTargets, At
<1>3. CASE Throws("failed") /\ UNCHANGED writable
  <2>1. KeepsExisting' BY <1>1, <1>2, KeepsExistingKept DEF db, world
  <2> QED BY <1>1, <1>2, <1>3, <2>1, ThrowsKeeps DEF TypeOK, db
<1>4. CASE /\ writable' = ToSet(chunk) \ (IF request.policy = "overwrite" THEN {} ELSE Existing)
           /\ pc' = "write"
           /\ UNCHANGED <<outcome, files>>
  <2>1. chunk \in Seq(Docs) BY <1>1 DEF TypeOK
  <2>2. ToSet(chunk) \subseteq Docs BY <2>1 DEF ToSet
  <2>3. writable' \subseteq Docs BY <1>4, <2>2
  <2>4. request.policy # "overwrite" => writable' \cap begun.target = {}
    <3>1. ASSUME request.policy # "overwrite", NEW d \in writable', d \in begun.target
          PROVE  FALSE
      BY <1>1, <1>4, <3>1 DEF SparesExisting, Existing
    <3> QED BY <3>1
  <2>5. SparesExisting' BY <1>1, <1>2, <1>4, <2>4 DEF SparesExisting, db, world
  <2>6. pc' \in Pc BY <1>4 DEF Pc
  <2> QED BY <1>1, <1>2, <1>4, <2>3, <2>5, <2>6, WriterKeeps DEF TypeOK
<1> QED BY <1>3, <1>4 DEF CheckTargets
\* BatchWriter.commit: what is pending is what is being committed.
LEMMA FlushKeeps ==
  ASSUME TypeOK, SparesExisting, Flush, committing = <<>>, UNCHANGED <<request, begun, target>>,
         writable' = writable, pc' \in {"write", "push"} => pc \in {"write", "push"}
  PROVE  pending' \in Seq(Op) /\ committing' \in Seq(Seq(Op)) /\ SparesExisting'
<1>1. /\ pending \in Seq(Op) /\ pending' = <<>>
      /\ committing' = IF pending = <<>> THEN <<>> ELSE <<pending>>
  BY DEF TypeOK, Flush
<1>2. pending' \in Seq(Op) BY <1>1, SequenceOfOne
<1>3. <<pending>> \in Seq(Seq(Op)) /\ <<>> \in Seq(Seq(Op)) BY <1>1, SequenceOfOne
<1>4. committing' \in Seq(Seq(Op)) BY <1>1, <1>3
<1>5. \A i \in DOMAIN committing' : committing'[i] = pending BY <1>1
<1>6. DOMAIN pending' = {} BY <1>1
<1>7. SparesExisting' BY <1>5, <1>6 DEF SparesExisting
<1> QED BY <1>2, <1>4, <1>7

LEMMA WriteNextKeeps ==
  ASSUME CollectionJobInv, WriteNext
  PROVE  CollectionJobInv'
<1>1. TypeOK /\ KindShapes /\ SparesExisting BY DEF CollectionJobInv
<1>2. /\ pc = "write" /\ committing = <<>>
      /\ UNCHANGED <<db, reader, files, outcome, committed, world, faults>>
  BY DEF WriteNext, At
<1>3. /\ chunk \in Seq(Docs) /\ writable \subseteq Docs /\ pending \in Seq(Op)
      /\ committing \in Seq(Seq(Op)) /\ progress \in [Counter -> Nat]
      /\ files' \in [{"output", "temp"} -> File]
      /\ outcome' \in {"running", "returned", "cancelled", "failed"}
  BY <1>1, <1>2 DEF TypeOK
<1>4. Count("read", 1) \in [Counter -> Nat] BY <1>3, CountTyped DEF Counter
<1>5. CASE chunk = <<>> /\ pc' = Continue /\ UNCHANGED <<batcher, progress>>
  <2>1. pc' \in {"finish", "list", "next"} BY <1>5 DEF Continue, Resumed
  <2>2. pc' \in {"next", "list"} => Kind = "import" \/ stack # <<>>
    BY <1>1, <1>5 DEF Continue, KindShapes
  <2>3. pc' = "list" => Kind # "import" BY <1>1, <1>5 DEF Continue, Resumed, KindShapes
  <2>4. SparesExisting' BY <1>1, <1>2, <1>5, <2>1, SparesKept DEF db, batcher, world
  <2>5. UNCHANGED <<chunk, writable, pending, committing, progress>> BY <1>5 DEF batcher
  <2>6. pc' \in Pc \ {"count", "query", "subs"} /\ pc' # "push" BY <2>1 DEF Pc
  <2> QED BY <1>2, <1>3, <2>2, <2>3, <2>4, <2>5, <2>6, WriterKeeps
<1>6. CASE /\ chunk # <<>> /\ Head(chunk) \notin writable
           /\ chunk' = Tail(chunk)
           /\ progress' = [Count("read", 1) EXCEPT !.skipped = @ + 1]
           /\ UNCHANGED <<pc, writable, pending, committing>>
  <2>1. chunk' \in Seq(Docs) BY <1>3, <1>6
  <2>2. progress' \in [Counter -> Nat] BY <1>4, <1>6 DEF Counter
  <2>3. SparesExisting' BY <1>1, <1>2, <1>6, SparesKept DEF db, world
  <2>4. pc' \in Pc \ {"count", "query", "subs"} /\ pc' \notin {"push", "next", "list"}
    BY <1>2, <1>6 DEF Pc
  <2> QED BY <1>2, <1>3, <1>6, <2>1, <2>2, <2>3, <2>4, WriterKeeps
<1>7. CASE /\ chunk # <<>> /\ Head(chunk) \in writable
           /\ progress' = Count("read", 1)
           /\ pc' = "push"
           /\ Flush \/ UNCHANGED <<pending, committing>>
           /\ UNCHANGED <<chunk, writable>>
  <2>1. UNCHANGED <<request, begun, target>> BY <1>2 DEF db, world
  <2>2. pending' \in Seq(Op) /\ committing' \in Seq(Seq(Op)) /\ SparesExisting'
    BY <1>1, <1>2, <1>3, <1>7, <2>1, FlushKeeps, SparesKept
  <2>3. pc' \in Pc \ {"count", "query", "subs"} /\ pc' \notin {"next", "list"} BY <1>7 DEF Pc
  <2> QED BY <1>2, <1>3, <1>4, <1>7, <2>2, <2>3, WriterKeeps
<1> QED BY <1>5, <1>6, <1>7 DEF WriteNext

LEMMA PushKeeps ==
  ASSUME CollectionJobInv, Push
  PROVE  CollectionJobInv'
<1>1. TypeOK /\ PushesHead /\ SparesExisting BY DEF CollectionJobInv
<1> DEFINE op == [doc |-> Head(chunk), line |-> progress.read]
           counter == IF Kind = "delete" THEN "deleted" ELSE "written"
<1>2. /\ pc = "push" /\ pc' = "write" /\ committing = <<>>
      /\ pending' = Append(pending, op)
      /\ progress' = Count(counter, 1)
      /\ chunk' = Tail(chunk)
      /\ UNCHANGED <<db, reader, writable, committing, files, outcome, committed, world, faults>>
  BY DEF Push, At
<1>3. chunk # <<>> /\ Head(chunk) \in writable BY <1>1, <1>2 DEF PushesHead
<1>4. /\ chunk \in Seq(Docs) /\ writable' \subseteq Docs /\ pending \in Seq(Op)
      /\ committing' \in Seq(Seq(Op)) /\ progress \in [Counter -> Nat]
      /\ files' \in [{"output", "temp"} -> File]
      /\ outcome' \in {"running", "returned", "cancelled", "failed"}
  BY <1>1, <1>2 DEF TypeOK
<1>5. progress' \in [Counter -> Nat] BY <1>2, <1>4, CountTyped DEF Counter
<1>6. op \in Op /\ op.doc = Head(chunk) BY <1>3, <1>4 DEF Counter, Op
<1> HIDE DEF op
<1>7. pending' \in Seq(Op) BY <1>2, <1>4, <1>6
<1>8. chunk' \in Seq(Docs) BY <1>2, <1>3, <1>4
<1>9. \A i \in DOMAIN pending' : pending'[i] = op \/ (i \in DOMAIN pending /\ pending'[i] = pending[i])
  BY <1>2, <1>4, <1>6
<1>10. SparesExisting' BY <1>1, <1>2, <1>3, <1>6, <1>9 DEF db, world, SparesExisting
<1> QED BY <1>2, <1>4, <1>5, <1>7, <1>8, <1>10, WriterKeeps DEF Pc
\* The batches being committed, of which the first is the next.
LEMMA CommittingTyped ==
  ASSUME TypeOK, SparesExisting, committing # <<>>
  PROVE  /\ committing \in Seq(Seq(Op)) /\ Head(committing) \in Seq(Op)
         /\ Tail(committing) \in Seq(Seq(Op))
         /\ request.policy # "overwrite" =>
              /\ \A k \in DOMAIN Head(committing) : Head(committing)[k].doc \notin begun.target
              /\ \A i \in DOMAIN Tail(committing) : \A k \in DOMAIN Tail(committing)[i] :
                   Tail(committing)[i][k].doc \notin begun.target
BY DEF TypeOK, SparesExisting

\* What a batch does to the database keeps the documents that are to be kept.
LEMMA AppliedKeeps ==
  ASSUME TypeOK, SparesExisting, KeepsExisting, committing # <<>>,
         Applied(Head(committing)), UNCHANGED <<request, begun>>
  PROVE  /\ source' \subseteq Docs /\ target' \subseteq Docs /\ target \subseteq target'
         /\ line' \in [Docs -> Nat] /\ KeepsExisting'
<1> DEFINE batch == Head(committing)
           docs == {batch[i].doc : i \in DOMAIN batch}
<1>1. /\ batch \in Seq(Op)
      /\ request.policy # "overwrite" => \A k \in DOMAIN batch : batch[k].doc \notin begun.target
  BY CommittingTyped
<1>2. source \subseteq Docs /\ target \subseteq Docs /\ line \in [Docs -> Nat] /\ request = request'
  BY DEF TypeOK
<1>3. CASE source' = source \ docs /\ UNCHANGED <<target, line>> BY <1>2, <1>3, KeepsExistingKept
<1>4. CASE /\ target' = target \cup docs
           /\ line' = [d \in Docs |-> IF d \in docs THEN LastAbout(batch, d) ELSE line[d]]
           /\ UNCHANGED source
  <2>1. docs \subseteq Docs
    <3> HIDE DEF batch
    <3>1. ASSUME NEW i \in DOMAIN batch PROVE batch[i].doc \in Docs
      <4>1. batch[i] \in Op BY <1>1, <3>1
      <4> QED BY <4>1 DEF Op
    <3> QED BY <3>1
  <2>2. ASSUME NEW d \in docs PROVE LastAbout(batch, d) \in Nat
    <3> HIDE DEF batch
    <3>1. About(batch, d) # {} BY <2>2 DEF About
    <3> QED BY <1>1, <3>1, LastAboutTyped
  <2>3. line' \in [Docs -> Nat]
    <3> HIDE DEF docs, batch
    <3> QED BY <1>2, <1>4, <2>2
  <2>4. KeepsExisting'
    <3>1. ASSUME request.policy # "overwrite", NEW d \in begun.target PROVE line'[d] = 0
      <4>1. d \notin docs BY <1>1, <3>1
      <4>2. d \in Docs /\ line[d] = 0 BY <3>1 DEF TypeOK, KeepsExisting
      <4> HIDE DEF docs, batch
      <4> QED BY <1>4, <4>1, <4>2
    <3> QED BY <3>1 DEF KeepsExisting
  <2> QED BY <1>2, <1>4, <2>1, <2>3, <2>4
<1> QED BY <1>3, <1>4 DEF Applied

LEMMA CommitKeeps ==
  ASSUME CollectionJobInv, Commit
  PROVE  CollectionJobInv'
<1>1. TypeOK /\ KindShapes /\ CursorsKnown /\ PushesHead /\ SparesExisting /\ KeepsExisting
  BY DEF CollectionJobInv
<1>2. /\ committing # <<>> /\ Applied(Head(committing))
      /\ committing' = Tail(committing)
      /\ committed' = committed + Len(Head(committing))
      /\ UNCHANGED <<pc, reader, chunk, writable, pending, progress, files, outcome, world, faults>>
  BY DEF Commit
<1>3. UNCHANGED <<request, begun>> BY <1>2 DEF world
<1>4. /\ source' \subseteq Docs /\ target' \subseteq Docs /\ target \subseteq target'
      /\ line' \in [Docs -> Nat] /\ KeepsExisting'
  BY <1>1, <1>2, <1>3, AppliedKeeps
<1>5. /\ Head(committing) \in Seq(Op) /\ committing' \in Seq(Seq(Op))
      /\ request.policy # "overwrite" =>
           \A i \in DOMAIN committing' : \A k \in DOMAIN committing'[i] :
             committing'[i][k].doc \notin begun.target
  BY <1>1, <1>2, CommittingTyped
<1>6. committed' \in Nat BY <1>1, <1>2, <1>5 DEF TypeOK
<1>7. TypeOK' BY <1>1, <1>2, <1>4, <1>5, <1>6 DEF TypeOK, reader, world
<1>8. KindShapes' BY <1>1, <1>2 DEF KindShapes, Kind, reader, world
<1>9. CursorsKnown' BY <1>1, <1>2 DEF CursorsKnown, reader
<1>10. PushesHead' BY <1>1, <1>2 DEF PushesHead
<1>11. SparesExisting' BY <1>1, <1>2, <1>3, <1>4, <1>5 DEF SparesExisting
<1> QED BY <1>4, <1>7, <1>8, <1>9, <1>10, <1>11 DEF CollectionJobInv

LEMMA CommitOversizedKeeps ==
  ASSUME CollectionJobInv, CommitOversized
  PROVE  CollectionJobInv'
<1>1. TypeOK /\ KindShapes /\ CursorsKnown /\ PushesHead /\ SparesExisting /\ KeepsExisting
  BY DEF CollectionJobInv
<1>2. /\ committing # <<>> /\ faults' \in Nat
      /\ UNCHANGED <<db, reader, chunk, writable, pending, progress, committed, world>>
  BY <1>1 DEF CommitOversized, Fault, TypeOK
<1>3. KeepsExisting' BY <1>1, <1>2, KeepsExistingKept DEF db, world
<1>4. CASE Throws("failed") /\ committing' = <<>>
  BY <1>1, <1>2, <1>3, <1>4, ThrowsKeeps DEF TypeOK, db
<1>5. CASE /\ Len(Head(committing)) > 1
           /\ committing' = Halves(Head(committing)) \o Tail(committing)
           /\ UNCHANGED <<pc, outcome, files>>
  <2> DEFINE batch == Head(committing)
             halves == Halves(batch)
             rest == Tail(committing)
  <2>1. /\ batch \in Seq(Op) /\ rest \in Seq(Seq(Op))
        /\ request.policy # "overwrite" =>
             /\ \A k \in DOMAIN batch : batch[k].doc \notin begun.target
             /\ \A i \in DOMAIN rest : \A k \in DOMAIN rest[i] : rest[i][k].doc \notin begun.target
    BY <1>1, <1>2, CommittingTyped
  <2>2. /\ halves \in Seq(Seq(Op))
        /\ \A i \in DOMAIN halves : \A k \in DOMAIN halves[i] :
             \E n \in DOMAIN batch : halves[i][k] = batch[n]
    BY <1>5, <2>1, HalvesTyped
  <2>3. committing' = halves \o rest BY <1>5
  <2> HIDE DEF batch, halves, rest
  <2>4. committing' \in Seq(Seq(Op)) BY <2>1, <2>2, <2>3
  <2>5. ASSUME NEW i \in DOMAIN committing'
        PROVE  \/ \E n \in DOMAIN halves : committing'[i] = halves[n]
               \/ \E n \in DOMAIN rest : committing'[i] = rest[n]
    <3>1. CASE i <= Len(halves) BY <2>1, <2>2, <2>3, <2>5, <3>1
    <3>2. CASE ~(i <= Len(halves))
      <4>1. i - Len(halves) \in DOMAIN rest /\ committing'[i] = rest[i - Len(halves)]
        BY <2>1, <2>2, <2>3, <2>5, <3>2
      <4> QED BY <4>1
    <3> QED BY <3>1, <3>2
  <2>6. SparesExisting'
    <3>1. ASSUME request.policy # "overwrite",
                 NEW i \in DOMAIN committing', NEW k \in DOMAIN committing'[i]
          PROVE  committing'[i][k].doc \notin begun.target
      BY <2>1, <2>2, <2>5, <3>1
    <3>2. UNCHANGED <<request, begun, target, writable, pending, pc>> BY <1>2, <1>5 DEF db, world
    <3> QED BY <1>1, <3>1, <3>2 DEF SparesExisting
  <2>7. TypeOK' BY <1>1, <1>2, <1>5, <2>4 DEF TypeOK, db, reader, world
  <2>8. KindShapes' BY <1>1, <1>2, <1>5 DEF KindShapes, Kind, reader, world
  <2>9. CursorsKnown' BY <1>1, <1>2, <1>5 DEF CursorsKnown, reader
  <2>10. PushesHead' BY <1>1, <1>2, <1>5 DEF PushesHead
  <2> QED BY <1>3, <2>6, <2>7, <2>8, <2>9, <2>10 DEF CollectionJobInv
<1> QED BY <1>4, <1>5 DEF CommitOversized

LEMMA CommitFailsKeeps ==
  ASSUME CollectionJobInv, CommitFails
  PROVE  CollectionJobInv'
<1>1. TypeOK /\ SparesExisting /\ KeepsExisting BY DEF CollectionJobInv
<1>2. /\ committing # <<>> /\ faults' \in Nat /\ Throws("failed") /\ committing' = <<>>
      /\ Applied(Head(committing)) \/ UNCHANGED db
      /\ UNCHANGED <<reader, chunk, writable, pending, progress, committed, world>>
  BY <1>1 DEF CommitFails, Fault, TypeOK
<1>3. /\ source' \subseteq Docs /\ target' \subseteq Docs /\ target \subseteq target'
      /\ line' \in [Docs -> Nat] /\ KeepsExisting'
  BY <1>1, <1>2, AppliedKeeps, KeepsExistingKept DEF world, TypeOK, db
<1> QED BY <1>2, <1>3, ThrowsKeeps
LEMMA FinishKeeps ==
  ASSUME CollectionJobInv, Finish
  PROVE  CollectionJobInv'
<1>1. TypeOK /\ SparesExisting BY DEF CollectionJobInv
<1>2. /\ pc = "finish" /\ committing = <<>> /\ Flush /\ pc' = "report"
      /\ UNCHANGED <<db, reader, chunk, writable, progress, files, outcome, committed, world, faults>>
  BY DEF Finish, At
<1>3. pending' \in Seq(Op) /\ committing' \in Seq(Seq(Op)) /\ SparesExisting'
  BY <1>1, <1>2, FlushKeeps DEF db, world
<1>4. /\ chunk' \in Seq(Docs) /\ writable' \subseteq Docs /\ progress' \in [Counter -> Nat]
      /\ files' \in [{"output", "temp"} -> File]
      /\ outcome' \in {"running", "returned", "cancelled", "failed"}
  BY <1>1, <1>2 DEF TypeOK
<1> QED BY <1>2, <1>3, <1>4, WriterKeeps DEF Pc

\* A step at the end, which leaves the chunk and the batches alone.
LEMMA EndingKeeps ==
  ASSUME CollectionJobInv, pc \in {"finish", "convert", "report"},
         pc' \in {"convert", "report", "over"},
         files' \in [{"output", "temp"} -> File],
         outcome' \in {"running", "returned", "cancelled", "failed"},
         UNCHANGED <<db, reader, batcher, progress, committed, world, faults>>
  PROVE  CollectionJobInv'
BY SparesKept, WriterKeeps DEF CollectionJobInv, db, batcher, world, TypeOK, Pc

LEMMA EndFileKeeps ==
  ASSUME CollectionJobInv, EndFile
  PROVE  CollectionJobInv'
<1>1. /\ pc = "finish" /\ pc' \in {"convert", "report"}
      /\ files' = files \/ files' = [files EXCEPT !.output = Created]
      /\ UNCHANGED <<db, reader, batcher, progress, outcome, committed, world, faults>>
  BY DEF EndFile, At
<1>2. /\ files \in [{"output", "temp"} -> File]
      /\ outcome' \in {"running", "returned", "cancelled", "failed"}
  BY <1>1 DEF CollectionJobInv, TypeOK
<1>3. Created \in File BY DEF Created, File
<1>4. files' \in [{"output", "temp"} -> File] BY <1>1, <1>2, <1>3
<1> QED BY <1>1, <1>2, <1>4, EndingKeeps

LEMMA ConvertKeeps ==
  ASSUME CollectionJobInv, Convert
  PROVE  CollectionJobInv'
<1>1. /\ pc = "convert"
      /\ UNCHANGED <<db, reader, batcher, progress, outcome, committed, world, faults>>
  BY DEF Convert, At
<1>2. /\ files \in [{"output", "temp"} -> File]
      /\ outcome' \in {"running", "returned", "cancelled", "failed"}
  BY <1>1 DEF CollectionJobInv, TypeOK
<1>3. files["output"] \in File /\ files["temp"] \in File BY <1>2
<1>4. CASE /\ Unconverted # {}
           /\ files' = [files EXCEPT !.output.docs = @ \cup {First(Unconverted)}]
           /\ UNCHANGED pc
  <2>1. Unconverted \in SUBSET Docs BY <1>3 DEF Unconverted, File
  <2>2. First(Unconverted) \in Docs BY <1>4, <2>1, FirstTyped
  <2> DEFINE output == [files["output"] EXCEPT !.docs = @ \cup {First(Unconverted)}]
  <2>3. output \in File BY <1>3, <2>2 DEF File
  <2>4. files' = [files EXCEPT !["output"] = output] BY <1>4
  <2> HIDE DEF output
  <2>5. files' \in [{"output", "temp"} -> File] BY <1>2, <2>3, <2>4
  <2> QED BY <1>1, <1>2, <1>4, <2>5, EndingKeeps
<1>5. CASE files' = [files EXCEPT !.temp = NoFile] /\ pc' = "report"
  BY <1>1, <1>2, <1>5, EndingKeeps DEF NoFile, File
<1> QED BY <1>4, <1>5 DEF Convert

LEMMA ReportKeeps ==
  ASSUME CollectionJobInv, Report
  PROVE  CollectionJobInv'
BY EndingKeeps DEF Report, At, Ends, CollectionJobInv, TypeOK

\* The user and the other clients touch nothing the invariant ties together.
LEMMA OthersKeep ==
  ASSUME CollectionJobInv, UNCHANGED own,
         source' \subseteq Docs, touched' \subseteq Docs, cancelled' \in BOOLEAN
  PROVE  CollectionJobInv'
<1>1. TypeOK /\ KindShapes /\ CursorsKnown /\ PushesHead /\ SparesExisting /\ KeepsExisting
  BY DEF CollectionJobInv
<1>2. TypeOK' BY <1>1 DEF TypeOK, own
<1>3. KindShapes' BY <1>1 DEF KindShapes, Kind, own
<1>4. CursorsKnown' /\ PushesHead' BY <1>1 DEF CursorsKnown, PushesHead, own
<1>5. SparesExisting' /\ KeepsExisting' BY <1>1, SparesKept, KeepsExistingKept DEF own
<1> QED BY <1>2, <1>3, <1>4, <1>5 DEF CollectionJobInv

LEMMA CancelKeeps ==
  ASSUME CollectionJobInv, Cancel
  PROVE  CollectionJobInv'
BY OthersKeep DEF CollectionJobInv, TypeOK, Cancel

LEMMA OutsideChangeKeeps ==
  ASSUME CollectionJobInv, NEW d \in Docs, OutsideChange(d)
  PROVE  CollectionJobInv'
<1>1. source \subseteq Docs /\ touched \subseteq Docs /\ cancelled \in BOOLEAN
  BY DEF CollectionJobInv, TypeOK
<1>2. /\ UNCHANGED own /\ touched' = touched \cup {d} /\ cancelled' = cancelled
      /\ source' = IF d \in source THEN source \ {d} ELSE source \cup {d}
  BY DEF OutsideChange
<1>3. cancelled' \in BOOLEAN BY <1>1, <1>2, Zenon
<1> QED BY <1>1, <1>2, <1>3, OthersKeep

LEMMA StutterKeeps ==
  ASSUME CollectionJobInv, UNCHANGED vars
  PROVE  CollectionJobInv'
<1>1. TypeOK /\ KindShapes /\ CursorsKnown /\ PushesHead /\ SparesExisting /\ KeepsExisting
  BY DEF CollectionJobInv
<1>2. TypeOK' BY <1>1 DEF TypeOK, vars
<1>3. KindShapes' /\ CursorsKnown' /\ PushesHead'
  BY <1>1 DEF KindShapes, Kind, CursorsKnown, PushesHead, vars
<1>4. SparesExisting' /\ KeepsExisting' BY <1>1, SparesKept, KeepsExistingKept DEF vars
<1> QED BY <1>2, <1>3, <1>4 DEF CollectionJobInv

\* The invariant is inductive.
LEMMA StepKeeps ==
  ASSUME CollectionJobInv, [Next]_vars
  PROVE  CollectionJobInv'
<1>1. CASE JobStep
  BY <1>1, SeesCancelKeeps, CountCollectionKeeps, FetchPageKeeps, EndPageKeeps, NextDocumentKeeps,
     ListSubcollectionsKeeps, DescendKeeps, EndSubcollectionsKeeps, CountLinesKeeps, NextLineKeeps,
     CheckTargetsKeeps, WriteNextKeeps, PushKeeps, CommitKeeps, FinishKeeps, EndFileKeeps,
     ConvertKeeps, ReportKeeps
  DEF JobStep
<1>2. CASE Failure BY <1>2, RejectsKeeps, CommitOversizedKeeps, CommitFailsKeeps DEF Failure
<1>3. CASE Cancel BY <1>3, CancelKeeps
<1>4. CASE \E d \in Docs : OutsideChange(d) BY <1>4, OutsideChangeKeeps
<1>5. CASE UNCHANGED vars BY <1>5, StutterKeeps
<1> QED BY <1>1, <1>2, <1>3, <1>4, <1>5 DEF Next, Over

----------------
(* The theorems *)

\* The inductive invariant holds throughout every job.
THEOREM JobInvariant == Spec => []CollectionJobInv
<1>1. Init => CollectionJobInv BY InitKeeps
<1>2. CollectionJobInv /\ [Next]_vars => CollectionJobInv' BY StepKeeps
<1> QED BY <1>1, <1>2, PTL DEF Spec

\* Every variable keeps its type: a page, a chunk and a batch hold documents, a
\* split batch is a sequence of batches, and the progress never goes below 0.
THEOREM JobTypeCorrect == Spec => []TypeOK
<1>1. CollectionJobInv => TypeOK BY DEF CollectionJobInv
<1> QED BY <1>1, JobInvariant, PTL

\* Under the policies skip and fail no document the target held at the call is
\* ever overwritten (writableTargetPaths against BatchWriter, whose operations
\* are committed long after their targets were looked up).
THEOREM ExistingKept == Spec => []KeepsExisting
<1>1. CollectionJobInv => KeepsExisting BY DEF CollectionJobInv
<1> QED BY <1>1, JobInvariant, PTL

\* Once cancelled, a job starts no commit: only the loop over a chunk and the end
\* of the stream hand batches to Firestore, and both assert first that the job
\* is not cancelled.
THEOREM CancelledStopsWrites == Spec => CancelStopsWrites
<1>1. ASSUME [Next]_vars, cancelled, committing = <<>>
      PROVE  committing' = <<>>
  <2>1. CASE WriteNext BY <1>1, <2>1 DEF WriteNext, batcher, At, NotCancelled, Asserts
  <2>2. CASE Finish BY <1>1, <2>2 DEF Finish, At, NotCancelled, Asserts
  <2>3. CASE SeesCancel \/ CountCollection \/ FetchPage \/ EndPage \/ ListSubcollections \/ Descend
    BY <1>1, <2>3 DEF SeesCancel, CountCollection, FetchPage, EndPage, ListSubcollections, Descend, batcher
  <2>4. CASE NextDocument \/ EndSubcollections \/ CountLines \/ NextLine \/ CheckTargets \/ Push
    BY <1>1, <2>4 DEF NextDocument, EndSubcollections, CountLines, NextLine, CheckTargets, Push, batcher
  <2>5. CASE EndFile \/ Convert \/ Report \/ Rejects
    BY <1>1, <2>5 DEF EndFile, Convert, Report, Rejects, batcher
  <2>6. CASE Commit \/ CommitOversized \/ CommitFails
    BY <1>1, <2>6 DEF Commit, CommitOversized, CommitFails
  <2>7. CASE Cancel \/ \E d \in Docs : OutsideChange(d) BY <1>1, <2>7 DEF Cancel, OutsideChange, own
  <2>8. CASE UNCHANGED vars BY <1>1, <2>8 DEF vars
  <2> QED BY <1>1, <2>1, <2>2, <2>3, <2>4, <2>5, <2>6, <2>7, <2>8 DEF Next, JobStep, Failure, Over
<1>2. [Next]_vars => (cancelled /\ committing = <<>> => committing' = <<>>) BY <1>1
<1> QED BY <1>2, PTL DEF Spec, CancelStopsWrites

----------------
(* The strengthened invariant *)

\* The job has not thrown.
Live == outcome \in {"running", "returned"}

\* run() is over when it has returned or thrown, and then commits nothing.
OverShape ==
  /\ pc = "over" <=> outcome # "running"
  /\ pc = "over" => committing = <<>>

\* The chain of documents d is at the end of.
Chain(d) == {d} \cup Ancestors[d]

----------------
\* Each generator reads the collection it was called for, in order, and but for the
\* innermost one is at one of the subcollections of its cursor.
FrameShape(i) ==
  /\ stack[i].page \subseteq Direct(Docs, stack[i].coll)
  /\ \A d \in stack[i].page : d > stack[i].cursor
  /\ stack[i].cursor # 0 => CollOf[stack[i].cursor] = stack[i].coll
  /\ \A c \in stack[i].subs : c # Root /\ ParentOf[c] = stack[i].cursor
  /\ i = 1 => stack[i].coll = Root
  /\ i < Len(stack) =>
       /\ stack[i + 1].coll # Root /\ ParentOf[stack[i + 1].coll] = stack[i].cursor
       /\ stack[i + 1].coll \notin stack[i].subs
  /\ i = Len(stack) =>
       /\ pc # "subs" => stack[i].subs = {}
       /\ pc \in {"count", "query"} => stack[i].page = {} /\ stack[i].more
  /\ request.include \/ i = 1

StackShape ==
  Live => /\ \A i \in DOMAIN stack : FrameShape(i)
          /\ ~request.include => pc \notin {"list", "subs"}

\* Where a chunk and batches may hold something.
ChunkShape ==
  Live =>
    /\ pc \in {"finish", "convert", "report", "over"} => chunk = <<>> /\ stack = <<>> /\ lines = <<>>
    /\ pc \in {"report", "over"} => pending = <<>>
    /\ committing # <<>> => pc \in {"push", "report"}
    /\ pc = "check" => chunk # <<>> /\ Kind \in {"copy", "import"}
    /\ pc \in {"write", "push"} => ToSet(chunk) \subseteq writable \cup target
    /\ pc \in {"write", "push"} /\ request.policy = "overwrite" => ToSet(chunk) \subseteq writable
    /\ Kind = "delete" => Len(chunk) <= 1 /\ (chunk # <<>> => pc \in {"write", "push"})
    /\ Kind \in Exports => /\ chunk = <<>> /\ pending = <<>> /\ committing = <<>>
                           /\ pc \notin {"write", "push"}
    /\ Kind \notin Exports => pc # "convert"

----------------
InFlight(d) ==
  \/ \E k \in DOMAIN pending : pending[k].doc = d
  \/ \E i \in DOMAIN committing : \E k \in DOMAIN committing[i] : committing[i][k].doc = d

\* The consumer has been given document d, and has done with it what the job does
\* or is about to.
Given(d) ==
  \/ Kind = "delete" /\ (d \notin source \/ InFlight(d) \/ d \in ToSet(chunk))
  \/ Kind = "copy" /\ (d \in target \/ InFlight(d) \/ d \in ToSet(chunk))
  \/ Kind \in Exports /\ d \in files.output.docs \cup files.temp.docs

\* The subcollections of the cursor of the innermost generator are yet to be listed.
YetToList ==
  \/ pc = "list"
  \/ pc \in {"check", "write", "push"} /\ Resumed = "list"

\* The i-th generator will come to document d through a, a document of its own
\* collection: it reads a later, or it goes through the subcollections of a, or it
\* gives a itself after them.
AheadBy(i, a, d) ==
  \/ a \in stack[i].page
  \/ stack[i].more /\ a > stack[i].cursor /\ \A p \in stack[i].page : p < a
  \/ /\ a = stack[i].cursor /\ d # a
     /\ \/ i = Len(stack) /\ YetToList
        \/ \E b \in Chain(d) : /\ CollOf[b] # Root /\ ParentOf[CollOf[b]] = a
                               /\ CollOf[b] \in stack[i].subs
  \/ a = stack[i].cursor /\ d = a /\ ListsBefore /\ (i < Len(stack) \/ pc \in {"list", "subs"})

Ahead(d) == \E i \in DOMAIN stack : \E a \in Chain(d) : CollOf[a] = stack[i].coll /\ AheadBy(i, a, d)

\* No document of the scope is missed.
NoneMissed == Live /\ Kind # "import" => \A d \in Steady : Given(d) \/ Ahead(d)

SourceKept == Kind # "delete" => begun.source \ touched \subseteq source

\* What is deleted is deleted after what is below it.
InOrder ==
  Kind = "delete" /\ request.include =>
    \A d \in Steady \cap source : \A a \in Ancestors[d] :
      /\ a \in source
      /\ Live =>
           /\ \A i \in DOMAIN committing : \A k \in DOMAIN committing[i] :
                committing[i][k].doc = a =>
                  \E j \in DOMAIN committing : \E l \in DOMAIN committing[j] :
                    committing[j][l].doc = d /\ (j < i \/ (j = i /\ l < k))
           /\ \A k \in DOMAIN pending : pending[k].doc = a =>
                \/ \E l \in DOMAIN pending : l < k /\ pending[l].doc = d
                \/ \E j \in DOMAIN committing : \E l \in DOMAIN committing[j] : committing[j][l].doc = d
           /\ a \in ToSet(chunk) => InFlight(d)

\* Without its subcollections a collection loses its own documents only.
RootOnly ==
  Kind = "delete" /\ ~request.include =>
    /\ \A d \in ToSet(chunk) : CollOf[d] = Root
    /\ \A d \in Docs : InFlight(d) => CollOf[d] = Root
    /\ \A d \in begun.source \ touched : CollOf[d] # Root => d \in source

----------------
Written == progress.written + progress.deleted
Pushing == IF pc = "push" THEN 1 ELSE 0

Tally ==
  /\ Kind # "delete" => progress.deleted = 0
  /\ Live =>
       /\ Kind \in {"copy", "import"} => progress.read = progress.written + progress.skipped + Pushing
       /\ Kind = "import" /\ request.policy = "overwrite" => progress.skipped = 0
       /\ pc = "push" => progress.read >= 1

\* The numbers of operations done before each of the batches being committed, and
\* before those pending: from those committed up to those written.
Numbering(batches, last) == [1..(Len(batches) + 1) -> 0..last]

Offsets(s, batches, ops, first, last) ==
  /\ s[1] = first
  /\ \A i \in DOMAIN batches : s[i + 1] = s[i] + Len(batches[i])
  /\ s[Len(batches) + 1] + Len(ops) = last

\* An import that overwrites commits the lines of its file in their order.
LineOf(op, n, file) == op.line = n /\ n \in DOMAIN file /\ file[n] = op.doc

InLine(s, batches, ops, file) ==
  /\ \A i \in DOMAIN batches : \A k \in DOMAIN batches[i] : LineOf(batches[i][k], s[i] + k, file)
  /\ \A k \in DOMAIN ops : LineOf(ops[k], s[Len(batches) + 1] + k, file)

Overwrites == Kind = "import" /\ request.policy = "overwrite"

Queue ==
  /\ committed <= Written
  /\ Live => \E s \in Numbering(committing, Written) :
               /\ Offsets(s, committing, pending, committed, Written)
               /\ Overwrites => InLine(s, committing, pending, begun.lines)

\* The lines read so far, those of the chunk and those to come are the file's.
LinesInOrder ==
  Overwrites =>
    /\ \A d \in Docs :
         /\ line[d] = 0 \/ (line[d] \in 1..Written /\ line[d] \in DOMAIN begun.lines /\ begun.lines[line[d]] = d)
         /\ Live => \A n \in 1..committed : begun.lines[n] = d => n <= line[d]
    /\ Live =>
       /\ Len(begun.lines) = progress.written + Len(chunk) + Len(lines)
       /\ \A k \in DOMAIN chunk : begun.lines[progress.written + k] = chunk[k]
       /\ \A k \in DOMAIN lines : begun.lines[progress.written + Len(chunk) + k] = lines[k]

\* A document written is known by the number of what was read.
LinesKnown ==
  /\ \A d \in target \ begun.target : line[d] # 0
  /\ Live =>
       /\ \A k \in DOMAIN pending : pending[k].line # 0
       /\ \A i \in DOMAIN committing : \A k \in DOMAIN committing[i] : committing[i][k].line # 0

FilesShape ==
  Kind \in Exports =>
    /\ ~Live => ~files.output.there /\ ~files.temp.there
    /\ Live /\ Kind = "exportJsonl" => files.output.there /\ files.temp = NoFile
    /\ Live /\ Kind = "exportCsv" =>
         /\ pc \notin {"report", "over"} => files.temp.there
         /\ pc \in {"report", "over"} => files.output.there /\ files.temp = NoFile
         /\ pc \notin {"convert", "report", "over"} => files.output = NoFile
         /\ pc = "convert" => files.output.there /\ files.output.docs \subseteq files.temp.docs

\* The strengthened invariant.
WholeJobInv ==
  /\ CollectionJobInv
  /\ OverShape /\ StackShape /\ ChunkShape /\ NoneMissed /\ SourceKept /\ InOrder /\ RootOnly
  /\ Tally /\ Queue /\ LinesInOrder /\ LinesKnown /\ FilesShape

----------------
(* Documents, and what they are nested under *)

\* What the recursive definition of Ancestors asks of its value for d, given the others.
Above(f, d) == IF CollOf[d] = Root THEN {} ELSE {ParentOf[CollOf[d]]} \cup f[ParentOf[CollOf[d]]]
UpTo(n) == {d \in Docs : d <= n}
Solves(f, n) == f = [d \in UpTo(n) |-> Above(f, d)]

\* The document a subcollection is under comes before those in it.
LEMMA ParentBefore ==
  ASSUME NEW d \in Docs, CollOf[d] # Root
  PROVE  ParentOf[CollOf[d]] \in Docs /\ ParentOf[CollOf[d]] < d
BY TreeAssumption

\* Without a least element a set of documents is empty.
LEMMA NoLeast ==
  ASSUME NEW S \in SUBSET Docs, \A d \in S : \E e \in S : e < d
  PROVE  S = {}
<1>1. SUFFICES ASSUME S # {} PROVE FALSE OBVIOUS
<1>2. S \in SUBSET Nat BY TreeAssumption
<1>3. PICK d \in S : \A e \in S : d <= e BY <1>1, <1>2, LeastOf
<1>4. PICK e \in S : e < d BY <1>3
<1>5. d \in Nat /\ e \in Nat /\ d <= e BY <1>2, <1>3
<1> QED BY <1>4, <1>5

\* Two solutions agree on the documents both are about.
LEMMA SolutionsAgree ==
  ASSUME NEW f, NEW g, NEW m \in Nat, NEW n \in Nat, Solves(f, m), Solves(g, n)
  PROVE  \A d \in UpTo(m) \cap UpTo(n) : f[d] = g[d]
<1> DEFINE S == {d \in UpTo(m) \cap UpTo(n) : f[d] # g[d]}
<1>1. \A d \in S : \E e \in S : e < d
  <2> SUFFICES ASSUME NEW d \in S PROVE \E e \in S : e < d OBVIOUS
  <2>1. d \in Docs /\ d \in Nat /\ d <= m /\ d <= n BY TreeAssumption DEF UpTo
  <2>2. f[d] = Above(f, d) /\ g[d] = Above(g, d) BY <2>1 DEF Solves, UpTo
  <2>3. CollOf[d] # Root BY <2>2 DEF Above
  <2> DEFINE p == ParentOf[CollOf[d]]
  <2>4. p \in Docs /\ p \in Nat /\ p < d BY <2>1, <2>3, ParentBefore, TreeAssumption
  <2>5. f[p] # g[p] BY <2>2, <2>3 DEF Above
  <2> HIDE DEF p
  <2>6. p \in UpTo(m) \cap UpTo(n) BY <2>1, <2>4 DEF UpTo
  <2> QED BY <2>4, <2>5, <2>6
<1>2. S \in SUBSET Docs BY DEF UpTo
<1> HIDE DEF S
<1>3. S = {} BY <1>1, <1>2, NoLeast
<1> QED BY <1>3 DEF S

\* There is a solution for the documents up to each number.
LEMMA SolutionThere ==
  \A n \in Nat : \E f : Solves(f, n)
<1> DEFINE S == {n \in Nat : ~\E f : Solves(f, n)}
<1>1. SUFFICES ASSUME S # {} PROVE FALSE OBVIOUS
<1>2. S \in SUBSET Nat OBVIOUS
<1>3. PICK n \in S : \A m \in S : n <= m
  <2> HIDE DEF S
  <2> QED BY <1>1, <1>2, LeastOf
<1>4. n \in Nat /\ ~\E f : Solves(f, n) OBVIOUS
<1>5. CASE n = 0
  <2>1. UpTo(0) = {}
    <3>1. Docs \in SUBSET (Nat \ {0}) BY TreeAssumption
    <3>2. \A d \in Docs : ~(d <= 0)
      <4> SUFFICES ASSUME NEW d \in Docs PROVE ~(d <= 0) OBVIOUS
      <4>1. d \in Nat /\ d # 0 BY <3>1
      <4> QED BY <4>1
    <3> QED BY <3>2 DEF UpTo
  <2>2. PICK f : f = [d \in {} |-> 0] OBVIOUS
  <2>3. Solves(f, 0) BY <2>1, <2>2 DEF Solves
  <2> QED BY <1>4, <1>5, <2>3
<1>6. CASE n # 0
  <2>1. n - 1 \in Nat /\ ~(n <= n - 1) BY <1>4, <1>6
  <2>2. PICK f : Solves(f, n - 1) BY <1>3, <2>1
  <2> DEFINE g == [d \in UpTo(n) |-> IF d <= n - 1 THEN f[d] ELSE Above(f, d)]
  <2>3. ASSUME NEW d \in UpTo(n) PROVE g[d] = Above(g, d)
    <3>1. d \in Docs /\ d \in Nat /\ d <= n BY TreeAssumption DEF UpTo
    <3>2. g[d] = Above(f, d)
      <4>1. CASE d <= n - 1 BY <2>2, <3>1, <4>1 DEF UpTo, Solves
      <4>2. CASE ~(d <= n - 1) BY <4>2
      <4> QED BY <4>1, <4>2
    <3>3. CASE CollOf[d] = Root BY <3>2, <3>3 DEF Above
    <3>4. CASE CollOf[d] # Root
      <4>1. ParentOf[CollOf[d]] \in Docs /\ ParentOf[CollOf[d]] \in Nat /\ ParentOf[CollOf[d]] < d
        BY <3>1, <3>4, ParentBefore, TreeAssumption
      <4>2. ParentOf[CollOf[d]] \in UpTo(n) /\ ParentOf[CollOf[d]] <= n - 1
        BY <1>4, <3>1, <4>1 DEF UpTo
      <4>3. g[ParentOf[CollOf[d]]] = f[ParentOf[CollOf[d]]] BY <4>2
      <4> HIDE DEF g
      <4> QED BY <3>2, <3>4, <4>3 DEF Above
    <3> QED BY <3>3, <3>4
  <2>4. g = [d \in UpTo(n) |-> g[d]] OBVIOUS
  <2> HIDE DEF g
  <2>5. Solves(g, n) BY <2>3, <2>4 DEF Solves
  <2> QED BY <1>4, <2>5
<1> QED BY <1>5, <1>6

\* The recursive definition of Ancestors has a value that satisfies it.
LEMMA AncestorsSolve == \E f : f = [d \in Docs |-> Above(f, d)]
<1> DEFINE One(n) == CHOOSE f : Solves(f, n)
           h == [d \in Docs |-> One(d)[d]]
<1>1. \A n \in Nat : Solves(One(n), n) BY SolutionThere
<1>2. ASSUME NEW d \in Docs PROVE h[d] = Above(h, d)
  <2>1. d \in Nat /\ d \in UpTo(d) BY TreeAssumption DEF UpTo
  <2>2. PICK f : f = One(d) OBVIOUS
  <2>3. Solves(f, d) BY <1>1, <2>1, <2>2
  <2>4. h[d] = Above(f, d) BY <2>1, <2>2, <2>3 DEF Solves
  <2>5. CASE CollOf[d] = Root BY <2>4, <2>5 DEF Above
  <2>6. CASE CollOf[d] # Root
    <3> DEFINE p == ParentOf[CollOf[d]]
    <3>1. p \in Docs /\ p \in Nat /\ p < d BY <2>6, ParentBefore, TreeAssumption
    <3>2. PICK g : g = One(p) OBVIOUS
    <3>3. Solves(g, p) BY <1>1, <3>1, <3>2
    <3>4. p \in UpTo(d) \cap UpTo(p) BY <2>1, <3>1 DEF UpTo
    <3>5. f[p] = g[p] BY <2>1, <2>3, <3>1, <3>3, <3>4, SolutionsAgree
    <3>6. h[p] = g[p] BY <3>1, <3>2
    <3> HIDE DEF h
    <3> QED BY <2>4, <2>6, <3>5, <3>6 DEF Above
  <2> QED BY <2>5, <2>6
<1>3. h = [d \in Docs |-> h[d]] OBVIOUS
<1> HIDE DEF h
<1> QED BY <1>2, <1>3

\* Ancestors is what its recursive definition says.
LEMMA AncestorsOf ==
  ASSUME NEW d \in Docs
  PROVE  Ancestors[d] = Above(Ancestors, d)
BY AncestorsSolve DEF Ancestors, Above

\* A document of the collection of the request is nested under none,
LEMMA NoAncestors ==
  ASSUME NEW d \in Docs, CollOf[d] = Root
  PROVE  Ancestors[d] = {}
BY AncestorsOf DEF Above

\* and any other one under its parent and what that is nested under.
LEMMA SomeAncestors ==
  ASSUME NEW d \in Docs, CollOf[d] # Root, NEW p, p = ParentOf[CollOf[d]]
  PROVE  p \in Docs /\ p < d /\ Ancestors[d] = {p} \cup Ancestors[p] /\ Ancestors[d] = Chain(p)
BY AncestorsOf, ParentBefore DEF Above, Chain

\* A document comes after those it is nested under.
LEMMA AncestorsBefore ==
  ASSUME NEW d \in Docs
  PROVE  Ancestors[d] \in SUBSET Docs /\ \A a \in Ancestors[d] : a < d
<1> DEFINE S == {e \in Docs : ~(Ancestors[e] \in SUBSET Docs /\ \A a \in Ancestors[e] : a < e)}
<1>1. \A e \in S : \E x \in S : x < e
  <2> SUFFICES ASSUME NEW e \in S PROVE \E x \in S : x < e OBVIOUS
  <2>1. e \in Docs OBVIOUS
  <2>2. CollOf[e] # Root BY NoAncestors, <2>1
  <2>3. PICK p : p = ParentOf[CollOf[e]] OBVIOUS
  <2>4. p \in Docs /\ p < e /\ Ancestors[e] = {p} \cup Ancestors[p] BY <2>1, <2>2, <2>3, SomeAncestors
  <2>5. ASSUME Ancestors[p] \in SUBSET Docs, \A a \in Ancestors[p] : a < p
        PROVE  FALSE
    <3>1. Ancestors[e] \in SUBSET Docs BY <2>4, <2>5
    <3>2. ASSUME NEW a \in Ancestors[e] PROVE a < e
      <4>1. a \in Nat /\ p \in Nat /\ e \in Nat BY <2>1, <2>4, <3>1, <3>2, TreeAssumption
      <4>2. a = p \/ a < p BY <2>4, <2>5, <3>2
      <4> QED BY <2>4, <4>1, <4>2
    <3> QED BY <3>1, <3>2
  <2> QED BY <2>4, <2>5
<1>2. S \in SUBSET Docs OBVIOUS
<1> HIDE DEF S
<1>3. S = {} BY <1>1, <1>2, NoLeast
<1> QED BY <1>3 DEF S

\* A chain consists of documents, of which its own is the last.
LEMMA ChainDocs ==
  ASSUME NEW d \in Docs
  PROVE  Chain(d) \in SUBSET Docs /\ d \in Chain(d) /\ \A a \in Chain(d) : a <= d
BY TreeAssumption, AncestorsBefore DEF Chain

\* Every chain begins in the collection of the request.
LEMMA ChainFromRoot ==
  ASSUME NEW d \in Docs
  PROVE  \E a \in Chain(d) : CollOf[a] = Root
<1> DEFINE S == {e \in Docs : ~\E a \in Chain(e) : CollOf[a] = Root}
<1>1. \A e \in S : \E x \in S : x < e
  <2> SUFFICES ASSUME NEW e \in S PROVE \E x \in S : x < e OBVIOUS
  <2>1. e \in Docs /\ e \in Chain(e) BY DEF Chain
  <2>2. CollOf[e] # Root BY <2>1
  <2>3. PICK p : p = ParentOf[CollOf[e]] OBVIOUS
  <2>4. p \in Docs /\ p < e /\ Ancestors[e] = Chain(p) BY <2>1, <2>2, <2>3, SomeAncestors
  <2>5. Chain(p) \subseteq Chain(e) BY <2>4 DEF Chain
  <2> QED BY <2>4, <2>5
<1>2. S \in SUBSET Docs OBVIOUS
<1> HIDE DEF S
<1>3. S = {} BY <1>1, <1>2, NoLeast
<1> QED BY <1>3 DEF S

\* What is above a document above d is above d.
LEMMA ChainWithin ==
  ASSUME NEW d \in Docs, NEW b \in Chain(d)
  PROVE  Chain(b) \subseteq Chain(d) /\ (b # d => Chain(b) \subseteq Ancestors[d])
<1> DEFINE S == {e \in Docs : ~\A x \in Chain(e) : Chain(x) \subseteq Chain(e) /\ (x # e => Chain(x) \subseteq Ancestors[e])}
<1>1. \A e \in S : \E x \in S : x < e
  <2> SUFFICES ASSUME NEW e \in S PROVE \E x \in S : x < e OBVIOUS
  <2>1. e \in Docs OBVIOUS
  <2>2. PICK x \in Chain(e) : ~(Chain(x) \subseteq Chain(e) /\ (x # e => Chain(x) \subseteq Ancestors[e]))
    OBVIOUS
  <2>3. Ancestors[e] \subseteq Chain(e) BY DEF Chain
  <2>4. x # e BY <2>2
  <2>5. x \in Ancestors[e] BY <2>4 DEF Chain
  <2>6. CollOf[e] # Root BY <2>1, <2>5, NoAncestors
  <2>7. PICK p : p = ParentOf[CollOf[e]] OBVIOUS
  <2>8. p \in Docs /\ p < e /\ Ancestors[e] = Chain(p) BY <2>1, <2>6, <2>7, SomeAncestors
  <2>9. x \in Chain(p) /\ ~(Chain(x) \subseteq Chain(p)) BY <2>2, <2>3, <2>5, <2>8
  <2> QED BY <2>8, <2>9
<1>2. S \in SUBSET Docs OBVIOUS
<1> HIDE DEF S
<1>3. S = {} BY <1>1, <1>2, NoLeast
<1> QED BY <1>3 DEF S

\* Of two documents of a chain one is above the other.
LEMMA ChainLinear ==
  ASSUME NEW d \in Docs, NEW a \in Chain(d), NEW b \in Chain(d), a # b
  PROVE  a \in Ancestors[b] \/ b \in Ancestors[a]
<1> DEFINE S == {e \in Docs : ~\A x \in Chain(e), y \in Chain(e) :
                                 x # y => x \in Ancestors[y] \/ y \in Ancestors[x]}
<1>1. \A e \in S : \E x \in S : x < e
  <2> SUFFICES ASSUME NEW e \in S PROVE \E x \in S : x < e OBVIOUS
  <2>1. e \in Docs OBVIOUS
  <2>2. PICK x \in Chain(e), y \in Chain(e) : x # y /\ ~(x \in Ancestors[y] \/ y \in Ancestors[x])
    OBVIOUS
  <2>3. x # e /\ y # e BY <2>2 DEF Chain
  <2>4. x \in Ancestors[e] /\ y \in Ancestors[e] BY <2>3 DEF Chain
  <2>5. CollOf[e] # Root BY <2>1, <2>4, NoAncestors
  <2>6. PICK p : p = ParentOf[CollOf[e]] OBVIOUS
  <2>7. p \in Docs /\ p < e /\ Ancestors[e] = Chain(p) BY <2>1, <2>5, <2>6, SomeAncestors
  <2>8. x \in Chain(p) /\ y \in Chain(p) BY <2>4, <2>7
  <2> QED BY <2>2, <2>7, <2>8
<1>2. S \in SUBSET Docs OBVIOUS
<1> HIDE DEF S
<1>3. S = {} BY <1>1, <1>2, NoLeast
<1> QED BY <1>3 DEF S

\* Under one document, and in one collection, a chain has one document.
LEMMA OneBelow ==
  ASSUME NEW d \in Docs, NEW a \in Chain(d), NEW b \in Chain(d),
         \/ CollOf[a] = CollOf[b]
         \/ CollOf[a] # Root /\ CollOf[b] # Root /\ ParentOf[CollOf[a]] = ParentOf[CollOf[b]]
  PROVE  a = b
<1>0. a \in Docs /\ b \in Docs BY ChainDocs
<1>1. ASSUME NEW x \in Docs, NEW y \in Docs, x \in Ancestors[y],
             \/ CollOf[x] = CollOf[y]
             \/ CollOf[x] # Root /\ CollOf[y] # Root /\ ParentOf[CollOf[x]] = ParentOf[CollOf[y]]
      PROVE  FALSE
  <2>1. CollOf[y] # Root BY <1>1, NoAncestors
  <2>2. PICK p : p = ParentOf[CollOf[y]] OBVIOUS
  <2>3. p \in Docs /\ Ancestors[y] = Chain(p) BY <2>1, <2>2, SomeAncestors
  <2>4. x <= p BY <1>1, <2>3, ChainDocs
  <2>5. p = ParentOf[CollOf[x]] /\ CollOf[x] # Root BY <1>1, <2>1, <2>2
  <2>6. p < x BY <1>1, <2>5, ParentBefore
  <2>7. p \in Nat /\ x \in Nat BY <1>1, <2>3, TreeAssumption
  <2> QED BY <2>4, <2>6, <2>7
<1> QED BY <1>0, <1>1, ChainLinear

\* A document of a chain that is not its end has one below it in the chain.
LEMMA NextBelow ==
  ASSUME NEW d \in Docs, NEW a \in Ancestors[d]
  PROVE  \E b \in Chain(d) : CollOf[b] # Root /\ ParentOf[CollOf[b]] = a
<1> DEFINE S == {e \in Docs : ~\A x \in Ancestors[e] :
                   \E b \in Chain(e) : CollOf[b] # Root /\ ParentOf[CollOf[b]] = x}
<1>1. \A e \in S : \E x \in S : x < e
  <2> SUFFICES ASSUME NEW e \in S PROVE \E x \in S : x < e OBVIOUS
  <2>1. e \in Docs /\ e \in Chain(e) BY DEF Chain
  <2>2. PICK x \in Ancestors[e] : ~\E b \in Chain(e) : CollOf[b] # Root /\ ParentOf[CollOf[b]] = x
    OBVIOUS
  <2>3. CollOf[e] # Root BY <2>1, NoAncestors
  <2>4. PICK p : p = ParentOf[CollOf[e]] OBVIOUS
  <2>5. p \in Docs /\ p < e /\ Ancestors[e] = Chain(p) BY <2>1, <2>3, <2>4, SomeAncestors
  <2>6. x # p BY <2>1, <2>2, <2>3, <2>4
  <2>7. x \in Ancestors[p] BY <2>5, <2>6 DEF Chain
  <2>8. Chain(p) \subseteq Chain(e) BY <2>5 DEF Chain
  <2>9. ~\E b \in Chain(p) : CollOf[b] # Root /\ ParentOf[CollOf[b]] = x BY <2>2, <2>8
  <2> QED BY <2>5, <2>7, <2>9
<1>2. S \in SUBSET Docs OBVIOUS
<1> HIDE DEF S
<1>3. S = {} BY <1>1, <1>2, NoLeast
<1> QED BY <1>3 DEF S

----------------
(* When run() is over *)

\* run() that is over does nothing more.
LEMMA AtOver ==
  ASSUME OverShape, pc = "over"
  PROVE  committing = <<>> /\ ~JobStep /\ ~Failure
<1>1. committing = <<>> BY DEF OverShape
<1>2. ~SeesCancel BY DEF SeesCancel, NotCancelled, Asserts
<1>3. ~CountCollection /\ ~FetchPage /\ ~EndPage /\ ~NextDocument /\ ~ListSubcollections /\ ~Descend
  BY DEF CountCollection, FetchPage, EndPage, NextDocument, ListSubcollections, Descend, At
<1>4. ~EndSubcollections /\ ~CountLines /\ ~NextLine /\ ~CheckTargets /\ ~WriteNext /\ ~Push
  BY DEF EndSubcollections, CountLines, NextLine, CheckTargets, WriteNext, Push, At
<1>5. ~Commit /\ ~Finish /\ ~EndFile /\ ~Convert /\ ~Report
  BY <1>1 DEF Commit, Finish, EndFile, Convert, Report, At
<1>6. ~Failure BY <1>1 DEF Failure, Rejects, CommitOversized, CommitFails
<1> QED BY <1>1, <1>2, <1>3, <1>4, <1>5, <1>6 DEF JobStep

\* Of the job itself: what it asks for and what it found stay what they are.
LEMMA SameRequest ==
  ASSUME [Next]_vars
  PROVE  request' = request /\ begun' = begun /\ touched \subseteq touched'
<1>1. CASE SeesCancel \/ CountCollection \/ FetchPage \/ EndPage \/ NextDocument
  BY <1>1 DEF SeesCancel, CountCollection, FetchPage, EndPage, NextDocument, world
<1>2. CASE ListSubcollections \/ Descend \/ EndSubcollections \/ CountLines \/ NextLine
  BY <1>2 DEF ListSubcollections, Descend, EndSubcollections, CountLines, NextLine, world
<1>3. CASE CheckTargets \/ WriteNext \/ Push \/ Commit \/ Finish
  BY <1>3 DEF CheckTargets, WriteNext, Push, Commit, Finish, world
<1>4. CASE EndFile \/ Convert \/ Report \/ Failure
  BY <1>4 DEF EndFile, Convert, Report, Failure, Rejects, CommitOversized, CommitFails, world
<1>5. CASE Cancel \/ \E d \in Docs : OutsideChange(d) BY <1>5 DEF Cancel, OutsideChange, own
<1>6. CASE UNCHANGED vars BY <1>6 DEF vars
<1> QED BY <1>1, <1>2, <1>3, <1>4, <1>5, <1>6 DEF Next, JobStep, Over

\* run() is over exactly when it has returned or thrown.
LEMMA OverShapeKept ==
  ASSUME OverShape, [Next]_vars
  PROVE  OverShape'
<1>1. CASE UNCHANGED vars BY <1>1 DEF OverShape, vars
<1>2. CASE pc = "over" /\ ~UNCHANGED vars BY <1>2, AtOver DEF Next, Over, Cancel, OutsideChange
<1> SUFFICES ASSUME pc # "over" PROVE OverShape' BY <1>1, <1>2
<1>3. outcome = "running" BY DEF OverShape
<1>4. CASE SeesCancel \/ Rejects BY <1>4 DEF SeesCancel, Rejects, Throws, Ends, OverShape, batcher
<1>5. CASE CountCollection \/ EndPage \/ ListSubcollections \/ Descend \/ FetchPage
  BY <1>3, <1>5 DEF CountCollection, EndPage, ListSubcollections, Descend, OverShape, Return, FetchPage, Ended, At, batcher
<1>6. CASE NextDocument \/ EndSubcollections
  BY <1>3, <1>6 DEF NextDocument, EndSubcollections, Give, Resumed, OverShape
<1>7. CASE CountLines \/ NextLine \/ CheckTargets
  BY <1>3, <1>7 DEF CountLines, NextLine, CheckTargets, Throws, Ends, Ended, At, OverShape, batcher
<1>8. CASE WriteNext BY <1>3, <1>8 DEF WriteNext, Continue, Resumed, At, OverShape
<1>9. CASE Push \/ Commit \/ Finish \/ EndFile \/ Convert
  BY <1>3, <1>9 DEF Push, Commit, Finish, EndFile, Convert, At, OverShape
<1>10. CASE Report BY <1>3, <1>10 DEF Report, Ends, At, OverShape, batcher
<1>11. CASE CommitOversized \/ CommitFails
  BY <1>3, <1>11 DEF CommitOversized, CommitFails, Throws, Ends, OverShape
<1>12. CASE Cancel \/ \E d \in Docs : OutsideChange(d)
  BY <1>3, <1>12 DEF Cancel, OutsideChange, own, OverShape
<1> QED BY <1>1, <1>4, <1>5, <1>6, <1>7, <1>8, <1>9, <1>10, <1>11, <1>12
  DEF Next, JobStep, Failure, Over

\* A job that has not thrown had not before.
LEMMA WasLive ==
  ASSUME OverShape, [Next]_vars, Live'
  PROVE  Live /\ (UNCHANGED vars \/ (outcome = "running" /\ pc # "over"))
<1>1. CASE UNCHANGED vars BY <1>1 DEF Live, vars
<1>2. CASE ~UNCHANGED vars
  <2>1. pc # "over" BY <1>2, AtOver DEF Next, Over, Cancel, OutsideChange
  <2> QED BY <2>1 DEF OverShape, Live
<1> QED BY <1>1, <1>2

\* A job that throws is not live.
LEMMA ThrownNotLive ==
  ASSUME \E how \in {"cancelled", "failed"} : Throws(how)
  PROVE  ~Live'
BY DEF Throws, Ends, Live

\* A page holds the first documents after the cursor; if there are more, it is full.
LEMMA PageIsNext ==
  ASSUME source \subseteq Docs, NEW c, NEW cursor \in Nat, NEW page, page = Page(source, c, cursor)
  PROVE  /\ page \subseteq Direct(source, c) /\ page \subseteq Direct(Docs, c)
         /\ \A p \in page : p > cursor
         /\ \A a \in Direct(source, c) : a > cursor /\ a \notin page =>
              More(page) /\ page # {} /\ \A p \in page : p < a
<1>1. PICK later : later = {d \in Direct(source, c) : d > cursor} OBVIOUS
<1>2. page = {d \in later : Cardinality({e \in later : e < d}) < PageSize} BY <1>1 DEF Page
<1>3. later \subseteq Docs /\ Docs \subseteq Nat /\ IsFiniteSet(Docs) /\ PageSize \in Nat /\ PageSize # 0
  BY <1>1, TreeAssumption DEF Direct
<1>4. IsFiniteSet(later) BY <1>3, FS_Subset
<1>5. page \subseteq later /\ IsFiniteSet(page) BY <1>2, <1>4, FS_Subset
<1> DEFINE Below(d) == {e \in later : e < d}
<1>6. \A d : IsFiniteSet(Below(d)) /\ Cardinality(Below(d)) \in Nat
  BY <1>4, FS_Subset, FS_CardinalityType
<1>7. \A d \in later : d \in page <=> Cardinality(Below(d)) < PageSize BY <1>2
<1>8. ASSUME NEW a \in later, a \notin page
      PROVE  More(page) /\ page # {} /\ \A p \in page : p < a
  <2>1. ~(Cardinality(Below(a)) < PageSize) BY <1>7, <1>8
  <2>2. ASSUME NEW p \in page PROVE p < a
    <3>1. p \in later /\ p \in Nat /\ a \in Nat BY <1>3, <1>5, <1>8
    <3> SUFFICES ASSUME ~(p < a) PROVE FALSE OBVIOUS
    <3>2. Below(a) \subseteq Below(p)
      <4> SUFFICES ASSUME NEW e \in Below(a) PROVE e < p OBVIOUS
      <4>1. e \in Nat /\ e < a BY <1>3
      <4> QED BY <3>1, <4>1
    <3>3. Cardinality(Below(a)) <= Cardinality(Below(p)) BY <1>6, <3>2, FS_Subset
    <3>4. Cardinality(Below(p)) < PageSize BY <1>7, <3>1
    <3> HIDE DEF Below
    <3> QED BY <1>3, <1>6, <2>1, <3>3, <3>4
  <2> DEFINE T == {e \in later : e \notin page}
  <2>3. T \in SUBSET Nat /\ T # {} BY <1>3, <1>8
  <2> HIDE DEF T
  <2>4. PICK b \in T : \A e \in T : b <= e BY <2>3, LeastOf
  <2>5. b \in later /\ b \notin page /\ b \in Nat BY <2>3 DEF T
  <2>6. Below(b) \subseteq page
    <3> SUFFICES ASSUME NEW e \in later, e < b, e \notin page PROVE FALSE OBVIOUS
    <3>1. e \in T /\ e \in Nat BY <1>3 DEF T
    <3>2. b <= e BY <2>4, <3>1
    <3> QED BY <2>5, <3>1, <3>2
  <2>7. Cardinality(Below(b)) <= Cardinality(page) BY <1>5, <2>6, FS_Subset
  <2>8. ~(Cardinality(Below(b)) < PageSize) BY <1>7, <2>5
  <2>9. Cardinality(page) \in Nat BY <1>5, FS_CardinalityType
  <2>10. Cardinality(page) >= PageSize
    <3>1. PICK n : n = Cardinality(Below(b)) OBVIOUS
    <3>2. n \in Nat BY <1>6, <3>1
    <3> HIDE DEF Below
    <3> QED BY <1>3, <2>7, <2>8, <2>9, <3>1, <3>2
  <2>11. page # {} BY <1>3, <2>10, FS_EmptySet
  <2> QED BY <2>2, <2>10, <2>11 DEF More
<1>9. \A a \in Direct(source, c) : a > cursor => a \in later BY <1>1
<1> HIDE DEF Below
<1> QED BY <1>1, <1>3, <1>5, <1>8, <1>9 DEF Direct

----------------
(* The stack of generators *)

\* A step that leaves the generators alone.
LEMMA SameStackShape ==
  ASSUME StackShape, Live, request' = request, stack' = stack,
         pc' # "subs" => pc # "subs" \/ stack = <<>> \/ Top.subs = {},
         pc' \in {"count", "query"} =>
           pc \in {"count", "query"} \/ stack = <<>> \/ (Top.page = {} /\ Top.more),
         ~request.include => pc' \notin {"list", "subs"},
         TypeOK
  PROVE  StackShape'
<1>1. stack # <<>> => Top = stack[Len(stack)] BY TopTyped DEF TypeOK
<1>2. ASSUME NEW i \in DOMAIN stack PROVE FrameShape(i)'
  <2>1. FrameShape(i) BY DEF StackShape
  <2>2. stack # <<>> BY <1>2 DEF TypeOK
  <2> QED BY <1>1, <2>1, <2>2 DEF FrameShape
<1> QED BY <1>2 DEF StackShape

\* One that replaces the innermost one.
LEMMA TopReplacedShape ==
  ASSUME StackShape, Live, TypeOK, request' = request, stack # <<>>,
         NEW f \in Frame, stack' = SetTop(f), f.coll = Top.coll,
         f.page \subseteq Direct(Docs, f.coll), \A d \in f.page : d > f.cursor,
         f.cursor # 0 => CollOf[f.cursor] = f.coll,
         \A c \in f.subs : c # Root /\ ParentOf[c] = f.cursor,
         pc' # "subs" => f.subs = {}, pc' \notin {"count", "query"},
         ~request.include => pc' \notin {"list", "subs"}
  PROVE  StackShape'
<1>1. Top = stack[Len(stack)] /\ Len(stack) \in DOMAIN stack BY TopTyped DEF TypeOK
<1>2. /\ Len(stack') = Len(stack) /\ stack'[Len(stack)] = f
      /\ \A i \in DOMAIN stack' :
           i \in DOMAIN stack /\ (i # Len(stack) => stack'[i] = stack[i])
      /\ stack' \in Seq(Frame) /\ stack \in Seq(Frame)
  BY SetTopTyped DEF TypeOK
<1>3. ASSUME NEW i \in DOMAIN stack' PROVE FrameShape(i)'
  <2>1. FrameShape(i) /\ i \in 1..Len(stack) BY <1>2 DEF StackShape
  <2>2. CASE i = Len(stack) BY <1>1, <1>2, <2>1, <2>2 DEF FrameShape
  <2>3. CASE i # Len(stack)
    <3>1. stack'[i] = stack[i] /\ i < Len(stack) /\ i + 1 \in DOMAIN stack /\ i # Len(stack')
      BY <1>2, <2>1, <2>3
    <3>2. stack'[i + 1].coll = stack[i + 1].coll BY <1>1, <1>2, <3>1
    <3> QED BY <1>2, <2>1, <3>1, <3>2 DEF FrameShape
  <2> QED BY <2>2, <2>3
<1> QED BY <1>3 DEF StackShape

\* One that returns from it.
LEMMA ReturnShape ==
  ASSUME StackShape, Live, TypeOK, request' = request, stack # <<>>, Return
  PROVE  StackShape'
<1>1. /\ stack' = Front(stack) /\ stack \in Seq(Frame)
      /\ pc' = IF Len(stack) = 1 THEN Ended ELSE "subs"
  BY DEF TypeOK, Return
<1>2. /\ Len(stack') = Len(stack) - 1 /\ stack' \in Seq(Frame)
      /\ \A i \in DOMAIN stack' : i \in DOMAIN stack /\ stack'[i] = stack[i]
  BY <1>1, TopTyped
<1>3. pc' = "subs" => Len(stack) # 1 BY <1>1 DEF Ended
<1>4. ASSUME NEW i \in DOMAIN stack' PROVE FrameShape(i)' /\ pc' = "subs"
  <2>1. FrameShape(i) /\ i \in 1..Len(stack') BY <1>2, <1>4 DEF StackShape
  <2>2. Len(stack) # 1 BY <1>2, <2>1
  <2>3. pc' = "subs" BY <1>1, <2>2
  <2>4. i < Len(stack') => i + 1 \in DOMAIN stack' /\ i < Len(stack) /\ stack'[i + 1] = stack[i + 1]
    BY <1>1, <1>2, <2>1
  <2> QED BY <1>2, <1>4, <2>1, <2>3, <2>4 DEF FrameShape
<1>5. pc' = "subs" => request.include
  <2> SUFFICES ASSUME pc' = "subs" PROVE request.include OBVIOUS
  <2>1. Len(stack) \in Nat /\ Len(stack) # 0 /\ Len(stack) # 1 /\ DOMAIN stack = 1..Len(stack) BY <1>1, <1>3
  <2>2. 2 \in DOMAIN stack BY <2>1
  <2>3. FrameShape(2) BY <2>2 DEF StackShape
  <2> QED BY <2>3 DEF FrameShape
<1>6. pc' # "list" BY <1>1 DEF Ended
<1> QED BY <1>4, <1>5, <1>6 DEF StackShape

\* A page is of the collection of its generator, after its cursor.
LEMMA FetchPageShape ==
  ASSUME CollectionJobInv, StackShape, Live, request' = request, FetchPage
  PROVE  StackShape'
<1>1. pc = "query" /\ Kind # "import" /\ TypeOK BY DEF FetchPage, At, CollectionJobInv, KindShapes
<1>2. stack # <<>> /\ Top \in Frame /\ Top = stack[Len(stack)] /\ Len(stack) \in DOMAIN stack
  BY <1>1, StackedThere, TopTyped
<1>3. CASE Return BY <1>1, <1>2, <1>3, ReturnShape
<1>4. PICK page : page = Page(source, Top.coll, Top.cursor) OBVIOUS
<1>5. CASE stack' = SetTop([Top EXCEPT !.page = page, !.more = More(page)]) /\ pc' = "next"
  <2>1. PICK f : f = [Top EXCEPT !.page = page, !.more = More(page)] OBVIOUS
  <2>2. /\ Top.coll \in Collections /\ Top.cursor \in Nat /\ Top.page \subseteq Docs
        /\ Top.more \in BOOLEAN /\ Top.subs \subseteq Collections
    BY <1>2 DEF Frame
  <2>3. page \subseteq Direct(Docs, Top.coll) /\ \A d \in page : d > Top.cursor
    BY <1>1, <1>4, <2>2, PageIsNext DEF TypeOK
  <2>4. page \subseteq Docs BY <2>3 DEF Direct
  <2>5. f \in Frame /\ f.page = page /\ f.coll = Top.coll /\ f.cursor = Top.cursor /\ f.subs = Top.subs
    <3>1. More(page) \in BOOLEAN BY DEF More
    <3> QED BY <1>2, <2>1, <2>2, <2>4, <3>1 DEF Frame
  <2>6. FrameShape(Len(stack)) BY <1>2 DEF StackShape
  <2>7. /\ Top.subs = {} /\ (Top.cursor # 0 => CollOf[Top.cursor] = Top.coll)
    BY <1>1, <1>2, <2>6 DEF FrameShape
  <2> QED BY <1>1, <1>2, <1>5, <2>1, <2>3, <2>5, <2>7, TopReplacedShape
<1> QED BY <1>3, <1>4, <1>5 DEF FetchPage

\* A generator that is done is left for the one that delegated to it.
LEMMA EndPageShape ==
  ASSUME CollectionJobInv, StackShape, Live, request' = request, EndPage
  PROVE  StackShape'
BY StackedThere, ReturnShape, SameStackShape DEF EndPage, At, CollectionJobInv

\* Where a document that is given leads.
LEMMA GiveLeads ==
  ASSUME NEW d, Give(d)
  PROVE  pc' \in {"write", "check", "list", "next"} /\ (pc' = "list" => request.include)
BY DEF Give, Resumed

\* The document given next becomes the cursor.
LEMMA NextDocumentShape ==
  ASSUME CollectionJobInv, StackShape, Live, request' = request, NextDocument
  PROVE  StackShape'
<1>1. PICK d : d = First(Top.page) OBVIOUS
<1>2. /\ pc = "next" /\ Kind # "import" /\ Top.page # {} /\ TypeOK
      /\ stack' = SetTop([Top EXCEPT !.cursor = d, !.page = @ \ {d}])
      /\ (ListsBefore /\ pc' = "list") \/ Give(d)
  BY <1>1 DEF NextDocument, At, CollectionJobInv
<1>3. stack # <<>> /\ Top \in Frame /\ Top = stack[Len(stack)] /\ Len(stack) \in DOMAIN stack
  BY <1>2, StackedThere, TopTyped
<1>4. PICK f : f = [Top EXCEPT !.cursor = d, !.page = @ \ {d}] OBVIOUS
<1>5. /\ Top.coll \in Collections /\ Top.cursor \in Nat /\ Top.page \in SUBSET Docs
      /\ Top.more \in BOOLEAN /\ Top.subs \subseteq Collections
  BY <1>3 DEF Frame
<1>6. d \in Top.page /\ d \in Docs /\ d \in Nat /\ \A e \in Top.page : d <= e
  BY <1>1, <1>2, <1>5, TreeAssumption, LeastOf DEF First
<1>7. /\ f \in Frame /\ f.page = Top.page \ {d} /\ f.coll = Top.coll /\ f.cursor = d /\ f.subs = Top.subs
  BY <1>3, <1>4, <1>5, <1>6 DEF Frame
<1>8. FrameShape(Len(stack)) BY <1>3 DEF StackShape
<1>9. /\ Top.subs = {} /\ Top.page \subseteq Direct(Docs, Top.coll)
  BY <1>2, <1>3, <1>8 DEF FrameShape
<1>10. \A e \in f.page : e > f.cursor
  <2> SUFFICES ASSUME NEW e \in Top.page, e # d PROVE e > d BY <1>7
  <2>1. e \in Nat /\ d <= e BY <1>5, <1>6, TreeAssumption
  <2> QED BY <1>6, <2>1
<1>11. CollOf[f.cursor] = f.coll BY <1>6, <1>7, <1>9 DEF Direct
<1>12. pc' \in {"write", "check", "list", "next"} /\ (pc' = "list" => request.include)
  BY <1>2, GiveLeads DEF ListsBefore
<1>13. f.page \subseteq Direct(Docs, f.coll) BY <1>7, <1>9
<1>14. \A c \in f.subs : c # Root /\ ParentOf[c] = f.cursor BY <1>7, <1>9
<1>15. stack' = SetTop(f) BY <1>2, <1>4
<1>16. f.subs = {} /\ f.coll = Top.coll /\ f \in Frame BY <1>7, <1>9
<1> HIDE DEF Frame
<1> QED BY <1>2, <1>3, <1>10, <1>11, <1>12, <1>13, <1>14, <1>15, <1>16, TopReplacedShape

\* Those listed are the subcollections of the cursor.
LEMMA ListSubcollectionsShape ==
  ASSUME CollectionJobInv, StackShape, Live, request' = request, ListSubcollections
  PROVE  StackShape'
<1>1. PICK subs : subs = Subcollections(source, Top.cursor) OBVIOUS
<1>2. /\ pc = "list" /\ TypeOK /\ pc' = "subs" /\ Kind # "import"
      /\ stack' = SetTop([Top EXCEPT !.subs = subs])
  BY <1>1 DEF ListSubcollections, At, CollectionJobInv, KindShapes
<1>3. stack # <<>> /\ Top \in Frame /\ Top = stack[Len(stack)] /\ Len(stack) \in DOMAIN stack
  BY <1>2, StackedThere, TopTyped
<1>4. PICK f : f = [Top EXCEPT !.subs = subs] OBVIOUS
<1>5. subs \subseteq Collections /\ \A c \in subs : c # Root /\ ParentOf[c] = Top.cursor
  BY <1>1 DEF Subcollections
<1>6. /\ f \in Frame /\ f.page = Top.page /\ f.coll = Top.coll /\ f.cursor = Top.cursor /\ f.subs = subs
  BY <1>3, <1>4, <1>5 DEF Frame
<1>7. FrameShape(Len(stack)) BY <1>3 DEF StackShape
<1>8. request.include BY <1>2 DEF StackShape
<1>9. /\ f.page \subseteq Direct(Docs, f.coll) /\ \A d \in f.page : d > f.cursor
      /\ f.cursor # 0 => CollOf[f.cursor] = f.coll
      /\ \A c \in f.subs : c # Root /\ ParentOf[c] = f.cursor
  BY <1>3, <1>5, <1>6, <1>7 DEF FrameShape
<1>10. stack' = SetTop(f) /\ f \in Frame /\ f.coll = Top.coll /\ stack # <<>> /\ TypeOK
  BY <1>2, <1>3, <1>4, <1>6
<1>11. pc' = "subs" BY <1>2
<1> QED BY <1>8, <1>9, <1>10, <1>11, TopReplacedShape

\* The new generator is that of a subcollection of the cursor.
LEMMA DescendShape ==
  ASSUME CollectionJobInv, StackShape, Live, request' = request, Descend
  PROVE  StackShape'
<1>1. PICK c \in Top.subs :
        stack' = Append(SetTop([Top EXCEPT !.subs = @ \ {c}]), FrameOf(c))
  BY DEF Descend
<1>2. pc = "subs" /\ pc' = "count" /\ Kind # "import" /\ TypeOK
  BY DEF Descend, At, CollectionJobInv, KindShapes
<1>3. stack \in Seq(Frame) /\ stack # <<>> /\ Top \in Frame /\ Top = stack[Len(stack)]
      /\ Len(stack) \in DOMAIN stack
  BY <1>2, StackedThere, TopTyped
<1>4. PICK f : f = [Top EXCEPT !.subs = @ \ {c}] OBVIOUS
<1>5. PICK below : below = SetTop(f) OBVIOUS
<1>6. /\ f \in Frame /\ f.page = Top.page /\ f.coll = Top.coll /\ f.cursor = Top.cursor
      /\ f.subs = Top.subs \ {c} /\ c \in Collections
  BY <1>3, <1>4 DEF Frame
<1>7. /\ below \in Seq(Frame)
      /\ Len(below) = Len(stack) /\ below[Len(stack)] = f
      /\ \A i \in DOMAIN below :
           i \in DOMAIN stack /\ (i # Len(stack) => below[i] = stack[i])
  BY <1>3, <1>5, <1>6, SetTopTyped
<1>8. PICK new : new = FrameOf(c) OBVIOUS
<1>9. new \in Frame /\ new.coll = c /\ new.cursor = 0 /\ new.page = {} /\ new.more /\ new.subs = {}
  BY <1>6, <1>8, FrameOfTyped DEF FrameOf
<1>10. stack' = Append(below, new) BY <1>1, <1>4, <1>5, <1>8
<1>11. /\ Len(stack') = Len(stack) + 1 /\ stack'[Len(stack) + 1] = new /\ stack'[Len(stack)] = f
       /\ DOMAIN stack' = 1..(Len(stack) + 1)
       /\ \A i \in 1..(Len(stack) - 1) : stack'[i] = stack[i]
  BY <1>3, <1>7, <1>9, <1>10
<1>12. \A i \in DOMAIN stack : FrameShape(i) BY DEF StackShape
<1>13. c # Root /\ ParentOf[c] = Top.cursor BY <1>3, <1>12 DEF FrameShape
<1>14. request.include BY <1>2 DEF StackShape
<1>15. ASSUME NEW i \in DOMAIN stack' PROVE FrameShape(i)'
  <2>0. Len(stack) \in Nat /\ i \in 1..(Len(stack) + 1) /\ DOMAIN stack = 1..Len(stack) BY <1>3, <1>11
  <2>1. CASE i = Len(stack) + 1
    <3>1. i # 1 BY <1>3, <2>0, <2>1
    <3> QED BY <1>2, <1>9, <1>11, <1>14, <2>0, <2>1, <3>1 DEF FrameShape
  <2>2. CASE i = Len(stack)
    <3>1. stack'[i] = f /\ stack'[i + 1].coll = c /\ c \notin f.subs /\ i # Len(stack')
      <4>0. PICK n \in Nat : n = Len(stack) BY <2>0
      <4>1. /\ i = n /\ Len(stack') = n + 1 /\ stack'[n + 1] = new /\ stack'[n] = f
        BY <1>11, <2>2, <4>0
      <4>2. stack'[i] = f /\ stack'[i + 1] = new /\ i # Len(stack') BY <4>0, <4>1
      <4> QED BY <1>6, <1>9, <4>2
    <3>2. FrameShape(i) /\ stack[i] = Top BY <1>3, <1>12, <2>2
    <3> QED BY <1>6, <1>13, <1>14, <3>1, <3>2 DEF FrameShape
  <2>3. CASE i # Len(stack) + 1 /\ i # Len(stack)
    <3>1. /\ stack'[i] = stack[i] /\ i < Len(stack) /\ i # Len(stack') /\ i + 1 \in DOMAIN stack
          /\ i \in DOMAIN stack
      BY <1>11, <2>0, <2>3
    <3>2. stack'[i + 1].coll = stack[i + 1].coll
      <4>1. CASE i + 1 = Len(stack) BY <1>3, <1>6, <1>11, <4>1
      <4>2. CASE i + 1 # Len(stack) BY <1>11, <2>0, <2>3, <4>2
      <4> QED BY <4>1, <4>2
    <3>3. FrameShape(i) BY <1>12, <3>1
    <3> QED BY <1>14, <3>1, <3>2, <3>3 DEF FrameShape
  <2> QED BY <2>1, <2>2, <2>3
<1> QED BY <1>2, <1>14, <1>15 DEF StackShape

\* The generators keep their shape.
LEMMA StackShapeKept ==
  ASSUME CollectionJobInv, OverShape, StackShape, [Next]_vars
  PROVE  StackShape'
<1> SUFFICES ASSUME Live' PROVE StackShape' BY DEF StackShape
<1>1. Live /\ request' = request /\ TypeOK /\ KindShapes BY WasLive, SameRequest DEF CollectionJobInv
<1>2. CASE CountCollection BY <1>1, <1>2, SameStackShape DEF CountCollection, At, reader
<1>3. CASE FetchPage BY <1>1, <1>3, FetchPageShape
<1>4. CASE EndPage BY <1>1, <1>4, EndPageShape
<1>5. CASE NextDocument BY <1>1, <1>5, NextDocumentShape
<1>6. CASE ListSubcollections BY <1>1, <1>6, ListSubcollectionsShape
<1>7. CASE Descend BY <1>1, <1>7, DescendShape
<1>8. CASE EndSubcollections BY <1>1, <1>8, GiveLeads, SameStackShape DEF EndSubcollections, reader
<1>9. CASE CountLines \/ NextLine
  BY <1>1, <1>9, ThrownNotLive, SameStackShape DEF CountLines, NextLine, KindShapes, reader, At, Ended
<1>10. CASE CheckTargets BY <1>1, <1>10, ThrownNotLive, SameStackShape DEF CheckTargets, At, reader
<1>11. CASE WriteNext BY <1>1, <1>11, SameStackShape DEF WriteNext, At, reader, Continue, Resumed
<1>12. CASE Push \/ Commit \/ Finish \/ EndFile \/ Convert \/ Report
  <2>1. stack' = stack /\ (pc' = pc \/ (pc' \in {"write", "report", "convert", "over"} /\ pc # "subs"))
    BY <1>12 DEF Push, Commit, Finish, EndFile, Convert, Report, Ends, At, reader
  <2> QED BY <1>1, <2>1, SameStackShape DEF StackShape
<1>13. CASE SeesCancel \/ Rejects \/ CommitFails
  BY <1>13, ThrownNotLive DEF SeesCancel, Rejects, CommitFails
<1>14. CASE CommitOversized
  <2>1. stack' = stack /\ pc' = pc BY <1>14, ThrownNotLive DEF CommitOversized, reader
  <2> QED BY <1>1, <2>1, SameStackShape DEF StackShape
<1>15. CASE Cancel \/ (\E d \in Docs : OutsideChange(d)) \/ UNCHANGED vars
  <2>1. stack' = stack /\ pc' = pc BY <1>15 DEF Cancel, OutsideChange, own, vars
  <2> QED BY <1>1, <2>1, SameStackShape DEF StackShape
<1> QED BY <1>2, <1>3, <1>4, <1>5, <1>6, <1>7, <1>8, <1>9, <1>10, <1>11, <1>12, <1>13, <1>14, <1>15
  DEF Next, JobStep, Failure, Over

----------------
(* The chunk *)

\* The elements of a sequence that grows, shrinks, is empty or has one of them.
LEMMA SetOfSequence ==
  ASSUME NEW S, NEW s \in Seq(S), NEW d
  PROVE  /\ d \in S => ToSet(Append(s, d)) = ToSet(s) \cup {d}
         /\ s # <<>> => /\ Head(s) \in ToSet(s) /\ ToSet(Tail(s)) \subseteq ToSet(s)
                        /\ ToSet(s) = {Head(s)} \cup ToSet(Tail(s))
         /\ s = <<>> <=> ToSet(s) = {}
         /\ ToSet(s) \subseteq S
         /\ ToSet(<<d>>) = {d} /\ ToSet(<<>>) = {}
<1>1. ASSUME d \in S PROVE ToSet(Append(s, d)) = ToSet(s) \cup {d}
  <2>1. PICK t : t = Append(s, d) OBVIOUS
  <2>2. /\ DOMAIN t = 1..(Len(s) + 1) /\ t[Len(s) + 1] = d /\ Len(s) \in Nat
        /\ \A i \in 1..Len(s) : t[i] = s[i]
        /\ DOMAIN s = 1..Len(s)
    BY <1>1, <2>1
  <2>3. {t[i] : i \in DOMAIN t} \subseteq {s[i] : i \in DOMAIN s} \cup {d} BY <2>2
  <2>4. {s[i] : i \in DOMAIN s} \cup {d} \subseteq {t[i] : i \in DOMAIN t} BY <2>2
  <2> QED BY <2>1, <2>3, <2>4 DEF ToSet
<1>2. ASSUME s # <<>>
      PROVE  /\ Head(s) \in ToSet(s) /\ ToSet(Tail(s)) \subseteq ToSet(s)
             /\ ToSet(s) = {Head(s)} \cup ToSet(Tail(s))
  <2>1. PICK t : t = Tail(s) OBVIOUS
  <2>2. /\ DOMAIN t = 1..(Len(s) - 1) /\ Len(s) \in Nat /\ Len(s) # 0 /\ Head(s) = s[1]
        /\ \A i \in 1..(Len(s) - 1) : t[i] = s[i + 1]
        /\ DOMAIN s = 1..Len(s)
    BY <1>2, <2>1
  <2>3. ASSUME NEW i \in DOMAIN t PROVE t[i] \in {s[k] : k \in DOMAIN s} BY <2>2, <2>3
  <2>4. Head(s) \in {s[i] : i \in DOMAIN s} BY <2>2
  <2>5. ASSUME NEW i \in DOMAIN s PROVE s[i] \in {Head(s)} \cup {t[k] : k \in DOMAIN t}
    <3>1. CASE i = 1 BY <2>2, <3>1
    <3>2. CASE i # 1
      <4>1. i - 1 \in DOMAIN t /\ t[i - 1] = s[i] BY <2>2, <2>5, <3>2
      <4> QED BY <4>1
    <3> QED BY <3>1, <3>2
  <2> QED BY <2>1, <2>3, <2>4, <2>5 DEF ToSet
<1>3. s = <<>> <=> ToSet(s) = {} BY DEF ToSet
<1>4. ToSet(s) \subseteq S BY DEF ToSet
<1>5. ToSet(<<d>>) = {d} /\ ToSet(<<>>) = {} BY DEF ToSet
<1> QED BY <1>1, <1>2, <1>3, <1>4, <1>5

\* A step of the generators, between two documents.
LEMMA ReadingChunk ==
  ASSUME ChunkShape, Live, Kind' = Kind, request' = request,
         UNCHANGED <<target, batcher>>,
         pc \in {"count", "query", "next", "list", "subs"},
         pc' \in {"count", "query", "next", "list", "subs"}
  PROVE  ChunkShape'
BY DEF ChunkShape, batcher

\* A generator that returns to run() leaves the last chunk to be checked.
LEMMA ReturnChunk ==
  ASSUME CollectionJobInv, ChunkShape, Live, request' = request, Kind # "import", stack # <<>>,
         UNCHANGED <<db, lines, batcher>>, pc \in {"query", "next"}, Return
  PROVE  ChunkShape'
<1>1. /\ stack' = Front(stack) /\ stack \in Seq(Frame) /\ lines = <<>>
      /\ pc' = (IF Len(stack) = 1 THEN Ended ELSE "subs")
      /\ Kind' = Kind /\ lines' = lines
      /\ UNCHANGED <<target, batcher>>
  BY DEF Return, CollectionJobInv, TypeOK, KindShapes, Kind, db
<1>2. CASE Len(stack) # 1 BY <1>1, <1>2, ReadingChunk
<1>3. CASE Len(stack) = 1
  <2>1. Len(stack') = 0 /\ stack' \in Seq(Frame) BY <1>1, <1>3, TopTyped
  <2>2. stack' = <<>> /\ pc' = Ended BY <1>1, <1>3, <2>1
  <2>3. CASE chunk = <<>> BY <1>1, <2>2, <2>3 DEF ChunkShape, Ended, batcher
  <2>4. CASE chunk # <<>>
    <3>1. Kind \in {"copy", "import"}
      BY <2>4 DEF ChunkShape, Kind, Request, CollectionJobInv, TypeOK
    <3> QED BY <1>1, <2>2, <2>4, <3>1 DEF ChunkShape, Ended, batcher, Exports
  <2> QED BY <2>3, <2>4
<1> QED BY <1>2, <1>3

\* A document given goes to where its kind of job takes it.
LEMMA GiveChunk ==
  ASSUME CollectionJobInv, ChunkShape, Live, request' = request, NEW d \in Docs, Give(d),
         Kind # "import", stack # <<>>, pc \in {"next", "subs"},
         UNCHANGED <<db, pending, committing>>
  PROVE  ChunkShape'
<1>1. Kind' = Kind /\ target' = target /\ chunk \in Seq(Docs)
  BY DEF Kind, db, CollectionJobInv, TypeOK
<1>2. CASE Kind = "delete"
  <2>1. chunk' = <<d>> /\ writable' = {d} /\ pc' = "write" BY <1>2 DEF Give, Exports
  <2>2. Len(chunk') = 1 /\ ToSet(chunk') = {d} BY <2>1, <1>1, SetOfSequence
  <2> QED BY <1>1, <1>2, <2>1, <2>2 DEF ChunkShape, Exports
<1>3. CASE Kind = "copy" BY <1>1, <1>3 DEF Give, Exports, Resumed, ChunkShape
<1>4. CASE Kind \in Exports BY <1>1, <1>4 DEF Give, Exports, Resumed, ChunkShape
<1> QED BY <1>2, <1>3, <1>4 DEF Give

\* A step at the end of the stream or of a batch.
LEMMA EndingChunk ==
  ASSUME ChunkShape, Live, request' = request, target \subseteq target',
         UNCHANGED <<reader, chunk, writable, pending>>,
         committing' # <<>> => committing # <<>>,
         \/ pc' = pc
         \/ pc = "finish" /\ pc' = "convert" /\ Kind \in Exports
         \/ pc \in {"finish", "convert"} /\ pc' = "report" /\ Kind \in Exports
         \/ pc = "report" /\ pc' = "over" /\ committing = <<>>
  PROVE  ChunkShape'
BY DEF Kind, ChunkShape, reader, Exports

\* The loop over the chunk drops what is not writable and flushes what is full.
LEMMA WriteNextChunk ==
  ASSUME CollectionJobInv, ChunkShape, Live, request' = request, WriteNext
  PROVE  ChunkShape'
<1>1. /\ pc = "write" /\ committing = <<>> /\ stack' = stack /\ lines' = lines /\ target' = target
      /\ Kind' = Kind /\ chunk \in Seq(Docs) /\ Kind \notin Exports
      /\ ToSet(chunk) \subseteq writable \cup target
      /\ (request.policy = "overwrite" => ToSet(chunk) \subseteq writable)
  BY DEF WriteNext, At, reader, db, Kind, CollectionJobInv, TypeOK, ChunkShape
<1>2. CASE chunk = <<>> BY <1>1, <1>2 DEF WriteNext, ChunkShape, batcher, Continue, Resumed
<1>3. CASE chunk # <<>> /\ Head(chunk) \notin writable
  <2>1. chunk' = Tail(chunk) /\ UNCHANGED <<pc, writable, pending, committing>>
    BY <1>3 DEF WriteNext
  <2>2. ToSet(chunk') \subseteq ToSet(chunk) BY <1>1, <1>3, <2>1, SetOfSequence
  <2>3. Kind = "delete" => FALSE
    <3> SUFFICES ASSUME Kind = "delete" PROVE FALSE OBVIOUS
    <3>1. request.policy = "overwrite" BY DEF CollectionJobInv, KindShapes
    <3>2. Head(chunk) \in ToSet(chunk) BY <1>1, <1>3, SetOfSequence
    <3> QED BY <1>1, <1>3, <3>1, <3>2
  <2> QED BY <1>1, <1>3, <2>1, <2>2, <2>3 DEF ChunkShape
<1>4. CASE chunk # <<>> /\ Head(chunk) \in writable BY <1>1, <1>4 DEF WriteNext, ChunkShape
<1> QED BY <1>2, <1>3, <1>4

\* Chunk and batches hold something only where they may.
LEMMA ChunkShapeKept ==
  ASSUME CollectionJobInv, OverShape, ChunkShape, [Next]_vars
  PROVE  ChunkShape'
<1> SUFFICES ASSUME Live' PROVE ChunkShape' BY DEF ChunkShape
<1>1. Live /\ request' = request /\ TypeOK /\ KindShapes /\ Kind' = Kind /\ SparesExisting /\ KeepsExisting
  BY WasLive, SameRequest DEF CollectionJobInv, Kind
<1>2. CASE CountCollection \/ ListSubcollections \/ Descend
  BY <1>1, <1>2, ReadingChunk DEF CountCollection, ListSubcollections, Descend, At, db
<1>3. CASE FetchPage
  BY <1>1, <1>3, StackedThere, ReturnChunk, ReadingChunk DEF FetchPage, At, KindShapes, db
<1>4. CASE EndPage BY <1>1, <1>4, StackedThere, ReturnChunk, ReadingChunk DEF EndPage, At, db
<1>5. CASE NextDocument
  BY <1>1, <1>5, StackedThere, FirstTyped, GiveChunk, ReadingChunk DEF NextDocument, At, Frame, db, batcher
<1>6. CASE EndSubcollections
  BY <1>1, <1>6, StackedThere, TopTyped, CursorsThere, GiveChunk, ReadingChunk
    DEF EndSubcollections, At, KindShapes, db, batcher
<1>7. CASE CountLines BY <1>1, <1>7, ReadingChunk DEF CountLines, At, db
<1>8. CASE NextLine
  <2>1. /\ pc = "next" /\ Kind = "import" /\ stack = <<>> /\ stack' = stack /\ committing = <<>>
        /\ UNCHANGED <<target, writable, pending, committing>> /\ chunk \in Seq(Docs)
        /\ lines \in Seq(Docs \cup {Bad})
    BY <1>1, <1>8 DEF NextLine, At, KindShapes, TypeOK, db
  <2>2. CASE lines = <<>> BY <1>1, <1>8, <2>1, <2>2 DEF NextLine, ChunkShape, Ended, Exports
  <2>3. CASE lines # <<>> BY <1>1, <1>8, <2>1, <2>3, ThrownNotLive DEF NextLine, ChunkShape, Exports
  <2> QED BY <2>2, <2>3
<1>9. CASE CheckTargets
  <2>1. /\ pc = "check" /\ UNCHANGED <<target, stack, lines, chunk, pending, committing>>
        /\ writable' = ToSet(chunk) \ (IF request.policy = "overwrite" THEN {} ELSE Existing)
        /\ pc' = "write"
    BY <1>9, ThrownNotLive DEF CheckTargets, At, db, reader
  <2>2. ToSet(chunk) \subseteq writable' \cup target BY <2>1 DEF Existing
  <2>3. request.policy = "overwrite" => ToSet(chunk) \subseteq writable' BY <2>1
  <2>4. Kind \in {"copy", "import"} BY <1>1, <2>1 DEF ChunkShape
  <2> QED BY <1>1, <2>1, <2>2, <2>3, <2>4 DEF ChunkShape, Exports
<1>10. CASE WriteNext BY <1>1, <1>10, WriteNextChunk
<1>11. CASE Push
  <2>1. /\ pc = "push" /\ pc' = "write" /\ committing = <<>> /\ chunk' = Tail(chunk) /\ chunk \in Seq(Docs)
        /\ UNCHANGED <<target, stack, lines, writable, committing>> /\ chunk # <<>>
    BY <1>1, <1>11 DEF Push, At, db, reader, CollectionJobInv, PushesHead, TypeOK
  <2>2. ToSet(chunk') \subseteq ToSet(chunk) BY <2>1, SetOfSequence
  <2>3. Len(chunk') = Len(chunk) - 1 /\ Len(chunk) \in Nat BY <2>1
  <2> QED BY <1>1, <2>1, <2>2, <2>3 DEF ChunkShape
<1>12. CASE Commit BY <1>1, <1>12, AppliedKeeps, EndingChunk DEF Commit, world
<1>13. CASE CommitOversized BY <1>1, <1>13, ThrownNotLive, EndingChunk DEF CommitOversized, db
<1>14. CASE Finish BY <1>1, <1>14 DEF Finish, At, db, reader, ChunkShape, Flush
<1>15. CASE EndFile \/ Convert \/ Report
  <2>1. UNCHANGED <<target, reader, chunk, writable, pending, committing>>
    BY <1>15 DEF EndFile, Convert, Report, db, batcher
  <2>2. \/ pc' = pc
        \/ pc = "finish" /\ pc' = "convert" /\ Kind \in Exports
        \/ pc \in {"finish", "convert"} /\ pc' = "report" /\ Kind \in Exports
        \/ pc = "report" /\ pc' = "over" /\ committing = <<>>
    BY <1>1, <1>15 DEF EndFile, Convert, Report, Ends, At, ChunkShape
  <2> QED BY <1>1, <2>1, <2>2, EndingChunk
<1>16. CASE SeesCancel \/ Rejects \/ CommitFails
  BY <1>16, ThrownNotLive DEF SeesCancel, Rejects, CommitFails
<1>17. CASE Cancel \/ (\E d \in Docs : OutsideChange(d)) \/ UNCHANGED vars
  BY <1>1, <1>17, EndingChunk DEF Cancel, OutsideChange, own, vars, reader
<1> QED BY <1>2, <1>3, <1>4, <1>5, <1>6, <1>7, <1>8, <1>9, <1>10, <1>11, <1>12, <1>13, <1>14, <1>15, <1>16, <1>17
  DEF Next, JobStep, Failure, Over

----------------
(* The files of an export, and the source *)

\* A job that has thrown stays so.
LEMMA DeadStays ==
  ASSUME OverShape, [Next]_vars, ~Live
  PROVE  UNCHANGED vars
<1>1. pc = "over" BY DEF OverShape, Live
<1> QED BY <1>1, AtOver DEF Next, Over, Cancel, OutsideChange

\* A step either does not throw, or it throws and leaves what it had not committed.
LEMMA ThrowsHow ==
  ASSUME OverShape, TypeOK, [Next]_vars, Live, ~Live'
  PROVE  /\ \E how \in {"cancelled", "failed"} : Throws(how)
         /\ UNCHANGED db \/ (committing # <<>> /\ Applied(Head(committing)))
         /\ UNCHANGED <<chunk, pending, progress, committed, request, begun, touched>>
         /\ committing' \in {committing, <<>>}
<1>0. outcome \in {"running", "returned"} BY DEF Live
<1>1. CASE SeesCancel \/ Rejects BY <1>1 DEF SeesCancel, Rejects, batcher, world
<1>2. CASE CommitFails BY <1>2 DEF CommitFails, world
<1>3. CASE CommitOversized BY <1>0, <1>3 DEF CommitOversized, Live, world
<1>4. CASE NextLine BY <1>0, <1>4 DEF NextLine, Live, world
<1>5. CASE CheckTargets BY <1>0, <1>5 DEF CheckTargets, Live, world
<1>6. CASE CountCollection \/ FetchPage \/ EndPage \/ NextDocument \/ ListSubcollections \/ Descend
  BY <1>0, <1>6 DEF CountCollection, FetchPage, EndPage, NextDocument, ListSubcollections, Descend, Live
<1>7. CASE EndSubcollections \/ CountLines \/ WriteNext \/ Push \/ Commit \/ Finish \/ EndFile \/ Convert
  BY <1>0, <1>7 DEF EndSubcollections, CountLines, WriteNext, Push, Commit, Finish, EndFile, Convert, Live
<1>8. CASE Report BY <1>8 DEF Report, Ends, Live
<1>9. CASE Cancel \/ (\E d \in Docs : OutsideChange(d)) \/ UNCHANGED vars
  BY <1>0, <1>9 DEF Cancel, OutsideChange, own, vars, Live
<1> QED BY <1>1, <1>2, <1>3, <1>4, <1>5, <1>6, <1>7, <1>8, <1>9 DEF Next, JobStep, Failure, Over

----------------
\* The files stay as they are while nothing touches them.
LEMMA SameFilesShape ==
  ASSUME FilesShape, Live, request' = request, files' = files,
         pc' \in {"report", "over"} <=> pc \in {"report", "over"},
         pc' = "convert" <=> pc = "convert", Live'
  PROVE  FilesShape'
BY DEF FilesShape, Kind

\* A document exported goes to the file its kind of export writes.
LEMMA GiveFiles ==
  ASSUME FilesShape, TypeOK, Live, Live', request' = request, NEW d, Give(d),
         pc \in {"next", "subs"}
  PROVE  FilesShape'
<1>1. /\ Kind' = Kind /\ pc' \notin {"convert", "report", "over"}
      /\ files \in [{"output", "temp"} -> File]
  BY GiveLeads DEF Kind, TypeOK
<1>2. CASE Kind \notin Exports BY <1>1, <1>2 DEF FilesShape
<1>3. CASE Kind = "exportCsv" BY <1>1, <1>3 DEF Give, Exports, File, FilesShape
<1>4. CASE Kind = "exportJsonl" BY <1>1, <1>4 DEF Give, Exports, File, FilesShape
<1> QED BY <1>2, <1>3, <1>4 DEF Exports

\* The files of an export are where its await says they are.
LEMMA FilesShapeKept ==
  ASSUME CollectionJobInv, OverShape, FilesShape, [Next]_vars
  PROVE  FilesShape'
<1>0. /\ request' = request /\ Kind' = Kind /\ TypeOK /\ files \in [{"output", "temp"} -> File]
      /\ KindShapes
  BY SameRequest DEF CollectionJobInv, TypeOK, Kind
<1>1. CASE UNCHANGED vars BY <1>1 DEF vars, FilesShape, Live, Kind
<1>2. CASE ~Live BY <1>1, <1>2, DeadStays
<1>3. CASE Live /\ ~Live'
  <2>1. Kind \in Exports => files' = Cleaned BY <1>0, <1>3, ThrowsHow DEF Throws
  <2>2. Cleaned["output"] = NoFile /\ Cleaned["temp"] = NoFile BY <1>0 DEF Cleaned
  <2> QED BY <1>0, <1>3, <2>1, <2>2 DEF FilesShape, NoFile
<1> SUFFICES ASSUME Live, Live' PROVE FilesShape' BY <1>2, <1>3
<1>4. CASE SeesCancel \/ Rejects \/ CommitFails
  BY <1>4, ThrownNotLive DEF SeesCancel, Rejects, CommitFails
<1>5. CASE CountCollection \/ FetchPage \/ EndPage \/ ListSubcollections \/ Descend
  BY <1>0, <1>5, SameFilesShape
  DEF CountCollection, FetchPage, EndPage, ListSubcollections, Descend, At, Return, Ended
<1>6. CASE NextDocument BY <1>0, <1>6, SameFilesShape, GiveFiles DEF NextDocument, At
<1>7. CASE EndSubcollections BY <1>0, <1>7, SameFilesShape, GiveFiles DEF EndSubcollections, At
<1>8. CASE CountLines \/ NextLine \/ CheckTargets
  BY <1>0, <1>8, SameFilesShape, ThrownNotLive DEF CountLines, NextLine, CheckTargets, At, Ended
<1>9. CASE WriteNext BY <1>0, <1>9, SameFilesShape DEF WriteNext, At, Continue, Resumed
<1>10. CASE Push \/ Commit \/ CommitOversized
  BY <1>0, <1>10, SameFilesShape, ThrownNotLive DEF Push, Commit, CommitOversized, At
<1>11. CASE Finish BY <1>0, <1>11 DEF Finish, FilesShape
<1>12. CASE EndFile
  <2>0. pc = "finish" /\ Kind \in Exports BY <1>12 DEF EndFile, At
  <2>1. CASE Kind = "exportJsonl"
    <3>1. files' = files BY <1>12, <2>1 DEF EndFile
    <3> QED BY <1>0, <2>1, <3>1 DEF FilesShape
  <2>2. CASE Kind = "exportCsv" BY <1>0, <1>12, <2>0, <2>2 DEF EndFile, FilesShape, Created
  <2> QED BY <2>0, <2>1, <2>2 DEF Exports
<1>13. CASE Convert
  <2>0. pc = "convert" BY <1>13 DEF Convert, At
  <2>1. CASE Unconverted # {} /\ UNCHANGED pc
             /\ files' = [files EXCEPT !["output"].docs = @ \cup {First(Unconverted)}]
    <3>1. Unconverted \in SUBSET Docs BY <1>0 DEF Unconverted, File
    <3>2. First(Unconverted) \in files.temp.docs BY <2>1, <3>1, FirstTyped DEF Unconverted
    <3>3. PICK d \in files.temp.docs : d = First(Unconverted) BY <3>2
    <3>4. files' = [files EXCEPT !["output"].docs = @ \cup {d}] BY <2>1, <3>3
    <3>5. /\ files'.output.there = files.output.there /\ files'.temp = files.temp
          /\ files'.output.docs = files.output.docs \cup {d}
      BY <1>0, <3>4 DEF File
    <3> QED BY <1>0, <2>0, <2>1, <3>5 DEF FilesShape, Exports
  <2>2. CASE files' = [files EXCEPT !["temp"] = NoFile] /\ pc' = "report"
    BY <1>0, <2>0, <2>2 DEF FilesShape
  <2> QED BY <1>13, <2>1, <2>2 DEF Convert
<1>14. CASE Report BY <1>0, <1>14, SameFilesShape DEF Report, At, Ends
<1>15. CASE Cancel \/ \E d \in Docs : OutsideChange(d)
  BY <1>0, <1>15, SameFilesShape DEF Cancel, OutsideChange, own
<1> QED BY <1>1, <1>4, <1>5, <1>6, <1>7, <1>8, <1>9, <1>10, <1>11, <1>12, <1>13, <1>14, <1>15
  DEF Next, JobStep, Failure, Over

----------------
\* The source and the target change only by a commit or from outside.
LEMMA DataChanges ==
  ASSUME [Next]_vars, TypeOK
  PROVE  \/ UNCHANGED <<db, touched>>
         \/ committing # <<>> /\ Applied(Head(committing)) /\ touched' = touched
            /\ (Commit \/ CommitFails)
         \/ \E d \in Docs : OutsideChange(d) /\ UNCHANGED own
<1>1. CASE SeesCancel \/ CountCollection \/ FetchPage \/ EndPage \/ NextDocument
  BY <1>1 DEF SeesCancel, CountCollection, FetchPage, EndPage, NextDocument, world
<1>2. CASE ListSubcollections \/ Descend \/ EndSubcollections \/ CountLines \/ NextLine
  BY <1>2 DEF ListSubcollections, Descend, EndSubcollections, CountLines, NextLine, world
<1>3. CASE CheckTargets \/ WriteNext \/ Push \/ Finish
  BY <1>3 DEF CheckTargets, WriteNext, Push, Finish, world
<1>4. CASE EndFile \/ Convert \/ Report \/ Rejects \/ CommitOversized
  BY <1>4 DEF EndFile, Convert, Report, Rejects, CommitOversized, world
<1>5. CASE Commit \/ CommitFails BY <1>5 DEF Commit, CommitFails, world
<1>6. CASE Cancel BY <1>6 DEF Cancel, own, db
<1>7. CASE \E d \in Docs : OutsideChange(d) BY <1>7 DEF OutsideChange
<1>8. CASE UNCHANGED vars BY <1>8 DEF vars, db
<1> QED BY <1>1, <1>2, <1>3, <1>4, <1>5, <1>6, <1>7, <1>8 DEF Next, JobStep, Failure, Over

\* Only a deletion or another client takes a document from the source.
LEMMA SourceKeptKept ==
  ASSUME TypeOK, SourceKept, [Next]_vars
  PROVE  SourceKept'
<1>1. Kind' = Kind /\ begun' = begun /\ touched \subseteq touched' BY SameRequest DEF Kind
<1>2. CASE UNCHANGED <<db, touched>> BY <1>1, <1>2 DEF SourceKept, db
<1>3. CASE Applied(Head(committing)) BY <1>1, <1>3 DEF Applied, SourceKept
<1>4. CASE \E d \in Docs : OutsideChange(d)
  <2>1. PICK d \in Docs : OutsideChange(d) BY <1>4
  <2>2. touched' = touched \cup {d} /\ source \subseteq source' \cup {d} BY <2>1 DEF OutsideChange
  <2> QED BY <1>1, <2>2 DEF SourceKept
<1> QED BY <1>2, <1>3, <1>4, DataChanges

----------------
(* What is in flight *)

\* Two batches in front of others.
LEMMA Joined ==
  ASSUME NEW S, NEW a \in S, NEW b \in S, NEW rest \in Seq(S), NEW m \in Nat, m = Len(rest),
         NEW new, new = <<a, b>> \o rest
  PROVE  /\ new \in Seq(S) /\ Len(new) = m + 2 /\ new[1] = a /\ new[2] = b
         /\ \A i \in 3..(m + 2) : new[i] = rest[i - 2]
OBVIOUS

\* A batch that is halved is in two, in order.
LEMMA HalvesOf ==
  ASSUME NEW batch \in Seq(Op), Len(batch) > 1
  PROVE  \E k \in 1..(Len(batch) - 1), one \in Seq(Op), two \in Seq(Op) :
           /\ Halves(batch) = <<one, two>>
           /\ Len(one) = k /\ \A j \in 1..k : one[j] = batch[j]
           /\ Len(two) = Len(batch) - k /\ \A j \in 1..(Len(batch) - k) : two[j] = batch[k + j]
<1> DEFINE k == (Len(batch) + 1) \div 2
           one == SubSeq(batch, 1, k)
           two == SubSeq(batch, k + 1, Len(batch))
<1>1. Len(batch) \in Nat /\ k \in 1..(Len(batch) - 1) OBVIOUS
<1>2. one \in Seq(Op) /\ Len(one) = k /\ \A j \in 1..k : one[j] = batch[j] BY <1>1
<1>3. two \in Seq(Op) /\ Len(two) = Len(batch) - k /\ \A j \in 1..(Len(batch) - k) : two[j] = batch[k + j]
  BY <1>1
<1>4. Halves(batch) = <<one, two>> BY DEF Halves
<1> HIDE DEF k, one, two
<1> QED BY <1>1, <1>2, <1>3, <1>4

HalvesFirst(old, new) ==
  old \in Seq(Seq(Op)) /\ old # <<>> /\ Len(old[1]) > 1 /\ new = Halves(old[1]) \o Tail(old)

Halved(old, new) ==
  /\ new \in Seq(Seq(Op)) /\ Len(new) = Len(old) + 1
  /\ \E k \in 1..(Len(old[1]) - 1) :
       /\ Len(new[1]) = k /\ \A j \in 1..k : new[1][j] = old[1][j]
       /\ Len(new[2]) = Len(old[1]) - k
       /\ \A j \in 1..(Len(old[1]) - k) : new[2][j] = old[1][k + j]
  /\ \A i \in 3..(Len(old) + 1) : new[i] = old[i - 1]

\* A queue whose first batch is halved has the same operations in the same order.
LEMMA HalvedQueue ==
  ASSUME NEW old, NEW new
  PROVE  HalvesFirst(old, new) => Halved(old, new)
<1>0. PICK batch, rest : batch = old[1] /\ rest = Tail(old) OBVIOUS
<1>1. ASSUME old \in Seq(Seq(Op)), old # <<>>, Len(old[1]) > 1, new = Halves(old[1]) \o Tail(old)
      PROVE /\ new \in Seq(Seq(Op)) /\ Len(new) = Len(old) + 1
            /\ \E k \in 1..(Len(old[1]) - 1) :
                 /\ Len(new[1]) = k /\ \A j \in 1..k : new[1][j] = old[1][j]
                 /\ Len(new[2]) = Len(old[1]) - k
                 /\ \A j \in 1..(Len(old[1]) - k) : new[2][j] = old[1][k + j]
            /\ \A i \in 3..(Len(old) + 1) : new[i] = old[i - 1]
  <2>1. /\ batch \in Seq(Op) /\ Len(batch) > 1 /\ rest \in Seq(Seq(Op))
        /\ Len(old) = Len(rest) + 1 /\ \A i \in 1..Len(rest) : rest[i] = old[i + 1]
    BY <1>0, <1>1
  <2>2. PICK m \in Nat : m = Len(rest) BY <2>1
  <2>3. PICK k \in 1..(Len(batch) - 1), one \in Seq(Op), two \in Seq(Op) :
             /\ Halves(batch) = <<one, two>>
             /\ Len(one) = k /\ \A j \in 1..k : one[j] = batch[j]
             /\ Len(two) = Len(batch) - k /\ \A j \in 1..(Len(batch) - k) : two[j] = batch[k + j]
    BY <2>1, HalvesOf
  <2>4. new = <<one, two>> \o rest BY <1>0, <1>1, <2>3
  <2>5. PICK S : S = Seq(Op) OBVIOUS
  <2>6. one \in S /\ two \in S /\ rest \in Seq(S) BY <2>1, <2>3, <2>5
  <2>7. /\ new \in Seq(S) /\ Len(new) = m + 2 /\ new[1] = one /\ new[2] = two
        /\ \A i \in 3..(m + 2) : new[i] = rest[i - 2]
    BY <2>2, <2>4, <2>6, Joined
  <2>8. ASSUME NEW i \in 3..(m + 2) PROVE new[i] = old[i - 1] BY <2>1, <2>2, <2>7
  <2>9. Len(old) + 1 = m + 2 BY <2>1, <2>2
  <2> QED BY <1>0, <2>3, <2>5, <2>7, <2>8, <2>9
<1> QED BY <1>1 DEF HalvesFirst, Halved

\* A queue without its first batch.
LEMMA TailQueue ==
  ASSUME NEW old \in Seq(Seq(Op)), old # <<>>, NEW new, new = Tail(old)
  PROVE  /\ new \in Seq(Seq(Op)) /\ Len(new) = Len(old) - 1 /\ Len(old) \in Nat /\ Len(old) # 0
         /\ Head(old) = old[1] /\ old[1] \in Seq(Op)
         /\ \A i \in 1..(Len(old) - 1) : new[i] = old[i + 1]
OBVIOUS

\* The steps that move operations to Firestore.
Halving ==
  /\ CommitOversized /\ committing # <<>> /\ Len(committing[1]) > 1
  /\ committing' = Halves(committing[1]) \o Tail(committing)
  /\ UNCHANGED <<pending, committed, progress, pc, db, chunk, lines>>

\* How operations move from the writer to Firestore while the job lives.
LEMMA QueueChanges ==
  ASSUME TypeOK, OverShape, [Next]_vars, Live'
  PROVE  \/ UNCHANGED <<pending, committing, committed>>
         \/ Flush /\ committing = <<>> /\ committed' = committed /\ (WriteNext \/ Finish)
         \/ Push
         \/ Commit
         \/ Halving
<1>1. CASE SeesCancel \/ CountCollection \/ FetchPage \/ EndPage \/ NextDocument
  BY <1>1 DEF SeesCancel, CountCollection, FetchPage, EndPage, NextDocument, batcher
<1>2. CASE ListSubcollections \/ Descend \/ EndSubcollections \/ CountLines \/ NextLine
  BY <1>2 DEF ListSubcollections, Descend, EndSubcollections, CountLines, NextLine, batcher
<1>3. CASE CheckTargets \/ EndFile \/ Convert \/ Report \/ Rejects
  BY <1>3 DEF CheckTargets, EndFile, Convert, Report, Rejects, batcher
<1>4. CASE WriteNext \/ Finish BY <1>4 DEF WriteNext, Finish, At, batcher
<1>5. CASE CommitFails BY <1>5, ThrownNotLive DEF CommitFails
<1>6. CASE CommitOversized
  BY <1>6, ThrownNotLive, TailQueue DEF CommitOversized, TypeOK, Halving, reader
<1>7. CASE Cancel \/ (\E d \in Docs : OutsideChange(d)) \/ UNCHANGED vars
  BY <1>7 DEF Cancel, OutsideChange, own, vars
<1> QED BY <1>1, <1>2, <1>3, <1>4, <1>5, <1>6, <1>7 DEF Next, JobStep, Failure, Over

\* A flush makes the pending operations the only batch, if there are any.
LEMMA FlushQueue ==
  ASSUME TypeOK, Flush, committing = <<>>
  PROVE  /\ pending' = <<>> /\ pending \in Seq(Op)
         /\ \/ pending = <<>> /\ committing' = <<>>
            \/ /\ pending # <<>> /\ Len(committing') = 1 /\ committing'[1] = pending
               /\ DOMAIN committing' = {1}
BY DEF Flush, TypeOK

\* It leaves the same operations in flight,
LEMMA FlushInFlight ==
  ASSUME TypeOK, Flush, committing = <<>>, NEW d
  PROVE  InFlight(d)' <=> InFlight(d)
BY FlushQueue DEF InFlight

\* a push makes the head of the chunk pending,
LEMMA PushQueue ==
  ASSUME TypeOK, PushesHead, Push
  PROVE  \E op \in Op :
           /\ op.doc = Head(chunk) /\ op.line = progress.read
           /\ pending' = Append(pending, op) /\ pending \in Seq(Op) /\ Len(pending) \in Nat
           /\ Len(pending') = Len(pending) + 1 /\ pending'[Len(pending) + 1] = op
           /\ DOMAIN pending' = 1..(Len(pending) + 1) /\ DOMAIN pending = 1..Len(pending)
           /\ \A k \in 1..Len(pending) : pending'[k] = pending[k]
           /\ committing = <<>> /\ committing' = <<>>
           /\ chunk' = Tail(chunk) /\ chunk # <<>> /\ chunk \in Seq(Docs) /\ Head(chunk) \in Docs
           /\ Head(chunk) \in writable
<1>1. PICK op : op = [doc |-> Head(chunk), line |-> progress.read] OBVIOUS
<1>2. /\ pc = "push" /\ committing = <<>> /\ committing' = committing
      /\ pending' = Append(pending, op) /\ chunk' = Tail(chunk)
  BY <1>1 DEF Push, At
<1>3. chunk # <<>> /\ chunk \in Seq(Docs) /\ Head(chunk) \in writable BY <1>2 DEF PushesHead, TypeOK
<1>4. Head(chunk) \in Docs /\ progress.read \in Nat BY <1>3 DEF TypeOK, Counter
<1>5. op \in Op /\ op.doc = Head(chunk) /\ op.line = progress.read BY <1>1, <1>4 DEF Op
<1>6. pending \in Seq(Op) BY DEF TypeOK
<1>7. /\ Len(pending) \in Nat
      /\ Len(pending') = Len(pending) + 1 /\ pending'[Len(pending) + 1] = op
      /\ DOMAIN pending' = 1..(Len(pending) + 1) /\ DOMAIN pending = 1..Len(pending)
      /\ \A k \in 1..Len(pending) : pending'[k] = pending[k]
  BY <1>2, <1>5, <1>6
<1> QED BY <1>2, <1>3, <1>4, <1>5, <1>6, <1>7

\* and puts it in flight,
LEMMA PushInFlight ==
  ASSUME TypeOK, PushesHead, Push, NEW d
  PROVE  InFlight(d)' <=> InFlight(d) \/ d = Head(chunk)
<1>1. PICK op \in Op :
           /\ op.doc = Head(chunk) /\ Len(pending) \in Nat
           /\ pending'[Len(pending) + 1] = op
           /\ DOMAIN pending' = 1..(Len(pending) + 1) /\ DOMAIN pending = 1..Len(pending)
           /\ \A k \in 1..Len(pending) : pending'[k] = pending[k]
           /\ committing = <<>> /\ committing' = <<>>
  BY PushQueue
<1>2. (\E k \in DOMAIN pending' : pending'[k].doc = d)
        <=> (\E k \in DOMAIN pending : pending[k].doc = d) \/ d = Head(chunk)
  BY <1>1
<1>3. DOMAIN committing = {} /\ DOMAIN committing' = {} BY <1>1
<1> QED BY <1>2, <1>3 DEF InFlight

\* a commit takes the first batch out,
LEMMA CommitInFlight ==
  ASSUME TypeOK, committing # <<>>, committing' = Tail(committing), pending' = pending, NEW d
  PROVE  /\ InFlight(d)' => InFlight(d)
         /\ InFlight(d) => InFlight(d)' \/ \E k \in DOMAIN Head(committing) : Head(committing)[k].doc = d
         /\ (\E k \in DOMAIN Head(committing) : Head(committing)[k].doc = d) => InFlight(d)
<1>1. committing \in Seq(Seq(Op)) BY DEF TypeOK
<1>2. PICK new : new = committing' OBVIOUS
<1>3. /\ Len(new) = Len(committing) - 1 /\ Len(committing) \in Nat /\ Len(committing) # 0
      /\ Head(committing) = committing[1] /\ new \in Seq(Seq(Op))
      /\ \A i \in 1..(Len(committing) - 1) : new[i] = committing[i + 1]
  BY <1>1, <1>2, TailQueue
<1>4. DOMAIN new = 1..(Len(committing) - 1) /\ DOMAIN committing = 1..Len(committing) BY <1>1, <1>3
<1>5. ASSUME NEW i \in DOMAIN new PROVE i + 1 \in DOMAIN committing /\ new[i] = committing[i + 1]
  BY <1>3, <1>4
<1>6. ASSUME NEW i \in DOMAIN committing, i # 1 PROVE i - 1 \in DOMAIN new /\ new[i - 1] = committing[i]
  BY <1>3, <1>4, <1>6
<1>7. 1 \in DOMAIN committing BY <1>3, <1>4
<1>8. InFlight(d)' <=> \/ \E k \in DOMAIN pending : pending[k].doc = d
                       \/ \E i \in DOMAIN new : \E k \in DOMAIN new[i] : new[i][k].doc = d
  BY <1>2 DEF InFlight
<1>9. InFlight(d) <=> \/ \E k \in DOMAIN pending : pending[k].doc = d
                      \/ \E i \in DOMAIN committing : \E k \in DOMAIN committing[i] : committing[i][k].doc = d
  BY DEF InFlight
<1>10. ASSUME NEW i \in DOMAIN new, NEW k \in DOMAIN new[i], new[i][k].doc = d
       PROVE  \E j \in DOMAIN committing : \E l \in DOMAIN committing[j] : committing[j][l].doc = d
  BY <1>5, <1>10
<1>11. ASSUME NEW i \in DOMAIN committing, NEW k \in DOMAIN committing[i], committing[i][k].doc = d
       PROVE  \/ \E j \in DOMAIN new : \E l \in DOMAIN new[j] : new[j][l].doc = d
              \/ \E l \in DOMAIN committing[1] : committing[1][l].doc = d
  BY <1>6, <1>11
<1> QED BY <1>3, <1>7, <1>8, <1>9, <1>10, <1>11

\* and halving changes nothing of what is in flight.
LEMMA HalvingInFlight ==
  ASSUME TypeOK, Halving, NEW d
  PROVE  InFlight(d)' <=> InFlight(d)
<1>1. committing \in Seq(Seq(Op)) BY DEF TypeOK
<1>2. PICK new : new = committing' OBVIOUS
<1>3. PICK batch : batch = committing[1] OBVIOUS
<1>0. HalvesFirst(committing, new) BY <1>1, <1>2 DEF HalvesFirst, Halving
<1>4. Halved(committing, new) BY <1>0, HalvedQueue
<1>5. PICK k \in 1..(Len(batch) - 1) :
              /\ Len(new[1]) = k /\ \A j \in 1..k : new[1][j] = batch[j]
              /\ Len(new[2]) = Len(batch) - k
              /\ \A j \in 1..(Len(batch) - k) : new[2][j] = batch[k + j]
  BY <1>3, <1>4 DEF Halved
<1>6. committing # <<>> /\ pending' = pending BY DEF Halving
<1>7. /\ Len(committing) \in Nat /\ Len(committing) # 0 /\ DOMAIN committing = 1..Len(committing)
      /\ DOMAIN new = 1..(Len(committing) + 1) /\ batch \in Seq(Op)
      /\ new[1] \in Seq(Op) /\ new[2] \in Seq(Op)
  BY <1>1, <1>3, <1>4, <1>6 DEF Halved
<1>8. /\ Len(batch) \in Nat /\ DOMAIN batch = 1..Len(batch)
      /\ DOMAIN new[1] = 1..k /\ DOMAIN new[2] = 1..(Len(batch) - k)
  BY <1>5, <1>7
<1> DEFINE In(q) == \E i \in DOMAIN q : \E j \in DOMAIN q[i] : q[i][j].doc = d
<1>9. ASSUME NEW i \in DOMAIN new, NEW j \in DOMAIN new[i], new[i][j].doc = d PROVE In(committing)
  <2>1. CASE i = 1
    <3>0. j \in DOMAIN new[1] /\ new[1][j].doc = d BY <1>9, <2>1
    <3>2. j \in 1..k /\ new[1][j] = batch[j] BY <1>5, <1>8, <3>0
    <3>3. j \in 1..Len(batch) BY <1>8, <3>2
    <3>1. j \in DOMAIN batch /\ batch[j].doc = d BY <1>8, <3>0, <3>2, <3>3
    <3> QED BY <1>3, <1>7, <3>1
  <2>2. CASE i = 2
    <3>1. k + j \in DOMAIN batch /\ batch[k + j].doc = d BY <1>5, <1>8, <1>9, <2>2
    <3> QED BY <1>3, <1>7, <3>1
  <2>3. CASE i \notin {1, 2}
    <3>1. i \in 3..(Len(committing) + 1) /\ i - 1 \in DOMAIN committing BY <1>7, <1>9, <2>3
    <3> QED BY <1>4, <1>9, <3>1 DEF Halved
  <2> QED BY <2>1, <2>2, <2>3
<1>10. ASSUME NEW i \in DOMAIN committing, NEW j \in DOMAIN committing[i], committing[i][j].doc = d
       PROVE  In(new)
  <2>1. CASE i = 1 /\ j <= k
    <3>1. j \in DOMAIN new[1] /\ new[1][j].doc = d BY <1>3, <1>5, <1>8, <1>10, <2>1
    <3>2. 1 \in DOMAIN new BY <1>7
    <3> QED BY <3>1, <3>2
  <2>2. CASE i = 1 /\ ~(j <= k)
    <3>1. j \in 1..Len(batch) BY <1>3, <1>8, <1>10, <2>2
    <3>2. j - k \in 1..(Len(batch) - k) /\ k + (j - k) = j BY <1>8, <2>2, <3>1
    <3>3. j - k \in DOMAIN new[2] /\ new[2][j - k].doc = d BY <1>3, <1>5, <1>8, <1>10, <2>2, <3>2
    <3>4. 2 \in DOMAIN new BY <1>7
    <3> QED BY <3>3, <3>4
  <2>3. CASE i # 1
    <3>1. i + 1 \in 3..(Len(committing) + 1) /\ i + 1 \in DOMAIN new /\ (i + 1) - 1 = i BY <1>7, <1>10, <2>3
    <3>2. new[i + 1] = committing[i] BY <1>4, <3>1 DEF Halved
    <3> QED BY <1>10, <3>1, <3>2
  <2> QED BY <2>1, <2>2, <2>3
<1>11. In(new) <=> In(committing) BY <1>9, <1>10
<1> QED BY <1>2, <1>6, <1>11 DEF InFlight

----------------
(* Deletions without subcollections, and the counters *)

\* How a chunk changes.
LEMMA ChunkChanges ==
  ASSUME CollectionJobInv, OverShape, [Next]_vars, Live'
  PROVE  \/ chunk' = chunk
         \/ chunk # <<>> /\ chunk' = Tail(chunk) /\ (WriteNext \/ Push)
         \/ NextDocument /\ Give(First(Top.page))
         \/ EndSubcollections /\ Give(Top.cursor)
         \/ NextLine /\ Kind = "import"
<1>1. CASE SeesCancel \/ CountCollection \/ FetchPage \/ EndPage \/ NextDocument
  BY <1>1 DEF SeesCancel, CountCollection, FetchPage, EndPage, NextDocument, batcher
<1>2. CASE ListSubcollections \/ Descend \/ EndSubcollections \/ CountLines \/ NextLine
  BY <1>2 DEF ListSubcollections, Descend, EndSubcollections, CountLines, NextLine, batcher
<1>3. CASE CheckTargets \/ EndFile \/ Convert \/ Report \/ Rejects
  BY <1>3 DEF CheckTargets, EndFile, Convert, Report, Rejects, batcher
<1>4. CASE WriteNext \/ Finish BY <1>4 DEF WriteNext, Finish, batcher
<1>5. CASE Push BY <1>5, PushQueue DEF CollectionJobInv
<1>6. CASE Commit \/ CommitOversized \/ CommitFails BY <1>6 DEF Commit, CommitOversized, CommitFails
<1>7. CASE Cancel \/ (\E d \in Docs : OutsideChange(d)) \/ UNCHANGED vars
  BY <1>7 DEF Cancel, OutsideChange, own, vars
<1> QED BY <1>1, <1>2, <1>3, <1>4, <1>5, <1>6, <1>7 DEF Next, JobStep, Failure, Over

\* What is being read belongs to the collection of its generator.
LEMMA ReadsOwn ==
  ASSUME CollectionJobInv, StackShape, Live, Kind # "import", pc = "next", Top.page # {}
  PROVE  LET d == First(Top.page) IN
         /\ d \in Top.page /\ d \in Docs /\ CollOf[d] = Top.coll
         /\ ~request.include => CollOf[d] = Root
<1>1. stack # <<>> /\ Top \in Frame /\ Top = stack[Len(stack)] /\ Len(stack) \in DOMAIN stack
  BY StackedThere, TopTyped
<1>2. Top.page \in SUBSET Docs BY <1>1 DEF Frame
<1>3. PICK d : d = First(Top.page) OBVIOUS
<1>4. d \in Top.page /\ d \in Docs BY <1>2, <1>3, FirstTyped
<1>5. FrameShape(Len(stack)) BY <1>1 DEF StackShape
<1>6. CollOf[d] = Top.coll BY <1>1, <1>4, <1>5 DEF FrameShape, Direct
<1>7. ~request.include => Top.coll = Root BY <1>1, <1>5 DEF FrameShape
<1> QED BY <1>3, <1>4, <1>6, <1>7

\* What a job that throws has in flight it had.
LEMMA ThrownInFlight ==
  ASSUME committing' \in {committing, <<>>}, pending' = pending, NEW d, InFlight(d)'
  PROVE  InFlight(d)
BY DEF InFlight

\* What is in flight was, or is being pushed.
LEMMA InFlightChanges ==
  ASSUME CollectionJobInv, OverShape, [Next]_vars, NEW d, InFlight(d)'
  PROVE  InFlight(d) \/ (Push /\ d = Head(chunk) /\ d \in ToSet(chunk))
<1>0. TypeOK /\ PushesHead BY DEF CollectionJobInv
<1>1. CASE Live'
  <2>1. CASE UNCHANGED <<pending, committing, committed>> BY <2>1 DEF InFlight
  <2>2. CASE Flush /\ committing = <<>> BY <1>0, <2>2, FlushInFlight
  <2>3. CASE Push
    <3>1. chunk \in Seq(Docs) /\ chunk # <<>> BY <1>0, <2>3, PushQueue
    <3>2. Head(chunk) \in ToSet(chunk) BY <3>1, SetOfSequence
    <3> QED BY <1>0, <2>3, <3>2, PushInFlight
  <2>4. CASE Commit BY <1>0, <2>4, CommitInFlight DEF Commit
  <2>5. CASE Halving BY <1>0, <2>5, HalvingInFlight
  <2> QED BY <1>0, <1>1, <2>1, <2>2, <2>3, <2>4, <2>5, QueueChanges
<1>2. CASE ~Live BY <1>2, DeadStays DEF vars, InFlight
<1>3. CASE Live /\ ~Live' BY <1>0, <1>3, ThrowsHow, ThrownInFlight
<1> QED BY <1>1, <1>2, <1>3

\* Without subcollections only documents of the collection itself are deleted.
LEMMA RootOnlyKept ==
  ASSUME CollectionJobInv, OverShape, StackShape, RootOnly, [Next]_vars
  PROVE  RootOnly'
<1>0. /\ request' = request /\ Kind' = Kind /\ begun' = begun /\ touched \subseteq touched'
      /\ TypeOK /\ PushesHead /\ chunk \in Seq(Docs) /\ source \subseteq Docs
  BY SameRequest DEF CollectionJobInv, TypeOK, Kind
<1> SUFFICES ASSUME Kind = "delete", ~request.include PROVE RootOnly' BY <1>0 DEF RootOnly
<1>1. \A d \in ToSet(chunk) : CollOf[d] = Root BY DEF RootOnly
<1>2. \A d \in Docs : InFlight(d) => CollOf[d] = Root BY DEF RootOnly
<1>3. \A d \in ToSet(chunk') : CollOf[d] = Root
  <2>1. CASE chunk' = chunk BY <1>1, <2>1
  <2>2. CASE chunk # <<>> /\ chunk' = Tail(chunk) BY <1>0, <1>1, <2>2, SetOfSequence
  <2>3. CASE NextDocument /\ Give(First(Top.page)) /\ Live'
    <3>1. PICK d : d = First(Top.page) OBVIOUS
    <3>2. chunk' = <<d>> BY <2>3, <3>1 DEF Give, Exports
    <3>3. Kind # "import" /\ pc = "next" /\ Top.page # {} /\ Live BY <2>3, WasLive DEF NextDocument, At
    <3>4. d \in Docs /\ CollOf[d] = Root BY <3>1, <3>3, ReadsOwn
    <3>5. ToSet(chunk') = {d} BY <1>0, <3>2, SetOfSequence
    <3> QED BY <3>4, <3>5
  <2>4. CASE EndSubcollections /\ Live'
    <3>1. pc = "subs" /\ Live BY <2>4, WasLive DEF EndSubcollections, At
    <3> QED BY <3>1 DEF StackShape
  <2>5. CASE ~Live BY <1>1, <2>5, DeadStays DEF vars
  <2>6. CASE Live /\ ~Live' BY <1>0, <1>1, <2>6, ThrowsHow
  <2> QED BY <2>1, <2>2, <2>3, <2>4, <2>5, <2>6, ChunkChanges
<1>4. \A d \in Docs : InFlight(d)' => CollOf[d] = Root BY <1>0, <1>1, <1>2, InFlightChanges
<1>5. ASSUME NEW d \in begun.source \ touched', CollOf[d] # Root PROVE d \in source'
  <2>0. d \in source /\ d \in Docs BY <1>0, <1>5 DEF RootOnly
  <2>1. CASE UNCHANGED <<db, touched>> BY <2>0, <2>1 DEF db
  <2>2. CASE committing # <<>> /\ Applied(Head(committing))
    <3>1. PICK new : new = Tail(committing) OBVIOUS
    <3>2. ~InFlight(d) BY <1>2, <1>5, <2>0
    <3>3. ~\E k \in DOMAIN Head(committing) : Head(committing)[k].doc = d
      <4> SUFFICES ASSUME NEW k \in DOMAIN Head(committing), Head(committing)[k].doc = d PROVE FALSE
        OBVIOUS
      <4>1. committing \in Seq(Seq(Op)) BY <1>0 DEF TypeOK
      <4>2. Head(committing) = committing[1] /\ 1 \in DOMAIN committing BY <2>2, <4>1
      <4> QED BY <3>2, <4>2 DEF InFlight
    <3>4. source' = source \ {Head(committing)[i].doc : i \in DOMAIN Head(committing)}
      BY <2>2 DEF Applied
    <3> QED BY <2>0, <3>3, <3>4
  <2>3. CASE \E e \in Docs : OutsideChange(e)
    <3>1. PICK e \in Docs : OutsideChange(e) BY <2>3
    <3>2. touched' = touched \cup {e} /\ source \subseteq source' \cup {e} BY <3>1 DEF OutsideChange
    <3> QED BY <1>5, <2>0, <3>2
  <2> QED BY <1>0, <2>1, <2>2, <2>3, DataChanges
<1> QED BY <1>0, <1>3, <1>4, <1>5 DEF RootOnly

----------------
\* The counters of what was written and deleted grow by a push only.
LEMMA WrittenChanges ==
  ASSUME TypeOK, [Next]_vars
  PROVE  \/ progress'.written = progress.written /\ progress'.deleted = progress.deleted
         \/ /\ Push
            /\ Kind = "delete" => progress'.deleted = progress.deleted + 1 /\ progress'.written = progress.written
            /\ Kind # "delete" => progress'.written = progress.written + 1 /\ progress'.deleted = progress.deleted
            /\ progress'.read = progress.read /\ progress'.skipped = progress.skipped
<1>0. progress \in [Counter -> Nat] BY DEF TypeOK
<1>1. CASE CountCollection \/ CountLines
  BY <1>0, <1>1 DEF CountCollection, CountLines, Count, Counter
<1>2. CASE NextDocument \/ EndSubcollections
  BY <1>0, <1>2 DEF NextDocument, EndSubcollections, Give, Count, Counter
<1>3. CASE WriteNext BY <1>0, <1>3 DEF WriteNext, Count, Counter
<1>4. CASE Push
  <2>1. CASE Kind = "delete" BY <1>0, <1>4, <2>1 DEF Push, Count, Counter
  <2>2. CASE Kind # "delete" BY <1>0, <1>4, <2>2 DEF Push, Count, Counter
  <2> QED BY <2>1, <2>2
<1>5. CASE SeesCancel \/ FetchPage \/ EndPage \/ ListSubcollections \/ Descend \/ NextLine \/ CheckTargets
  BY <1>5 DEF SeesCancel, FetchPage, EndPage, ListSubcollections, Descend, NextLine, CheckTargets
<1>6. CASE Commit \/ Finish \/ EndFile \/ Convert \/ Report \/ Failure
  BY <1>6 DEF Commit, Finish, EndFile, Convert, Report, Failure, Rejects, CommitOversized, CommitFails
<1>7. CASE Cancel \/ (\E d \in Docs : OutsideChange(d)) \/ UNCHANGED vars
  BY <1>7 DEF Cancel, OutsideChange, own, vars
<1> QED BY <1>1, <1>2, <1>3, <1>4, <1>5, <1>6, <1>7 DEF Next, JobStep, Over

\* What was read is written, skipped or about to be pushed.
LEMMA TallyKept ==
  ASSUME CollectionJobInv, OverShape, ChunkShape, Tally, [Next]_vars
  PROVE  Tally'
<1>0. /\ request' = request /\ Kind' = Kind /\ TypeOK /\ progress \in [Counter -> Nat]
      /\ chunk \in Seq(Docs)
  BY SameRequest DEF CollectionJobInv, TypeOK, Kind
<1>1. Kind # "delete" => progress'.deleted = 0 BY <1>0, WrittenChanges DEF Tally
<1> SUFFICES ASSUME Live' PROVE Tally' BY <1>0, <1>1 DEF Tally
<1>2. Live BY WasLive
<1>3. CASE /\ progress'.read = progress.read /\ progress'.written = progress.written
           /\ progress'.skipped = progress.skipped /\ Pushing' = Pushing
           /\ (pc' = "push" => pc = "push")
  BY <1>0, <1>1, <1>2, <1>3 DEF Tally
<1>4. CASE CountCollection \/ CountLines
  BY <1>0, <1>3, <1>4 DEF CountCollection, CountLines, Count, Counter, Pushing, At
<1>5. CASE NextDocument \/ EndSubcollections
  <2>1. pc' # "push" /\ pc # "push" BY <1>5, GiveLeads DEF NextDocument, EndSubcollections, At
  <2>2. CASE progress' = progress BY <1>3, <2>1, <2>2 DEF Pushing
  <2>3. CASE Kind \in Exports BY <1>0, <1>1, <2>1, <2>3 DEF Tally, Exports
  <2> QED BY <1>5, <2>2, <2>3 DEF NextDocument, EndSubcollections, Give
<1>6. CASE WriteNext
  <2>0. pc = "write" /\ ~(pc = "push") BY <1>6 DEF WriteNext, At
  <2>1. CASE chunk = <<>> BY <1>3, <1>6, <2>0, <2>1 DEF WriteNext, Continue, Resumed, Pushing
  <2>2. CASE chunk # <<>> /\ Head(chunk) \notin writable
    <3>1. pc' = pc /\ progress' = [Count("read", 1) EXCEPT !.skipped = @ + 1]
      BY <1>6, <2>2 DEF WriteNext
    <3>2. /\ progress'.read = progress.read + 1 /\ progress'.skipped = progress.skipped + 1
          /\ progress'.written = progress.written
      BY <1>0, <3>1 DEF Count, Counter
    <3>3. request.policy # "overwrite" BY <1>0, <1>2, <2>0, <2>2, SetOfSequence DEF ChunkShape
    <3>4. progress.read \in Nat /\ progress.skipped \in Nat /\ progress.written \in Nat
      BY <1>0 DEF Counter
    <3> QED BY <1>0, <1>1, <1>2, <2>0, <3>1, <3>2, <3>3, <3>4 DEF Tally, Pushing
  <2>3. CASE chunk # <<>> /\ Head(chunk) \in writable
    <3>1. pc' = "push" /\ progress' = Count("read", 1) BY <1>6, <2>3 DEF WriteNext
    <3>2. /\ progress'.read = progress.read + 1 /\ progress'.skipped = progress.skipped
          /\ progress'.written = progress.written
      BY <1>0, <3>1 DEF Count, Counter
    <3>4. progress.read \in Nat /\ progress.skipped \in Nat /\ progress.written \in Nat
      BY <1>0 DEF Counter
    <3> QED BY <1>0, <1>1, <1>2, <2>0, <3>1, <3>2, <3>4 DEF Tally, Pushing
  <2> QED BY <2>1, <2>2, <2>3
<1>7. CASE Push BY <1>0, <1>1, <1>2, <1>7 DEF Push, At, Count, Counter, Tally, Pushing
<1>8. CASE FetchPage \/ EndPage \/ ListSubcollections \/ Descend \/ NextLine \/ CheckTargets
  BY <1>3, <1>8, ThrownNotLive
  DEF FetchPage, EndPage, ListSubcollections, Descend, NextLine, CheckTargets, Return, Ended, At, Pushing
<1>9. CASE Commit \/ Finish \/ EndFile \/ Convert \/ Report
  BY <1>3, <1>9 DEF Commit, Finish, EndFile, Convert, Report, Ends, At, Pushing
<1>10. CASE SeesCancel \/ Failure
  BY <1>3, <1>10, ThrownNotLive DEF SeesCancel, Failure, Rejects, CommitOversized, CommitFails, Pushing
<1>11. CASE Cancel \/ (\E d \in Docs : OutsideChange(d)) \/ UNCHANGED vars
  BY <1>3, <1>11 DEF Cancel, OutsideChange, own, vars, Pushing
<1> QED BY <1>4, <1>5, <1>6, <1>7, <1>8, <1>9, <1>10, <1>11 DEF Next, JobStep, Over

----------------
(* The lines that were written *)

\* The last operation of a batch about a document.
LEMMA LastAboutIs ==
  ASSUME NEW batch \in Seq(Op), NEW d, About(batch, d) # {}
  PROVE  \E i \in DOMAIN batch :
           /\ batch[i].doc = d /\ LastAbout(batch, d) = batch[i].line
           /\ \A k \in DOMAIN batch : batch[k].doc = d => k <= i
<1>1. About(batch, d) \in SUBSET (1..Len(batch)) /\ Len(batch) \in Nat BY DEF About
<1>2. \E i \in About(batch, d) : \A k \in About(batch, d) : k <= i BY <1>1, GreatestOf
<1>3. PICK i : i = CHOOSE j \in About(batch, d) : \A k \in About(batch, d) : k <= j OBVIOUS
<1>4. i \in About(batch, d) /\ \A k \in About(batch, d) : k <= i BY <1>2, <1>3
<1>5. LastAbout(batch, d) = batch[i].line BY <1>3 DEF LastAbout
<1> QED BY <1>4, <1>5 DEF About

\* The line a commit leaves for each document.
LEMMA AppliedLines ==
  ASSUME TypeOK, committing # <<>>, Applied(Head(committing)), Kind # "delete", NEW d \in Docs
  PROVE  /\ committing[1] \in Seq(Op) /\ 1 \in DOMAIN committing
         /\ target' = target \cup {committing[1][i].doc : i \in DOMAIN committing[1]}
         /\ \/ line'[d] = line[d] /\ \A k \in DOMAIN committing[1] : committing[1][k].doc # d
            \/ \E i \in DOMAIN committing[1] :
                 /\ committing[1][i].doc = d /\ line'[d] = committing[1][i].line
                 /\ \A k \in DOMAIN committing[1] : committing[1][k].doc = d => k <= i
<1>1. committing \in Seq(Seq(Op)) BY DEF TypeOK
<1>2. PICK batch : batch = committing[1] OBVIOUS
<1>3. Head(committing) = batch /\ batch \in Seq(Op) /\ 1 \in DOMAIN committing BY <1>1, <1>2
<1>4. /\ target' = target \cup {batch[i].doc : i \in DOMAIN batch}
      /\ line'[d] = IF d \in {batch[i].doc : i \in DOMAIN batch} THEN LastAbout(batch, d) ELSE line[d]
  BY <1>3 DEF Applied
<1>5. CASE d \in {batch[i].doc : i \in DOMAIN batch}
  <2>1. About(batch, d) # {} BY <1>5 DEF About
  <2>2. PICK i \in DOMAIN batch :
           /\ batch[i].doc = d /\ LastAbout(batch, d) = batch[i].line
           /\ \A k \in DOMAIN batch : batch[k].doc = d => k <= i
    BY <1>3, <2>1, LastAboutIs
  <2> QED BY <1>2, <1>3, <1>4, <1>5, <2>2
<1>6. CASE d \notin {batch[i].doc : i \in DOMAIN batch} BY <1>2, <1>3, <1>4, <1>6
<1> QED BY <1>5, <1>6

\* Each operation of the batches after a halving is one of those before it.
LEMMA HalvedOps ==
  ASSUME NEW old \in Seq(Seq(Op)), old # <<>>, NEW new, Halved(old, new),
         NEW i \in DOMAIN new, NEW j \in DOMAIN new[i]
  PROVE  \E n \in DOMAIN old : \E l \in DOMAIN old[n] : new[i][j] = old[n][l]
<1>0. PICK batch, one, two : batch = old[1] /\ one = new[1] /\ two = new[2] OBVIOUS
<1>1. PICK k \in 1..(Len(batch) - 1) :
              /\ Len(one) = k /\ \A l \in 1..k : one[l] = batch[l]
              /\ Len(two) = Len(batch) - k
              /\ \A l \in 1..(Len(batch) - k) : two[l] = batch[k + l]
  BY <1>0 DEF Halved
<1>2. /\ Len(old) \in Nat /\ Len(old) # 0 /\ DOMAIN old = 1..Len(old)
      /\ DOMAIN new = 1..(Len(old) + 1) /\ batch \in Seq(Op)
      /\ one \in Seq(Op) /\ two \in Seq(Op)
  BY <1>0 DEF Halved
<1>3. /\ Len(batch) \in Nat /\ DOMAIN batch = 1..Len(batch)
      /\ DOMAIN one = 1..k /\ DOMAIN two = 1..(Len(batch) - k)
  BY <1>1, <1>2
<1>7. 1 \in DOMAIN old BY <1>2
<1>4. CASE i = 1
  <2>1. j \in DOMAIN one /\ new[i][j] = one[j] BY <1>0, <1>4
  <2>2. j \in DOMAIN batch /\ new[i][j] = batch[j] BY <1>1, <1>3, <2>1
  <2> QED BY <1>0, <1>7, <2>2
<1>5. CASE i = 2
  <2>1. j \in 1..(Len(batch) - k) /\ new[i][j] = two[j] BY <1>0, <1>3, <1>5
  <2>2. k + j \in DOMAIN batch BY <1>3, <2>1
  <2>3. new[i][j] = batch[k + j] BY <1>1, <2>1
  <2> QED BY <1>0, <1>7, <2>2, <2>3
<1>6. CASE i \notin {1, 2}
  <2>1. i \in 3..(Len(old) + 1) /\ i - 1 \in DOMAIN old BY <1>2, <1>6
  <2>2. new[i] = old[i - 1] BY <2>1 DEF Halved
  <2> QED BY <2>1, <2>2
<1> QED BY <1>4, <1>5, <1>6

\* What is written was read under some number.
LEMMA LinesKnownKept ==
  ASSUME CollectionJobInv, OverShape, ChunkShape, Tally, LinesKnown, [Next]_vars
  PROVE  LinesKnown'
<1>0. /\ TypeOK /\ PushesHead /\ request' = request /\ Kind' = Kind /\ begun' = begun
      /\ target \subseteq Docs /\ begun.target \subseteq Docs /\ committing \in Seq(Seq(Op))
  BY SameRequest DEF CollectionJobInv, TypeOK, Kind
<1>1. ASSUME NEW d \in target' \ begun'.target PROVE line'[d] # 0
  <2>1. CASE UNCHANGED <<target, line>> BY <1>0, <1>1, <2>1 DEF LinesKnown
  <2>2. CASE committing # <<>> /\ Applied(Head(committing)) /\ Kind # "delete"
    <3>1. Live BY <2>2 DEF OverShape, Live
    <3>2. \A k \in DOMAIN committing[1] : committing[1][k].doc \in Docs
      <4>1. committing[1] \in Seq(Op) BY <1>0, <2>2
      <4>2. \A k \in DOMAIN committing[1] : committing[1][k] \in Op BY <4>1
      <4> QED BY <4>2 DEF Op
    <3>3. target' = target \cup {committing[1][i].doc : i \in DOMAIN committing[1]}
      <4>1. Head(committing) = committing[1] BY <1>0, <2>2
      <4> QED BY <2>2, <4>1 DEF Applied
    <3>4. d \in Docs BY <1>0, <1>1, <3>2, <3>3
    <3>5. /\ 1 \in DOMAIN committing
          /\ \/ line'[d] = line[d] /\ \A k \in DOMAIN committing[1] : committing[1][k].doc # d
             \/ \E i \in DOMAIN committing[1] :
                  committing[1][i].doc = d /\ line'[d] = committing[1][i].line
      BY <1>0, <2>2, <3>4, AppliedLines
    <3> QED BY <1>0, <1>1, <3>1, <3>3, <3>5 DEF LinesKnown
  <2>3. CASE committing # <<>> /\ Applied(Head(committing)) /\ Kind = "delete"
    BY <2>1, <2>3 DEF Applied
  <2> QED BY <1>0, <2>1, <2>2, <2>3, DataChanges DEF db, OutsideChange, own
<1>2. ASSUME Live' PROVE /\ \A k \in DOMAIN pending' : pending'[k].line # 0
                         /\ \A i \in DOMAIN committing' : \A k \in DOMAIN committing'[i] :
                              committing'[i][k].line # 0
  <2>0. /\ Live
        /\ \A k \in DOMAIN pending : pending[k].line # 0
        /\ \A i \in DOMAIN committing : \A k \in DOMAIN committing[i] : committing[i][k].line # 0
    BY <1>2, WasLive DEF LinesKnown
  <2>1. CASE UNCHANGED <<pending, committing, committed>> BY <2>0, <2>1
  <2>2. CASE Flush /\ committing = <<>> BY <1>0, <2>0, <2>2, FlushQueue
  <2>3. CASE Push
    <3>1. PICK op \in Op :
           /\ op.line = progress.read /\ Len(pending) \in Nat
           /\ pending'[Len(pending) + 1] = op
           /\ DOMAIN pending' = 1..(Len(pending) + 1) /\ DOMAIN pending = 1..Len(pending)
           /\ \A k \in 1..Len(pending) : pending'[k] = pending[k]
           /\ committing' = <<>>
      BY <1>0, <2>3, PushQueue
    <3>2. progress.read # 0 BY <1>0, <2>0, <2>3 DEF TypeOK, Counter, Tally, Push, At
    <3> QED BY <2>0, <3>1, <3>2
  <2>4. CASE Commit
    <3>1. committing # <<>> /\ committing' = Tail(committing) /\ pending' = pending
      BY <2>4 DEF Commit
    <3>2. PICK new : new = Tail(committing) OBVIOUS
    <3>3. /\ new \in Seq(Seq(Op)) /\ Len(new) = Len(committing) - 1 /\ Len(committing) \in Nat
          /\ Len(committing) # 0 /\ \A i \in 1..(Len(committing) - 1) : new[i] = committing[i + 1]
      BY <1>0, <3>1, <3>2, TailQueue
    <3>4. \A i \in DOMAIN new : i + 1 \in DOMAIN committing /\ new[i] = committing[i + 1]
      <4>1. DOMAIN new = 1..(Len(committing) - 1) /\ DOMAIN committing = 1..Len(committing)
        BY <1>0, <3>3
      <4> QED BY <3>3, <4>1
    <3> QED BY <2>0, <3>1, <3>2, <3>4
  <2>5. CASE Halving
    <3>1. PICK new : new = committing' OBVIOUS
    <3>2. HalvesFirst(committing, new) BY <1>0, <2>5, <3>1 DEF HalvesFirst, Halving
    <3>3. Halved(committing, new) BY <3>2, HalvedQueue
    <3>4. committing # <<>> /\ pending' = pending BY <2>5 DEF Halving
    <3>5. \A i \in DOMAIN new : \A k \in DOMAIN new[i] :
            \E n \in DOMAIN committing : \E l \in DOMAIN committing[n] : new[i][k] = committing[n][l]
      BY <1>0, <3>3, <3>4, HalvedOps
    <3>6. \A i \in DOMAIN new : \A k \in DOMAIN new[i] : new[i][k].line # 0 BY <2>0, <3>5
    <3> QED BY <2>0, <3>1, <3>4, <3>6
  <2> QED BY <1>0, <1>2, <2>1, <2>2, <2>3, <2>4, <2>5, QueueChanges
<1> QED BY <1>1, <1>2 DEF LinesKnown

----------------
(* The numbers of operations *)

\* The first of the batches is done: those left are numbered from its end.
LEMMA CommitNumbers ==
  ASSUME NEW old \in Seq(Seq(Op)), old # <<>>, NEW new \in Seq(Seq(Op)), Len(new) = Len(old) - 1,
         \A i \in 1..(Len(old) - 1) : new[i] = old[i + 1],
         NEW ops \in Seq(Op), NEW first \in Nat, NEW last \in Nat, NEW file,
         NEW s \in Numbering(old, last), Offsets(s, old, ops, first, last)
  PROVE  \E t \in Numbering(new, last) :
           /\ Offsets(t, new, ops, first + Len(old[1]), last)
           /\ InLine(s, old, ops, file) => InLine(t, new, ops, file)
<1>1. PICK n \in Nat : n = Len(old) - 1 /\ Len(old) = n + 1 /\ Len(new) = n OBVIOUS
<1>2. DOMAIN old = 1..(n + 1) /\ DOMAIN new = 1..n BY <1>1
<1>3. s \in [1..(n + 2) -> 0..last] BY <1>1 DEF Numbering
<1> DEFINE t == [i \in 1..(n + 1) |-> s[i + 1]]
<1>4. ASSUME NEW i \in 1..(n + 1) PROVE i + 1 \in 1..(n + 2) /\ t[i] = s[i + 1] /\ t[i] \in 0..last
  BY <1>3
<1>5. t \in [1..(n + 1) -> 0..last] BY <1>4
<1> HIDE DEF t
<1>6. t \in Numbering(new, last) BY <1>1, <1>5 DEF Numbering
<1>7. Offsets(t, new, ops, first + Len(old[1]), last)
  <2>0. 1 \in DOMAIN old /\ 1 \in 1..(n + 1) /\ 1 + 1 = 2 BY <1>2
  <2>5. s[1] = first /\ s[1 + 1] = s[1] + Len(old[1]) BY <2>0 DEF Offsets
  <2>1. t[1] = first + Len(old[1]) BY <1>4, <2>0, <2>5
  <2>2. ASSUME NEW i \in DOMAIN new PROVE t[i + 1] = t[i] + Len(new[i])
    <3>1. i \in 1..(n + 1) /\ i + 1 \in 1..(n + 1) BY <1>2
    <3>2. t[i] = s[i + 1] /\ t[i + 1] = s[(i + 1) + 1] BY <1>4, <3>1
    <3>3. new[i] = old[i + 1] BY <1>1, <1>2
    <3>4. s[(i + 1) + 1] = s[i + 1] + Len(old[i + 1]) BY <1>2, <3>1 DEF Offsets
    <3> QED BY <3>2, <3>3, <3>4
  <2>3. t[n + 1] = s[(n + 1) + 1] BY <1>4
  <2>4. t[Len(new) + 1] + Len(ops) = last BY <1>1, <2>3 DEF Offsets
  <2> QED BY <2>1, <2>2, <2>4 DEF Offsets
<1>8. ASSUME InLine(s, old, ops, file) PROVE InLine(t, new, ops, file)
  <2>1. ASSUME NEW i \in DOMAIN new, NEW k \in DOMAIN new[i]
        PROVE  LineOf(new[i][k], t[i] + k, file)
    <3>1. i \in 1..(n + 1) /\ i + 1 \in DOMAIN old BY <1>2
    <3>2. t[i] = s[i + 1] BY <1>4, <3>1
    <3>3. new[i] = old[i + 1] BY <1>1, <1>2
    <3>4. LineOf(old[i + 1][k], s[i + 1] + k, file) BY <1>8, <2>1, <3>1, <3>3 DEF InLine
    <3> QED BY <3>2, <3>3, <3>4
  <2>2. t[Len(new) + 1] = s[Len(old) + 1] BY <1>1, <1>4
  <2>3. ASSUME NEW k \in DOMAIN ops PROVE LineOf(ops[k], t[Len(new) + 1] + k, file)
    BY <1>8, <2>2 DEF InLine
  <2> QED BY <2>1, <2>3 DEF InLine
<1> QED BY <1>6, <1>7, <1>8

\* The first of the batches is halved: its second half is numbered from the first's end.
LEMMA HalvingNumbers ==
  ASSUME NEW old \in Seq(Seq(Op)), old # <<>>, NEW new, Halved(old, new),
         NEW ops \in Seq(Op), NEW first \in Nat, NEW last \in Nat, NEW file,
         NEW s \in Numbering(old, last), Offsets(s, old, ops, first, last)
  PROVE  \E t \in Numbering(new, last) :
           /\ Offsets(t, new, ops, first, last)
           /\ InLine(s, old, ops, file) => InLine(t, new, ops, file)
<1>0. PICK batch, one, two : batch = old[1] /\ one = new[1] /\ two = new[2] OBVIOUS
<1>1. PICK k \in 1..(Len(batch) - 1) :
              /\ Len(one) = k /\ \A l \in 1..k : one[l] = batch[l]
              /\ Len(two) = Len(batch) - k
              /\ \A l \in 1..(Len(batch) - k) : two[l] = batch[k + l]
  BY <1>0 DEF Halved
<1>2. PICK n \in Nat : n = Len(old) /\ n # 0 /\ Len(new) = n + 1 BY DEF Halved
<1>3. /\ DOMAIN old = 1..n /\ DOMAIN new = 1..(n + 1) /\ batch \in Seq(Op)
      /\ one \in Seq(Op) /\ two \in Seq(Op) /\ new \in Seq(Seq(Op))
  BY <1>0, <1>2 DEF Halved
<1>4. /\ Len(batch) \in Nat /\ DOMAIN batch = 1..Len(batch)
      /\ DOMAIN one = 1..k /\ DOMAIN two = 1..(Len(batch) - k)
  BY <1>1, <1>3
<1>5. s \in [1..(n + 1) -> 0..last] BY <1>2 DEF Numbering
<1>6. 1 \in DOMAIN old /\ s[1] = first /\ s[2] = first + Len(batch)
  <2>1. 1 \in DOMAIN old /\ 1 + 1 = 2 BY <1>2, <1>3
  <2>2. s[1] = first /\ s[1 + 1] = s[1] + Len(old[1]) BY <2>1 DEF Offsets
  <2> QED BY <1>0, <2>1, <2>2
<1>7. s[2] \in 0..last /\ s[1] \in 0..last
  <2>1. 1 \in 1..(n + 1) /\ 2 \in 1..(n + 1) BY <1>2
  <2> QED BY <1>5, <2>1
<1>8. first + k \in 0..last BY <1>4, <1>6, <1>7
<1> DEFINE t == [i \in 1..(n + 2) |-> IF i = 1 THEN first ELSE IF i = 2 THEN first + k ELSE s[i - 1]]
<1>9. t[1] = first /\ t[2] = first + k BY <1>2
<1>10. ASSUME NEW i \in 3..(n + 2) PROVE i - 1 \in 2..(n + 1) /\ i - 1 \in 1..(n + 1) /\ t[i] = s[i - 1]
  OBVIOUS
<1>11. t \in [1..(n + 2) -> 0..last]
  <2>1. ASSUME NEW i \in 1..(n + 2) PROVE t[i] \in 0..last
    <3>1. CASE i = 1 BY <1>6, <1>7, <1>9, <3>1
    <3>2. CASE i = 2 BY <1>8, <1>9, <3>2
    <3>3. CASE i \notin {1, 2}
      <4>1. i \in 3..(n + 2) BY <3>3
      <4> QED BY <1>5, <1>10, <4>1
    <3> QED BY <3>1, <3>2, <3>3
  <2>2. t = [i \in 1..(n + 2) |-> t[i]] OBVIOUS
  <2> HIDE DEF t
  <2> QED BY <2>1, <2>2
<1> HIDE DEF t
<1>12. t \in Numbering(new, last) BY <1>2, <1>11 DEF Numbering
<1>13. ASSUME NEW i \in DOMAIN new, i \notin {1, 2}
       PROVE  /\ i \in 3..(n + 1) /\ i - 1 \in DOMAIN old /\ new[i] = old[i - 1]
              /\ t[i] = s[i - 1] /\ i + 1 \in 3..(n + 2) /\ t[i + 1] = s[i]
  <2>0. i \in 1..(n + 1) /\ n \in Nat BY <1>2, <1>3
  <2>1. i \in 3..(n + 1) /\ i - 1 \in 1..n /\ i \in 3..(n + 2) BY <1>13, <2>0
  <2>2. i + 1 \in 3..(n + 2) /\ (i + 1) - 1 = i BY <2>1
  <2>3. new[i] = old[i - 1] BY <1>2, <2>1 DEF Halved
  <2> QED BY <1>3, <1>10, <2>1, <2>2, <2>3
<1>14. t[3] = s[2]
  <2>1. 3 \in 3..(n + 2) /\ 3 - 1 = 2 BY <1>2
  <2> QED BY <1>10, <2>1
<1>15. t[Len(new) + 1] = s[Len(old) + 1]
  <2>1. n + 2 \in 3..(n + 2) /\ (n + 2) - 1 = n + 1 /\ Len(new) + 1 = n + 2 BY <1>2
  <2>2. t[n + 2] = s[n + 1] BY <1>10, <2>1
  <2>3. n + 1 = Len(old) + 1 BY <1>2
  <2> QED BY <2>1, <2>2, <2>3
<1>16. Offsets(t, new, ops, first, last)
  <2>1. ASSUME NEW i \in DOMAIN new PROVE t[i + 1] = t[i] + Len(new[i])
    <3>1. CASE i = 1 BY <1>0, <1>1, <1>9, <3>1
    <3>2. CASE i = 2
      <4>1. Len(new[i]) = Len(batch) - k /\ t[i] = first + k /\ t[i + 1] = first + Len(batch)
        BY <1>0, <1>1, <1>6, <1>9, <1>14, <3>2
      <4> QED BY <1>4, <4>1
    <3>3. CASE i \notin {1, 2}
      <4>1. (i - 1) + 1 = i BY <1>3
      <4>2. s[(i - 1) + 1] = s[i - 1] + Len(old[i - 1]) BY <1>13, <3>3 DEF Offsets
      <4> QED BY <1>13, <3>3, <4>1, <4>2
    <3> QED BY <3>1, <3>2, <3>3
  <2> QED BY <1>9, <1>15, <2>1 DEF Offsets
<1>17. ASSUME InLine(s, old, ops, file) PROVE InLine(t, new, ops, file)
  <2>1. \A j \in 1..Len(batch) : LineOf(batch[j], first + j, file)
    BY <1>0, <1>4, <1>6, <1>17 DEF InLine
  <2>2. ASSUME NEW i \in DOMAIN new, NEW j \in DOMAIN new[i]
        PROVE  LineOf(new[i][j], t[i] + j, file)
    <3>1. CASE i = 1
      <4>1. j \in 1..k /\ j \in 1..Len(batch) /\ new[i][j] = one[j] BY <1>0, <1>4, <2>2, <3>1
      <4>2. one[j] = batch[j] BY <1>1, <4>1
      <4> QED BY <1>9, <2>1, <3>1, <4>1, <4>2
    <3>2. CASE i = 2
      <4>1. j \in 1..(Len(batch) - k) /\ new[i][j] = two[j] BY <1>0, <1>4, <2>2, <3>2
      <4>6. two[j] = batch[k + j] BY <1>1, <4>1
      <4>7. k + j \in 1..Len(batch)
        <5>1. PICK m \in Nat : m = Len(batch) BY <1>4
        <5>2. k \in 1..(m - 1) /\ j \in 1..(m - k) BY <4>1, <5>1
        <5> HIDE <5>1
        <5>3. k + j \in 1..m BY <5>2
        <5> QED BY <5>1, <5>3
      <4>2. two[j] = batch[k + j] /\ k + j \in 1..Len(batch) BY <4>6, <4>7
      <4>3. (first + k) + j = first + (k + j) BY <4>1
      <4>4. LineOf(batch[k + j], first + (k + j), file) BY <2>1, <4>2
      <4>5. t[i] + j = first + (k + j) BY <1>9, <3>2, <4>3
      <4> QED BY <4>1, <4>2, <4>4, <4>5
    <3>3. CASE i \notin {1, 2} BY <1>13, <1>17, <2>2, <3>3 DEF InLine
    <3> QED BY <3>1, <3>2, <3>3
  <2>3. ASSUME NEW j \in DOMAIN ops PROVE LineOf(ops[j], t[Len(new) + 1] + j, file)
    BY <1>15, <1>17 DEF InLine
  <2> QED BY <2>2, <2>3 DEF InLine
<1> QED BY <1>12, <1>16, <1>17

\* Nothing was being committed: what was pending is one batch now, or nothing.
LEMMA FlushNumbers ==
  ASSUME NEW ops \in Seq(Op), NEW first \in Nat, NEW last \in Nat, NEW file, NEW new, NEW rest,
         rest = <<>>,
         \/ ops = <<>> /\ new = <<>>
         \/ Len(new) = 1 /\ new[1] = ops /\ DOMAIN new = {1},
         NEW s \in Numbering(<<>>, last), Offsets(s, <<>>, ops, first, last)
  PROVE  \E t \in Numbering(new, last) :
           /\ Offsets(t, new, rest, first, last)
           /\ InLine(s, <<>>, ops, file) => InLine(t, new, rest, file)
<1>1. s \in [1..1 -> 0..last] /\ s[1] = first /\ first + Len(ops) = last /\ Len(ops) \in Nat
  BY DEF Numbering, Offsets
<1>2. first \in 0..last /\ last \in 0..last BY <1>1
<1>3. CASE ops = <<>> /\ new = <<>> BY <1>1, <1>3 DEF Numbering, Offsets, InLine
<1>4. CASE Len(new) = 1 /\ new[1] = ops /\ DOMAIN new = {1}
  <2>1. PICK t : t = [i \in 1..2 |-> IF i = 1 THEN first ELSE last] OBVIOUS
  <2>2. t \in [1..2 -> 0..last] /\ t[1] = first /\ t[2] = last BY <1>2, <2>1
  <2>3. t \in Numbering(new, last) BY <1>4, <2>2 DEF Numbering
  <2>4. Offsets(t, new, rest, first, last) BY <1>1, <1>4, <2>2 DEF Offsets
  <2>5. ASSUME InLine(s, <<>>, ops, file) PROVE InLine(t, new, rest, file)
    BY <1>1, <1>4, <2>2, <2>5 DEF InLine
  <2> QED BY <2>3, <2>4, <2>5
<1> QED BY <1>3, <1>4

\* One operation more is pending, of the next number.
LEMMA PushNumbers ==
  ASSUME NEW ops \in Seq(Op), NEW first \in Nat, NEW last \in Nat, NEW file, NEW op,
         NEW new, Len(new) = Len(ops) + 1, new[Len(ops) + 1] = op,
         DOMAIN new = 1..(Len(ops) + 1), \A k \in 1..Len(ops) : new[k] = ops[k],
         NEW s \in Numbering(<<>>, last), Offsets(s, <<>>, ops, first, last)
  PROVE  /\ s \in Numbering(<<>>, last + 1) /\ Offsets(s, <<>>, new, first, last + 1)
         /\ InLine(s, <<>>, ops, file) /\ LineOf(op, last + 1, file) => InLine(s, <<>>, new, file)
<1>1. s \in [1..1 -> 0..last] /\ s[1] = first /\ first + Len(ops) = last /\ Len(ops) \in Nat
  BY DEF Numbering, Offsets
<1>2. s \in [1..1 -> 0..(last + 1)] BY <1>1
<1>3. s \in Numbering(<<>>, last + 1) /\ Offsets(s, <<>>, new, first, last + 1)
  BY <1>1, <1>2 DEF Numbering, Offsets
<1>4. ASSUME InLine(s, <<>>, ops, file), LineOf(op, last + 1, file) PROVE InLine(s, <<>>, new, file)
  <2>1. \A k \in 1..Len(ops) : LineOf(ops[k], first + k, file) BY <1>1, <1>4 DEF InLine
  <2>2. ASSUME NEW k \in DOMAIN new PROVE LineOf(new[k], first + k, file)
    <3>1. CASE k = Len(ops) + 1 BY <1>1, <1>4, <3>1
    <3>2. CASE k # Len(ops) + 1
      <4>1. k \in 1..Len(ops) BY <1>1, <3>2
      <4> QED BY <2>1, <4>1
    <3> QED BY <3>1, <3>2
  <2> QED BY <1>1, <2>2 DEF InLine
<1> QED BY <1>3, <1>4

\* The line the operation being pushed has.
LEMMA PushLine ==
  ASSUME CollectionJobInv, Live, Tally, LinesInOrder, Overwrites, Push, NEW op, op.doc = Head(chunk),
         op.line = progress.read
  PROVE  LineOf(op, Written + 1, begun.lines)
<1>1. /\ progress \in [Counter -> Nat] /\ chunk \in Seq(Docs) /\ chunk # <<>>
      /\ lines \in Seq(Docs \cup {Bad}) /\ begun.lines \in Seq(Docs \cup {Bad})
  BY PushQueue DEF CollectionJobInv, TypeOK
<1>2. /\ progress.read \in Nat /\ progress.written \in Nat /\ progress.deleted \in Nat
      /\ progress.skipped \in Nat
  BY <1>1 DEF Counter
<1>3. Kind = "import" /\ request.policy = "overwrite" /\ pc = "push" BY DEF Overwrites, Push, At
<1>4. progress.read = progress.written + 1 /\ progress.deleted = 0 BY <1>2, <1>3 DEF Tally, Pushing
<1>5. /\ Len(begun.lines) = progress.written + Len(chunk) + Len(lines)
      /\ begun.lines[progress.written + 1] = chunk[1]
  BY <1>1 DEF LinesInOrder
<1>6. progress.written + 1 \in 1..Len(begun.lines) BY <1>1, <1>2, <1>5
<1>7. Head(chunk) = chunk[1] /\ DOMAIN begun.lines = 1..Len(begun.lines) BY <1>1
<1> QED BY <1>2, <1>4, <1>5, <1>6, <1>7 DEF LineOf, Written

\* What the progress tells written grows by what is pushed, and by nothing else.
LEMMA WrittenGrows ==
  ASSUME TypeOK, [Next]_vars
  PROVE  /\ Written \in Nat /\ Written' \in Nat /\ Written <= Written'
         /\ Push => Written' = Written + 1
         /\ ~Push => Written' = Written
<1>1. progress \in [Counter -> Nat] BY DEF TypeOK
<1>2. progress.written \in Nat /\ progress.deleted \in Nat BY <1>1 DEF Counter
<1>3. CASE progress'.written = progress.written /\ progress'.deleted = progress.deleted
  <2>1. ~Push
    <3>1. ASSUME Push PROVE FALSE BY <1>1, <1>2, <1>3, <3>1 DEF Push, Count, Counter
    <3> QED BY <3>1
  <2> QED BY <1>2, <1>3, <2>1 DEF Written
<1>4. CASE Push /\ \/ progress'.deleted = progress.deleted + 1 /\ progress'.written = progress.written
                   \/ progress'.written = progress.written + 1 /\ progress'.deleted = progress.deleted
  BY <1>2, <1>4 DEF Written
<1> QED BY <1>3, <1>4, WrittenChanges

\* The operations committed, being committed and pending are those counted.
LEMMA QueueKept ==
  ASSUME CollectionJobInv, OverShape, Tally, LinesInOrder, Queue, [Next]_vars
  PROVE  Queue'
<1>0. /\ TypeOK /\ PushesHead /\ request' = request /\ Kind' = Kind /\ begun' = begun
      /\ committing \in Seq(Seq(Op)) /\ pending \in Seq(Op) /\ committed \in Nat
      /\ (Overwrites' <=> Overwrites)
  BY SameRequest DEF CollectionJobInv, TypeOK, Kind, Overwrites
<1>1. /\ Written \in Nat /\ Written' \in Nat /\ Written <= Written'
      /\ Push => Written' = Written + 1
      /\ ~Push => Written' = Written
  BY <1>0, WrittenGrows
<1>2. committed <= Written BY DEF Queue
<1>3. CASE ~Live' BY <1>0, <1>1, <1>2, <1>3, DeadStays, ThrowsHow DEF vars, Queue
<1>4. CASE Live'
  <2>1. PICK s \in Numbering(committing, Written) :
               /\ Offsets(s, committing, pending, committed, Written)
               /\ Overwrites => InLine(s, committing, pending, begun.lines)
    BY <1>4, WasLive DEF Queue
  <2>2. PICK new, ops, first, last : new = committing' /\ ops = pending' /\ first = committed' /\ last = Written'
    OBVIOUS
  <2> HIDE <2>2
  <2>3. \E t \in Numbering(new, last) :
           /\ Offsets(t, new, ops, first, last)
           /\ Overwrites => InLine(t, new, ops, begun.lines)
    <3>1. CASE UNCHANGED <<pending, committing, committed>>
      <4>1. ~Push
        <5>1. ASSUME Push PROVE FALSE BY <1>0, <3>1, <5>1, PushQueue
        <5> QED BY <5>1
      <4> QED BY <1>1, <2>1, <2>2, <3>1, <4>1
    <3>2. CASE Flush /\ committing = <<>> /\ committed' = committed /\ (WriteNext \/ Finish)
      <4>1. ~Push BY <3>2 DEF WriteNext, Finish, Push, At
      <4>2. last = Written /\ first = committed /\ ops = <<>> BY <1>1, <2>2, <3>2, <4>1 DEF Flush
      <4>3. \/ pending = <<>> /\ new = <<>>
            \/ Len(new) = 1 /\ new[1] = pending /\ DOMAIN new = {1}
        BY <1>0, <2>2, <3>2, FlushQueue
      <4>4. committing = <<>> BY <3>2
      <4>5. /\ s \in Numbering(<<>>, Written) /\ Offsets(s, <<>>, pending, committed, Written)
            /\ Overwrites => InLine(s, <<>>, pending, begun.lines)
        BY <2>1, <4>4
      <4> HIDE <3>2, <4>4
      <4>6. \E t \in Numbering(new, Written) :
               /\ Offsets(t, new, ops, committed, Written)
               /\ InLine(s, <<>>, pending, begun.lines) => InLine(t, new, ops, begun.lines)
        BY <1>0, <1>1, <4>2, <4>3, <4>5, FlushNumbers
      <4> QED BY <4>2, <4>5, <4>6
    <3>3. CASE Push
      <4>1. PICK op \in Op :
           /\ op.doc = Head(chunk) /\ op.line = progress.read
           /\ Len(ops) = Len(pending) + 1 /\ ops[Len(pending) + 1] = op
           /\ DOMAIN ops = 1..(Len(pending) + 1)
           /\ \A k \in 1..Len(pending) : ops[k] = pending[k]
           /\ committing = <<>> /\ new = <<>>
        BY <1>0, <2>2, <3>3, PushQueue
      <4>2. last = Written + 1 /\ first = committed BY <1>1, <2>2, <3>3 DEF Push
      <4>3. /\ s \in Numbering(<<>>, Written) /\ Offsets(s, <<>>, pending, committed, Written)
            /\ Overwrites => InLine(s, <<>>, pending, begun.lines)
        BY <2>1, <4>1
      <4>4. Overwrites => LineOf(op, Written + 1, begun.lines)
        BY <1>4, <3>3, <4>1, WasLive, PushLine
      <4>5. /\ s \in Numbering(<<>>, Written + 1) /\ Offsets(s, <<>>, ops, committed, Written + 1)
            /\ InLine(s, <<>>, pending, begun.lines) /\ LineOf(op, Written + 1, begun.lines)
                 => InLine(s, <<>>, ops, begun.lines)
        <5>1. /\ Len(ops) = Len(pending) + 1 /\ ops[Len(pending) + 1] = op
              /\ DOMAIN ops = 1..(Len(pending) + 1)
              /\ \A k \in 1..Len(pending) : ops[k] = pending[k]
          BY <4>1
        <5>2. PICK rest, lot, done : rest = pending /\ lot = Written /\ done = committed OBVIOUS
        <5>3. rest \in Seq(Op) /\ lot \in Nat /\ done \in Nat BY <1>0, <1>1, <5>2
        <5>4. s \in Numbering(<<>>, lot) /\ Offsets(s, <<>>, rest, done, lot) BY <4>3, <5>2
        <5>5. /\ Len(ops) = Len(rest) + 1 /\ ops[Len(rest) + 1] = op
              /\ DOMAIN ops = 1..(Len(rest) + 1)
              /\ \A k \in 1..Len(rest) : ops[k] = rest[k]
          BY <5>1, <5>2
        <5> HIDE <4>1
        <5>6. /\ s \in Numbering(<<>>, lot + 1) /\ Offsets(s, <<>>, ops, done, lot + 1)
              /\ InLine(s, <<>>, rest, begun.lines) /\ LineOf(op, lot + 1, begun.lines)
                   => InLine(s, <<>>, ops, begun.lines)
          BY <5>3, <5>4, <5>5, PushNumbers
        <5> QED BY <5>2, <5>6
      <4> QED BY <4>1, <4>2, <4>3, <4>4, <4>5
    <3>4. CASE Commit
      <4>1. committing # <<>> /\ new = Tail(committing) /\ ops = pending /\ ~Push
            /\ first = committed + Len(Head(committing))
        BY <2>2, <3>4 DEF Commit, Push, At
      <4>2. /\ new \in Seq(Seq(Op)) /\ Len(new) = Len(committing) - 1
            /\ Head(committing) = committing[1]
            /\ \A i \in 1..(Len(committing) - 1) : new[i] = committing[i + 1]
        BY <1>0, <4>1, TailQueue
      <4>3. last = Written BY <1>1, <2>2, <4>1
      <4>4. first = committed + Len(committing[1]) /\ committing # <<>> /\ ops = pending BY <4>1, <4>2
      <4> HIDE <4>1
      <4>5. \E t \in Numbering(new, Written) :
               /\ Offsets(t, new, pending, committed + Len(committing[1]), Written)
               /\ InLine(s, committing, pending, begun.lines) => InLine(t, new, pending, begun.lines)
        BY <1>0, <1>1, <2>1, <4>2, <4>4, CommitNumbers
      <4> QED BY <2>1, <4>3, <4>4, <4>5
    <3>5. CASE Halving
      <4>1. HalvesFirst(committing, new) BY <1>0, <2>2, <3>5 DEF HalvesFirst, Halving
      <4>2. Halved(committing, new) BY <4>1, HalvedQueue
      <4>3. committing # <<>> /\ ops = pending /\ first = committed /\ ~Push
        BY <2>2, <3>5 DEF Halving, Push, At
      <4>4. last = Written BY <1>1, <2>2, <4>3
      <4>5. \E t \in Numbering(new, Written) :
               /\ Offsets(t, new, pending, committed, Written)
               /\ InLine(s, committing, pending, begun.lines) => InLine(t, new, pending, begun.lines)
        BY <1>0, <1>1, <2>1, <4>2, <4>3, HalvingNumbers
      <4> QED BY <2>1, <4>3, <4>4, <4>5
    <3> QED BY <1>0, <1>4, <3>1, <3>2, <3>3, <3>4, <3>5, QueueChanges
  <2>4. first <= last
    <3>1. PICK t \in Numbering(new, last) : t[1] = first BY <2>3 DEF Offsets
    <3>2. Len(new) \in Nat BY <1>0, <2>2, StepKeeps DEF CollectionJobInv, TypeOK
    <3>3. 1 \in 1..(Len(new) + 1) /\ last \in Nat BY <1>1, <2>2, <3>2
    <3>4. first \in 0..last BY <3>1, <3>3 DEF Numbering
    <3> QED BY <3>3, <3>4
  <2> QED BY <1>0, <2>2, <2>3, <2>4 DEF Queue
<1> QED BY <1>3, <1>4

----------------
(* The lines of an import file *)

\* Of the lines of an import, one is read after another.
LEMMA LinesChanges ==
  ASSUME TypeOK, OverShape, [Next]_vars, Kind = "import", Live'
  PROVE  \/ lines' = lines /\ ~NextLine
         \/ NextLine /\ lines' = lines /\ chunk' = chunk
         \/ /\ NextLine /\ lines # <<>> /\ Head(lines) \in Docs
            /\ lines' = Tail(lines) /\ chunk' = Append(chunk, Head(lines))
<1>1. CASE NextLine BY <1>1, ThrownNotLive DEF TypeOK, NextLine
<1>2. CASE ~NextLine /\ (SeesCancel \/ CountCollection \/ FetchPage \/ EndPage \/ NextDocument)
  BY <1>2 DEF SeesCancel, CountCollection, FetchPage, EndPage, NextDocument, reader
<1>3. CASE ~NextLine /\ (ListSubcollections \/ Descend \/ EndSubcollections \/ CountLines)
  BY <1>3 DEF ListSubcollections, Descend, EndSubcollections, CountLines, reader
<1>4. CASE ~NextLine /\ (CheckTargets \/ WriteNext \/ Push \/ Commit \/ Finish)
  BY <1>4 DEF CheckTargets, WriteNext, Push, Commit, Finish, reader
<1>5. CASE ~NextLine /\ (EndFile \/ Convert \/ Report \/ Failure)
  BY <1>5 DEF EndFile, Convert, Report, Failure, Rejects, CommitOversized, CommitFails, reader
<1>6. CASE ~NextLine /\ (Cancel \/ (\E d \in Docs : OutsideChange(d)) \/ UNCHANGED vars)
  BY <1>6 DEF Cancel, OutsideChange, own, vars
<1> QED BY <1>1, <1>2, <1>3, <1>4, <1>5, <1>6 DEF Next, JobStep, Over

InFile(file, n, old, rest) ==
  /\ Len(file) = n + Len(old) + Len(rest)
  /\ \A k \in DOMAIN old : file[n + k] = old[k]
  /\ \A k \in DOMAIN rest : file[n + Len(old) + k] = rest[k]

\* A line that is read goes from the file to the end of the chunk,
LEMMA LineRead ==
  ASSUME NEW file, NEW n \in Nat, NEW old \in Seq(Docs), NEW rest \in Seq(Docs \cup {Bad}), rest # <<>>,
         Head(rest) \in Docs, InFile(file, n, old, rest)
  PROVE  InFile(file, n, Append(old, Head(rest)), Tail(rest))
<1> DEFINE new == Append(old, Head(rest))
           left == Tail(rest)
<1>1. /\ Len(old) \in Nat /\ Len(rest) \in Nat /\ DOMAIN old = 1..Len(old) /\ DOMAIN rest = 1..Len(rest)
      /\ Len(rest) # 0 /\ Head(rest) = rest[1]
  OBVIOUS
<1>2. /\ Len(new) = Len(old) + 1 /\ DOMAIN new = 1..(Len(old) + 1)
      /\ \A k \in 1..Len(old) : new[k] = old[k]
      /\ new[Len(old) + 1] = rest[1]
  BY <1>1
<1>3. /\ Len(left) = Len(rest) - 1 /\ DOMAIN left = 1..(Len(rest) - 1)
      /\ \A k \in 1..(Len(rest) - 1) : left[k] = rest[k + 1]
  OBVIOUS
<1> HIDE DEF new, left
<1>4. Len(file) = n + Len(new) + Len(left) BY <1>1, <1>2, <1>3 DEF InFile
<1>5. ASSUME NEW k \in DOMAIN new PROVE file[n + k] = new[k]
  <2>1. CASE k = Len(old) + 1 BY <1>1, <1>2, <2>1 DEF InFile
  <2>2. CASE k # Len(old) + 1 BY <1>1, <1>2, <2>2 DEF InFile
  <2> QED BY <2>1, <2>2
<1>6. ASSUME NEW k \in DOMAIN left PROVE file[n + Len(new) + k] = left[k]
  <2>1. k \in 1..(Len(rest) - 1) /\ k + 1 \in 1..Len(rest) BY <1>1, <1>3
  <2>2. n + Len(new) + k = n + Len(old) + (k + 1) BY <1>1, <1>2, <2>1
  <2>3. file[n + Len(old) + (k + 1)] = rest[k + 1] BY <1>1, <2>1 DEF InFile
  <2> QED BY <1>3, <2>1, <2>2, <2>3
<1>7. InFile(file, n, new, left) BY <1>4, <1>5, <1>6 DEF InFile
<1> QED BY <1>7 DEF new, left

\* and one that is pushed from the head of the chunk to the batch.
LEMMA LineDone ==
  ASSUME NEW file, NEW n \in Nat, NEW old \in Seq(Docs), NEW rest \in Seq(Docs \cup {Bad}), old # <<>>,
         InFile(file, n, old, rest)
  PROVE  InFile(file, n + 1, Tail(old), rest)
<1> DEFINE new == Tail(old)
<1>1. /\ Len(old) \in Nat /\ Len(rest) \in Nat /\ DOMAIN old = 1..Len(old) /\ DOMAIN rest = 1..Len(rest)
      /\ Len(old) # 0
      /\ Len(new) = Len(old) - 1 /\ DOMAIN new = 1..(Len(old) - 1)
      /\ \A k \in 1..(Len(old) - 1) : new[k] = old[k + 1]
  OBVIOUS
<1> HIDE DEF new
<1>2. Len(file) = (n + 1) + Len(new) + Len(rest) BY <1>1 DEF InFile
<1>3. ASSUME NEW k \in DOMAIN new PROVE file[(n + 1) + k] = new[k]
  <2>1. k \in 1..(Len(old) - 1) /\ k + 1 \in 1..Len(old) /\ (n + 1) + k = n + (k + 1) BY <1>1
  <2>2. file[n + (k + 1)] = old[k + 1] BY <1>1, <2>1 DEF InFile
  <2> QED BY <1>1, <2>1, <2>2
<1>4. ASSUME NEW k \in DOMAIN rest PROVE file[(n + 1) + Len(new) + k] = rest[k] BY <1>1 DEF InFile
<1>5. InFile(file, n + 1, new, rest) BY <1>2, <1>3, <1>4 DEF InFile
<1> QED BY <1>5 DEF new

\* The lines committed, in flight, in the chunk and to come are those of the file.
LEMMA LinesInOrderKept ==
  ASSUME CollectionJobInv, OverShape, ChunkShape, Tally, Queue, LinesInOrder, [Next]_vars
  PROVE  LinesInOrder'
<1>0. /\ TypeOK /\ PushesHead /\ request' = request /\ Kind' = Kind /\ begun' = begun
      /\ committing \in Seq(Seq(Op)) /\ pending \in Seq(Op) /\ committed \in Nat
      /\ chunk \in Seq(Docs) /\ lines \in Seq(Docs \cup {Bad}) /\ line \in [Docs -> Nat]
      /\ (Overwrites' <=> Overwrites)
  BY SameRequest DEF CollectionJobInv, TypeOK, Kind, Overwrites
<1> SUFFICES ASSUME Overwrites PROVE LinesInOrder' BY <1>0 DEF LinesInOrder
<1>1. /\ Written \in Nat /\ Written' \in Nat /\ Written <= Written' BY <1>0, WrittenGrows
<1>2. Kind = "import" /\ request.policy = "overwrite" BY DEF Overwrites
<1>3. ASSUME NEW d \in Docs
      PROVE  line[d] = 0 \/ (line[d] \in 1..Written /\ line[d] \in DOMAIN begun.lines /\ begun.lines[line[d]] = d)
  BY DEF LinesInOrder
<1>4. ASSUME committing # <<>>, Applied(Head(committing)), NEW d \in Docs
      PROVE  /\ \/ line'[d] = 0
                \/ /\ line'[d] \in 1..Written /\ line'[d] \in DOMAIN begun.lines
                   /\ begun.lines[line'[d]] = d
             /\ \A n \in 1..(committed + Len(Head(committing))) : begun.lines[n] = d => n <= line'[d]
  <2>0. Live BY <1>4 DEF OverShape, Live
  <2>1. PICK s \in Numbering(committing, Written) :
               /\ Offsets(s, committing, pending, committed, Written)
               /\ InLine(s, committing, pending, begun.lines)
    BY <2>0 DEF Queue
  <2>2. PICK batch : batch = committing[1] OBVIOUS
  <2>3. /\ batch \in Seq(Op) /\ 1 \in DOMAIN committing /\ 2 \in 1..(Len(committing) + 1)
        /\ Head(committing) = batch /\ 1 + 1 = 2 /\ Len(batch) \in Nat /\ DOMAIN batch = 1..Len(batch)
    BY <1>0, <1>4, <2>2
  <2>4. s[1] = committed /\ s[1 + 1] = s[1] + Len(batch) BY <2>1, <2>2, <2>3 DEF Offsets
  <2>5. s[2] \in 0..Written BY <2>1, <2>3 DEF Numbering
  <2>6. committed + Len(batch) <= Written BY <1>1, <2>3, <2>4, <2>5
  <2>7. \A k \in DOMAIN batch : LineOf(batch[k], committed + k, begun.lines)
    BY <2>1, <2>2, <2>3, <2>4 DEF InLine
  <2>8. \/ line'[d] = line[d] /\ \A k \in DOMAIN batch : batch[k].doc # d
        \/ \E i \in DOMAIN batch :
             /\ batch[i].doc = d /\ line'[d] = batch[i].line
             /\ \A k \in DOMAIN batch : batch[k].doc = d => k <= i
    BY <1>0, <1>2, <1>4, <2>2, AppliedLines
  <2>9. ASSUME NEW n \in 1..(committed + Len(batch)), ~(n \in 1..committed)
        PROVE  \E k \in DOMAIN batch : n = committed + k /\ begun.lines[n] = batch[k].doc
    <3>1. n - committed \in DOMAIN batch /\ n = committed + (n - committed) BY <1>0, <2>3, <2>9
    <3> QED BY <2>7, <3>1 DEF LineOf
  <2>10. CASE line'[d] = line[d] /\ \A k \in DOMAIN batch : batch[k].doc # d
    BY <1>3, <2>0, <2>3, <2>9, <2>10 DEF LinesInOrder
  <2>11. CASE \E i \in DOMAIN batch :
             /\ batch[i].doc = d /\ line'[d] = batch[i].line
             /\ \A k \in DOMAIN batch : batch[k].doc = d => k <= i
    <3>1. PICK i \in DOMAIN batch :
             /\ batch[i].doc = d /\ line'[d] = batch[i].line
             /\ \A k \in DOMAIN batch : batch[k].doc = d => k <= i
      BY <2>11
    <3>2. line'[d] = committed + i /\ committed + i \in DOMAIN begun.lines /\ begun.lines[committed + i] = d
      BY <2>7, <3>1 DEF LineOf
    <3>3. committed + i \in 1..Written BY <1>0, <1>1, <2>3, <2>6, <3>1
    <3>4. ASSUME NEW n \in 1..(committed + Len(batch)), begun.lines[n] = d PROVE n <= committed + i
      <4>0. i \in Nat /\ n \in Nat BY <1>0, <2>3
      <4>1. CASE n \in 1..committed BY <1>0, <4>0, <4>1
      <4>2. CASE ~(n \in 1..committed)
        <5>1. PICK k \in DOMAIN batch : n = committed + k /\ batch[k].doc = d BY <2>9, <3>4, <4>2
        <5>2. k <= i /\ k \in Nat BY <2>3, <3>1, <5>1
        <5> QED BY <1>0, <4>0, <5>1, <5>2
      <4> QED BY <4>1, <4>2
    <3> QED BY <2>3, <3>2, <3>3, <3>4
  <2> QED BY <2>8, <2>10, <2>11
<1>5. CASE ~Live'
  <2>1. ASSUME NEW d \in Docs
        PROVE  \/ line'[d] = 0
               \/ /\ line'[d] \in 1..Written' /\ line'[d] \in DOMAIN begun.lines
                  /\ begun.lines[line'[d]] = d
    BY <1>0, <1>1, <1>3, <1>4, <1>5, DeadStays, ThrowsHow DEF vars, db
  <2> QED BY <1>0, <1>5, <2>1 DEF LinesInOrder
<1>6. CASE Live'
  <2>0. Live BY <1>6, WasLive
  <2>1. \/ line' = line /\ ~Commit
        \/ Commit /\ committing # <<>> /\ Applied(Head(committing))
           /\ committed' = committed + Len(Head(committing))
    <3>1. CASE Commit BY <3>1 DEF Commit
    <3>2. CASE ~Commit
      BY <1>0, <1>2, <1>6, <3>2, ThrownNotLive, DataChanges DEF CommitFails, db, OutsideChange
    <3> QED BY <3>1, <3>2
  <2>2. ~Commit => committed' = committed BY <1>0, <1>6, QueueChanges DEF Push, Halving
  <2>3. ASSUME NEW d \in Docs
        PROVE  /\ \/ line'[d] = 0
                  \/ /\ line'[d] \in 1..Written' /\ line'[d] \in DOMAIN begun.lines
                     /\ begun.lines[line'[d]] = d
               /\ \A n \in 1..committed' : begun.lines[n] = d => n <= line'[d]
    BY <1>1, <1>3, <1>4, <2>0, <2>1, <2>2 DEF LinesInOrder
  <2>4. InFile(begun.lines, progress.written, chunk, lines) BY <2>0 DEF LinesInOrder, InFile
  <2>5. progress.written \in Nat BY <1>0 DEF TypeOK, Counter
  <2>6. InFile(begun.lines, progress'.written, chunk', lines')
    <3>1. CASE Push
      <4>1. progress'.written = progress.written + 1
        BY <1>0, <1>2, <3>1 DEF TypeOK, Push, Count, Counter
      <4>2. chunk' = Tail(chunk) /\ chunk # <<>> BY <1>0, <3>1, PushQueue
      <4>3. lines' = lines BY <3>1 DEF Push, reader
      <4> QED BY <1>0, <2>4, <2>5, <4>1, <4>2, <4>3, LineDone
    <3>2. CASE ~Push
      <4>1. progress'.written = progress.written BY <1>0, <3>2, WrittenChanges
      <4>2. CASE NextLine BY <1>0, <1>2, <1>6, <2>4, <2>5, <4>1, <4>2, LinesChanges, LineRead
      <4>3. CASE ~NextLine
        <5>1. lines' = lines BY <1>0, <1>2, <1>6, <4>3, LinesChanges
        <5>2. ~NextDocument /\ ~EndSubcollections
          BY <1>2 DEF NextDocument, EndSubcollections, At, CollectionJobInv, KindShapes
        <5>3. ~(chunk # <<>> /\ chunk' = Tail(chunk) /\ WriteNext)
          <6>1. ASSUME chunk # <<>>, chunk' = Tail(chunk), WriteNext PROVE FALSE
            <7>1. pc = "write" BY <6>1 DEF WriteNext, At
            <7>2. Head(chunk) \in ToSet(chunk) BY <1>0, <6>1, SetOfSequence
            <7>3. Head(chunk) \in writable BY <1>2, <2>0, <7>1, <7>2 DEF ChunkShape
            <7>4. chunk' = chunk BY <6>1, <7>3 DEF WriteNext
            <7>5. Len(Tail(chunk)) # Len(chunk) BY <1>0, <6>1
            <7> QED BY <6>1, <7>4, <7>5
          <6> QED BY <6>1
        <5>4. chunk' = chunk BY <1>6, <3>2, <4>3, <5>2, <5>3, ChunkChanges
        <5> QED BY <2>4, <4>1, <5>1, <5>4
      <4> QED BY <4>2, <4>3
    <3> QED BY <3>1, <3>2
  <2> QED BY <1>0, <2>3, <2>6 DEF LinesInOrder, InFile
<1> QED BY <1>5, <1>6

----------------
(* What is given stays given *)

\* What other clients change leaves the steady part of the scope.
LEMMA SteadyShrinks ==
  ASSUME [Next]_vars
  PROVE  Steady' \subseteq Steady
BY SameRequest DEF Steady, Scope

\* A document of the scope and those above it are there until it has been given.
LEMMA SteadyThere ==
  ASSUME CollectionJobInv, SourceKept, InOrder, NEW d \in Steady, Kind # "import",
         Kind # "delete" \/ d \in source
  PROVE  /\ d \in Docs /\ Chain(d) \subseteq source /\ Chain(d) \subseteq Docs
         /\ CollOf[d] # Root => request.include
<1>0. begun.source \subseteq Docs /\ d \in begun.source BY DEF CollectionJobInv, TypeOK, Steady, Scope
<1>1. d \in Docs BY <1>0
<1>2. CollOf[d] = Root \/ (request.include /\ Ancestors[d] \subseteq begun.source)
  BY DEF Steady, Scope
<1>3. CollOf[d] = Root => Ancestors[d] = {} BY <1>1, NoAncestors
<1>4. Chain(d) \subseteq begun.source \ touched BY <1>0, <1>2, <1>3 DEF Chain, Steady
<1>5. CASE Kind # "delete" BY <1>0, <1>1, <1>2, <1>4, <1>5 DEF SourceKept
<1>6. CASE Kind = "delete" /\ CollOf[d] = Root BY <1>0, <1>1, <1>3, <1>4, <1>6 DEF Chain
<1>7. CASE Kind = "delete" /\ CollOf[d] # Root BY <1>0, <1>1, <1>2, <1>4, <1>7 DEF Chain, InOrder
<1> QED BY <1>5, <1>6, <1>7

\* What has been given to the consumer stays given.
LEMMA GivenKept ==
  ASSUME CollectionJobInv, OverShape, ChunkShape, FilesShape, [Next]_vars, Live', Kind # "import",
         NEW d \in Docs, d \notin touched', Given(d)
  PROVE  Given(d)'
<1>0. /\ TypeOK /\ PushesHead /\ KindShapes /\ request' = request /\ Kind' = Kind /\ begun' = begun
      /\ chunk \in Seq(Docs) /\ Live
  BY SameRequest, WasLive DEF CollectionJobInv, TypeOK, Kind
<1>1. ASSUME InFlight(d), Kind \notin Exports PROVE Given(d)'
  <2>1. CASE UNCHANGED <<pending, committing, committed>> BY <1>0, <1>1, <2>1 DEF Given, InFlight, Exports
  <2>2. CASE Flush /\ committing = <<>>
    <3>1. InFlight(d)' BY <1>0, <1>1, <2>2, FlushInFlight
    <3> QED BY <1>0, <1>1, <3>1 DEF Given, Exports, Kind, TypeOK, Request
  <2>3. CASE Push
    <3>1. InFlight(d)' BY <1>0, <1>1, <2>3, PushInFlight
    <3> QED BY <1>0, <1>1, <3>1 DEF Given, Exports, Kind, TypeOK, Request
  <2>4. CASE Halving
    <3>1. InFlight(d)' BY <1>0, <1>1, <2>4, HalvingInFlight
    <3> QED BY <1>0, <1>1, <3>1 DEF Given, Exports, Kind, TypeOK, Request
  <2>5. CASE Commit
    <3>1. /\ committing # <<>> /\ committing' = Tail(committing) /\ pending' = pending
          /\ Applied(Head(committing))
      BY <2>5 DEF Commit
    <3>2. CASE InFlight(d)' BY <1>0, <1>1, <3>2 DEF Given, Exports, Kind, TypeOK, Request
    <3>3. CASE \E k \in DOMAIN Head(committing) : Head(committing)[k].doc = d
      BY <1>0, <1>1, <3>1, <3>3 DEF Applied, Given, Exports, Kind, TypeOK, Request
    <3> QED BY <1>0, <1>1, <3>1, <3>2, <3>3, CommitInFlight
  <2> QED BY <1>0, <2>1, <2>2, <2>3, <2>4, <2>5, QueueChanges
<1>2. ASSUME d \in ToSet(chunk), Kind \in {"delete", "copy"} PROVE Given(d)'
  <2>0. chunk # <<>> => ToSet(chunk) = {Head(chunk)} \cup ToSet(Tail(chunk)) BY <1>0, SetOfSequence
  <2>1. CASE chunk' = chunk BY <1>0, <1>2, <2>1 DEF Given
  <2>2. CASE chunk # <<>> /\ chunk' = Tail(chunk) /\ WriteNext
    <3>1. pc = "write" BY <2>2 DEF WriteNext, At
    <3>2. CASE d \in ToSet(Tail(chunk)) BY <1>0, <1>2, <2>2, <3>2 DEF Given
    <3>3. CASE d = Head(chunk)
      <4>1. Head(chunk) \notin writable
        <5>1. ASSUME Head(chunk) \in writable PROVE FALSE BY <1>0, <2>2, <5>1 DEF WriteNext
        <5> QED BY <5>1
      <4>2. d \in target /\ Kind # "delete"
        BY <1>0, <1>2, <3>1, <3>3, <4>1 DEF ChunkShape, KindShapes
      <4>3. target' = target BY <2>2 DEF WriteNext, db
      <4> QED BY <1>0, <1>2, <4>2, <4>3 DEF Given
    <3> QED BY <1>0, <1>2, <2>0, <2>2, <3>2, <3>3
  <2>3. CASE chunk # <<>> /\ chunk' = Tail(chunk) /\ Push
    <3>1. CASE d \in ToSet(Tail(chunk)) BY <1>0, <1>2, <2>3, <3>1 DEF Given
    <3>2. CASE d = Head(chunk)
      <4>1. InFlight(d)' BY <1>0, <2>3, <3>2, PushInFlight
      <4> QED BY <1>0, <1>2, <4>1 DEF Given
    <3> QED BY <1>0, <1>2, <2>0, <2>3, <3>1, <3>2
  <2>4. CASE \E e : Give(e) /\ pc \in {"next", "subs"}
    <3>1. Kind # "delete"
      <4>1. chunk # <<>> BY <1>0, <1>2, SetOfSequence
      <4> QED BY <1>0, <2>4, <4>1 DEF ChunkShape
    <3>2. PICK e : chunk' = Append(chunk, e) BY <1>2, <2>4, <3>1 DEF Give, Exports
    <3>3. ToSet(chunk) \subseteq ToSet(chunk') BY <1>0, <3>2 DEF ToSet
    <3> QED BY <1>0, <1>2, <3>3 DEF Given
  <2> QED BY <2>1, <2>2, <2>3, <2>4, ChunkChanges DEF NextDocument, EndSubcollections, At
<1>3. ASSUME Kind = "delete", d \notin source PROVE Given(d)'
  <2>1. d \notin source' BY <1>0, <1>3, DataChanges DEF db, Applied, OutsideChange
  <2> QED BY <1>0, <1>3, <2>1 DEF Given
<1>4. ASSUME Kind = "copy", d \in target PROVE Given(d)'
  <2>1. d \in target' BY <1>0, <1>4, DataChanges DEF db, Applied, own
  <2> QED BY <1>0, <1>4, <2>1 DEF Given
<1>5. ASSUME Kind \in Exports, d \in files.output.docs \cup files.temp.docs PROVE Given(d)'
  <2>0. files \in [{"output", "temp"} -> File] BY <1>0 DEF TypeOK
  <2>1. d \in files'.output.docs \cup files'.temp.docs
    <3>1. CASE NextDocument \/ EndSubcollections
      <4>1. CASE files' = files BY <1>5, <4>1
      <4>2. CASE \E e : \E f \in {"output", "temp"} : files' = [files EXCEPT ![f].docs = @ \cup {e}]
        <5>1. PICK e : \E f \in {"output", "temp"} : files' = [files EXCEPT ![f].docs = @ \cup {e}] BY <4>2
        <5> QED BY <1>5, <2>0, <5>1 DEF File
      <4>3. CASE \E e : Give(e)
        <5>1. PICK e : Give(e) BY <4>3
        <5>2. \E f \in {"output", "temp"} : files' = [files EXCEPT ![f].docs = @ \cup {e}]
          BY <1>5, <5>1 DEF Give, Exports
        <5> QED BY <4>2, <5>2
      <4> QED BY <3>1, <4>1, <4>3 DEF NextDocument, EndSubcollections
    <3>2. CASE EndFile
      <4>1. CASE files' = files BY <1>5, <4>1
      <4>2. CASE Kind = "exportCsv" /\ files' = [files EXCEPT !.output = Created]
        BY <1>0, <1>5, <2>0, <3>2, <4>2 DEF FilesShape, EndFile, At, NoFile
      <4> QED BY <3>2, <4>1, <4>2 DEF EndFile
    <3>3. CASE Convert
      <4>1. CASE files' = [files EXCEPT !.output.docs = @ \cup {First(Unconverted)}]
        BY <1>5, <2>0, <4>1 DEF File
      <4>2. CASE Unconverted = {} /\ files' = [files EXCEPT !.temp = NoFile]
        BY <1>5, <2>0, <4>2 DEF Unconverted
      <4> QED BY <3>3, <4>1, <4>2 DEF Convert
    <3>4. CASE CountCollection \/ FetchPage \/ EndPage \/ ListSubcollections \/ Descend
      BY <1>5, <3>4 DEF CountCollection, FetchPage, EndPage, ListSubcollections, Descend
    <3>5. CASE CountLines \/ NextLine \/ CheckTargets \/ WriteNext \/ Push \/ Commit \/ Finish \/ Report
      <4>1. CASE NextLine \/ CheckTargets BY <1>5, <4>1, ThrownNotLive DEF NextLine, CheckTargets
      <4> QED BY <1>5, <3>5, <4>1 DEF CountLines, WriteNext, Push, Commit, Finish, Report
    <3>6. CASE SeesCancel \/ Failure
      BY <1>5, <3>6, ThrownNotLive DEF SeesCancel, Failure, Rejects, CommitOversized, CommitFails
    <3>7. CASE Cancel \/ (\E e \in Docs : OutsideChange(e)) \/ UNCHANGED vars
      BY <1>5, <3>7 DEF Cancel, OutsideChange, own, vars
    <3> QED BY <3>1, <3>2, <3>3, <3>4, <3>5, <3>6, <3>7 DEF Next, JobStep, Over
  <2> QED BY <1>0, <1>5, <2>1 DEF Given
<1> QED BY <1>1, <1>2, <1>3, <1>4, <1>5 DEF Given, Exports

----------------
(* What is ahead of the generators *)

\* What is ahead of a generator that does not move is still ahead of it.
LEMMA StillAhead ==
  ASSUME NEW i \in DOMAIN stack', NEW d, NEW a \in Chain(d), CollOf[a] = stack'[i].coll,
         AheadBy(i, a, d)'
  PROVE  Ahead(d)'
BY DEF Ahead, Chain

\* A suspended generator stays ahead of what it was ahead of.
LEMMA SuspendedAhead ==
  ASSUME TypeOK, NEW i \in DOMAIN stack, NEW d, NEW a \in Chain(d), CollOf[a] = stack[i].coll,
         AheadBy(i, a, d), i # Len(stack), request' = request,
         stack' \in Seq(Frame), i \in DOMAIN stack', stack'[i] = stack[i],
         i < Len(stack') \/ pc' = "subs"
  PROVE  Ahead(d)'
BY StillAhead DEF TypeOK, AheadBy, Chain, ListsBefore, Kind

\* A step that leaves the generators alone, and what it goes on with.
LEMMA SameAhead ==
  ASSUME stack' = stack, request' = request, NEW d, Ahead(d),
         YetToList => YetToList',
         ListsBefore /\ pc \in {"list", "subs"} => pc' \in {"list", "subs"}
  PROVE  Ahead(d)'
<1>1. PICK i \in DOMAIN stack, a \in Chain(d) : CollOf[a] = stack[i].coll /\ AheadBy(i, a, d)
  BY DEF Ahead
<1>2. (ListsBefore' <=> ListsBefore) BY DEF ListsBefore, Kind
<1>3. YetToList => YetToList' OBVIOUS
<1>4. AheadBy(i, a, d)' BY <1>1, <1>2, <1>3 DEF AheadBy, Chain
<1> QED BY <1>1, <1>4, StillAhead

\* A generator that returns is ahead of nothing.
LEMMA ReturnAhead ==
  ASSUME CollectionJobInv, StackShape, Live, request' = request, Return, stack # <<>>,
         NEW d, Ahead(d),
         \A a \in Chain(d) : CollOf[a] = Top.coll => ~AheadBy(Len(stack), a, d)
  PROVE  Ahead(d)'
<1>1. /\ stack \in Seq(Frame) /\ stack' = Front(stack) /\ TypeOK
      /\ pc' = IF Len(stack) = 1 THEN Ended ELSE "subs"
  BY DEF Return, CollectionJobInv, TypeOK
<1>2. PICK i \in DOMAIN stack, a \in Chain(d) : CollOf[a] = stack[i].coll /\ AheadBy(i, a, d)
  BY DEF Ahead
<1>3. Top = stack[Len(stack)] BY <1>1, TopTyped
<1>4. i # Len(stack) BY <1>2, <1>3
<1>5. /\ Len(stack') = Len(stack) - 1 /\ stack' \in Seq(Frame) /\ Len(stack) \in Nat
      /\ \A j \in DOMAIN stack' : stack'[j] = stack[j]
  BY <1>1, TopTyped
<1>6. i \in DOMAIN stack' /\ Len(stack) # 1 BY <1>1, <1>2, <1>4, <1>5
<1>7. pc' = "subs" BY <1>1, <1>6
<1> QED BY <1>1, <1>2, <1>4, <1>5, <1>6, <1>7, SuspendedAhead

\* What the innermost generator, replaced by another, was ahead of.
LEMMA TopAhead ==
  ASSUME CollectionJobInv, request' = request, stack # <<>>, NEW f \in Frame, stack' = SetTop(f),
         f.coll = Top.coll, NEW d, Ahead(d),
         \A a \in Chain(d) : CollOf[a] = Top.coll /\ AheadBy(Len(stack), a, d) =>
           (\E b \in Chain(d) : CollOf[b] = f.coll /\ AheadBy(Len(stack), b, d)') \/ Given(d)'
  PROVE  Ahead(d)' \/ Given(d)'
<1>1. stack \in Seq(Frame) /\ TypeOK BY DEF CollectionJobInv, TypeOK
<1>2. PICK i \in DOMAIN stack, a \in Chain(d) : CollOf[a] = stack[i].coll /\ AheadBy(i, a, d)
  BY DEF Ahead
<1>3. Top = stack[Len(stack)] BY <1>1, TopTyped
<1>4. /\ SetTop(f) \in Seq(Frame) /\ Len(SetTop(f)) = Len(stack) /\ SetTop(f)[Len(stack)] = f
      /\ \A j \in DOMAIN SetTop(f) : j # Len(stack) => SetTop(f)[j] = stack[j]
  BY <1>1, SetTopTyped
<1>5. /\ stack' \in Seq(Frame) /\ Len(stack') = Len(stack) /\ stack'[Len(stack)] = f
      /\ \A j \in DOMAIN stack' : j # Len(stack) => stack'[j] = stack[j]
      /\ DOMAIN stack' = DOMAIN stack /\ Len(stack) \in DOMAIN stack'
      /\ DOMAIN stack' = 1..Len(stack)
  BY <1>1, <1>4
<1>6. CASE i = Len(stack)
  <2>1. CollOf[a] = Top.coll /\ AheadBy(Len(stack), a, d) BY <1>2, <1>3, <1>6
  <2>2. (\E b \in Chain(d) : CollOf[b] = f.coll /\ AheadBy(Len(stack), b, d)') \/ Given(d)' BY <2>1
  <2>3. PICK n : n = Len(stack) OBVIOUS
  <2>4. n \in DOMAIN stack' /\ stack'[n] = f BY <1>5, <2>3
  <2>5. ASSUME NEW b \in Chain(d), CollOf[b] = f.coll, AheadBy(Len(stack), b, d)' PROVE Ahead(d)'
    <3>1. AheadBy(n, b, d)' BY <1>5, <2>3, <2>5 DEF AheadBy
    <3> QED BY <2>4, <2>5, <3>1, StillAhead
  <2> QED BY <2>2, <2>5
<1>7. CASE i # Len(stack) BY <1>1, <1>2, <1>5, <1>7, SuspendedAhead
<1> QED BY <1>6, <1>7

\* What a page leaves out is later than all of it, and there are more.
LEMMA FetchPageAhead ==
  ASSUME CollectionJobInv, StackShape, Live, [Next]_vars, FetchPage,
         NEW d \in Docs, Chain(d) \subseteq source, Ahead(d)
  PROVE  Ahead(d)' \/ Given(d)'
<1>1. pc = "query" /\ Kind # "import" /\ TypeOK /\ request' = request
  BY SameRequest DEF FetchPage, At, CollectionJobInv, KindShapes
<1>2. /\ stack # <<>> /\ stack \in Seq(Frame) /\ Top \in Frame /\ Top = stack[Len(stack)]
      /\ Len(stack) \in DOMAIN stack
  BY <1>1, StackedThere, TopTyped
<1>3. PICK page : page = Page(source, Top.coll, Top.cursor) OBVIOUS
<1>4. /\ Top.coll \in Collections /\ Top.cursor \in Nat /\ Top.page \subseteq Docs
      /\ Top.more \in BOOLEAN /\ Top.subs \subseteq Collections
  BY <1>2 DEF Frame
<1>5. /\ page \subseteq Direct(Docs, Top.coll)
      /\ \A a \in Direct(source, Top.coll) : a > Top.cursor /\ a \notin page =>
           More(page) /\ page # {} /\ \A p \in page : p < a
  BY <1>1, <1>3, <1>4, PageIsNext DEF TypeOK
<1>6. FrameShape(Len(stack)) BY <1>2 DEF StackShape
<1>7. Top.page = {} /\ Top.subs = {} BY <1>1, <1>2, <1>6 DEF FrameShape
<1>8. \A a \in Chain(d) : CollOf[a] = Top.coll /\ AheadBy(Len(stack), a, d) =>
        a > Top.cursor /\ a \in Direct(source, Top.coll)
  <2> SUFFICES ASSUME NEW a \in Chain(d), CollOf[a] = Top.coll, AheadBy(Len(stack), a, d)
               PROVE  a > Top.cursor /\ a \in Direct(source, Top.coll)
    OBVIOUS
  <2>1. ~YetToList BY <1>1 DEF YetToList
  <2>2. a > Top.cursor BY <1>1, <1>2, <1>7, <2>1 DEF AheadBy
  <2> QED BY <2>2 DEF Direct
<1>9. CASE page = {} /\ Return BY <1>1, <1>2, <1>5, <1>8, <1>9, ReturnAhead
<1>10. CASE stack' = SetTop([Top EXCEPT !.page = page, !.more = More(page)])
  <2>1. PICK f : f = [Top EXCEPT !.page = page, !.more = More(page)] OBVIOUS
  <2>2. page \subseteq Docs BY <1>5 DEF Direct
  <2>3. /\ f \in Frame /\ f.page = page /\ f.coll = Top.coll /\ f.cursor = Top.cursor
        /\ f.more = More(page)
    <3>1. More(page) \in BOOLEAN BY DEF More
    <3> QED BY <1>2, <1>4, <2>1, <2>2, <3>1 DEF Frame
  <2>4. stack' = SetTop(f) BY <1>10, <2>1
  <2>5. Len(stack') = Len(stack) /\ stack'[Len(stack)] = f BY <1>2, <2>3, <2>4, SetTopTyped
  <2>6. ASSUME NEW a \in Chain(d), CollOf[a] = Top.coll, AheadBy(Len(stack), a, d)
        PROVE  AheadBy(Len(stack), a, d)'
    BY <1>5, <1>8, <2>3, <2>5, <2>6 DEF AheadBy
  <2>7. \A a \in Chain(d) : CollOf[a] = Top.coll /\ AheadBy(Len(stack), a, d) =>
          (\E b \in Chain(d) : CollOf[b] = f.coll /\ AheadBy(Len(stack), b, d)') \/ Given(d)'
    BY <2>3, <2>6
  <2> QED BY <1>1, <1>2, <2>3, <2>4, <2>7, TopAhead
<1> QED BY <1>3, <1>9, <1>10 DEF FetchPage

\* Nothing is ahead of a page that was the last, and all that is after it of another.
LEMMA EndPageAhead ==
  ASSUME CollectionJobInv, StackShape, Live, [Next]_vars, EndPage, NEW d \in Docs, Ahead(d)
  PROVE  Ahead(d)'
<1>1. pc = "next" /\ Kind # "import" /\ TypeOK /\ request' = request /\ Top.page = {}
  BY SameRequest DEF EndPage, At, CollectionJobInv, KindShapes
<1>2. /\ stack # <<>> /\ stack \in Seq(Frame) /\ Top = stack[Len(stack)]
      /\ Len(stack) \in DOMAIN stack
  BY <1>1, StackedThere, TopTyped
<1>3. ~YetToList BY <1>1 DEF YetToList
<1>4. CASE stack' = stack BY <1>1, <1>3, <1>4, SameAhead
<1>5. CASE ~Top.more /\ Return
  <2>1. FrameShape(Len(stack)) BY <1>2 DEF StackShape
  <2>2. Top.subs = {} BY <1>1, <1>2, <2>1 DEF FrameShape
  <2>3. \A a \in Chain(d) : CollOf[a] = Top.coll => ~AheadBy(Len(stack), a, d)
    <3> SUFFICES ASSUME NEW a \in Chain(d), AheadBy(Len(stack), a, d) PROVE FALSE OBVIOUS
    <3> QED BY <1>1, <1>2, <1>3, <1>5, <2>2 DEF AheadBy
  <2> QED BY <1>1, <1>2, <1>5, <2>3, ReturnAhead
<1> QED BY <1>4, <1>5 DEF EndPage

\* The document a generator gives is given to the consumer.
LEMMA GiveGives ==
  ASSUME TypeOK, NEW d, Give(d), d \in Docs, request' = request
  PROVE  Given(d)'
<1>1. chunk \in Seq(Docs) /\ files \in [{"output", "temp"} -> File] /\ Kind' = Kind BY DEF TypeOK, Kind
<1>2. CASE Kind = "delete" BY <1>1, <1>2, SetOfSequence DEF Give, Exports, Given
<1>3. CASE Kind = "copy" BY <1>1, <1>3 DEF Give, Exports, ToSet, Given
<1>4. CASE Kind \in Exports
  <2>1. PICK f \in {"output", "temp"} : files' = [files EXCEPT ![f].docs = @ \cup {d}]
    BY <1>4 DEF Give, Exports
  <2>2. d \in files'.output.docs \cup files'.temp.docs BY <1>1, <2>1 DEF File
  <2> QED BY <1>1, <1>4, <2>2 DEF Given
<1> QED BY <1>2, <1>3, <1>4 DEF Give

\* The next document is given, or its subcollections are listed first.
LEMMA NextDocumentAhead ==
  ASSUME CollectionJobInv, StackShape, Live, [Next]_vars, NextDocument,
         NEW d \in Docs, CollOf[d] # Root => request.include, Ahead(d)
  PROVE  Ahead(d)' \/ Given(d)'
<1>0. PICK e : e = First(Top.page) OBVIOUS
<1>1. /\ pc = "next" /\ Kind # "import" /\ TypeOK /\ request' = request /\ Top.page # {}
      /\ stack' = SetTop([Top EXCEPT !.cursor = e, !.page = @ \ {e}])
      /\ (ListsBefore /\ pc' = "list") \/ (~ListsBefore /\ Give(e))
  BY <1>0, SameRequest DEF NextDocument, At, CollectionJobInv, KindShapes
<1>2. /\ stack # <<>> /\ stack \in Seq(Frame) /\ Top \in Frame /\ Top = stack[Len(stack)]
      /\ Len(stack) \in DOMAIN stack
  BY <1>1, StackedThere, TopTyped
<1>3. /\ Top.coll \in Collections /\ Top.cursor \in Nat /\ Top.page \in SUBSET Docs
      /\ Top.more \in BOOLEAN /\ Top.subs \subseteq Collections
  BY <1>2 DEF Frame
<1>4. e \in Top.page /\ e \in Docs /\ e \in Nat BY <1>0, <1>1, <1>3, FirstTyped, TreeAssumption
<1>5. PICK f : f = [Top EXCEPT !.cursor = e, !.page = @ \ {e}] OBVIOUS
<1>6. /\ f.page = Top.page \ {e} /\ f.coll = Top.coll /\ f.cursor = e /\ f.more = Top.more
      /\ f.subs = Top.subs
  BY <1>2, <1>5 DEF Frame
<1>7. f \in Frame BY <1>2, <1>3, <1>4, <1>5 DEF Frame
<1>8. stack' = SetTop(f) BY <1>1, <1>5
<1>9. Len(stack') = Len(stack) /\ stack'[Len(stack)] = f BY <1>2, <1>7, <1>8, SetTopTyped
<1>10. FrameShape(Len(stack)) BY <1>2 DEF StackShape
<1>11. Top.subs = {} /\ ~YetToList BY <1>1, <1>2, <1>10 DEF FrameShape, YetToList
<1>12. ListsBefore' <=> ListsBefore BY <1>1 DEF ListsBefore, Kind
<1>13. ASSUME NEW a \in Chain(d), CollOf[a] = Top.coll, AheadBy(Len(stack), a, d)
       PROVE  AheadBy(Len(stack), a, d)' \/ Given(d)'
  <2>0. a \in Nat BY ChainDocs, TreeAssumption
  <2>1. a \in Top.page \/ (Top.more /\ a > Top.cursor /\ \A p \in Top.page : p < a)
    BY <1>1, <1>2, <1>11, <1>13 DEF AheadBy
  <2>2. CASE a \in Top.page /\ a # e
    <3>1. a \in f.page BY <1>6, <2>2
    <3> QED BY <1>9, <3>1 DEF AheadBy
  <2>3. CASE Top.more /\ a > Top.cursor /\ \A p \in Top.page : p < a
    BY <1>4, <1>6, <1>9, <2>0, <2>3 DEF AheadBy
  <2>4. CASE a = e /\ d = a
    <3>1. CASE ListsBefore /\ pc' = "list" BY <1>6, <1>9, <1>12, <2>4, <3>1 DEF AheadBy
    <3>2. CASE Give(e)
      <4>1. Given(d)' BY <1>1, <2>4, <3>2, GiveGives
      <4> QED BY <4>1
    <3> QED BY <1>1, <3>1, <3>2
  <2>5. CASE a = e /\ d # a
    <3>1. CollOf[d] # Root
      <4>1. a \in Ancestors[d] BY <2>5 DEF Chain
      <4> QED BY <4>1, NoAncestors
    <3>2. request.include BY <3>1
    <3>3. YetToList'
      <4>1. CASE ListsBefore /\ pc' = "list" BY <4>1 DEF YetToList
      <4>2. CASE ~ListsBefore /\ Give(e)
        BY <1>1, <1>12, <3>2, <4>2 DEF ListsBefore, Resumed, Give, YetToList
      <4> QED BY <1>1, <4>1, <4>2
    <3>4. a = f.cursor BY <1>6, <2>5
    <3>5. AheadBy(Len(stack), a, d)' BY <1>9, <2>5, <3>3, <3>4 DEF AheadBy
    <3> QED BY <3>5
  <2> QED BY <2>1, <2>2, <2>3, <2>4, <2>5
<1>14. \A a \in Chain(d) : CollOf[a] = Top.coll /\ AheadBy(Len(stack), a, d) =>
         (\E b \in Chain(d) : CollOf[b] = f.coll /\ AheadBy(Len(stack), b, d)') \/ Given(d)'
  BY <1>6, <1>13
<1> QED BY <1>1, <1>2, <1>6, <1>7, <1>8, <1>14, TopAhead

\* The way down to a document of the scope is among the subcollections listed.
LEMMA ListSubcollectionsAhead ==
  ASSUME CollectionJobInv, StackShape, Live, [Next]_vars, ListSubcollections,
         NEW d \in Docs, Chain(d) \subseteq source, Ahead(d)
  PROVE  Ahead(d)' \/ Given(d)'
<1>0. PICK subs : subs = Subcollections(source, Top.cursor) OBVIOUS
<1>1. /\ pc = "list" /\ pc' = "subs" /\ Kind # "import" /\ TypeOK /\ request' = request
      /\ stack' = SetTop([Top EXCEPT !.subs = subs])
  BY <1>0, SameRequest DEF ListSubcollections, At, CollectionJobInv, KindShapes
<1>2. /\ stack # <<>> /\ stack \in Seq(Frame) /\ Top \in Frame /\ Top = stack[Len(stack)]
      /\ Len(stack) \in DOMAIN stack
  BY <1>1, StackedThere, TopTyped
<1>3. PICK f : f = [Top EXCEPT !.subs = subs] OBVIOUS
<1>4. subs \subseteq Collections BY <1>0 DEF Subcollections
<1>5. /\ f \in Frame /\ f.page = Top.page /\ f.coll = Top.coll /\ f.cursor = Top.cursor
      /\ f.more = Top.more /\ f.subs = subs
  BY <1>2, <1>3, <1>4 DEF Frame
<1>6. stack' = SetTop(f) BY <1>1, <1>3
<1>7. Len(stack') = Len(stack) /\ stack'[Len(stack)] = f BY <1>2, <1>5, <1>6, SetTopTyped
<1>8. FrameShape(Len(stack)) BY <1>2 DEF StackShape
<1>9. Top.subs = {} BY <1>1, <1>2, <1>8 DEF FrameShape
<1>10. ListsBefore' <=> ListsBefore BY <1>1 DEF ListsBefore, Kind
<1>11. ASSUME NEW a \in Chain(d), CollOf[a] = Top.coll, AheadBy(Len(stack), a, d)
       PROVE  AheadBy(Len(stack), a, d)'
  <2>1. CASE a \in Top.page BY <1>5, <1>7, <2>1 DEF AheadBy
  <2>2. CASE Top.more /\ a > Top.cursor /\ \A p \in Top.page : p < a BY <1>5, <1>7, <2>2 DEF AheadBy
  <2>3. CASE a = Top.cursor /\ d # a
    <3>1. a \in Ancestors[d] BY <2>3 DEF Chain
    <3>2. PICK b \in Chain(d) : CollOf[b] # Root /\ ParentOf[CollOf[b]] = a BY <3>1, NextBelow
    <3>3. d \in source /\ b \in {d} \cup Ancestors[d] /\ b \in Docs BY ChainDocs DEF Chain
    <3>4. CollOf[b] \in Collections BY <3>3, TreeAssumption
    <3>5. CollOf[b] \in subs BY <1>0, <2>3, <3>2, <3>3, <3>4 DEF Subcollections
    <3> QED BY <1>5, <1>7, <2>3, <3>2, <3>5 DEF AheadBy, Chain
  <2>4. CASE a = Top.cursor /\ d = a /\ ListsBefore BY <1>1, <1>5, <1>7, <1>10, <2>4 DEF AheadBy
  <2> QED BY <1>2, <1>11, <2>1, <2>2, <2>3, <2>4 DEF AheadBy
<1>12. \A a \in Chain(d) : CollOf[a] = Top.coll /\ AheadBy(Len(stack), a, d) =>
         (\E b \in Chain(d) : CollOf[b] = f.coll /\ AheadBy(Len(stack), b, d)') \/ Given(d)'
  BY <1>5, <1>11
<1> QED BY <1>1, <1>2, <1>5, <1>6, <1>12, TopAhead

\* The way down goes through a subcollection that is left, or the one gone into.
LEMMA DescendAhead ==
  ASSUME CollectionJobInv, StackShape, Live, [Next]_vars, Descend, NEW d \in Docs, Ahead(d)
  PROVE  Ahead(d)'
<1>0. PICK c \in Top.subs : stack' = Append(SetTop([Top EXCEPT !.subs = @ \ {c}]), FrameOf(c))
  BY DEF Descend
<1>1. pc = "subs" /\ Kind # "import" /\ TypeOK /\ request' = request
  BY SameRequest DEF Descend, At, CollectionJobInv, KindShapes
<1>2. /\ stack # <<>> /\ stack \in Seq(Frame) /\ Top \in Frame /\ Top = stack[Len(stack)]
      /\ Len(stack) \in DOMAIN stack
  BY <1>1, StackedThere, TopTyped
<1>3. PICK f : f = [Top EXCEPT !.subs = @ \ {c}] OBVIOUS
<1>4. /\ f \in Frame /\ f.page = Top.page /\ f.coll = Top.coll /\ f.cursor = Top.cursor
      /\ f.more = Top.more /\ f.subs = Top.subs \ {c} /\ c \in Collections
  BY <1>2, <1>3 DEF Frame
<1>5. PICK base : base = SetTop(f) OBVIOUS
<1>6. /\ base \in Seq(Frame) /\ Len(base) = Len(stack) /\ base[Len(stack)] = f
      /\ \A i \in DOMAIN base : i # Len(stack) => base[i] = stack[i]
  BY <1>2, <1>4, <1>5, SetTopTyped
<1>7. FrameOf(c) \in Frame BY <1>4, FrameOfTyped
<1>8. PICK n \in Nat : n = Len(stack) /\ DOMAIN stack = 1..n BY <1>2
<1>9. /\ stack' \in Seq(Frame) /\ Len(stack') = n + 1 /\ stack'[n + 1] = FrameOf(c) /\ stack'[n] = f
      /\ \A i \in 1..n : i # n => stack'[i] = stack[i]
      /\ DOMAIN stack' = 1..(n + 1)
  <2>1. stack' = Append(base, FrameOf(c)) BY <1>0, <1>3, <1>5
  <2> QED BY <1>2, <1>6, <1>7, <1>8, <2>1
<1>10. PICK i \in DOMAIN stack, a \in Chain(d) : CollOf[a] = stack[i].coll /\ AheadBy(i, a, d)
  BY DEF Ahead
<1>11. CASE i # n BY <1>1, <1>2, <1>8, <1>9, <1>10, <1>11, SuspendedAhead
<1>12. CASE i = n
  <2>1. n < Len(stack') /\ n \in DOMAIN stack' /\ n + 1 \in DOMAIN stack' BY <1>2, <1>8, <1>9
  <2>2. ListsBefore' <=> ListsBefore BY <1>1 DEF ListsBefore, Kind
  <2>3. ~YetToList BY <1>1 DEF YetToList
  <2>4. CollOf[a] = f.coll /\ AheadBy(n, a, d) /\ Top = stack[n] BY <1>2, <1>4, <1>8, <1>10, <1>12
  <2>5. CASE \E b \in Chain(d) : CollOf[b] = c
    <3>1. PICK b \in Chain(d) : CollOf[b] = c BY <2>5
    <3>2. b \in Docs /\ b \in Nat /\ b # 0 BY ChainDocs, TreeAssumption
    <3>3. /\ stack'[n + 1].more /\ stack'[n + 1].cursor = 0 /\ stack'[n + 1].page = {}
          /\ stack'[n + 1].coll = c
      BY <1>9 DEF FrameOf
    <3>4. b > stack'[n + 1].cursor BY <3>2, <3>3
    <3>5. AheadBy(n + 1, b, d)' BY <3>3, <3>4 DEF AheadBy
    <3> QED BY <2>1, <3>1, <3>3, <3>5, StillAhead
  <2>6. CASE ~\E b \in Chain(d) : CollOf[b] = c
    <3>1. CASE a \in Top.page BY <1>4, <1>9, <2>1, <2>4, <3>1, StillAhead DEF AheadBy
    <3>2. CASE Top.more /\ a > Top.cursor /\ \A p \in Top.page : p < a
      <4>1. AheadBy(n, a, d)' BY <1>4, <1>9, <3>2 DEF AheadBy
      <4> QED BY <1>9, <2>1, <2>4, <4>1, StillAhead
    <3>3. CASE a = Top.cursor /\ d # a /\
               \E b \in Chain(d) : CollOf[b] # Root /\ ParentOf[CollOf[b]] = a /\ CollOf[b] \in Top.subs
      <4>1. PICK b \in Chain(d) : CollOf[b] # Root /\ ParentOf[CollOf[b]] = a /\ CollOf[b] \in Top.subs
        BY <3>3
      <4>2. CollOf[b] \in f.subs BY <1>4, <2>6, <4>1
      <4>3. AheadBy(n, a, d)' BY <1>4, <1>9, <3>3, <4>1, <4>2 DEF AheadBy, Chain
      <4> QED BY <1>9, <2>1, <2>4, <4>3, StillAhead
    <3>4. CASE a = Top.cursor /\ d = a /\ ListsBefore
      <4>1. AheadBy(n, a, d)' BY <1>4, <1>9, <2>1, <2>2, <3>4 DEF AheadBy
      <4> QED BY <1>9, <2>1, <2>4, <4>1, StillAhead
    <3> QED BY <2>3, <2>4, <3>1, <3>2, <3>3, <3>4 DEF AheadBy
  <2> QED BY <2>5, <2>6
<1> QED BY <1>11, <1>12

\* No subcollection is left: a deletion now gives the document above them.
LEMMA EndSubcollectionsAhead ==
  ASSUME CollectionJobInv, StackShape, Live, [Next]_vars, EndSubcollections, NEW d \in Docs, Ahead(d)
  PROVE  Ahead(d)' \/ Given(d)'
<1>1. pc = "subs" /\ Kind # "import" /\ TypeOK /\ request' = request /\ Top.subs = {} /\ stack' = stack
  BY SameRequest DEF EndSubcollections, At, CollectionJobInv, KindShapes, reader
<1>2. /\ stack # <<>> /\ stack \in Seq(Frame) /\ Top \in Frame /\ Top = stack[Len(stack)]
      /\ Len(stack) \in DOMAIN stack
  BY <1>1, StackedThere, TopTyped
<1>3. PICK i \in DOMAIN stack, a \in Chain(d) : CollOf[a] = stack[i].coll /\ AheadBy(i, a, d)
  BY DEF Ahead
<1>4. CASE i # Len(stack) BY <1>1, <1>2, <1>3, <1>4, SuspendedAhead
<1>5. CASE i = Len(stack)
  <2>1. ~YetToList BY <1>1 DEF YetToList
  <2>2. CASE a \in stack[i].page \/ (stack[i].more /\ a > stack[i].cursor /\ \A p \in stack[i].page : p < a)
    <3>1. AheadBy(i, a, d)' BY <1>1, <2>2 DEF AheadBy
    <3> QED BY <1>1, <1>3, <3>1, StillAhead
  <2>3. CASE a = stack[i].cursor /\ d = a /\ ListsBefore
    <3>1. Give(d) BY <1>2, <1>5, <2>3 DEF EndSubcollections
    <3> QED BY <1>1, <3>1, GiveGives
  <2> QED BY <1>1, <1>2, <1>3, <1>5, <2>1, <2>2, <2>3 DEF AheadBy
<1> QED BY <1>4, <1>5

\* Every other step leaves the generators where they are.
LEMMA OtherAhead ==
  ASSUME CollectionJobInv, OverShape, ChunkShape, [Next]_vars, Live', Kind # "import",
         NEW d \in Docs, Ahead(d),
         ~FetchPage, ~EndPage, ~NextDocument, ~ListSubcollections, ~Descend, ~EndSubcollections
  PROVE  Ahead(d)'
<1>0. Live /\ request' = request /\ stack # <<>>
  <2>1. stack # <<>> BY DEF Ahead
  <2> QED BY <2>1, WasLive, SameRequest
<1>1. Resumed' = Resumed BY <1>0 DEF Resumed, ListsBefore, Kind
<1>2. ASSUME stack' = stack, pc' = pc PROVE Ahead(d)'
  <2>1. YetToList => YetToList' BY <1>1, <1>2 DEF YetToList
  <2> QED BY <1>0, <1>2, <2>1, SameAhead
<1>3. pc \notin {"finish", "convert", "report", "over"} BY <1>0 DEF ChunkShape
<1>4. CASE CountCollection BY <1>0, <1>4, SameAhead DEF CountCollection, At, reader, YetToList
<1>5. CASE CheckTargets
  BY <1>0, <1>1, <1>5, ThrownNotLive, SameAhead DEF CheckTargets, At, reader, YetToList
<1>6. CASE WriteNext BY <1>0, <1>1, <1>6, SameAhead DEF WriteNext, At, reader, Continue, YetToList
<1>7. CASE Push BY <1>0, <1>1, <1>7, SameAhead DEF Push, At, reader, YetToList
<1>8. CASE Commit BY <1>2, <1>8 DEF Commit, reader
<1>9. CASE CountLines \/ NextLine BY <1>9 DEF CountLines, NextLine
<1>10. CASE Finish \/ EndFile \/ Convert \/ Report
  BY <1>3, <1>10 DEF Finish, EndFile, Convert, Report, At
<1>11. CASE SeesCancel \/ Rejects \/ CommitFails
  BY <1>11, ThrownNotLive DEF SeesCancel, Rejects, CommitFails
<1>12. CASE CommitOversized BY <1>2, <1>12, ThrownNotLive DEF CommitOversized, reader
<1>13. CASE Cancel \/ (\E e \in Docs : OutsideChange(e)) \/ UNCHANGED vars
  BY <1>2, <1>13 DEF Cancel, OutsideChange, own, vars
<1> QED BY <1>4, <1>5, <1>6, <1>7, <1>8, <1>9, <1>10, <1>11, <1>12, <1>13
  DEF Next, JobStep, Failure, Over

\* No document of the scope is missed.
LEMMA NoneMissedKept ==
  ASSUME CollectionJobInv, OverShape, StackShape, ChunkShape, FilesShape, SourceKept, InOrder,
         NoneMissed, [Next]_vars
  PROVE  NoneMissed'
<1>0. request' = request /\ Kind' = Kind BY SameRequest DEF Kind
<1> SUFFICES ASSUME Live', Kind # "import", NEW d \in Steady' PROVE Given(d)' \/ Ahead(d)'
  BY <1>0 DEF NoneMissed
<1>1. Live /\ d \in Steady /\ d \notin touched' /\ d \in Docs
  BY WasLive, SteadyShrinks DEF Steady, Scope, CollectionJobInv, TypeOK
<1>2. CASE Given(d) BY <1>1, <1>2, GivenKept
<1>3. CASE ~Given(d)
  <2>1. Ahead(d) BY <1>1, <1>3 DEF NoneMissed
  <2>2. Kind = "delete" => d \in source BY <1>3 DEF Given
  <2>3. Chain(d) \subseteq source /\ (CollOf[d] # Root => request.include)
    BY <1>1, <2>2, SteadyThere
  <2> QED BY <1>1, <2>1, <2>3, FetchPageAhead, EndPageAhead, NextDocumentAhead,
     ListSubcollectionsAhead, DescendAhead, EndSubcollectionsAhead, OtherAhead
<1> QED BY <1>2, <1>3

----------------
(* The order of a deletion *)

\* The cursors of the generators are the chain of documents above the innermost one's.
LEMMA CursorsChained ==
  ASSUME CollectionJobInv, StackShape, Live, pc = "subs", NEW i \in DOMAIN stack
  PROVE  /\ stack[i].cursor \in Docs /\ stack[i].cursor \in Chain(stack[Len(stack)].cursor)
         /\ CollOf[stack[i].cursor] = stack[i].coll
         /\ \A d \in stack[i].page : d > stack[i].cursor
<1>1. PICK n \in Nat : n = Len(stack) /\ DOMAIN stack = 1..n BY DEF CollectionJobInv, TypeOK
<1>2. ASSUME NEW j \in 1..n
      PROVE  /\ stack[j].cursor \in Docs /\ CollOf[stack[j].cursor] = stack[j].coll
             /\ \A d \in stack[j].page : d > stack[j].cursor
             /\ j < n => /\ stack[j + 1].coll # Root
                         /\ ParentOf[stack[j + 1].coll] = stack[j].cursor
  BY <1>1, TreeAssumption DEF CollectionJobInv, CursorsKnown, StackShape, FrameShape
<1> DEFINE S == {m \in Nat : m < n /\ stack[n - m].cursor \notin Chain(stack[n].cursor)}
<1>3. S = {}
  <2> SUFFICES ASSUME S # {} PROVE FALSE OBVIOUS
  <2>1. S \in SUBSET Nat OBVIOUS
  <2>2. PICK m \in S : \A k \in S : m <= k
    <3> HIDE DEF S
    <3> QED BY <2>1, LeastOf
  <2>3. m \in Nat /\ m < n /\ stack[n - m].cursor \notin Chain(stack[n].cursor) OBVIOUS
  <2>4. m # 0
    <3>1. n - 0 = n BY <1>1
    <3> QED BY <2>3, <3>1 DEF Chain
  <2>5. m - 1 \in Nat /\ m - 1 < n /\ ~(m <= m - 1) BY <1>1, <2>3, <2>4
  <2>6. stack[n - (m - 1)].cursor \in Chain(stack[n].cursor) BY <2>2, <2>5
  <2>7. PICK j \in 1..n : j = n - m /\ j < n /\ n - (m - 1) = j + 1 /\ j + 1 \in 1..n BY <1>1, <2>3, <2>4
  <2> HIDE DEF S
  <2>8. PICK e : e = stack[j + 1].cursor OBVIOUS
  <2>9. e \in Docs /\ e \in Chain(stack[n].cursor) /\ CollOf[e] # Root
        /\ ParentOf[CollOf[e]] = stack[j].cursor
    BY <1>2, <2>6, <2>7, <2>8
  <2>10. stack[j].cursor \in Chain(e) BY <2>9, SomeAncestors DEF Chain
  <2>11. n \in 1..n BY <2>7
  <2>12. Chain(e) \subseteq Chain(stack[n].cursor) BY <1>2, <2>9, <2>11, ChainWithin
  <2> QED BY <2>3, <2>7, <2>10, <2>12
<1>4. n - i \in Nat /\ n - i < n /\ n - (n - i) = i BY <1>1
<1>5. stack[n - (n - i)].cursor \in Chain(stack[n].cursor) BY <1>3, <1>4
<1> QED BY <1>1, <1>2, <1>4, <1>5

\* When the subcollections of the innermost cursor are done, no generator will come to
\* a document below it.
LEMMA NothingBelowAhead ==
  ASSUME CollectionJobInv, StackShape, Live, pc = "subs", stack # <<>>, Top.subs = {},
         NEW d \in Docs, Top.cursor \in Ancestors[d]
  PROVE  ~Ahead(d)
<1>0. stack \in Seq(Frame) BY DEF CollectionJobInv, TypeOK
<1>1. PICK n \in Nat : n = Len(stack) /\ DOMAIN stack = 1..n /\ n \in 1..n BY <1>0
<1>2. Top = stack[n] BY <1>1, TopTyped DEF CollectionJobInv, TypeOK
<1>3. PICK e : e = Top.cursor OBVIOUS
<1>4. e \in Docs /\ e \in Ancestors[d] /\ e \in Chain(d) /\ e < d /\ Chain(e) \subseteq Chain(d)
  BY <1>3, AncestorsBefore, ChainWithin DEF Chain
<1>5. ASSUME NEW i \in 1..n
      PROVE  /\ stack[i].cursor \in Chain(d) /\ stack[i].cursor < d
             /\ CollOf[stack[i].cursor] = stack[i].coll
             /\ \A p \in stack[i].page : p > stack[i].cursor
  <2>1. /\ stack[i].cursor \in Docs /\ stack[i].cursor \in Chain(e)
        /\ CollOf[stack[i].cursor] = stack[i].coll
        /\ \A p \in stack[i].page : p > stack[i].cursor
    BY <1>1, <1>2, <1>3, CursorsChained
  <2>2. stack[i].cursor <= e BY <1>4, <2>1, ChainDocs
  <2>3. stack[i].cursor \in Nat /\ e \in Nat /\ d \in Nat BY <1>4, <2>1, TreeAssumption
  <2>4. stack[i].cursor < d
    <3>1. PICK c : c = stack[i].cursor OBVIOUS
    <3> HIDE <1>3
    <3> QED BY <1>4, <2>2, <2>3
  <2> QED BY <1>4, <2>1, <2>4
<1>6. SUFFICES ASSUME NEW i \in 1..n, NEW a \in Chain(d), CollOf[a] = stack[i].coll, AheadBy(i, a, d)
               PROVE  FALSE
  BY <1>1 DEF Ahead
<1>7. a = stack[i].cursor BY <1>5, <1>6, OneBelow
<1>8. a \in Nat /\ d \in Nat /\ a < d BY <1>5, <1>6, <1>7, ChainDocs, TreeAssumption
<1>9. a \notin stack[i].page /\ ~(a > stack[i].cursor)
  <2>1. ~(a > a) BY <1>8
  <2> QED BY <1>5, <1>7, <2>1
<1>10. ~YetToList BY DEF YetToList
<1>11. PICK b \in Chain(d) : CollOf[b] # Root /\ ParentOf[CollOf[b]] = a /\ CollOf[b] \in stack[i].subs
  BY <1>6, <1>8, <1>9, <1>10 DEF AheadBy
<1>12. i # n BY <1>2, <1>11
<1>13. i < n /\ i + 1 \in 1..n /\ i < Len(stack) BY <1>1, <1>12
<1>14. FrameShape(i) BY <1>1 DEF StackShape
<1>15. PICK c : c = stack[i + 1].cursor OBVIOUS
<1>16. /\ c \in Chain(d) /\ CollOf[c] = stack[i + 1].coll /\ CollOf[c] # Root
       /\ ParentOf[CollOf[c]] = stack[i].cursor /\ CollOf[c] \notin stack[i].subs
  BY <1>5, <1>13, <1>14, <1>15 DEF FrameShape
<1>17. b = c BY <1>7, <1>11, <1>16, OneBelow
<1> QED BY <1>11, <1>16, <1>17

----------------
\* In a queue of batches, each operation about x comes after one about y.
Precedes(queue, y, x) ==
  \A i \in DOMAIN queue : \A k \in DOMAIN queue[i] :
    queue[i][k].doc = x =>
      \E j \in DOMAIN queue : \E l \in DOMAIN queue[j] :
        queue[j][l].doc = y /\ (j < i \/ (j = i /\ l < k))

Batched(queue, y) == \E i \in DOMAIN queue : \E k \in DOMAIN queue[i] : queue[i][k].doc = y

\* Where an operation of the queue is after its first batch, of which h stay, was halved.
Placed(old, new, h) ==
  /\ \A j \in DOMAIN old : \A l \in DOMAIN old[j] :
       \/ j = 1 /\ l <= h /\ 1 \in DOMAIN new /\ l \in DOMAIN new[1] /\ new[1][l] = old[j][l]
       \/ j = 1 /\ l > h /\ 2 \in DOMAIN new /\ l - h \in DOMAIN new[2] /\ new[2][l - h] = old[j][l]
       \/ j > 1 /\ j + 1 \in DOMAIN new /\ l \in DOMAIN new[j + 1] /\ new[j + 1][l] = old[j][l]
  /\ \A i \in DOMAIN new : \A k \in DOMAIN new[i] :
       \/ i = 1 /\ k <= h /\ 1 \in DOMAIN old /\ k \in DOMAIN old[1] /\ new[i][k] = old[1][k]
       \/ i = 2 /\ 1 \in DOMAIN old /\ h + k \in DOMAIN old[1] /\ new[i][k] = old[1][h + k]
       \/ i > 2 /\ i - 1 \in DOMAIN old /\ k \in DOMAIN old[i - 1] /\ new[i][k] = old[i - 1][k]

\* An operation of a halved queue has its place in both, in the same order.
LEMMA HalvedPlace ==
  ASSUME NEW old \in Seq(Seq(Op)), old # <<>>, NEW new, Halved(old, new)
  PROVE  \E h \in Nat : Placed(old, new, h)
<1>0. PICK batch, one, two : batch = old[1] /\ one = new[1] /\ two = new[2] OBVIOUS
<1>1. PICK h \in 1..(Len(batch) - 1) :
              /\ Len(one) = h /\ \A l \in 1..h : one[l] = batch[l]
              /\ Len(two) = Len(batch) - h
              /\ \A l \in 1..(Len(batch) - h) : two[l] = batch[h + l]
  BY <1>0 DEF Halved
<1>2. PICK n \in Nat : n = Len(old) /\ n # 0 /\ Len(new) = n + 1 BY DEF Halved
<1>3. /\ DOMAIN old = 1..n /\ DOMAIN new = 1..(n + 1) /\ batch \in Seq(Op)
      /\ one \in Seq(Op) /\ two \in Seq(Op) /\ new \in Seq(Seq(Op))
  BY <1>0, <1>2 DEF Halved
<1>4. PICK m \in Nat : m = Len(batch) BY <1>3
<1>5. DOMAIN batch = 1..m /\ DOMAIN one = 1..h /\ DOMAIN two = 1..(m - h) /\ h \in 1..(m - 1) /\ h \in Nat
  BY <1>1, <1>3, <1>4
<1>6. /\ \A l \in 1..h : one[l] = batch[l]
      /\ \A l \in 1..(m - h) : two[l] = batch[h + l]
  BY <1>1, <1>4
<1>7. 1 \in DOMAIN old /\ 1 \in DOMAIN new /\ 2 \in DOMAIN new BY <1>2, <1>3
<1>8. ASSUME NEW j \in DOMAIN old, NEW l \in DOMAIN old[j]
      PROVE  \/ j = 1 /\ l <= h /\ 1 \in DOMAIN new /\ l \in DOMAIN new[1] /\ new[1][l] = old[j][l]
             \/ j = 1 /\ l > h /\ 2 \in DOMAIN new /\ l - h \in DOMAIN new[2] /\ new[2][l - h] = old[j][l]
             \/ j > 1 /\ j + 1 \in DOMAIN new /\ l \in DOMAIN new[j + 1] /\ new[j + 1][l] = old[j][l]
  <2>1. CASE j = 1
    <3>1. l \in 1..m /\ old[j][l] = batch[l] BY <1>0, <1>5, <1>8, <2>1
    <3> HIDE <1>4
    <3>2. CASE l <= h BY <1>0, <1>5, <1>6, <1>7, <2>1, <3>1, <3>2
    <3>3. CASE l > h BY <1>0, <1>5, <1>6, <1>7, <2>1, <3>1, <3>3
    <3> QED BY <1>5, <3>1, <3>2, <3>3
  <2>2. CASE j # 1
    <3>0. j \in 1..n BY <1>3
    <3>1. j \in 1..n /\ j + 1 \in 3..(n + 1) /\ (j + 1) - 1 = j /\ j > 1 BY <2>2, <3>0
    <3>2. new[j + 1] = old[j] BY <1>2, <3>1 DEF Halved
    <3>3. j + 1 \in DOMAIN new BY <1>3, <3>1
    <3> QED BY <1>8, <3>1, <3>2, <3>3
  <2> QED BY <2>1, <2>2
<1>9. ASSUME NEW i \in DOMAIN new, NEW k \in DOMAIN new[i]
      PROVE  \/ i = 1 /\ k <= h /\ 1 \in DOMAIN old /\ k \in DOMAIN old[1] /\ new[i][k] = old[1][k]
             \/ i = 2 /\ 1 \in DOMAIN old /\ h + k \in DOMAIN old[1] /\ new[i][k] = old[1][h + k]
             \/ i > 2 /\ i - 1 \in DOMAIN old /\ k \in DOMAIN old[i - 1] /\ new[i][k] = old[i - 1][k]
  <2>1. CASE i = 1
    <3>1. k \in 1..h /\ new[i][k] = one[k] BY <1>0, <1>5, <1>9, <2>1
    <3>2. k \in 1..m /\ k <= h BY <1>5, <3>1
    <3> QED BY <1>0, <1>5, <1>6, <1>7, <2>1, <3>1, <3>2
  <2>2. CASE i = 2
    <3>1. k \in 1..(m - h) /\ new[i][k] = two[k] BY <1>0, <1>5, <1>9, <2>2
    <3> HIDE <1>4
    <3>2. h + k \in 1..m BY <1>5, <3>1
    <3>3. new[i][k] = batch[h + k] BY <1>6, <3>1
    <3> QED BY <1>0, <1>5, <1>7, <2>2, <3>2, <3>3
  <2>3. CASE i \notin {1, 2}
    <3>0. i \in 1..(n + 1) BY <1>3
    <3>1. i \in 3..(n + 1) /\ i - 1 \in 1..n /\ i > 2 BY <2>3, <3>0
    <3>2. new[i] = old[i - 1] BY <1>2, <3>1 DEF Halved
    <3> QED BY <1>3, <1>9, <3>1, <3>2
  <2> QED BY <2>1, <2>2, <2>3
<1> QED BY <1>5, <1>8, <1>9 DEF Placed

\* Halving keeps the order of the queue.
LEMMA HalvedOrder ==
  ASSUME NEW old \in Seq(Seq(Op)), old # <<>>, NEW new, Halved(old, new), NEW x, NEW y
  PROVE  /\ Precedes(old, y, x) => Precedes(new, y, x)
         /\ Batched(old, y) => Batched(new, y)
<1>0. PICK h \in Nat : Placed(old, new, h) BY HalvedPlace
<1>1. /\ \A j \in DOMAIN old : \A l \in DOMAIN old[j] :
           \/ j = 1 /\ l <= h /\ 1 \in DOMAIN new /\ l \in DOMAIN new[1] /\ new[1][l] = old[j][l]
           \/ j = 1 /\ l > h /\ 2 \in DOMAIN new /\ l - h \in DOMAIN new[2] /\ new[2][l - h] = old[j][l]
           \/ j > 1 /\ j + 1 \in DOMAIN new /\ l \in DOMAIN new[j + 1] /\ new[j + 1][l] = old[j][l]
      /\ \A i \in DOMAIN new : \A k \in DOMAIN new[i] :
           \/ i = 1 /\ k <= h /\ 1 \in DOMAIN old /\ k \in DOMAIN old[1] /\ new[i][k] = old[1][k]
           \/ i = 2 /\ 1 \in DOMAIN old /\ h + k \in DOMAIN old[1] /\ new[i][k] = old[1][h + k]
           \/ i > 2 /\ i - 1 \in DOMAIN old /\ k \in DOMAIN old[i - 1] /\ new[i][k] = old[i - 1][k]
  BY <1>0 DEF Placed
<1>2. /\ \A i \in DOMAIN new : i \in Nat /\ \A k \in DOMAIN new[i] : k \in Nat
      /\ \A j \in DOMAIN old : j \in Nat /\ j >= 1 /\ \A l \in DOMAIN old[j] : l \in Nat
  <2>1. new \in Seq(Seq(Op)) BY DEF Halved
  <2>2. \A i \in DOMAIN new : i \in Nat /\ new[i] \in Seq(Op) BY <2>1
  <2>3. \A j \in DOMAIN old : j \in Nat /\ j >= 1 /\ old[j] \in Seq(Op) OBVIOUS
  <2> QED BY <2>2, <2>3
<1>3. Batched(old, y) => Batched(new, y) BY <1>1 DEF Batched
<1>4. ASSUME Precedes(old, y, x), NEW i \in DOMAIN new, NEW k \in DOMAIN new[i], new[i][k].doc = x
      PROVE  \E j \in DOMAIN new : \E l \in DOMAIN new[j] :
               new[j][l].doc = y /\ (j < i \/ (j = i /\ l < k))
  <2>0. i \in Nat /\ k \in Nat BY <1>2, <1>4
  <2>1. CASE i = 1 /\ k <= h /\ 1 \in DOMAIN old /\ k \in DOMAIN old[1] /\ new[i][k] = old[1][k]
    <3>9. PICK j \in DOMAIN old : \E l \in DOMAIN old[j] :
            old[j][l].doc = y /\ (j < 1 \/ (j = 1 /\ l < k))
      BY <1>4, <2>1 DEF Precedes
    <3>1. PICK l \in DOMAIN old[j] :
            old[j][l].doc = y /\ (j < 1 \/ (j = 1 /\ l < k))
      BY <3>9
    <3>2. j = 1 /\ l < k /\ l <= h /\ ~(l > h) BY <1>2, <2>0, <2>1, <3>1
    <3>3. l \in DOMAIN new[1] /\ new[1][l] = old[j][l] /\ 1 \in DOMAIN new BY <1>1, <3>2
    <3> QED BY <2>1, <3>1, <3>2, <3>3
  <2>2. CASE i = 2 /\ 1 \in DOMAIN old /\ h + k \in DOMAIN old[1] /\ new[i][k] = old[1][h + k]
    <3>9. PICK j \in DOMAIN old : \E l \in DOMAIN old[j] :
            old[j][l].doc = y /\ (j < 1 \/ (j = 1 /\ l < h + k))
      BY <1>4, <2>2 DEF Precedes
    <3>1. PICK l \in DOMAIN old[j] :
            old[j][l].doc = y /\ (j < 1 \/ (j = 1 /\ l < h + k))
      BY <3>9
    <3>2. j = 1 /\ l < h + k /\ l \in Nat BY <1>2, <3>1
    <3>3. CASE l <= h BY <1>1, <2>2, <3>1, <3>2, <3>3
    <3>4. CASE l > h
      <4>1. l - h \in DOMAIN new[2] /\ new[2][l - h] = old[j][l] /\ 2 \in DOMAIN new BY <1>1, <3>2, <3>4
      <4>2. l - h < k BY <2>0, <3>2
      <4> QED BY <2>2, <3>1, <4>1, <4>2
    <3> QED BY <3>2, <3>3, <3>4
  <2>3. CASE i > 2 /\ i - 1 \in DOMAIN old /\ k \in DOMAIN old[i - 1] /\ new[i][k] = old[i - 1][k]
    <3>9. PICK j \in DOMAIN old : \E l \in DOMAIN old[j] :
            old[j][l].doc = y /\ (j < i - 1 \/ (j = i - 1 /\ l < k))
      BY <1>4, <2>3 DEF Precedes
    <3>1. PICK l \in DOMAIN old[j] :
            old[j][l].doc = y /\ (j < i - 1 \/ (j = i - 1 /\ l < k))
      BY <3>9
    <3>2. j \in Nat /\ j >= 1 BY <1>2, <3>1
    <3>0. 1 < i /\ 2 < i BY <2>0, <2>3
    <3>3. CASE 1 \in DOMAIN new /\ l \in DOMAIN new[1] /\ new[1][l] = old[j][l] BY <3>0, <3>1, <3>3
    <3>4. CASE 2 \in DOMAIN new /\ l - h \in DOMAIN new[2] /\ new[2][l - h] = old[j][l]
      BY <3>0, <3>1, <3>4
    <3>5. CASE j + 1 \in DOMAIN new /\ l \in DOMAIN new[j + 1] /\ new[j + 1][l] = old[j][l]
      BY <2>0, <3>1, <3>2, <3>5
    <3> QED BY <1>1, <3>3, <3>4, <3>5
  <2> QED BY <1>1, <2>1, <2>2, <2>3
<1> QED BY <1>3, <1>4 DEF Precedes

\* The queue without its first batch, which has nothing about y.
LEMMA TailOrder ==
  ASSUME NEW old \in Seq(Seq(Op)), old # <<>>, NEW x, NEW y, NEW new, new = Tail(old),
         \A k \in DOMAIN old[1] : old[1][k].doc # y
  PROVE  /\ Precedes(old, y, x) => Precedes(new, y, x)
         /\ Batched(old, y) => Batched(new, y)
<1>1. /\ Len(new) = Len(old) - 1 /\ Len(old) \in Nat /\ Len(old) # 0 /\ new \in Seq(Seq(Op))
      /\ \A i \in 1..(Len(old) - 1) : new[i] = old[i + 1]
  BY TailQueue
<1>2. PICK rest : rest = new OBVIOUS
<1>3. PICK n \in Nat : DOMAIN old = 1..(n + 1) /\ DOMAIN rest = 1..n /\ \A i \in 1..n : rest[i] = old[i + 1]
  <2>0. PICK m : m = Len(old) OBVIOUS
  <2>5. m \in Nat /\ m # 0 BY <1>1, <2>0
  <2>6. m - 1 \in Nat BY <2>5
  <2>1. PICK n \in Nat : n = Len(old) - 1 BY <2>0, <2>6
  <2>2. DOMAIN old = 1..(n + 1) /\ Len(rest) = n /\ rest \in Seq(Seq(Op)) BY <1>1, <1>2, <2>1
  <2>3. DOMAIN rest = 1..n BY <2>2
  <2>4. \A i \in 1..n : rest[i] = old[i + 1] BY <1>1, <1>2, <2>1
  <2> QED BY <2>2, <2>3, <2>4
<1>4. ASSUME NEW j \in DOMAIN old, NEW l \in DOMAIN old[j], old[j][l].doc = y
      PROVE  j - 1 \in DOMAIN rest /\ l \in DOMAIN rest[j - 1] /\ rest[j - 1][l] = old[j][l] /\ j \in Nat
  BY <1>3, <1>4
<1>5. Batched(old, y) => Batched(rest, y) BY <1>4 DEF Batched
<1>6. ASSUME Precedes(old, y, x), NEW i \in DOMAIN rest, NEW k \in DOMAIN rest[i], rest[i][k].doc = x
      PROVE  \E j \in DOMAIN rest : \E l \in DOMAIN rest[j] :
               rest[j][l].doc = y /\ (j < i \/ (j = i /\ l < k))
  <2>1. i + 1 \in DOMAIN old /\ rest[i] = old[i + 1] /\ i \in Nat BY <1>3
  <2>9. PICK j \in DOMAIN old : \E l \in DOMAIN old[j] :
          old[j][l].doc = y /\ (j < i + 1 \/ (j = i + 1 /\ l < k))
    BY <1>6, <2>1 DEF Precedes
  <2>2. PICK l \in DOMAIN old[j] :
          old[j][l].doc = y /\ (j < i + 1 \/ (j = i + 1 /\ l < k))
    BY <2>9
  <2>3. j - 1 \in DOMAIN rest /\ l \in DOMAIN rest[j - 1] /\ rest[j - 1][l] = old[j][l] /\ j \in Nat
    BY <1>4, <2>2
  <2>4. j - 1 < i \/ (j - 1 = i /\ l < k) BY <2>1, <2>2, <2>3
  <2> QED BY <2>2, <2>3, <2>4
<1>7. Precedes(old, y, x) => Precedes(rest, y, x) BY <1>6 DEF Precedes
<1> QED BY <1>2, <1>5, <1>7

\* The order of the queue for a document d that is still there and one above it.
LEMMA OrderedAs ==
  ASSUME NEW a, NEW d
  PROVE  /\ (InFlight(d) <=> (\E k \in DOMAIN pending : pending[k].doc = d) \/ Batched(committing, d))
         /\ (InOrder /\ Kind = "delete" /\ request.include /\ d \in Steady \cap source /\ a \in Ancestors[d] =>
              /\ a \in source
              /\ Live =>
                   /\ Precedes(committing, d, a)
                   /\ \A k \in DOMAIN pending : pending[k].doc = a =>
                        (\E l \in DOMAIN pending : l < k /\ pending[l].doc = d) \/ Batched(committing, d)
                   /\ a \in ToSet(chunk) => InFlight(d))
BY DEF InFlight, Batched, InOrder, Precedes

\* A document that is still there was, and what is above it still is.
LEMMA StillThere ==
  ASSUME CollectionJobInv, OverShape, InOrder, [Next]_vars, Kind = "delete", request.include,
         NEW d \in Steady' \cap source', NEW a \in Ancestors[d]
  PROVE  d \in Steady \cap source /\ a \in source' /\ d \in Docs
<1>0. TypeOK /\ d \in Steady /\ d \notin touched' /\ a \notin touched' /\ d \in Docs
  BY SteadyShrinks DEF CollectionJobInv, Steady, Scope, TypeOK
<1>1. CASE UNCHANGED <<db, touched>> BY <1>0, <1>1 DEF db, InOrder
<1>2. CASE committing # <<>> /\ Applied(Head(committing))
  <2>1. Live BY <1>2 DEF OverShape, Live
  <2>2. PICK batch : batch = committing[1] OBVIOUS
  <2>3. committing \in Seq(Seq(Op)) BY <1>0 DEF TypeOK
  <2>4. Head(committing) = batch /\ 1 \in DOMAIN committing /\ \A i \in DOMAIN committing : ~(i < 1)
    BY <1>2, <2>2, <2>3
  <2>5. source' = source \ {batch[i].doc : i \in DOMAIN batch} BY <1>2, <2>4 DEF Applied
  <2>6. d \in Steady \cap source BY <1>0, <2>5
  <2>7. a \in source /\ Precedes(committing, d, a) BY <2>1, <2>6, OrderedAs
  <2>8. ASSUME NEW k \in DOMAIN batch, batch[k].doc = a PROVE FALSE
    BY <2>2, <2>4, <2>5, <2>7, <2>8 DEF Precedes
  <2> QED BY <1>0, <2>5, <2>6, <2>7, <2>8
<1>3. CASE \E e \in Docs : OutsideChange(e)
  <2>1. PICK e \in Docs : OutsideChange(e) BY <1>3
  <2>2. d # e /\ a # e BY <1>0, <2>1 DEF OutsideChange
  <2>3. d \in source BY <2>1, <2>2 DEF OutsideChange
  <2>4. a \in source BY <1>0, <2>3 DEF InOrder
  <2> QED BY <1>0, <2>1, <2>2, <2>3, <2>4 DEF OutsideChange
<1> QED BY <1>0, <1>1, <1>2, <1>3, DataChanges

\* What is in flight stays so until it is committed.
LEMMA StillInFlight ==
  ASSUME CollectionJobInv, OverShape, [Next]_vars, Live', Kind = "delete", NEW d, d \in source', InFlight(d)
  PROVE  InFlight(d)'
<1>0. TypeOK /\ PushesHead BY DEF CollectionJobInv
<1>1. CASE UNCHANGED <<pending, committing, committed>> BY <1>1 DEF InFlight
<1>2. CASE Flush /\ committing = <<>> BY <1>0, <1>2, FlushInFlight
<1>3. CASE Push BY <1>0, <1>3, PushInFlight
<1>4. CASE Commit BY <1>0, <1>4, CommitInFlight DEF Commit, Applied
<1>5. CASE Halving BY <1>0, <1>5, HalvingInFlight
<1> QED BY <1>0, <1>1, <1>2, <1>3, <1>4, <1>5, QueueChanges

\* The order of the queue is kept.
LEMMA OrderKept ==
  ASSUME CollectionJobInv, OverShape, InOrder, [Next]_vars, Live', Kind = "delete", request.include,
         NEW d \in Steady' \cap source', NEW a \in Ancestors[d]
  PROVE  /\ Precedes(committing', d, a)
         /\ \A k \in DOMAIN pending' : pending'[k].doc = a =>
              (\E l \in DOMAIN pending' : l < k /\ pending'[l].doc = d) \/ Batched(committing', d)
<1>0. TypeOK /\ PushesHead /\ Live /\ committing \in Seq(Seq(Op)) /\ pending \in Seq(Op)
  BY WasLive DEF CollectionJobInv, TypeOK
<1>1. /\ Precedes(committing, d, a)
      /\ \A k \in DOMAIN pending : pending[k].doc = a =>
           (\E l \in DOMAIN pending : l < k /\ pending[l].doc = d) \/ Batched(committing, d)
      /\ a \in ToSet(chunk) => InFlight(d)
      /\ d \in source'
  BY <1>0, StillThere, OrderedAs
<1>2. CASE UNCHANGED <<pending, committing, committed>> BY <1>1, <1>2
<1>3. CASE Flush /\ committing = <<>>
  <2>1. DOMAIN pending' = {} BY <1>0, <1>3, FlushQueue
  <2>2. ~Batched(committing, d) BY <1>3 DEF Batched
  <2>3. CASE committing' = <<>> BY <2>1, <2>3 DEF Precedes
  <2>4. CASE committing'[1] = pending /\ DOMAIN committing' = {1}
    BY <1>1, <2>1, <2>2, <2>4 DEF Precedes
  <2> QED BY <1>0, <1>3, <2>3, <2>4, FlushQueue
<1>4. CASE Push
  <2>1. PICK op \in Op :
           /\ op.doc = Head(chunk) /\ Len(pending) \in Nat
           /\ pending'[Len(pending) + 1] = op
           /\ DOMAIN pending' = 1..(Len(pending) + 1) /\ DOMAIN pending = 1..Len(pending)
           /\ \A k \in 1..Len(pending) : pending'[k] = pending[k]
           /\ committing = <<>> /\ committing' = <<>>
           /\ chunk # <<>> /\ chunk \in Seq(Docs)
    BY <1>0, <1>4, PushQueue
  <2>2. ~Batched(committing, d) BY <2>1 DEF Batched
  <2>3. Precedes(committing', d, a) BY <2>1 DEF Precedes
  <2>4. ASSUME NEW k \in DOMAIN pending', pending'[k].doc = a
        PROVE  \E l \in DOMAIN pending' : l < k /\ pending'[l].doc = d
    <3>1. CASE k = Len(pending) + 1
      <4>0. a = Head(chunk) BY <2>1, <2>4, <3>1
      <4>5. 1 \in DOMAIN chunk /\ Head(chunk) = chunk[1] BY <2>1
      <4>1. a \in ToSet(chunk) BY <4>0, <4>5 DEF ToSet
      <4>2. InFlight(d) BY <1>1, <4>1
      <4>3. PICK l \in DOMAIN pending : pending[l].doc = d BY <2>2, <4>2, OrderedAs
      <4>4. l \in DOMAIN pending' /\ l < k /\ pending'[l].doc = d BY <2>1, <3>1, <4>3
      <4> QED BY <4>4
    <3>2. CASE k # Len(pending) + 1
      <4>1. k \in DOMAIN pending /\ pending[k].doc = a BY <2>1, <2>4, <3>2
      <4>2. PICK l \in DOMAIN pending : l < k /\ pending[l].doc = d BY <1>1, <2>2, <4>1
      <4>3. l \in DOMAIN pending' /\ pending'[l].doc = d BY <2>1, <4>2
      <4> QED BY <4>2, <4>3
    <3> QED BY <3>1, <3>2
  <2> QED BY <2>3, <2>4
<1>5. CASE Commit
  <2>1. /\ committing # <<>> /\ committing' = Tail(committing) /\ pending' = pending
        /\ Applied(Head(committing))
    BY <1>5 DEF Commit
  <2>2. Head(committing) = committing[1] BY <1>0, <2>1
  <2>3. \A k \in DOMAIN committing[1] : committing[1][k].doc # d BY <1>1, <2>1, <2>2 DEF Applied
  <2>4. /\ Precedes(committing, d, a) => Precedes(committing', d, a)
        /\ Batched(committing, d) => Batched(committing', d)
    BY <1>0, <2>1, <2>3, TailOrder
  <2>5. pending' = pending BY <2>1
  <2> QED BY <1>1, <2>4, <2>5
<1>6. CASE Halving
  <2>1. HalvesFirst(committing, committing') BY <1>0, <1>6 DEF HalvesFirst, Halving
  <2>2. Halved(committing, committing') BY <2>1, HalvedQueue
  <2>3. committing # <<>> /\ pending' = pending BY <1>6 DEF Halving
  <2>4. /\ Precedes(committing, d, a) => Precedes(committing', d, a)
        /\ Batched(committing, d) => Batched(committing', d)
    BY <1>0, <2>2, <2>3, HalvedOrder
  <2> QED BY <1>1, <2>3, <2>4
<1> QED BY <1>0, <1>2, <1>3, <1>4, <1>5, <1>6, QueueChanges

\* What is deleted is deleted after what is below it.
LEMMA InOrderKept ==
  ASSUME CollectionJobInv, OverShape, StackShape, ChunkShape, NoneMissed, InOrder, [Next]_vars
  PROVE  InOrder'
<1>0. request' = request /\ Kind' = Kind /\ TypeOK /\ chunk \in Seq(Docs)
  BY SameRequest DEF Kind, CollectionJobInv, TypeOK
<1>1. SUFFICES ASSUME Kind = "delete", request.include, NEW d \in Steady' \cap source',
                      NEW a \in Ancestors[d]
               PROVE  /\ a \in source'
                      /\ Live' => /\ Precedes(committing', d, a)
                                  /\ \A k \in DOMAIN pending' : pending'[k].doc = a =>
                                       \/ \E l \in DOMAIN pending' : l < k /\ pending'[l].doc = d
                                       \/ Batched(committing', d)
                                  /\ a \in ToSet(chunk') => InFlight(d)'
  BY <1>0 DEF InOrder, Precedes, Batched
<1>2. d \in Steady \cap source /\ a \in source' /\ d \in Docs /\ d \in source' BY <1>1, StillThere
<1>3. ASSUME Live', a \in ToSet(chunk') PROVE InFlight(d)'
  <2>0. Live BY <1>3, WasLive
  <2>1. CASE a \in ToSet(chunk)
    <3>1. InFlight(d) BY <1>1, <1>2, <2>0, <2>1, OrderedAs
    <3> QED BY <1>1, <1>2, <1>3, <3>1, StillInFlight
  <2>2. CASE chunk' = chunk BY <1>3, <2>1, <2>2
  <2>3. CASE chunk # <<>> /\ chunk' = Tail(chunk) BY <1>0, <1>3, <2>1, <2>3, SetOfSequence
  <2>4. CASE NextDocument
    <3>1. chunk' = chunk BY <1>1, <2>4 DEF NextDocument, ListsBefore
    <3> QED BY <2>2, <3>1
  <2>5. CASE EndSubcollections /\ Give(Top.cursor)
    <3>1. /\ pc = "subs" /\ Top.subs = {} /\ chunk' = <<Top.cursor>>
          /\ UNCHANGED <<pending, committing>>
      BY <1>1, <2>5 DEF EndSubcollections, At, Give, Exports
    <3>2. stack # <<>> BY <1>1, <3>1, StackedThere
    <3>9. PICK e : e = Top.cursor OBVIOUS
    <3>10. ToSet(<<e>>) = {e} BY DEF ToSet
    <3>3. a = Top.cursor BY <1>3, <3>1, <3>9, <3>10
    <3>4. ~Ahead(d) BY <1>2, <2>0, <3>1, <3>2, <3>3, NothingBelowAhead
    <3>5. Given(d) BY <1>1, <1>2, <2>0, <3>4 DEF NoneMissed
    <3>6. chunk = <<>> BY <1>1, <2>0, <3>1 DEF ChunkShape
    <3>7. d \notin ToSet(chunk) BY <1>0, <3>6, SetOfSequence
    <3>8. InFlight(d) BY <1>1, <1>2, <3>5, <3>7 DEF Given, Exports
    <3> QED BY <1>1, <1>2, <1>3, <3>8, StillInFlight
  <2>6. CASE NextLine /\ Kind = "import" BY <1>1, <2>6
  <2> QED BY <1>3, <2>2, <2>3, <2>4, <2>5, <2>6, ChunkChanges
<1> QED BY <1>1, <1>2, <1>3, OrderKept

----------------
(* The theorems about what a job leaves behind *)

\* A job starts with nothing given and everything ahead of the generator of Root.
LEMMA InitShapes ==
  ASSUME Init
  PROVE  OverShape /\ StackShape /\ ChunkShape /\ SourceKept /\ RootOnly /\ Tally /\ FilesShape
         /\ LinesKnown /\ InOrder
<1>0. /\ pc = "count" /\ outcome = "running" /\ committing = <<>> /\ pending = <<>> /\ chunk = <<>>
      /\ progress = [c \in Counter |-> 0]
      /\ begun = [source |-> source, target |-> target, lines |-> lines]
      /\ files = [output |-> IF Kind = "exportJsonl" THEN Created ELSE NoFile,
                  temp |-> IF Kind = "exportCsv" THEN Created ELSE NoFile]
      /\ CollectionJobInv
  BY InitKeeps DEF Init
<1>1. OverShape BY <1>0 DEF OverShape
<1>2. StackShape
  <2>1. ASSUME NEW i \in DOMAIN stack PROVE FrameShape(i) /\ i = 1
    BY <1>0, <2>1 DEF Init, FrameShape, FrameOf
  <2> QED BY <1>0, <2>1 DEF StackShape
<1>3. ChunkShape BY <1>0 DEF ChunkShape, Exports
<1>4. SourceKept BY <1>0 DEF SourceKept
<1>5. RootOnly BY <1>0 DEF ToSet, InFlight, RootOnly
<1>6. Tally BY <1>0 DEF Tally, Counter, Pushing
<1>7. FilesShape BY <1>0 DEF FilesShape, Exports, Live, NoFile, Created
<1>8. LinesKnown BY <1>0 DEF LinesKnown
<1>9. InOrder
  <2>1. ASSUME Kind = "delete", request.include, NEW d \in Steady \cap source, NEW a \in Ancestors[d]
        PROVE  a \in source
    BY <1>0, <2>1, NoAncestors DEF Steady, Scope, CollectionJobInv, TypeOK
  <2>3. \A a : a \notin ToSet(chunk) BY <1>0 DEF ToSet
  <2>4. DOMAIN pending = {} /\ DOMAIN committing = {} BY <1>0
  <2> QED BY <2>1, <2>3, <2>4 DEF InOrder
<1> QED BY <1>1, <1>2, <1>3, <1>4, <1>5, <1>6, <1>7, <1>8, <1>9

\* Everything in scope is ahead of a job that starts.
LEMMA InitNoneMissed ==
  ASSUME Init
  PROVE  NoneMissed
<1> SUFFICES ASSUME Kind # "import", NEW d \in Steady PROVE Ahead(d) BY DEF NoneMissed
<1>1. stack = <<FrameOf(Root)>> BY DEF Init
<1>2. 1 \in DOMAIN stack /\ stack[1] = FrameOf(Root) BY <1>1
<1>3. d \in Docs BY InitKeeps DEF CollectionJobInv, TypeOK, Steady, Scope
<1>4. PICK a \in Chain(d) : CollOf[a] = Root BY <1>3, ChainFromRoot
<1>7. a \in Docs BY <1>3, <1>4, ChainDocs
<1>8. a \in Nat \ {0} BY <1>7, TreeAssumption
<1>5. a \in Nat /\ a > 0 BY <1>8
<1>6. AheadBy(1, a, d) /\ CollOf[a] = stack[1].coll BY <1>2, <1>4, <1>5 DEF AheadBy, FrameOf
<1> QED BY <1>2, <1>4, <1>6 DEF Ahead

\* No operation is done yet, and every line of the file is to come.
LEMMA InitNumbers ==
  ASSUME Init
  PROVE  Queue /\ LinesInOrder
<1>0. /\ committing = <<>> /\ pending = <<>> /\ chunk = <<>> /\ committed = 0
      /\ progress = [c \in Counter |-> 0] /\ line = [d \in Docs |-> 0]
      /\ begun.lines = lines /\ lines \in Seq(Docs \cup {Bad})
  BY InitKeeps DEF Init, CollectionJobInv, TypeOK
<1>1. Written = 0 /\ progress.written = 0 BY <1>0 DEF Written, Counter
<1>2. Queue
  <2>1. PICK s : s = [i \in 1..1 |-> 0] OBVIOUS
  <2>2. Len(committing) + 1 = 1 /\ DOMAIN committing = {} /\ DOMAIN pending = {} /\ Len(pending) = 0
    BY <1>0
  <2>3. s[1] = 0 /\ s \in [1..1 -> 0..0] BY <2>1
  <2>4. s \in Numbering(committing, Written) BY <1>1, <2>2, <2>3 DEF Numbering
  <2>5. Offsets(s, committing, pending, committed, Written) BY <1>0, <1>1, <2>2, <2>3 DEF Offsets
  <2>6. InLine(s, committing, pending, begun.lines) BY <2>2 DEF InLine
  <2> QED BY <1>0, <1>1, <2>4, <2>5, <2>6 DEF Queue
<1>3. LinesInOrder
  <2>1. Len(chunk) = 0 /\ DOMAIN chunk = {} BY <1>0
  <2>2. Len(lines) \in Nat /\ DOMAIN lines = 1..Len(lines) BY <1>0
  <2>3. Len(begun.lines) = progress.written + Len(chunk) + Len(lines) BY <1>0, <1>1, <2>1, <2>2
  <2>4. ASSUME NEW k \in DOMAIN lines PROVE begun.lines[progress.written + Len(chunk) + k] = lines[k]
    BY <1>0, <1>1, <2>1, <2>2
  <2>5. ASSUME NEW d \in Docs PROVE line[d] = 0 /\ 1..committed = {} BY <1>0
  <2> QED BY <2>1, <2>3, <2>4, <2>5 DEF LinesInOrder
<1> QED BY <1>2, <1>3

\* The strengthened invariant is inductive.
LEMMA InvariantKept ==
  ASSUME WholeJobInv, [Next]_vars
  PROVE  WholeJobInv'
<1>0. /\ CollectionJobInv
      /\ OverShape /\ StackShape /\ ChunkShape /\ NoneMissed /\ SourceKept /\ InOrder /\ RootOnly
      /\ Tally /\ Queue /\ LinesInOrder /\ LinesKnown /\ FilesShape
  BY DEF WholeJobInv
<1>1. CollectionJobInv' /\ OverShape' /\ StackShape' /\ ChunkShape'
  BY <1>0, StepKeeps, OverShapeKept, StackShapeKept, ChunkShapeKept
<1>2. SourceKept'
  <2>1. TypeOK BY <1>0 DEF CollectionJobInv
  <2> QED BY <1>0, <2>1, SourceKeptKept
<1>3. NoneMissed' /\ InOrder' /\ RootOnly' BY <1>0, NoneMissedKept, InOrderKept, RootOnlyKept
<1>4. Tally' /\ Queue' /\ LinesInOrder' /\ LinesKnown' /\ FilesShape'
  BY <1>0, TallyKept, QueueKept, LinesInOrderKept, LinesKnownKept, FilesShapeKept
<1> QED BY <1>1, <1>2, <1>3, <1>4 DEF WholeJobInv

\* The strengthened invariant holds throughout every job.
THEOREM JobStaysComplete == Spec => []WholeJobInv
<1>1. Init => WholeJobInv BY InitKeeps, InitShapes, InitNoneMissed, InitNumbers DEF WholeJobInv
<1>2. WholeJobInv /\ [Next]_vars => WholeJobInv' BY InvariantKept
<1> QED BY <1>1, <1>2, PTL DEF Spec

----------------
\* A job that has returned holds nothing back: all of its scope has been given.
LEMMA ReturnedGave ==
  ASSUME WholeJobInv, outcome = "returned"
  PROVE  /\ pc = "over" /\ chunk = <<>> /\ lines = <<>> /\ pending = <<>> /\ committing = <<>>
         /\ \A d : ~InFlight(d) /\ d \notin ToSet(chunk)
         /\ Kind # "import" => \A d \in Steady : Given(d)
<1>1. pc = "over" /\ Live /\ committing = <<>> BY DEF WholeJobInv, OverShape, Live
<1>2. chunk = <<>> /\ stack = <<>> /\ lines = <<>> /\ pending = <<>>
  BY <1>1 DEF WholeJobInv, ChunkShape
<1>3. \A d : ~InFlight(d) /\ d \notin ToSet(chunk) BY <1>1, <1>2 DEF InFlight, ToSet
<1>4. \A d : ~Ahead(d) BY <1>2 DEF Ahead
<1> QED BY <1>1, <1>2, <1>3, <1>4 DEF WholeJobInv, NoneMissed

\* A job that has returned has committed every operation it counted.
LEMMA ReturnedCommitted ==
  ASSUME WholeJobInv, outcome = "returned"
  PROVE  committed = Written
<1>1. committing = <<>> /\ pending = <<>> /\ Live BY ReturnedGave DEF Live
<1>2. PICK s \in Numbering(committing, Written) : Offsets(s, committing, pending, committed, Written)
  BY <1>1 DEF WholeJobInv, Queue
<1>3. Len(committing) + 1 = 1 /\ Len(pending) = 0 BY <1>1
<1>4. Written \in Nat BY DEF WholeJobInv, CollectionJobInv, TypeOK, Written, Counter
<1>5. s[1] = committed /\ s[1] + 0 = Written BY <1>2, <1>3 DEF Offsets
<1>6. committed \in Nat BY DEF WholeJobInv, CollectionJobInv, TypeOK
<1> QED BY <1>5, <1>6

\* The lines about one document, and the last of them.
LEMMA LastLine ==
  ASSUME WholeJobInv, outcome = "returned", Overwrites, NEW d \in Docs,
         NEW about, about = {i \in DOMAIN begun.lines : begun.lines[i] = d}
  PROVE  line[d] = IF about = {} THEN 0 ELSE CHOOSE i \in about : \A k \in about : k <= i
<1>0. /\ chunk = <<>> /\ lines = <<>> /\ committed = Written /\ Live /\ LinesInOrder /\ Tally
      /\ Kind = "import"
  BY ReturnedGave, ReturnedCommitted DEF WholeJobInv, Live, Overwrites
<1>1. /\ begun.lines \in Seq(Docs \cup {Bad}) /\ line[d] \in Nat
      /\ progress.written \in Nat /\ progress.deleted \in Nat
  BY DEF WholeJobInv, CollectionJobInv, TypeOK, Counter
<1>2. Written = progress.written BY <1>0, <1>1 DEF Tally, Written
<1>3. Len(begun.lines) = progress.written + 0 + 0 BY <1>0 DEF LinesInOrder
<1>4. DOMAIN begun.lines = 1..committed BY <1>0, <1>1, <1>2, <1>3
<1>5. \A n \in about : n <= line[d] BY <1>0, <1>4 DEF LinesInOrder
<1>6. line[d] = 0 \/ line[d] \in about BY <1>0 DEF LinesInOrder
<1>7. about \subseteq Nat \ {0} BY <1>1
<1>8. CASE about = {} BY <1>6, <1>8
<1>9. CASE about # {}
  <2>1. line[d] \in about BY <1>1, <1>5, <1>6, <1>7, <1>9
  <2>2. ASSUME NEW i \in about, \A k \in about : k <= i PROVE i = line[d]
    <3>1. line[d] <= i /\ i <= line[d] BY <1>5, <2>1, <2>2
    <3> QED BY <1>1, <1>7, <3>1
  <2>3. (CHOOSE i \in about : \A k \in about : k <= i) = line[d] BY <1>5, <2>1, <2>2
  <2> QED BY <1>9, <2>3
<1> QED BY <1>8, <1>9

\* A recursive deletion leaves at every instant, also when it is cancelled or fails
\* halfway, only documents that can still be reached, one that returns has left
\* none of its scope, and one without subcollections touches none (deleteCollection
\* and deleteCollectionDocuments, whatever the pages, batches and split batches).
THEOREM DeletionKeepsReach == Spec => []DeletesScope
<1>1. WholeJobInv => DeletesScope
  <2> SUFFICES ASSUME WholeJobInv PROVE DeletesScope OBVIOUS
  <2>1. Kind = "delete" /\ request.include =>
          \A d \in Steady \cap source : Ancestors[d] \subseteq source
    BY DEF WholeJobInv, InOrder
  <2>2. ASSUME Returned({"delete"}) PROVE Steady \cap source = {}
    BY <2>2, ReturnedGave DEF Returned, Given, Exports
  <2>3. Kind = "delete" /\ ~request.include =>
          \A d \in begun.source \ touched : CollOf[d] # Root => d \in source
    BY DEF WholeJobInv, RootOnly
  <2>4. Kind # "delete" => begun.source \ touched \subseteq source BY DEF WholeJobInv, SourceKept
  <2> QED BY <2>1, <2>2, <2>3, <2>4 DEF DeletesScope
<1> QED BY <1>1, JobStaysComplete, PTL

\* A copy that returns has written or skipped each document of its scope, and an
\* import that overwrites leaves each document as the last line about it says,
\* across pages, chunks, batches and split batches (copyCollection, importJsonl).
THEOREM CopiesAreComplete == Spec => []TargetComplete
<1>1. WholeJobInv => TargetComplete
  <2> SUFFICES ASSUME WholeJobInv PROVE TargetComplete OBVIOUS
  <2>1. ASSUME Returned({"copy"})
        PROVE  /\ Steady \subseteq target
               /\ progress.read = progress.written + progress.skipped
               /\ \A d \in Steady \ begun.target : line[d] # 0
    <3>1. outcome = "returned" /\ Kind = "copy" /\ Live BY <2>1 DEF Returned, Live
    <3>2. \A d \in Steady : Given(d) /\ ~InFlight(d) /\ d \notin ToSet(chunk) BY <3>1, ReturnedGave
    <3>3. Steady \subseteq target BY <3>1, <3>2 DEF Given, Exports
    <3>4. \A d \in target \ begun.target : line[d] # 0 BY DEF WholeJobInv, LinesKnown
    <3>5. progress.read = progress.written + progress.skipped
      <4>1. progress.read = progress.written + progress.skipped + Pushing
        BY <3>1 DEF WholeJobInv, Tally
      <4>2. Pushing = 0 BY <3>1, ReturnedGave DEF Pushing
      <4>3. progress.written \in Nat /\ progress.skipped \in Nat
        BY DEF WholeJobInv, CollectionJobInv, TypeOK, Counter
      <4> QED BY <4>1, <4>2, <4>3
    <3> QED BY <3>3, <3>4, <3>5
  <2>2. ASSUME Returned({"import"}), request.policy = "overwrite"
        PROVE  \A d \in Docs :
                 LET about == {i \in DOMAIN begun.lines : begun.lines[i] = d}
                 IN line[d] = IF about = {} THEN 0 ELSE CHOOSE i \in about : \A k \in about : k <= i
    BY <2>2, LastLine DEF Returned, Overwrites
  <2> QED BY <2>1, <2>2 DEF TargetComplete
<1> QED BY <1>1, JobStaysComplete, PTL

\* The progress a job reports never tells less than what Firestore has committed,
\* and that of a job that returns tells exactly that (BatchWriter counts when an
\* operation is pending, commitOperations commits it later, in halves if need be).
THEOREM ProgressTellsCommitted == Spec => []ReportsCommitted
<1>1. WholeJobInv => ReportsCommitted
  BY ReturnedCommitted DEF WholeJobInv, Queue, Written, ReportsCommitted
<1> QED BY <1>1, JobStaysComplete, PTL

\* An export leaves a file only if it returns, and then one with its whole scope;
\* its temporary file never stays (exportJsonl, exportCsv and their catch blocks).
THEOREM ExportsAreWhole == Spec => []NoPartialFile
<1>1. WholeJobInv => NoPartialFile
  <2> SUFFICES ASSUME WholeJobInv, pc = "over", Kind \in Exports
               PROVE  /\ files.output.there <=> outcome = "returned"
                      /\ outcome = "returned" => Steady \subseteq files.output.docs
                      /\ ~files.temp.there
    BY DEF NoPartialFile
  <2>1. FilesShape BY DEF WholeJobInv
  <2>2. CASE outcome = "returned"
    BY <2>1, <2>2, ReturnedGave DEF Live, FilesShape, Exports, Given, NoFile
  <2>3. CASE outcome # "returned"
    <3>1. ~Live BY <2>3 DEF WholeJobInv, OverShape, Live
    <3> QED BY <2>1, <2>3, <3>1 DEF FilesShape
  <2> QED BY <2>2, <2>3
<1> QED BY <1>1, JobStaysComplete, PTL
=============================================================================
