---------------------------- MODULE SqlRunProofs ----------------------------
(* Runs of queries in SQL: what the masks and limits that are pushed down
   to the reads leave out is not missed (EvaluateKept, JoinedKept,
   EndMeans), the sort puts rows where their keys rank them (SortRowsIs),
   and SqlInv, which is inductive for any statements, documents, writes of
   other clients and stops, gives CompletesWithItsRows. *)
EXTENDS SqlRun, FiniteSetTheorems, SequenceTheorems, WellFoundedInduction, TLAPS

----------------
(* Numbers and recursion along them *)

\* A set of numbers has a least element.
LEMMA LeastNumber ==
  ASSUME NEW T \in SUBSET Nat, T # {}
  PROVE  \E n \in T : \A m \in T : n <= m
<1>1. PICK n \in T : \A m \in T : ~(<<m, n>> \in OpToRel(<, Nat)) BY NatLessThanWellFounded, WFMin
<1>2. \A m \in T : ~(m < n) BY <1>1 DEF OpToRel
<1> QED BY <1>2

\* What holds at first and is kept by each of n steps holds all the way.
LEMMA StepsReach ==
  ASSUME NEW n \in Nat, NEW T, 0 \in T, \A k \in 1..n : k - 1 \in T => k \in T
  PROVE  \A k \in 0..n : k \in T
<1> DEFINE U == {k \in 0..n : k \notin T}
<1>1. SUFFICES ASSUME U # {} PROVE FALSE OBVIOUS
<1>2. U \in SUBSET Nat OBVIOUS
<1>3. \A k \in U : k \in 0..n /\ k \notin T OBVIOUS
<1>4. \A k \in 0..n : k \notin U => k \in T OBVIOUS
<1> HIDE DEF U
<1>5. PICK k \in U : \A m \in U : k <= m BY <1>1, <1>2, LeastNumber
<1>6. k # 0 /\ k \in 1..n BY <1>3
<1>7. k - 1 \in 0..n /\ k - 1 \notin U BY <1>5, <1>6
<1> QED BY <1>3, <1>4, <1>6, <1>7

\* n steps of F within V.
Walk(n, V, base, F) ==
  \E g \in [0..n -> V] : g[0] = base /\ \A k \in 1..n : g[k] = F[<<g[k - 1], k>>]

\* There are such steps: those up to k, for every k.
LEMMA StepsSolved ==
  ASSUME NEW n \in Nat, NEW V, NEW base \in V, NEW F \in [V \X (1..n) -> V]
  PROVE  Walk(n, V, base, F)
<1> DEFINE Solved(k) == \E g \in [0..k -> V] : g[0] = base /\ \A i \in 1..k : g[i] = F[<<g[i - 1], i>>]
           T == {k \in 0..n : Solved(k)}
<1>1. 0 \in T
  <2> DEFINE g == [i \in 0..0 |-> base]
  <2>1. g \in [0..0 -> V] /\ g[0] = base OBVIOUS
  <2>2. \A i \in 1..0 : g[i] = F[<<g[i - 1], i>>] OBVIOUS
  <2> HIDE DEF g
  <2>3. Solved(0) BY <2>1, <2>2
  <2> QED BY <2>3
<1>2. ASSUME NEW k \in 1..n, Solved(k - 1) PROVE Solved(k)
  <2>1. PICK g \in [0..(k - 1) -> V] : g[0] = base /\ \A i \in 1..(k - 1) : g[i] = F[<<g[i - 1], i>>]
    BY <1>2
  <2> DEFINE h == [i \in 0..k |-> IF i = k THEN F[<<g[k - 1], k>>] ELSE g[i]]
  <2>2. k - 1 \in 0..(k - 1) /\ \A i \in 0..k : i = k \/ i \in 0..(k - 1) OBVIOUS
  <2>3. F[<<g[k - 1], k>>] \in V BY <2>1, <2>2
  <2>4. h \in [0..k -> V] BY <2>1, <2>2, <2>3
  <2>5. \A i \in 0..(k - 1) : h[i] = g[i] OBVIOUS
  <2>6. h[k] = F[<<g[k - 1], k>>] OBVIOUS
  <2> HIDE DEF h
  <2>7. h[0] = base BY <2>1, <2>5
  <2>8. ASSUME NEW i \in 1..k PROVE h[i] = F[<<h[i - 1], i>>]
    <3>1. i - 1 \in 0..(k - 1) OBVIOUS
    <3>2. h[i - 1] = g[i - 1] BY <2>5, <3>1
    <3>3. CASE i = k BY <2>6, <3>2, <3>3
    <3>4. CASE i # k BY <2>1, <2>5, <3>2, <3>4
    <3> QED BY <3>3, <3>4
  <2> QED BY <2>4, <2>7, <2>8
<1>3. \A k \in 1..n : k - 1 \in T => k \in T
  <2> HIDE DEF Solved
  <2> QED BY <1>2
<1>4. \A k \in T : Solved(k) OBVIOUS
<1> HIDE DEF Solved, T
<1>5. n \in T BY <1>1, <1>3, StepsReach
<1>6. Solved(n) BY <1>4, <1>5
<1> QED BY <1>6 DEF Solved, Walk

----------------
(* Sequences *)

IsConcatenation(c, s, t, S) ==
  /\ c \in Seq(S) /\ Len(c) = Len(s) + Len(t) /\ Len(s) \in Nat /\ Len(t) \in Nat
  /\ \A i \in 1..Len(s) : c[i] = s[i]
  /\ \A i \in 1..Len(t) : c[Len(s) + i] = t[i]

LEMMA Concatenated ==
  ASSUME NEW S, NEW s \in Seq(S), NEW t \in Seq(S)
  PROVE  IsConcatenation(s \o t, s, t, S)
BY LenProperties, ConcatProperties DEF IsConcatenation

\* A function along 1..n is a sequence.
LEMMA FunctionIsSeq ==
  ASSUME NEW S, NEW n \in Nat, NEW f \in [1..n -> S]
  PROVE  f \in Seq(S) /\ Len(f) = n /\ DOMAIN f = 1..n
OBVIOUS

\* Each element of a sequence, mapped.
Mapped(F, s) == [i \in DOMAIN s |-> F[s[i]]]

IsMapping(m, F, s, V) ==
  /\ m \in Seq(V) /\ Len(m) = Len(s) /\ Len(s) \in Nat /\ DOMAIN m = 1..Len(s) /\ DOMAIN s = 1..Len(s)
  /\ \A i \in 1..Len(s) : m[i] = F[s[i]]

LEMMA MappedTyped ==
  ASSUME NEW S, NEW V, NEW F, \A x \in S : F[x] \in V, NEW s \in Seq(S)
  PROVE  IsMapping(Mapped(F, s), F, s, V)
BY LenProperties, IsASeq DEF Mapped, IsMapping

LEMMA MappedConcatenated ==
  ASSUME NEW S, NEW F, NEW s \in Seq(S), NEW t \in Seq(S)
  PROVE  Mapped(F, s \o t) = Mapped(F, s) \o Mapped(F, t)
<1>1. IsConcatenation(s \o t, s, t, S) BY Concatenated
<1> DEFINE V == {F[x] : x \in S}
           a == Mapped(F, s)
           b == Mapped(F, t)
           c == Mapped(F, s \o t)
<1>0. \A x \in S : F[x] \in V OBVIOUS
<1> HIDE DEF V
<1>a. IsMapping(a, F, s, V) BY <1>0, MappedTyped
<1>b. IsMapping(b, F, t, V) BY <1>0, MappedTyped
<1>c. IsMapping(c, F, s \o t, V)
  <2>1. s \o t \in Seq(S) BY <1>1 DEF IsConcatenation
  <2> QED BY <1>0, <2>1, MappedTyped
<1> HIDE DEF a, b, c
<1>d. IsConcatenation(a \o b, a, b, V)
  <2>1. a \in Seq(V) /\ b \in Seq(V) BY <1>a, <1>b DEF IsMapping
  <2> QED BY <2>1, Concatenated
<1>2. /\ \A i \in 1..Len(s) : (s \o t)[i] = s[i] /\ a[i] = F[s[i]] /\ (a \o b)[i] = a[i]
      /\ \A i \in 1..Len(t) : (s \o t)[Len(s) + i] = t[i] /\ b[i] = F[t[i]] /\ (a \o b)[Len(s) + i] = b[i]
      /\ \A i \in 1..(Len(s) + Len(t)) : c[i] = F[(s \o t)[i]]
      /\ c \in Seq(V) /\ Len(c) = Len(s) + Len(t) /\ Len(s) \in Nat /\ Len(t) \in Nat
      /\ a \o b \in Seq(V) /\ Len(a \o b) = Len(s) + Len(t)
  BY <1>1, <1>a, <1>b, <1>c, <1>d DEF IsMapping, IsConcatenation
<1>4. ASSUME NEW i \in 1..(Len(s) + Len(t)) PROVE c[i] = (a \o b)[i]
  <2>1. c[i] = F[(s \o t)[i]] BY <1>2
  <2>2. CASE i \in 1..Len(s) BY <1>2, <2>1, <2>2
  <2>3. CASE i \notin 1..Len(s)
    <3> DEFINE j == i - Len(s)
    <3>1. j \in 1..Len(t) /\ i = Len(s) + j BY <1>2, <2>3
    <3> HIDE DEF j
    <3>2. (s \o t)[i] = t[j] /\ b[j] = F[t[j]] /\ (a \o b)[i] = b[j] BY <1>2, <3>1
    <3> QED BY <2>1, <3>2
  <2> QED BY <2>2, <2>3
<1>5. c = a \o b BY <1>2, <1>4, SeqEqual
<1> QED BY <1>5 DEF a, b, c

\* The steps of a flattening.
Flattens(g, t, S) ==
  /\ g \in [0..Len(t) -> Seq(S)] /\ g[0] = <<>>
  /\ \A k \in 1..Len(t) : g[k] = g[k - 1] \o t[k]

LEMMA FlattenSteps ==
  ASSUME NEW S, NEW t \in Seq(Seq(S))
  PROVE  \E g : Flattens(g, t, S)
<1> DEFINE n == Len(t)
           V == Seq(S)
           F == [p \in V \X (1..n) |-> p[1] \o t[p[2]]]
<1>1. n \in Nat /\ \A k \in 1..n : t[k] \in V BY LenProperties
<1>2. \A p \in V \X (1..n) : p[1] \o t[p[2]] \in V BY <1>1, ConcatProperties
<1>3. F \in [V \X (1..n) -> V] BY <1>2
<1>4. <<>> \in V BY EmptySeq
<1>5. \A v \in V, k \in 1..n : F[<<v, k>>] = v \o t[k] OBVIOUS
<1> HIDE DEF F, V, n
<1>6. Walk(n, V, <<>>, F) BY <1>1, <1>3, <1>4, StepsSolved
<1>7. PICK g \in [0..n -> V] : g[0] = <<>> /\ \A k \in 1..n : g[k] = F[<<g[k - 1], k>>]
  BY <1>6 DEF Walk
<1>8. ASSUME NEW k \in 1..n PROVE g[k] = g[k - 1] \o t[k]
  <2>1. k - 1 \in 0..n BY <1>1
  <2> QED BY <1>5, <1>7, <2>1
<1> QED BY <1>7, <1>8 DEF Flattens, n, V

\* A flattening is where its steps lead.
LEMMA FlattenIs ==
  ASSUME NEW S, NEW t \in Seq(Seq(S)), NEW g, Flattens(g, t, S)
  PROVE  FlattenSeq(t) = g[Len(t)] /\ FlattenSeq(t) \in Seq(S)
<1> DEFINE n == Len(t)
           Is(f) == f = [i \in 1..n |-> IF i = 1 THEN t[i] ELSE f[i - 1] \o t[i]]
<1>1. n \in Nat /\ \A k \in 1..n : t[k] \in Seq(S) BY LenProperties
<1>2. /\ g \in [0..n -> Seq(S)] /\ g[0] = <<>> /\ \A k \in 1..n : g[k] = g[k - 1] \o t[k]
  BY DEF Flattens
<1>3. g[n] \in Seq(S) BY <1>1, <1>2
<1>4. CASE n = 0 BY <1>2, <1>3, <1>4, EmptySeq, SeqEqual DEF FlattenSeq
<1>5. CASE n # 0
  <2>0. 1 \in 1..n BY <1>1, <1>5
  <2>1. g[1] = t[1]
    <3>0. \A k \in 1..n : g[k] = g[k - 1] \o t[k] BY <1>2
    <3>a. 1 - 1 = 0 OBVIOUS
    <3> HIDE DEF n
    <3>1. g[1] = g[1 - 1] \o t[1] BY ONLY <2>0, <3>0
    <3>2. t[1] \in Seq(S) BY <1>1, <2>0
    <3>3. <<>> \o t[1] = t[1] BY <3>2, ConcatEmptySeq
    <3> QED BY <1>2, <3>a, <3>1, <3>3
  <2>2. FlattenSeq(t) = (CHOOSE f : Is(f))[n] BY <1>5 DEF FlattenSeq
  <2> HIDE DEF n
  <2>3. \E f : Is(f)
    <3> DEFINE f == [i \in 1..n |-> g[i]]
    <3>1. \A i \in 1..n : f[i] = IF i = 1 THEN t[i] ELSE f[i - 1] \o t[i]
      <4> SUFFICES ASSUME NEW i \in 1..n, i # 1 PROVE f[i] = f[i - 1] \o t[i] BY <2>1
      <4>1. i - 1 \in 1..n BY <1>1
      <4> QED BY <1>2, <4>1
    <3>2. f = [i \in 1..n |-> IF i = 1 THEN t[i] ELSE f[i - 1] \o t[i]] BY <3>1
    <3> HIDE DEF f
    <3> QED BY <3>2
  <2> DEFINE f == CHOOSE f : Is(f)
  <2>4. Is(f) BY <2>3
  <2> HIDE DEF f
  <2>5. \A i \in 1..n : f[i] = IF i = 1 THEN t[i] ELSE f[i - 1] \o t[i] BY <2>4
  <2> DEFINE h == [i \in 0..n |-> IF i = 0 THEN <<>> ELSE f[i]]
  <2>6. h[0] = g[0] /\ (\A i \in 1..n : h[i] = f[i]) BY <1>1, <1>2
  <2> HIDE DEF h
  <2>7. ASSUME NEW k \in 1..n, h[k - 1] = g[k - 1] PROVE h[k] = g[k]
    <3>1. CASE k = 1 BY <2>0, <2>1, <2>5, <2>6, <3>1
    <3>2. CASE k # 1
      <4>1. k - 1 \in 1..n BY <1>1, <3>2
      <4>2. f[k - 1] = g[k - 1] BY <2>6, <2>7, <4>1
      <4>3. f[k] = f[k - 1] \o t[k] BY <2>5, <3>2
      <4> QED BY <1>2, <2>6, <4>2, <4>3
    <3> QED BY <3>1, <3>2
  <2>8. n \in 0..n /\ n \in 1..n BY <1>1, <1>5
  <2>9. h[n] = g[n]
    <3>1. h[0] = g[0] BY <2>6
    <3>2. \A k \in 1..n : h[k - 1] = g[k - 1] => h[k] = g[k] BY <2>7
    <3>3. n \in Nat BY <1>1
    <3> DEFINE T == {k \in 0..n : h[k] = g[k]}
    <3>4. 0 \in T BY <3>1, <3>3
    <3>5. \A k \in 1..n : k - 1 \in T => k \in T BY <3>2, <3>3
    <3>6. \A k \in T : h[k] = g[k] OBVIOUS
    <3> HIDE DEF T
    <3> QED BY <2>8, <3>3, <3>4, <3>5, <3>6, StepsReach
  <2> QED BY <1>3, <2>2, <2>6, <2>8, <2>9 DEF f, n
<1> QED BY <1>4, <1>5

LEMMA FlattenTyped ==
  ASSUME NEW S, NEW t \in Seq(Seq(S))
  PROVE  FlattenSeq(t) \in Seq(S)
BY FlattenSteps, FlattenIs

LEMMA FlattenEmpty == FlattenSeq(<<>>) = <<>>
BY EmptySeq DEF FlattenSeq

\* One sequence more.
LEMMA FlattenAppend ==
  ASSUME NEW S, NEW t \in Seq(Seq(S)), NEW x \in Seq(S)
  PROVE  FlattenSeq(Append(t, x)) = FlattenSeq(t) \o x
<1> DEFINE u == Append(t, x)
           n == Len(t)
<1>1. /\ u \in Seq(Seq(S)) /\ Len(u) = n + 1 /\ n \in Nat
      /\ u[n + 1] = x /\ \A i \in 1..n : u[i] = t[i]
  BY AppendProperties, LenProperties
<1>2. PICK g : Flattens(g, u, S) BY <1>1, FlattenSteps
<1> HIDE DEF u, n
<1>3. /\ g \in [0..(n + 1) -> Seq(S)] /\ g[0] = <<>> /\ \A k \in 1..(n + 1) : g[k] = g[k - 1] \o u[k]
  BY <1>1, <1>2 DEF Flattens
<1> DEFINE h == [k \in 0..n |-> g[k]]
<1>4. h \in [0..n -> Seq(S)] /\ h[0] = <<>> BY <1>1, <1>3
<1>5. ASSUME NEW k \in 1..n PROVE h[k] = h[k - 1] \o t[k]
  <2>1. k - 1 \in 0..n /\ k \in 0..n /\ k \in 1..(n + 1) BY <1>1
  <2> QED BY <1>1, <1>3, <2>1
<1>6. h[n] = g[n] BY <1>1
<1> HIDE DEF h
<1>7. Flattens(h, t, S) BY <1>4, <1>5 DEF Flattens, n
<1>8. FlattenSeq(t) = g[n] BY <1>6, <1>7, FlattenIs DEF n
<1>9. FlattenSeq(u) = g[n + 1] BY <1>1, <1>2, FlattenIs
<1>10. g[n + 1] = g[n] \o x
  <2>1. n + 1 \in 1..(n + 1) /\ (n + 1) - 1 = n BY <1>1
  <2> QED BY <1>1, <1>3, <2>1
<1> QED BY <1>8, <1>9, <1>10 DEF u

\* Flattening and mapping go one after the other or the other way round.
MappedEach(u, F, t, S) ==
  LET V == {F[x] : x \in S} IN
  /\ t \in Seq(Seq(S)) /\ u \in Seq(Seq(V))
  /\ Len(u) = Len(t) /\ \A i \in 1..Len(t) : u[i] = Mapped(F, t[i])

LEMMA FlattenMapped ==
  ASSUME NEW S, NEW F, NEW t, NEW u, MappedEach(u, F, t, S)
  PROVE  FlattenSeq(u) = Mapped(F, FlattenSeq(t))
<1> DEFINE V == {F[x] : x \in S}
<1>0. /\ t \in Seq(Seq(S)) /\ u \in Seq(Seq(V)) /\ \A x \in S : F[x] \in V
      /\ Len(u) = Len(t) /\ \A i \in 1..Len(t) : u[i] = Mapped(F, t[i])
  BY DEF MappedEach
<1> HIDE DEF V
<1> DEFINE n == Len(t)
<1>1. n \in Nat /\ \A k \in 1..n : t[k] \in Seq(S) BY <1>0, LenProperties
<1>2. PICK g : Flattens(g, t, S) BY <1>0, FlattenSteps
<1>3. /\ g \in [0..n -> Seq(S)] /\ g[0] = <<>> /\ \A k \in 1..n : g[k] = g[k - 1] \o t[k]
  BY <1>2 DEF Flattens
<1> DEFINE h == [k \in 0..n |-> Mapped(F, g[k])]
<1>4. h \in [0..n -> Seq(V)] BY <1>0, <1>3, MappedTyped DEF IsMapping
<1>5. h[0] = <<>>
  <2>1. Mapped(F, <<>>) = <<>> BY DEF Mapped
  <2> QED BY <1>1, <1>3, <2>1
<1>6. ASSUME NEW k \in 1..n PROVE h[k] = h[k - 1] \o u[k]
  <2>1. k - 1 \in 0..n /\ k \in 0..n BY <1>1
  <2>2. g[k - 1] \in Seq(S) /\ t[k] \in Seq(S) BY <1>1, <1>3, <2>1
  <2>3. Mapped(F, g[k]) = Mapped(F, g[k - 1]) \o Mapped(F, t[k])
    <3>0. \A x, y \in Seq(S) : Mapped(F, x \o y) = Mapped(F, x) \o Mapped(F, y)
      BY ONLY MappedConcatenated
    <3>1. Mapped(F, g[k - 1] \o t[k]) = Mapped(F, g[k - 1]) \o Mapped(F, t[k]) BY <2>2, <3>0
    <3> QED BY <1>3, <3>1
  <2> QED BY <1>0, <2>1, <2>3
<1>7. h[n] = Mapped(F, g[n]) BY <1>1
<1> HIDE DEF h
<1>8. Flattens(h, u, V) BY <1>0, <1>4, <1>5, <1>6 DEF Flattens
<1>9. FlattenSeq(u) = h[n] BY <1>0, <1>8, FlattenIs
<1>10. FlattenSeq(t) = g[n] BY <1>0, <1>2, FlattenIs
<1> QED BY <1>7, <1>9, <1>10

----------------
(* Paths and masks *)

\* A list, of whatever.
IsListed(s) == \E S : s \in Seq(S)

LEMMA PrefixIs ==
  ASSUME NEW p, NEW q, IsListed(p), IsListed(q)
  PROVE  /\ Len(p) \in Nat /\ Len(q) \in Nat
         /\ IsPrefix(p, q) <=> Len(p) <= Len(q) /\ \A i \in 1..Len(p) : p[i] = q[i]
<1>1. PICK S : p \in Seq(S) BY DEF IsListed
<1>2. PICK T : q \in Seq(T) BY DEF IsListed
<1> DEFINE U == S \cup T
           r == SubSeq(q, 1, Len(p))
<1>3. p \in Seq(U) /\ q \in Seq(U) BY <1>1, <1>2, SeqMonotonic
<1>4. /\ Len(p) \in Nat /\ \A i \in 1..Len(p) : p[i] \in U
      /\ Len(q) \in Nat /\ \A i \in 1..Len(q) : q[i] \in U
  BY <1>3, LenProperties
<1>5. SubSeq(p, 1, Len(p)) = p BY <1>3, SubSeqFull
<1>6. ASSUME Len(p) <= Len(q) PROVE r = p <=> \A i \in 1..Len(p) : p[i] = q[i]
  <2>1. \A i \in 1..Len(p) : q[i] \in U BY <1>4, <1>6
  <2>2. 1 \in Int /\ Len(p) \in Int BY <1>4
  <2> HIDE DEF U
  <2>3. /\ r \in Seq(U) /\ Len(r) = (IF 1 <= Len(p) THEN Len(p) - 1 + 1 ELSE 0)
        /\ \A i \in 1..(Len(p) - 1 + 1) : r[i] = q[1 + i - 1]
    BY <2>1, <2>2, SubSeqProperties
  <2>4. Len(r) = Len(p) /\ \A i \in 1..Len(p) : r[i] = q[i] BY <1>4, <2>3
  <2> HIDE DEF r
  <2>5. ASSUME \A i \in 1..Len(p) : p[i] = q[i] PROVE r = p BY <1>3, <2>3, <2>4, <2>5, SeqEqual
  <2> QED BY <2>4, <2>5
<1> QED BY <1>4, <1>5, <1>6 DEF IsPrefix

LEMMA PrefixOfPrefix ==
  ASSUME NEW p, NEW q, NEW r, IsListed(p), IsListed(q), IsListed(r), IsPrefix(p, q), IsPrefix(q, r)
  PROVE  IsPrefix(p, r)
<1>1. Len(p) <= Len(q) /\ \A i \in 1..Len(p) : p[i] = q[i] BY PrefixIs
<1>2. Len(q) <= Len(r) /\ \A i \in 1..Len(q) : q[i] = r[i] BY PrefixIs
<1>3. Len(p) \in Nat /\ Len(q) \in Nat /\ Len(r) \in Nat BY PrefixIs
<1>4. Len(p) <= Len(r) BY <1>1, <1>2, <1>3
<1>5. ASSUME NEW i \in 1..Len(p) PROVE p[i] = r[i]
  <2>1. i \in 1..Len(q) BY <1>1, <1>3
  <2> QED BY <1>1, <1>2, <2>1
<1> QED BY <1>4, <1>5, PrefixIs

\* A prefix is shorter than what it is a prefix of, unless it is all of it.
LEMMA ShorterPrefix ==
  ASSUME NEW p, NEW q, IsListed(p), IsListed(q), IsStrictPrefix(p, q)
  PROVE  Len(p) < Len(q)
<1>1. /\ Len(p) \in Nat /\ Len(q) \in Nat /\ Len(p) <= Len(q) /\ p # q
      /\ \A i \in 1..Len(p) : p[i] = q[i]
  BY PrefixIs DEF IsStrictPrefix
<1>2. PICK S : p \in Seq(S) BY DEF IsListed
<1>3. PICK T : q \in Seq(T) BY DEF IsListed
<1> DEFINE U == S \cup T
<1>4. p \in Seq(U) /\ q \in Seq(U) BY <1>2, <1>3, SeqMonotonic
<1> HIDE DEF U
<1>5. Len(p) # Len(q) BY <1>1, <1>4, SeqEqual
<1> QED BY <1>1, <1>5

\* A prefix and the rest after it.
LEMMA PrefixAndRest ==
  ASSUME NEW p, NEW q, IsListed(p), IsListed(q), IsPrefix(p, q)
  PROVE  p \o SubSeq(q, Len(p) + 1, Len(q)) = q
<1>1. Len(p) \in Nat /\ Len(q) \in Nat /\ Len(p) <= Len(q) BY PrefixIs
<1>2. PICK S : p \in Seq(S) BY DEF IsListed
<1>3. PICK T : q \in Seq(T) BY DEF IsListed
<1>4. SubSeq(p, 1, Len(p)) = p BY <1>2, SubSeqFull
<1>5. SubSeq(q, 1, Len(p)) = p BY <1>4 DEF IsPrefix
<1>6. SubSeq(q, 1, Len(q)) = q BY <1>3, SubSeqFull
<1>7. SubSeq(q, 1, Len(p)) \o SubSeq(q, Len(p) + 1, Len(q)) = SubSeq(q, 1, Len(q))
  <2>1. /\ 1 \in 1..(Len(q) + 1) /\ Len(p) \in (1 - 1)..Len(q) /\ Len(q) \in Len(p)..Len(q) BY <1>1
  <2> QED BY <1>3, <2>1, ConcatAdjacentSubSeq
<1> QED BY <1>5, <1>6, <1>7

\* The paths of the leaves of a value are lists.
IsData(data) == \A leaf \in DOMAIN data : IsListed(leaf)

\* What a mask leaves of a value has all that is below a path, if the mask has the path
\* or one before it.
LEMMA NestedKept ==
  ASSUME NEW data, IsData(data), NEW path, IsListed(path), NEW fields,
         NEW f \in fields, IsListed(f), IsPrefix(f, path)
  PROVE  Nested(Masked(data, fields), path) = Nested(data, path)
<1> DEFINE left == Masked(data, fields)
           Below == {leaf \in DOMAIN data : IsPrefix(path, leaf)}
           BelowLeft == {leaf \in DOMAIN left : IsPrefix(path, leaf)}
           Rest(leaf) == SubSeq(leaf, Len(path) + 1, Len(leaf))
<1>1. DOMAIN left = {leaf \in DOMAIN data : \E g \in fields : IsPrefix(g, leaf)}
      /\ \A leaf \in DOMAIN left : left[leaf] = data[leaf]
  BY DEF Masked, Restrict
<1> HIDE DEF left
<1>2. ASSUME NEW leaf \in DOMAIN data, IsPrefix(path, leaf) PROVE leaf \in DOMAIN left
  BY <1>1, <1>2, PrefixOfPrefix DEF IsData
<1>3. BelowLeft = Below BY <1>1, <1>2
<1>4. ASSUME NEW rest \in {Rest(leaf) : leaf \in Below} PROVE left[path \o rest] = data[path \o rest]
  <2>1. PICK leaf \in Below : rest = Rest(leaf) OBVIOUS
  <2>2. leaf \in DOMAIN data /\ IsPrefix(path, leaf) /\ IsListed(leaf) BY DEF IsData
  <2>3. path \o rest = leaf BY <2>1, <2>2, PrefixAndRest
  <2> QED BY <1>1, <1>2, <2>2, <2>3
<1>5. Nested(data, path) = [rest \in {Rest(leaf) : leaf \in Below} |-> data[path \o rest]]
  BY DEF Nested
<1>6. Nested(left, path) = [rest \in {Rest(leaf) : leaf \in BelowLeft} |-> left[path \o rest]]
  BY DEF Nested
<1> HIDE DEF Below, BelowLeft, Rest
<1>7. Nested(left, path) = [rest \in {Rest(leaf) : leaf \in Below} |-> left[path \o rest]]
  BY <1>3, <1>6
<1>8. Nested(left, path) = Nested(data, path) BY <1>4, <1>5, <1>7
<1> QED BY <1>8 DEF left

\* A mask leaves what is left of data data.
LEMMA MaskedIsData ==
  ASSUME NEW data, IsData(data), NEW fields
  PROVE  IsData(Masked(data, fields))
BY DEF IsData, Masked, Restrict

----------------
(* Documents, rows and the masks of their sources *)

\* The documents there are, at any time, and what a row has for an alias.
Places == UNION {DOMAIN documents : documents \in Range(DocumentsNow)}
Contents ==
  UNION {UNION {Range(documents[path]) : path \in DOMAIN documents} : documents \in Range(DocumentsNow)}
Docs == [in : Places \ {<<>>}, id : {c.id : c \in Contents}, data : {c.data : c \in Contents}]
Partners == Docs \cup {NoDocument}

\* The rows of a statement when the sources of some aliases are joined, and all of them.
RowsFor(aliases) == [aliases -> Partners]
RowSpace(select) == UNION {RowsFor(aliases) : aliases \in SUBSET Aliases(select)}

\* A document, and a row, as the masks leave them.
MaskDoc(select, a, d) == [d EXCEPT !.data = Masked(@, Mask(select, a))]
MaskRow(select, row) == [a \in DOMAIN row |-> MaskDoc(select, a, row[a])]
Masking(select) == [row \in RowSpace(select) |-> MaskRow(select, row)]
MaskedSpace(select) == {MaskRow(select, row) : row \in RowSpace(select)}

IsDocument(d) ==
  /\ d = [in |-> d.in, id |-> d.id, data |-> d.data]
  /\ IsData(d.data) /\ d.data = [leaf \in DOMAIN d.data |-> d.data[leaf]]
  /\ d # NoDocument => d.in # <<>>

LEMMA DocsAreDocuments ==
  \A d \in Partners : IsDocument(d)
<1>1. ASSUME NEW c \in Contents
      PROVE  IsData(c.data) /\ c.data = [leaf \in DOMAIN c.data |-> c.data[leaf]]
  <2>1. PICK documents \in Range(DocumentsNow) :
          c \in UNION {Range(documents[path]) : path \in DOMAIN documents}
    BY DEF Contents
  <2>2. PICK path \in DOMAIN documents : c \in Range(documents[path]) BY <2>1
  <2>3. /\ c.data \in [DOMAIN c.data -> Range(c.data)]
        /\ \A leaf \in DOMAIN c.data : leaf \in Seq(Range(leaf))
    BY <2>2, SqlAssumption
  <2> QED BY <2>3 DEF IsData, IsListed
<1>2. ASSUME NEW d \in Docs PROVE IsDocument(d)
  <2>1. /\ d = [in |-> d.in, id |-> d.id, data |-> d.data] /\ d.in # <<>>
        /\ d.data \in {c.data : c \in Contents}
    BY DEF Docs
  <2>2. PICK c \in Contents : d.data = c.data BY <2>1
  <2> QED BY <1>1, <2>1, <2>2 DEF IsDocument
<1>3. IsDocument(NoDocument) BY DEF IsDocument, NoDocument, IsData, Undefined
<1> QED BY <1>2, <1>3 DEF Partners

\* What a mask leaves as it was.
MaskKeeps(m, d, fields) ==
  /\ m.in = d.in /\ m.id = d.id /\ m.data = Masked(d.data, fields)
  /\ m = NoDocument <=> d = NoDocument

LEMMA MaskDocKeeps ==
  ASSUME NEW select, NEW a, NEW d \in Partners
  PROVE  MaskKeeps(MaskDoc(select, a, d), d, Mask(select, a))
<1> DEFINE fields == Mask(select, a)
           m == MaskDoc(select, a, d)
<1>1. IsDocument(d) BY DocsAreDocuments
<1>2. m = [in |-> d.in, id |-> d.id, data |-> Masked(d.data, fields)] BY <1>1 DEF MaskDoc, IsDocument
<1>3. Masked(<<>>, fields) = <<>> BY DEF Masked, Restrict
<1> HIDE DEF fields, m
<1>4. m.in = d.in /\ m.id = d.id /\ m.data = Masked(d.data, fields) BY <1>2
<1>5. d = NoDocument => m = NoDocument BY <1>2, <1>3 DEF NoDocument, Undefined
<1>6. m = NoDocument => d = NoDocument
  <2>1. NoDocument.in = <<>> BY DEF NoDocument
  <2> QED BY <1>1, <1>4, <2>1 DEF IsDocument
<1> QED BY <1>4, <1>5, <1>6 DEF MaskKeeps, m, fields

----------------
(* What a statement needs of its sources *)

LEMMA OwnedListed ==
  ASSUME NEW path, IsListed(path), NEW select
  PROVE  IsListed(Owned(path, select)[2])
<1>1. PICK S : path \in Seq(S) BY DEF IsListed
<1>2. path # <<>> => Tail(path) \in Seq(S) BY <1>1, HeadTailProperties
<1> QED BY <1>1, <1>2 DEF Owned, IsListed

LEMMA NeededListed ==
  ASSUME NEW select, Planned(select)
  PROVE  \A need \in NeededOf(select) : IsListed(need[2])
<1>1. ASSUME NEW e \in Expressions(select), NEW path \in FieldPaths(e) PROVE IsListed(path)
  BY DEF Planned, IsListed
<1>2. ASSUME NEW c \in Wildcards(select) PROVE IsListed(c.path) BY DEF Planned, IsListed
<1> DEFINE Named == UNION {FieldPaths(e) : e \in Expressions(select)}
           Starred == {c.path : c \in Wildcards(select)}
<1>3. ASSUME NEW path \in Starred \cup Named PROVE IsListed(Owned(path, select)[2])
  <2>1. CASE path \in Named
    <3>1. PICK e \in Expressions(select) : path \in FieldPaths(e) BY <2>1
    <3>2. IsListed(path) BY <1>1, <3>1
    <3> QED BY <3>2, OwnedListed
  <2>2. CASE path \in Starred
    <3>1. PICK c \in Wildcards(select) : path = c.path BY <2>2
    <3>2. IsListed(path) BY <1>2, <3>1
    <3> QED BY <3>2, OwnedListed
  <2> HIDE DEF Named, Starred
  <2> QED BY <2>1, <2>2
<1>4. IsListed(<<>>) BY EmptySeq DEF IsListed
<1> DEFINE Local == {j \in Range(select.joins) : j.source.kind = "subcollection"}
<1>5. ASSUME NEW join \in Local PROVE IsListed(<<join.source.of, <<>>>>[2]) BY <1>4
<1>6. NeededOf(select) = {Owned(path, select) : path \in Starred \cup Named}
                          \cup {<<join.source.of, <<>>>> : join \in Local}
  BY DEF NeededOf
<1> HIDE DEF Named, Starred, Local
<1> QED BY <1>3, <1>5, <1>6

\* The mask of a source has the path of each need of it, or one before it.
LEMMA MaskCovers ==
  ASSUME NEW select, Planned(select), NEW a, NEW path, <<a, path>> \in NeededOf(select)
  PROVE  \E f \in Mask(select, a) : IsListed(f) /\ IsPrefix(f, path)
<1> DEFINE paths == {need[2] : need \in {n \in NeededOf(select) : n[1] = a}}
           Before == {q \in paths : IsPrefix(q, path)}
           Lengths == {Len(q) : q \in Before}
<1>1. Mask(select, a) = {p \in paths : ~\E q \in paths : IsStrictPrefix(q, p)} BY DEF Mask
<1>2. \A q \in paths : IsListed(q) BY NeededListed
<1>3. path \in paths OBVIOUS
<1> HIDE DEF paths
<1>4. path \in Before
  <2>1. IsPrefix(path, path) BY <1>2, <1>3, PrefixIs
  <2> QED BY <1>3, <2>1
<1>5. Lengths \in SUBSET Nat
  <2>1. \A q \in Before : Len(q) \in Nat BY <1>2, PrefixIs
  <2> QED BY <2>1
<1>6. Lengths # {} BY <1>4
<1>7. \A n \in Lengths : \E q \in Before : n = Len(q) OBVIOUS
<1>8. \A q \in Before : Len(q) \in Lengths OBVIOUS
<1> HIDE DEF Lengths
<1>9. PICK n \in Lengths : \A m \in Lengths : n <= m BY <1>5, <1>6, LeastNumber
<1>10. PICK q \in Before : n = Len(q) BY <1>7
<1>11. q \in paths /\ IsPrefix(q, path) /\ IsListed(q) /\ IsListed(path) BY <1>2, <1>3
<1>12. ASSUME NEW r \in paths, IsStrictPrefix(r, q) PROVE FALSE
  <2>1. IsListed(r) /\ IsPrefix(r, q) BY <1>2, <1>12 DEF IsStrictPrefix
  <2>2. IsPrefix(r, path) BY <1>11, <2>1, PrefixOfPrefix
  <2>3. Len(r) \in Lengths BY <1>8, <2>2
  <2>4. Len(r) < Len(q) BY <1>11, <1>12, <2>1, ShorterPrefix
  <2>5. Len(r) \in Nat /\ Len(q) \in Nat /\ n <= Len(r) BY <1>5, <1>9, <1>10, <2>3
  <2> QED BY <1>10, <2>4, <2>5
<1>13. q \in Mask(select, a) BY <1>1, <1>11, <1>12
<1> QED BY <1>11, <1>13

\* What is below a path that is needed of a document is there after the mask.
LEMMA NeededKept ==
  ASSUME NEW select, Planned(select), NEW a, NEW path, <<a, path>> \in NeededOf(select),
         NEW d \in Partners
  PROVE  Nested(MaskDoc(select, a, d).data, path) = Nested(d.data, path)
<1>1. PICK f \in Mask(select, a) : IsListed(f) /\ IsPrefix(f, path) BY MaskCovers
<1>2. IsListed(path)
  <2>1. <<a, path>>[2] = path OBVIOUS
  <2> QED BY <2>1, NeededListed
<1>3. IsDocument(d) BY DocsAreDocuments
<1>4. MaskKeeps(MaskDoc(select, a, d), d, Mask(select, a)) BY MaskDocKeeps
<1>5. IsData(d.data) /\ MaskDoc(select, a, d).data = Masked(d.data, Mask(select, a))
  BY <1>3, <1>4 DEF MaskKeeps, IsDocument
<1>6. Nested(Masked(d.data, Mask(select, a)), path) = Nested(d.data, path)
  BY <1>1, <1>2, <1>5, NestedKept
<1> QED BY <1>5, <1>6

----------------
(* What is evaluated on a row as the masks leave it *)

\* The sources of some aliases are joined, and an expression names no field of another.
IsJoined(select, aliases) == aliases \in SUBSET Aliases(select) /\ Primary(select) \in aliases
NamesOf(e, select, aliases) ==
  \A x \in Parts(e) :
    x.op = "fieldPath" /\ Head(x.path) \in Aliases(select) => Head(x.path) \in aliases

LEMMA MaskRowIs ==
  ASSUME NEW select, NEW aliases, NEW row \in RowsFor(aliases)
  PROVE  /\ DOMAIN row = aliases /\ DOMAIN MaskRow(select, row) = aliases
         /\ \A a \in aliases :
              row[a] \in Partners /\ MaskRow(select, row)[a] = MaskDoc(select, a, row[a])
<1>1. DOMAIN row = aliases /\ \A a \in aliases : row[a] \in Partners BY DEF RowsFor
<1> HIDE DEF RowsFor
<1> QED BY <1>1 DEF MaskRow

LEMMA FieldKept ==
  ASSUME NEW select, Planned(select), NEW aliases, IsJoined(select, aliases),
         NEW row \in RowsFor(aliases), NEW path, Owned(path, select) \in NeededOf(select),
         path # <<>>, Head(path) \in Aliases(select) => Head(path) \in aliases
  PROVE  FieldValue(path, MaskRow(select, row), Primary(select)) = FieldValue(path, row, Primary(select))
<1> DEFINE m == MaskRow(select, row)
           p == Primary(select)
<1>1. /\ DOMAIN row = aliases /\ DOMAIN m = aliases
      /\ \A a \in aliases : row[a] \in Partners /\ m[a] = MaskDoc(select, a, row[a])
  BY MaskRowIs
<1>2. p \in aliases /\ aliases \in SUBSET Aliases(select) BY DEF IsJoined
<1> SUFFICES FieldValue(path, m, p) = FieldValue(path, row, p) OBVIOUS
<1> HIDE DEF m, p, RowsFor
<1>3. CASE Head(path) \in aliases
  <2>1. Owned(path, select) = <<Head(path), Tail(path)>> BY <1>2, <1>3 DEF Owned
  <2>2. Nested(MaskDoc(select, Head(path), row[Head(path)]).data, Tail(path))
          = Nested(row[Head(path)].data, Tail(path))
    <3>1. row[Head(path)] \in Partners BY <1>1, <1>3
    <3>2. <<Head(path), Tail(path)>> \in NeededOf(select) BY <2>1
    <3> QED BY <3>1, <3>2, NeededKept
  <2> QED BY <1>1, <1>3, <2>2 DEF FieldValue
<1>4. CASE Head(path) \notin aliases BY <1>1, <1>2, <1>4, NeededKept DEF Owned, p, FieldValue
<1> QED BY <1>3, <1>4

\* The paths of an expression of a statement are needed.
LEMMA PathsNeeded ==
  ASSUME NEW select, Planned(select), NEW e \in Expressions(select), NEW x \in Parts(e),
         x.op = "fieldPath"
  PROVE  x.path # <<>> /\ Owned(x.path, select) \in NeededOf(select)
<1>1. x.path \in FieldPaths(e) BY DEF FieldPaths
<1>2. x.path # <<>> BY <1>1 DEF Planned
<1>3. x.path \in UNION {FieldPaths(d) : d \in Expressions(select)} BY <1>1
<1> DEFINE All == {c.path : c \in Wildcards(select)} \cup UNION {FieldPaths(d) : d \in Expressions(select)}
<1>4. x.path \in All BY <1>3
<1> HIDE DEF All
<1>5. Owned(x.path, select) \in {Owned(path, select) : path \in All} BY <1>4
<1>6. Owned(x.path, select) \in NeededOf(select) BY <1>5 DEF NeededOf, All
<1> QED BY <1>2, <1>6

LEMMA ReadKept ==
  ASSUME NEW select, Planned(select), NEW aliases, IsJoined(select, aliases),
         NEW row \in RowsFor(aliases), NEW e \in Expressions(select), NamesOf(e, select, aliases),
         NEW x \in Parts(e)
  PROVE  Reads(x, MaskRow(select, row), Primary(select)) = Reads(x, row, Primary(select))
<1> DEFINE m == MaskRow(select, row)
           p == Primary(select)
<1>1. /\ DOMAIN row = aliases /\ DOMAIN m = aliases
      /\ \A a \in aliases : row[a] \in Partners /\ m[a] = MaskDoc(select, a, row[a])
  BY MaskRowIs
<1>2. x.op = "fieldPath" => FieldValue(x.path, m, p) = FieldValue(x.path, row, p)
  <2> SUFFICES ASSUME x.op = "fieldPath" PROVE FieldValue(x.path, m, p) = FieldValue(x.path, row, p)
    OBVIOUS
  <2>1. x.path # <<>> /\ Owned(x.path, select) \in NeededOf(select) BY PathsNeeded
  <2>2. Head(x.path) \in Aliases(select) => Head(x.path) \in aliases BY DEF NamesOf
  <2> QED BY <2>1, <2>2, FieldKept
<1> HIDE DEF m, p
<1>3. ASSUME NEW a \in aliases PROVE m[a].id = row[a].id /\ (m[a] = NoDocument <=> row[a] = NoDocument)
  BY <1>1, MaskDocKeeps DEF MaskKeeps
<1>4. x.of \in aliases => m[x.of].id = row[x.of].id /\ (m[x.of] = NoDocument <=> row[x.of] = NoDocument)
  BY <1>3
<1>5. Reads(x, m, p) = Reads(x, row, p) BY <1>1, <1>2, <1>4 DEF Reads
<1> QED BY <1>5 DEF m, p

\* An expression of a statement has the same value of a row whose documents have been
\* masked as of the whole row, if it names no field of a source joined later
\* (collectProjectionExpression, addProjectionField, evaluateExpression).
THEOREM EvaluateKept ==
  ASSUME NEW select, Planned(select), NEW aliases, IsJoined(select, aliases),
         NEW row \in RowsFor(aliases), NEW e \in Expressions(select), NamesOf(e, select, aliases)
  PROVE  Evaluate(e, MaskRow(select, row), Primary(select)) = Evaluate(e, row, Primary(select))
BY ReadKept DEF Evaluate

----------------
(* Rows: filtered, joined, ordered and projected *)

LEMMA MaskingIs ==
  ASSUME NEW select, NEW aliases \in SUBSET Aliases(select)
  PROVE  /\ RowsFor(aliases) \subseteq RowSpace(select)
         /\ \A row \in RowsFor(aliases) : Masking(select)[row] = MaskRow(select, row)
         /\ Masking(select) \in [RowSpace(select) -> MaskedSpace(select)]
<1>1. RowsFor(aliases) \subseteq RowSpace(select) BY DEF RowSpace
<1> HIDE DEF RowSpace, RowsFor, MaskRow
<1> QED BY <1>1 DEF Masking, MaskedSpace

LEMMA PassedTyped ==
  ASSUME NEW S, NEW rows \in Seq(S), NEW passes
  PROVE  Passed(rows, passes) \in Seq(S)
<1> DEFINE t == [i \in DOMAIN rows |-> IF passes[i] THEN <<rows[i]>> ELSE <<>>]
<1>1. DOMAIN rows = 1..Len(rows) /\ Len(rows) \in Nat /\ \A i \in 1..Len(rows) : rows[i] \in S
  BY LenProperties
<1>2. \A i \in 1..Len(rows) : (IF passes[i] THEN <<rows[i]>> ELSE <<>>) \in Seq(S) BY <1>1, EmptySeq
<1>3. t \in Seq(Seq(S)) BY <1>1, <1>2, IsASeq
<1> HIDE DEF t
<1>4. FlattenSeq(t) \in Seq(S) BY <1>3, FlattenTyped
<1> QED BY <1>4 DEF Passed, t

LEMMA FilterTyped ==
  ASSUME NEW S, NEW rows \in Seq(S), NEW e, NEW primary
  PROVE  Filter(rows, e, primary) \in Seq(S)
BY PassedTyped DEF Filter

\* A filter commutes with a change of the rows that it does not notice.
LEMMA PassedMapped ==
  ASSUME NEW S, NEW F, NEW rows \in Seq(S), NEW passes
  PROVE  Passed(Mapped(F, rows), passes) = Mapped(F, Passed(rows, passes))
<1> DEFINE V == {F[x] : x \in S}
<1>0. \A x \in S : F[x] \in V OBVIOUS
<1> HIDE DEF V
<1> DEFINE m == Mapped(F, rows)
           t == [i \in DOMAIN rows |-> IF passes[i] THEN <<rows[i]>> ELSE <<>>]
           u == [i \in DOMAIN m |-> IF passes[i] THEN <<m[i]>> ELSE <<>>]
<1>1. IsMapping(m, F, rows, V) BY <1>0, MappedTyped
<1>2. /\ DOMAIN rows = 1..Len(rows) /\ Len(rows) \in Nat /\ DOMAIN m = 1..Len(rows)
      /\ \A i \in 1..Len(rows) : rows[i] \in S /\ m[i] = F[rows[i]]
  BY <1>1, LenProperties DEF IsMapping
<1> HIDE DEF m
<1>3. \A x \in S : <<x>> \in Seq(S) /\ Mapped(F, <<x>>) = <<F[x]>> /\ <<F[x]>> \in Seq(V)
  <2> SUFFICES ASSUME NEW x \in S
               PROVE  <<x>> \in Seq(S) /\ Mapped(F, <<x>>) = <<F[x]>> /\ <<F[x]>> \in Seq(V)
    OBVIOUS
  <2>1. DOMAIN <<x>> = 1..1 /\ <<x>>[1] = x OBVIOUS
  <2>2. \A i \in 1..1 : <<x>>[i] = x OBVIOUS
  <2>3. Mapped(F, <<x>>) = [i \in 1..1 |-> F[x]] BY <2>1, <2>2 DEF Mapped
  <2>4. <<F[x]>> = [i \in 1..1 |-> F[x]] OBVIOUS
  <2> QED BY <1>0, <2>3, <2>4
<1>4. Mapped(F, <<>>) = <<>> BY DEF Mapped
<1>5. <<>> \in Seq(S) /\ <<>> \in Seq(V) BY EmptySeq
<1>6. t \in Seq(Seq(S)) /\ Len(t) = Len(rows) BY <1>2, <1>3, <1>5, IsASeq
<1>7. u \in Seq(Seq(V)) /\ Len(u) = Len(rows)
  <2>1. \A i \in 1..Len(rows) : (IF passes[i] THEN <<m[i]>> ELSE <<>>) \in Seq(V)
    BY <1>2, <1>3, <1>5
  <2>2. u = [i \in 1..Len(rows) |-> IF passes[i] THEN <<m[i]>> ELSE <<>>] BY <1>2
  <2>3. u \in Seq(Seq(V)) BY <1>2, <2>1, <2>2, IsASeq
  <2> QED BY <1>2, <2>2, <2>3
<1>8. \A i \in 1..Len(t) : u[i] = Mapped(F, t[i])
  <2> SUFFICES ASSUME NEW i \in 1..Len(rows) PROVE u[i] = Mapped(F, t[i]) BY <1>6
  <2>1. t[i] = (IF passes[i] THEN <<rows[i]>> ELSE <<>>) BY <1>2
  <2>2. u[i] = (IF passes[i] THEN <<m[i]>> ELSE <<>>) BY <1>2
  <2> HIDE DEF t, u
  <2> QED BY <1>2, <1>3, <1>4, <2>1, <2>2
<1> HIDE DEF t, u
<1>9. MappedEach(u, F, t, S) BY <1>6, <1>7, <1>8 DEF MappedEach, V
<1>10. FlattenSeq(u) = Mapped(F, FlattenSeq(t)) BY <1>9, FlattenMapped
<1> QED BY <1>10 DEF Passed, t, u, m

LEMMA FilterKept ==
  ASSUME NEW select, Planned(select), NEW aliases, IsJoined(select, aliases),
         NEW rows \in Seq(RowsFor(aliases)), NEW e \in Expressions(select),
         NamesOf(e, select, aliases)
  PROVE  Filter(Mapped(Masking(select), rows), e, Primary(select))
           = Mapped(Masking(select), Filter(rows, e, Primary(select)))
<1> DEFINE F == Masking(select)
           p == Primary(select)
           S == RowSpace(select)
           m == Mapped(F, rows)
<1>1. /\ RowsFor(aliases) \subseteq S /\ \A row \in RowsFor(aliases) : F[row] = MaskRow(select, row)
      /\ F \in [S -> MaskedSpace(select)]
  BY MaskingIs DEF IsJoined
<1>2. rows \in Seq(S) BY <1>1, SeqMonotonic
<1>3. /\ DOMAIN rows = 1..Len(rows) /\ \A i \in 1..Len(rows) : rows[i] \in RowsFor(aliases)
  BY LenProperties
<1>4. DOMAIN m = 1..Len(rows) /\ \A i \in 1..Len(rows) : m[i] = MaskRow(select, rows[i])
  BY <1>1, <1>3 DEF Mapped
<1>5. \A i \in 1..Len(rows) : Evaluate(e, m[i], p) = Evaluate(e, rows[i], p)
  BY <1>3, <1>4, EvaluateKept
<1> SUFFICES Filter(m, e, p) = Mapped(F, Filter(rows, e, p)) OBVIOUS
<1> DEFINE passes == [i \in DOMAIN rows |-> Truthy(Evaluate(e, rows[i], p))]
<1>6. [i \in DOMAIN m |-> Truthy(Evaluate(e, m[i], p))] = passes BY <1>3, <1>4, <1>5
<1>7. Passed(m, passes) = Mapped(F, Passed(rows, passes))
  <2> HIDE DEF S, passes, F
  <2> QED BY <1>2, PassedMapped
<1> HIDE DEF F, p, S, m
<1> QED BY <1>6, <1>7 DEF Filter, m

\* A document more in a row.
LEMMA WithDocumentIs ==
  ASSUME NEW aliases, NEW row \in RowsFor(aliases), NEW a, NEW d \in Partners
  PROVE  WithDocument(row, a, d) \in RowsFor(aliases \cup {a})
BY DEF WithDocument, RowsFor

LEMMA WithDocumentMasked ==
  ASSUME NEW select, NEW aliases, NEW row \in RowsFor(aliases), NEW a, NEW d \in Partners
  PROVE  MaskRow(select, WithDocument(row, a, d))
           = WithDocument(MaskRow(select, row), a, MaskDoc(select, a, d))
<1>1. DOMAIN row = aliases BY DEF RowsFor
<1> HIDE DEF MaskDoc, RowsFor
<1> QED BY <1>1 DEF WithDocument, MaskRow

MaskDocs(select, a, documents) == [i \in DOMAIN documents |-> MaskDoc(select, a, documents[i])]

\* The rows of the first source.
LEMMA RowsOfTyped ==
  ASSUME NEW select, NEW a \in Aliases(select), NEW documents \in Seq(Docs)
  PROVE  /\ RowsOf(documents, a) \in Seq(RowsFor({a})) /\ Len(RowsOf(documents, a)) = Len(documents)
         /\ RowsOf(MaskDocs(select, a, documents), a) = Mapped(Masking(select), RowsOf(documents, a))
<1>1. DOMAIN documents = 1..Len(documents) /\ Len(documents) \in Nat
      /\ \A i \in 1..Len(documents) : documents[i] \in Docs /\ documents[i] \in Partners
  BY LenProperties DEF Partners
<1>2. <<>> \in RowsFor({})
  <2>1. <<>> = [x \in {} |-> 0] OBVIOUS
  <2> QED BY <2>1 DEF RowsFor
<1>3. \A d \in Partners : WithDocument(<<>>, a, d) \in RowsFor({a})
  <2>1. {} \cup {a} = {a} OBVIOUS
  <2> QED BY <1>2, <2>1, WithDocumentIs
<1> DEFINE rows == RowsOf(documents, a)
<1>4. rows = [i \in 1..Len(documents) |-> WithDocument(<<>>, a, documents[i])] BY <1>1 DEF RowsOf
<1>5. \A i \in 1..Len(documents) : WithDocument(<<>>, a, documents[i]) \in RowsFor({a})
  BY <1>1, <1>3
<1>6. rows \in Seq(RowsFor({a})) /\ Len(rows) = Len(documents)
  <2>1. rows \in [1..Len(documents) -> RowsFor({a})] BY <1>4, <1>5
  <2> HIDE DEF rows
  <2> QED BY <1>1, <2>1, FunctionIsSeq
<1>7. \A row \in RowsFor({a}) : Masking(select)[row] = MaskRow(select, row) BY MaskingIs
<1>8. MaskRow(select, <<>>) = <<>> BY DEF MaskRow
<1>9. \A i \in 1..Len(documents) :
        Masking(select)[rows[i]] = WithDocument(<<>>, a, MaskDoc(select, a, documents[i]))
  <2> SUFFICES ASSUME NEW i \in 1..Len(documents)
               PROVE  Masking(select)[rows[i]] = WithDocument(<<>>, a, MaskDoc(select, a, documents[i]))
    OBVIOUS
  <2>1. rows[i] = WithDocument(<<>>, a, documents[i]) BY <1>4
  <2>2. Masking(select)[rows[i]] = MaskRow(select, WithDocument(<<>>, a, documents[i]))
    BY <1>5, <1>7, <2>1
  <2>3. MaskRow(select, WithDocument(<<>>, a, documents[i]))
          = WithDocument(MaskRow(select, <<>>), a, MaskDoc(select, a, documents[i]))
    BY <1>1, <1>2, WithDocumentMasked
  <2> QED BY <1>8, <2>2, <2>3
<1>10. RowsOf(MaskDocs(select, a, documents), a)
         = [i \in 1..Len(documents) |-> WithDocument(<<>>, a, MaskDoc(select, a, documents[i]))]
  <2> HIDE DEF MaskDoc, WithDocument
  <2> QED BY <1>1 DEF RowsOf, MaskDocs
<1>11. Mapped(Masking(select), rows) = [i \in 1..Len(documents) |-> Masking(select)[rows[i]]]
  <2>1. DOMAIN rows = 1..Len(documents) BY <1>4
  <2> QED BY <2>1 DEF Mapped
<1> QED BY <1>6, <1>9, <1>10, <1>11

----------------
\* The rows a row is joined to: typed, and as the masks leave them.
LEMMA JoinedTyped ==
  ASSUME NEW aliases, NEW row \in RowsFor(aliases), NEW documents \in Seq(Docs), NEW join, NEW primary
  PROVE  Joined(row, documents, join, primary) \in Seq(RowsFor(aliases \cup {join.source.alias}))
<1> DEFINE a == join.source.alias
           R == RowsFor(aliases \cup {a})
           rows == [i \in DOMAIN documents |-> WithDocument(row, a, documents[i])]
           matching == Filter(rows, join.on, primary)
<1>1. DOMAIN documents = 1..Len(documents) /\ Len(documents) \in Nat
      /\ \A i \in 1..Len(documents) : documents[i] \in Partners
  BY LenProperties DEF Partners
<1>2. \A d \in Partners : WithDocument(row, a, d) \in R BY WithDocumentIs
<1>3. NoDocument \in Partners BY DEF Partners
<1> HIDE DEF R, a
<1>4. rows \in [1..Len(documents) -> R] BY <1>1, <1>2
<1> HIDE DEF rows
<1>5. rows \in Seq(R) BY <1>1, <1>4, FunctionIsSeq
<1>6. matching \in Seq(R) BY <1>5, FilterTyped
<1> HIDE DEF matching
<1>7. <<WithDocument(row, a, NoDocument)>> \in Seq(R) BY <1>2, <1>3
<1>8. Joined(row, documents, join, primary)
        = IF matching = <<>> /\ join.type = "left"
          THEN <<WithDocument(row, a, NoDocument)>> ELSE matching
  BY DEF Joined, matching, rows, a
<1>9. Joined(row, documents, join, primary) \in Seq(R) BY <1>6, <1>7, <1>8
<1> QED BY <1>9 DEF R, a

LEMMA JoinedKept ==
  ASSUME NEW select, Planned(select), NEW aliases, IsJoined(select, aliases),
         NEW row \in RowsFor(aliases), NEW documents \in Seq(Docs), NEW join,
         join.source.alias \in Aliases(select), join.on \in Expressions(select),
         NamesOf(join.on, select, aliases \cup {join.source.alias})
  PROVE  Joined(MaskRow(select, row), MaskDocs(select, join.source.alias, documents), join, Primary(select))
           = Mapped(Masking(select), Joined(row, documents, join, Primary(select)))
<1> DEFINE a == join.source.alias
           p == Primary(select)
           F == Masking(select)
           more == aliases \cup {a}
           R == RowsFor(more)
           rows == [i \in DOMAIN documents |-> WithDocument(row, a, documents[i])]
           m == MaskRow(select, row)
           docs == MaskDocs(select, a, documents)
           masked == [i \in DOMAIN docs |-> WithDocument(m, a, docs[i])]
           matching == Filter(rows, join.on, p)
<1>1. DOMAIN documents = 1..Len(documents) /\ Len(documents) \in Nat
      /\ \A i \in 1..Len(documents) : documents[i] \in Partners
  BY LenProperties DEF Partners
<1>2. \A d \in Partners : WithDocument(row, a, d) \in R BY WithDocumentIs
<1>3. NoDocument \in Partners BY DEF Partners
<1>4. IsJoined(select, more) BY DEF IsJoined
<1>5. \A r \in R : F[r] = MaskRow(select, r) BY <1>4, MaskingIs DEF IsJoined
<1>6. \A d \in Partners : F[WithDocument(row, a, d)] = WithDocument(m, a, MaskDoc(select, a, d))
  <2> SUFFICES ASSUME NEW d \in Partners
               PROVE  F[WithDocument(row, a, d)] = WithDocument(m, a, MaskDoc(select, a, d))
    OBVIOUS
  <2>1. F[WithDocument(row, a, d)] = MaskRow(select, WithDocument(row, a, d)) BY <1>2, <1>5
  <2>2. MaskRow(select, WithDocument(row, a, d)) = WithDocument(m, a, MaskDoc(select, a, d))
    BY WithDocumentMasked
  <2> HIDE DEF F, m, a
  <2> QED BY <2>1, <2>2
<1>7. rows \in [1..Len(documents) -> R]
  <2> HIDE DEF R, a
  <2> QED BY <1>1, <1>2
<1>8. rows \in Seq(R)
  <2> HIDE DEF R, rows
  <2> QED BY <1>1, <1>7, FunctionIsSeq
<1>9. masked = Mapped(F, rows)
  <2>1. /\ DOMAIN docs = 1..Len(documents)
        /\ \A i \in 1..Len(documents) : docs[i] = MaskDoc(select, a, documents[i])
    BY <1>1 DEF MaskDocs
  <2> HIDE DEF docs, F, m, a
  <2>2. masked = [i \in 1..Len(documents) |-> WithDocument(m, a, MaskDoc(select, a, documents[i]))]
    BY <2>1
  <2>3. /\ DOMAIN rows = 1..Len(documents)
        /\ \A i \in 1..Len(documents) : rows[i] = WithDocument(row, a, documents[i])
    BY <1>1
  <2>4. Mapped(F, rows) = [i \in 1..Len(documents) |-> F[rows[i]]] BY <2>3 DEF Mapped
  <2> HIDE DEF rows, masked
  <2> QED BY <1>1, <1>6, <2>2, <2>3, <2>4
<1>10. Filter(Mapped(F, rows), join.on, p) = Mapped(F, matching)
  <2> HIDE DEF rows, more
  <2> QED BY <1>4, <1>8, FilterKept DEF more
<1>11. matching \in Seq(R) BY <1>8, FilterTyped
<1>12. /\ <<>> \in Seq(R) /\ Mapped(F, <<>>) = <<>>
       /\ Mapped(F, matching) = <<>> <=> matching = <<>>
  <2> DEFINE V == {F[x] : x \in R}
  <2>0. \A x \in R : F[x] \in V OBVIOUS
  <2> HIDE DEF V, matching, F, R
  <2>1. IsMapping(Mapped(F, matching), F, matching, V) BY <1>11, <2>0, MappedTyped
  <2>2. Mapped(F, <<>>) = <<>> BY DEF Mapped
  <2>3. Mapped(F, matching) = <<>> => matching = <<>>
    <3> SUFFICES ASSUME Mapped(F, matching) = <<>> PROVE matching = <<>> OBVIOUS
    <3>1. Len(matching) = 0 BY <2>1 DEF IsMapping
    <3> QED BY <1>11, <3>1
  <2> QED BY <2>2, <2>3, EmptySeq
<1>13. Mapped(F, <<WithDocument(row, a, NoDocument)>>) = <<WithDocument(m, a, NoDocument)>>
  <2>1. MaskDoc(select, a, NoDocument) = NoDocument BY <1>3, MaskDocKeeps DEF MaskKeeps
  <2>2. F[WithDocument(row, a, NoDocument)] = WithDocument(m, a, NoDocument) BY <1>3, <1>6, <2>1
  <2> DEFINE x == WithDocument(row, a, NoDocument)
             y == WithDocument(m, a, NoDocument)
  <2>3. F[x] = y BY <2>2
  <2> HIDE DEF x, y, F
  <2>4. DOMAIN <<x>> = 1..1 /\ \A i \in 1..1 : <<x>>[i] = x OBVIOUS
  <2>5. Mapped(F, <<x>>) = [i \in 1..1 |-> y] BY <2>3, <2>4 DEF Mapped
  <2>6. <<y>> = [i \in 1..1 |-> y] OBVIOUS
  <2>7. Mapped(F, <<x>>) = <<y>> BY <2>5, <2>6
  <2> QED BY <2>7 DEF x, y
<1>14. Joined(row, documents, join, p)
         = IF matching = <<>> /\ join.type = "left" THEN <<WithDocument(row, a, NoDocument)>> ELSE matching
  BY DEF Joined
<1>15. Joined(m, docs, join, p)
         = IF Filter(masked, join.on, p) = <<>> /\ join.type = "left"
           THEN <<WithDocument(m, a, NoDocument)>> ELSE Filter(masked, join.on, p)
  BY DEF Joined
<1> SUFFICES Joined(m, docs, join, p) = Mapped(F, Joined(row, documents, join, p)) OBVIOUS
<1> HIDE DEF m, docs, F, matching, masked, rows, a, p, R
<1> QED BY <1>9, <1>10, <1>12, <1>13, <1>14, <1>15

----------------
\* What rows have for an order, and for columns.
LEMMA WhollyJoined ==
  ASSUME NEW select
  PROVE  /\ IsJoined(select, Aliases(select))
         /\ \A e : NamesOf(e, select, Aliases(select))
BY DEF IsJoined, NamesOf, Aliases

LEMMA KeysKept ==
  ASSUME NEW select, Planned(select), NEW rows \in Seq(RowsFor(Aliases(select)))
  PROVE  Keys(Mapped(Masking(select), rows), select.order, Primary(select))
           = Keys(rows, select.order, Primary(select))
<1> DEFINE A == Aliases(select)
           p == Primary(select)
           order == select.order
           m == Mapped(Masking(select), rows)
<1>1. IsJoined(select, A) /\ \A e : NamesOf(e, select, A) BY WhollyJoined
<1>2. \A row \in RowsFor(A) : Masking(select)[row] = MaskRow(select, row) BY MaskingIs
<1>3. DOMAIN rows = 1..Len(rows) /\ \A i \in 1..Len(rows) : rows[i] \in RowsFor(A) BY LenProperties
<1>4. DOMAIN m = 1..Len(rows) /\ \A i \in 1..Len(rows) : m[i] = MaskRow(select, rows[i])
  BY <1>2, <1>3 DEF Mapped
<1>5. ASSUME NEW k \in DOMAIN order, NEW i \in 1..Len(rows)
      PROVE  Evaluate(order[k].expression, m[i], p) = Evaluate(order[k].expression, rows[i], p)
  BY <1>1, <1>3, <1>4, EvaluateKept DEF Range, Expressions
<1> SUFFICES Keys(m, order, p) = Keys(rows, order, p) OBVIOUS
<1> HIDE DEF m, order, p
<1>6. Keys(m, order, p)
        = [i \in 1..Len(rows) |-> [k \in DOMAIN order |-> Evaluate(order[k].expression, m[i], p)]]
  BY <1>4 DEF Keys
<1>7. Keys(rows, order, p)
        = [i \in 1..Len(rows) |-> [k \in DOMAIN order |-> Evaluate(order[k].expression, rows[i], p)]]
  BY <1>3 DEF Keys
<1>8. \A i \in 1..Len(rows) :
        [k \in DOMAIN order |-> Evaluate(order[k].expression, m[i], p)]
          = [k \in DOMAIN order |-> Evaluate(order[k].expression, rows[i], p)]
  BY <1>5
<1> QED BY <1>6, <1>7, <1>8

LEMMA ColumnKept ==
  ASSUME NEW select, Planned(select), NEW row \in RowsFor(Aliases(select)),
         NEW i \in DOMAIN select.columns
  PROVE  Column(select.columns[i], MaskRow(select, row), Primary(select))
           = Column(select.columns[i], row, Primary(select))
<1> DEFINE A == Aliases(select)
           p == Primary(select)
           m == MaskRow(select, row)
           c == select.columns[i]
<1>1. IsJoined(select, A) /\ \A e : NamesOf(e, select, A) BY WhollyJoined
<1>2. c \in Range(select.columns) BY DEF Range
<1> SUFFICES Column(c, m, p) = Column(c, row, p) OBVIOUS
<1>3. CASE c.op # "wildcard"
  <2>1. c.expression \in Expressions(select) BY <1>2, <1>3 DEF Expressions
  <2>2. Evaluate(c.expression, m, p) = Evaluate(c.expression, row, p)
    <3> HIDE DEF c
    <3> QED BY <1>1, <2>1, EvaluateKept
  <2> HIDE DEF c, m, p
  <2> QED BY <1>3, <2>2 DEF Column
<1>4. CASE c.op = "wildcard"
  <2>1. c \in Wildcards(select) BY <1>2, <1>4 DEF Wildcards
  <2>2. IsListed(c.path) BY <2>1 DEF Planned, IsListed
  <2>3. Owned(c.path, select) \in NeededOf(select)
    <3> DEFINE All == {d.path : d \in Wildcards(select)}
                        \cup UNION {FieldPaths(e) : e \in Expressions(select)}
    <3>1. c.path \in All BY <2>1
    <3> HIDE DEF All, c
    <3>2. Owned(c.path, select) \in {Owned(path, select) : path \in All} BY <3>1
    <3> QED BY <3>2 DEF NeededOf, All
  <2>4. CASE c.path # <<>>
    <3>1. FieldValue(c.path, m, p) = FieldValue(c.path, row, p)
      <4> HIDE DEF c
      <4> QED BY <1>1, <2>3, <2>4, FieldKept
    <3> HIDE DEF c, m, p
    <3> QED BY <1>4, <2>4, <3>1 DEF Column
  <2>5. CASE c.path = <<>>
    <3>1. <<p, <<>>>> \in NeededOf(select) BY <2>3, <2>5 DEF Owned
    <3>2. p \in A BY <1>1 DEF IsJoined
    <3>3. row[p] \in Partners /\ m[p] = MaskDoc(select, p, row[p]) BY <3>2, MaskRowIs
    <3>4. m[p].data = row[p].data
      <4>1. PICK f \in Mask(select, p) : IsListed(f) /\ IsPrefix(f, <<>>) BY <3>1, MaskCovers
      <4>2. IsDocument(row[p]) BY <3>3, DocsAreDocuments
      <4>3. MaskKeeps(MaskDoc(select, p, row[p]), row[p], Mask(select, p)) BY <3>3, MaskDocKeeps
      <4> DEFINE data == row[p].data
                 fields == Mask(select, p)
      <4>4. m[p].data = Masked(data, fields) BY <3>3, <4>3 DEF MaskKeeps
      <4>5. IsListed(<<>>) BY EmptySeq DEF IsListed
      <4>6. \A leaf \in DOMAIN data : IsPrefix(f, leaf)
        <5> SUFFICES ASSUME NEW leaf \in DOMAIN data PROVE IsPrefix(f, leaf) OBVIOUS
        <5>1. IsListed(leaf) BY <4>2 DEF IsDocument, IsData
        <5>2. IsPrefix(<<>>, leaf) BY <4>5, <5>1, PrefixIs
        <5> QED BY <4>1, <4>5, <5>1, <5>2, PrefixOfPrefix
      <4>7. data = [leaf \in DOMAIN data |-> data[leaf]] BY <4>2 DEF IsDocument
      <4> HIDE DEF data, fields
      <4>8. {leaf \in DOMAIN data : \E g \in fields : IsPrefix(g, leaf)} = DOMAIN data
        BY <4>1, <4>6 DEF fields
      <4>9. Masked(data, fields) = data BY <4>7, <4>8 DEF Masked, Restrict
      <4> QED BY <4>4, <4>9 DEF data
    <3> HIDE DEF c, m, p
    <3> QED BY <1>4, <2>5, <3>4 DEF Column
  <2> QED BY <2>4, <2>5
<1> QED BY <1>3, <1>4

LEMMA ProjectedKept ==
  ASSUME NEW select, Planned(select), NEW row \in RowsFor(Aliases(select))
  PROVE  Projected(select.columns, MaskRow(select, row), Primary(select))
           = Projected(select.columns, row, Primary(select))
BY ColumnKept DEF Projected

----------------
(* The sort: where it puts a row and where its keys put it *)

\* A sequence with an element more at a place.
IsInserted(q, p, at, x, S) ==
  /\ q \in Seq(S) /\ Len(q) = Len(p) + 1 /\ q[at] = x
  /\ \A k \in 1..(at - 1) : q[k] = p[k]
  /\ \A k \in (at + 1)..(Len(p) + 1) : q[k] = p[k - 1]

LEMMA Inserted ==
  ASSUME NEW S, NEW p \in Seq(S), NEW x \in S, NEW at \in 1..(Len(p) + 1)
  PROVE  IsInserted(InsertAt(p, at, x), p, at, x, S)
<1> DEFINE n == Len(p)
           before == SubSeq(p, 1, at - 1)
           after == SubSeq(p, at, n)
           one == <<x>>
           first == before \o one
<1>1. n \in Nat /\ \A i \in 1..n : p[i] \in S BY LenProperties
<1>2. at \in Nat /\ at >= 1 /\ at <= n + 1 BY <1>1
<1>3. /\ before \in Seq(S) /\ Len(before) = at - 1 /\ \A k \in 1..(at - 1) : before[k] = p[k]
  <2>1. \A i \in 1..(at - 1) : p[i] \in S BY <1>1, <1>2
  <2>2. 1 \in Int /\ at - 1 \in Int BY <1>2
  <2>3. /\ before \in Seq(S) /\ Len(before) = (IF 1 <= at - 1 THEN (at - 1) - 1 + 1 ELSE 0)
        /\ \A i \in 1..((at - 1) - 1 + 1) : before[i] = p[1 + i - 1]
    BY <2>1, <2>2, SubSeqProperties
  <2> HIDE DEF before
  <2> QED BY <1>2, <2>3
<1>4. /\ after \in Seq(S) /\ Len(after) = n + 1 - at
      /\ \A k \in 1..(n + 1 - at) : after[k] = p[at + k - 1]
  <2>1. \A i \in at..n : p[i] \in S BY <1>1, <1>2
  <2>2. at \in Int /\ n \in Int BY <1>1, <1>2
  <2>3. /\ after \in Seq(S) /\ Len(after) = (IF at <= n THEN n - at + 1 ELSE 0)
        /\ \A i \in 1..(n - at + 1) : after[i] = p[at + i - 1]
    BY <2>1, <2>2, SubSeqProperties
  <2> HIDE DEF after
  <2> QED BY <1>1, <1>2, <2>3
<1>5. one \in Seq(S) /\ Len(one) = 1 /\ one[1] = x OBVIOUS
<1> HIDE DEF n, before, after, one
<1>6. IsConcatenation(first, before, one, S) BY <1>3, <1>5, Concatenated
<1>7. /\ first \in Seq(S) /\ Len(first) = at /\ first[at] = x
      /\ \A k \in 1..(at - 1) : first[k] = p[k]
  <2>1. /\ first \in Seq(S) /\ Len(first) = Len(before) + Len(one)
        /\ \A i \in 1..Len(before) : first[i] = before[i]
        /\ \A i \in 1..Len(one) : first[Len(before) + i] = one[i]
    BY <1>6 DEF IsConcatenation
  <2> HIDE DEF first
  <2>2. 1 \in 1..Len(one) /\ Len(before) + 1 = at /\ Len(before) + Len(one) = at BY <1>2, <1>3, <1>5
  <2>3. first[Len(before) + 1] = one[1] BY <2>1, <2>2
  <2> QED BY <1>3, <1>5, <2>1, <2>2, <2>3
<1> HIDE DEF first
<1> DEFINE q == first \o after
<1>8. IsConcatenation(q, first, after, S) BY <1>4, <1>7, Concatenated
<1> HIDE DEF q
<1>9. /\ q \in Seq(S) /\ Len(q) = at + (n + 1 - at)
      /\ \A i \in 1..at : q[i] = first[i]
      /\ \A i \in 1..(n + 1 - at) : q[at + i] = after[i]
  BY <1>4, <1>7, <1>8 DEF IsConcatenation
<1>10. Len(q) = n + 1 BY <1>1, <1>2, <1>9
<1>11. q[at] = x BY <1>2, <1>7, <1>9
<1>12. \A k \in 1..(at - 1) : q[k] = p[k] BY <1>2, <1>7, <1>9
<1>13. ASSUME NEW k \in (at + 1)..(n + 1) PROVE q[k] = p[k - 1]
  <2> DEFINE i == k - at
  <2>1. i \in 1..(n + 1 - at) /\ at + i = k /\ at + i - 1 = k - 1 BY <1>1, <1>2
  <2> HIDE DEF i
  <2>2. q[at + i] = after[i] /\ after[i] = p[at + i - 1] BY <1>4, <1>9, <2>1
  <2> QED BY <2>1, <2>2
<1>14. InsertAt(p, at, x) = q BY DEF InsertAt, q, first, before, after, one, n
<1> QED BY <1>9, <1>10, <1>11, <1>12, <1>13, <1>14 DEF IsInserted, n

\* An order of rows by their keys, of which one may come first.
Sooner(keys, order, i, j) ==
  \/ Precedes(keys[i], keys[j], order)
  \/ i < j /\ ~Precedes(keys[j], keys[i], order)
StrictWeak(keys, order, n) ==
  \A i, j, k \in 1..n :
    /\ Precedes(keys[i], keys[k], order) =>
         Precedes(keys[i], keys[j], order) \/ Precedes(keys[j], keys[k], order)
    /\ ~(Precedes(keys[i], keys[k], order) /\ Precedes(keys[k], keys[i], order))

\* The first m rows, each once, in their order.
Arranged(p, m, keys, order) ==
  /\ p \in [1..m -> 1..m] /\ \A j \in 1..m : \E k \in 1..m : p[k] = j
  /\ \A k, l \in 1..m : k < l => p[k] # p[l] /\ Sooner(keys, order, p[k], p[l])

\* Where the sort puts row i among those before it.
PlaceOf(keys, order, p, i) ==
  Min({k \in DOMAIN p : Precedes(keys[i], keys[p[k]], order)} \cup {i})

LEMMA PlaceIs ==
  ASSUME NEW keys, NEW order, NEW i \in Nat \ {0}, NEW p, DOMAIN p = 1..(i - 1)
  PROVE  LET at == PlaceOf(keys, order, p, i) IN
         /\ at \in 1..i /\ \A k \in 1..(at - 1) : ~Precedes(keys[i], keys[p[k]], order)
         /\ at # i => Precedes(keys[i], keys[p[at]], order)
<1> DEFINE After == {k \in DOMAIN p : Precedes(keys[i], keys[p[k]], order)}
           T == After \cup {i}
<1>1. T \in SUBSET Nat /\ T # {} OBVIOUS
<1>2. /\ \A k \in T : k = i \/ (k \in 1..(i - 1) /\ Precedes(keys[i], keys[p[k]], order))
      /\ \A k \in 1..(i - 1) : Precedes(keys[i], keys[p[k]], order) => k \in T
      /\ i \in T
  OBVIOUS
<1>3. PlaceOf(keys, order, p, i) = Min(T) BY DEF PlaceOf
<1> HIDE DEF T
<1>4. \E x \in T : \A y \in T : x <= y BY <1>1, LeastNumber
<1> DEFINE at == Min(T)
<1>5. at \in T /\ \A y \in T : at <= y BY <1>4 DEF Min
<1> HIDE DEF at
<1>6. at \in 1..i /\ (at # i => Precedes(keys[i], keys[p[at]], order)) BY <1>1, <1>2, <1>5
<1>7. ASSUME NEW k \in 1..(at - 1) PROVE ~Precedes(keys[i], keys[p[k]], order)
  <2>1. k \in 1..(i - 1) /\ ~(at <= k) BY <1>6
  <2> QED BY <1>2, <1>5, <2>1
<1> QED BY <1>3, <1>6, <1>7 DEF at

LEMMA InsertionArranged ==
  ASSUME NEW keys, NEW order, NEW n \in Nat, StrictWeak(keys, order, n), NEW i \in 1..n,
         NEW p \in Seq(1..n), Len(p) = i - 1, Arranged(p, i - 1, keys, order)
  PROVE  Arranged(InsertAt(p, PlaceOf(keys, order, p, i), i), i, keys, order)
<1> DEFINE at == PlaceOf(keys, order, p, i)
           q == InsertAt(p, at, i)
           P(a, b) == Precedes(keys[a], keys[b], order)
           So(a, b) == Sooner(keys, order, a, b)
<1>1. i \in Nat \ {0} /\ DOMAIN p = 1..(i - 1) /\ i - 1 \in Nat BY LenProperties
<1>2. at \in 1..i /\ (\A k \in 1..(at - 1) : ~P(i, p[k])) /\ (at # i => P(i, p[at]))
  BY <1>1, PlaceIs
<1> HIDE DEF at
<1>3. IsInserted(q, p, at, i, 1..n)
  <2>1. at \in 1..(Len(p) + 1) BY <1>1, <1>2
  <2> QED BY <2>1, Inserted
<1>4. /\ q \in Seq(1..n) /\ Len(q) = i /\ q[at] = i
      /\ \A k \in 1..(at - 1) : q[k] = p[k]
      /\ \A k \in (at + 1)..i : q[k] = p[k - 1]
  <2>1. Len(p) + 1 = i BY <1>1
  <2> HIDE DEF q
  <2> QED BY <1>3, <2>1 DEF IsInserted
<1> HIDE DEF q
<1>5. \A k \in 1..(i - 1) : p[k] \in 1..(i - 1) BY DEF Arranged
<1>a. \A j \in 1..(i - 1) : \E k \in 1..(i - 1) : p[k] = j BY DEF Arranged
<1>b. \A k, l \in 1..(i - 1) : k < l => p[k] # p[l] /\ So(p[k], p[l]) BY DEF Arranged
<1>6. \A a, b, c \in 1..n : (P(a, c) => P(a, b) \/ P(b, c)) /\ ~(P(a, c) /\ P(c, a))
  BY DEF StrictWeak
<1>7. \A a, b \in 1..n : So(a, b) <=> P(a, b) \/ (a < b /\ ~P(b, a)) BY DEF Sooner
<1> HIDE DEF P, So
\* What is where in the longer sequence.
<1>8. \A k \in 1..i : \/ k = at /\ q[k] = i
                      \/ k < at /\ k \in 1..(i - 1) /\ q[k] = p[k]
                      \/ at < k /\ k - 1 \in 1..(i - 1) /\ k - 1 >= at /\ q[k] = p[k - 1]
  BY <1>1, <1>2, <1>4
<1>9. \A k \in 1..i : q[k] \in 1..i
  <2>1. \A k \in 1..(i - 1) : p[k] \in 1..i
    <3>1. \A x \in 1..(i - 1) : x \in 1..i BY <1>1
    <3> QED BY <1>5, <3>1
  <2>2. i \in 1..i BY <1>1
  <2> QED BY <1>8, <2>1, <2>2
<1>10. q \in [1..i -> 1..i]
  <2>1. q = [k \in 1..i |-> q[k]] BY <1>4, LenProperties
  <2> QED BY <1>9, <2>1
<1>11. ASSUME NEW j \in 1..i PROVE \E k \in 1..i : q[k] = j
  <2>1. CASE j = i BY <1>2, <1>4, <2>1
  <2>2. CASE j # i
    <3>1. j \in 1..(i - 1) BY <1>1, <2>2
    <3>2. PICK k \in 1..(i - 1) : p[k] = j BY <1>a, <3>1
    <3>3. CASE k < at BY <1>1, <1>2, <1>4, <3>2, <3>3
    <3>4. CASE ~(k < at)
      <4>1. k + 1 \in (at + 1)..i /\ k + 1 \in 1..i /\ (k + 1) - 1 = k BY <1>1, <1>2, <3>4
      <4>2. q[k + 1] = p[k] BY <1>4, <4>1
      <4> QED BY <3>2, <4>1, <4>2
    <3> QED BY <3>3, <3>4
  <2> QED BY <2>1, <2>2
\* Row i is sooner than what comes after its place, and what is before it is sooner.
<1>12. ASSUME NEW k \in 1..(i - 1), k < at PROVE So(p[k], i) BY <1>1, <1>2, <1>5, <1>7, <1>12
<1>13. ASSUME NEW k \in 1..(i - 1), at <= k PROVE So(i, p[k])
  <2>1. at \in 1..(i - 1) /\ at # i BY <1>1, <1>2, <1>13
  <2>2. P(i, p[at]) BY <1>2, <2>1
  <2>0. p[at] \in 1..(i - 1) /\ p[k] \in 1..(i - 1) BY <1>5, <2>1
  <2>3. p[at] \in 1..n /\ p[k] \in 1..n /\ i \in 1..n BY <1>1, <2>0
  <2>4. CASE k = at BY <1>7, <2>2, <2>3, <2>4
  <2>5. CASE k # at
    <3>1. at < k BY <1>2, <1>13, <2>5
    <3>2. So(p[at], p[k]) BY <1>b, <2>1, <3>1
    <3>3. ~P(p[k], p[at]) BY <1>6, <1>7, <2>3, <3>2
    <3>4. P(i, p[k]) BY <1>6, <2>2, <2>3, <3>3
    <3> QED BY <1>7, <2>3, <3>4
  <2> QED BY <2>4, <2>5
<1>14. ASSUME NEW k \in 1..i, NEW l \in 1..i, k < l PROVE q[k] # q[l] /\ So(q[k], q[l])
  <2>1. CASE k = at
    <3>1. q[k] = i /\ l - 1 \in 1..(i - 1) /\ at <= l - 1 /\ q[l] = p[l - 1]
      BY <1>2, <1>8, <1>14, <2>1
    <3>2. p[l - 1] \in 1..(i - 1) /\ So(i, p[l - 1]) BY <1>5, <1>13, <3>1
    <3> QED BY <1>1, <3>1, <3>2
  <2>2. CASE l = at
    <3>1. q[l] = i /\ k \in 1..(i - 1) /\ k < at /\ q[k] = p[k] BY <1>2, <1>8, <1>14, <2>2
    <3>2. p[k] \in 1..(i - 1) /\ So(p[k], i) BY <1>5, <1>12, <3>1
    <3> QED BY <1>1, <3>1, <3>2
  <2>3. CASE k # at /\ l # at
    <3>1. \E a, b \in 1..(i - 1) : a < b /\ q[k] = p[a] /\ q[l] = p[b]
      <4>1. CASE l < at BY <1>2, <1>8, <1>14, <4>1
      <4>2. CASE at < l /\ k < at
        <5>1. k \in 1..(i - 1) /\ l - 1 \in 1..(i - 1) /\ q[k] = p[k] /\ q[l] = p[l - 1] /\ k < l - 1
          BY <1>2, <1>8, <1>14, <4>2
        <5> QED BY <5>1
      <4>3. CASE at < k
        <5>1. k - 1 \in 1..(i - 1) /\ l - 1 \in 1..(i - 1) /\ q[k] = p[k - 1] /\ q[l] = p[l - 1]
              /\ k - 1 < l - 1
          <6>1. at < l /\ k - 1 < l - 1 BY <1>2, <1>14, <4>3
          <6>2. k - 1 \in 1..(i - 1) /\ q[k] = p[k - 1] BY <1>2, <1>8, <4>3
          <6>3. l - 1 \in 1..(i - 1) /\ q[l] = p[l - 1] BY <1>2, <1>8, <6>1
          <6> QED BY <6>1, <6>2, <6>3
        <5> QED BY <5>1
      <4> QED BY <1>2, <2>3, <4>1, <4>2, <4>3
    <3> QED BY <1>b, <3>1
  <2> QED BY <2>1, <2>2, <2>3
<1>15. Arranged(q, i, keys, order) BY <1>10, <1>11, <1>14 DEF Arranged, So
<1> QED BY <1>15 DEF q, at

\* The sort goes through the rows, and arranges them.
LEMMA SortedArranged ==
  ASSUME NEW keys, NEW order, NEW n \in Nat, Len(keys) = n, StrictWeak(keys, order, n)
  PROVE  Arranged(Sorted(keys, order), n, keys, order)
<1> DEFINE V == Seq(1..n)
           Step(p, i) == InsertAt(p, PlaceOf(keys, order, p, i), i)
           F == [x \in V \X (1..n) |-> IF Len(x[1]) = x[2] - 1 THEN Step(x[1], x[2]) ELSE <<>>]
           Is(f) == f = [i \in 0..n |->
                           IF i = 0 THEN <<>>
                           ELSE LET After == {k \in DOMAIN f[i - 1] :
                                                Precedes(keys[i], keys[f[i - 1][k]], order)}
                                IN InsertAt(f[i - 1], Min(After \cup {i}), i)]
<1>1. <<>> \in V BY EmptySeq
<1>2. ASSUME NEW p \in V, NEW i \in 1..n, Len(p) = i - 1
      PROVE  Step(p, i) \in V /\ Len(Step(p, i)) = i
  <2>1. DOMAIN p = 1..(i - 1) /\ i \in Nat \ {0} BY <1>2, LenProperties
  <2>2. PlaceOf(keys, order, p, i) \in 1..i BY <2>1, PlaceIs
  <2>3. PlaceOf(keys, order, p, i) \in 1..(Len(p) + 1) BY <1>2, <2>1, <2>2
  <2>4. IsInserted(Step(p, i), p, PlaceOf(keys, order, p, i), i, 1..n) BY <2>3, Inserted
  <2> HIDE DEF Step
  <2>5. Step(p, i) \in Seq(1..n) /\ Len(Step(p, i)) = Len(p) + 1 BY <2>4 DEF IsInserted
  <2> QED BY <1>2, <2>1, <2>5
<1>3. F \in [V \X (1..n) -> V]
  <2> HIDE DEF Step
  <2>1. ASSUME NEW x \in V \X (1..n)
        PROVE  (IF Len(x[1]) = x[2] - 1 THEN Step(x[1], x[2]) ELSE <<>>) \in V
    <3>1. x[1] \in V /\ x[2] \in 1..n OBVIOUS
    <3> HIDE DEF V
    <3> QED BY <1>1, <1>2, <3>1
  <2> HIDE DEF V
  <2> QED BY <2>1
<1>4. \A p \in V, i \in 1..n : Len(p) = i - 1 => F[<<p, i>>] = Step(p, i)
  <2> HIDE DEF V, Step
  <2> QED OBVIOUS
<1> HIDE DEF F, V
<1>5. Walk(n, V, <<>>, F) BY <1>1, <1>3, StepsSolved
<1>6. PICK g \in [0..n -> V] : g[0] = <<>> /\ \A i \in 1..n : g[i] = F[<<g[i - 1], i>>]
  BY <1>5 DEF Walk
<1> HIDE DEF Step
<1>7. ASSUME NEW i \in 1..n, Len(g[i - 1]) = i - 1 PROVE g[i] = Step(g[i - 1], i) /\ Len(g[i]) = i
  <2>1. i - 1 \in 0..n OBVIOUS
  <2>2. g[i - 1] \in V BY <1>6, <2>1
  <2>3. F[<<g[i - 1], i>>] = Step(g[i - 1], i) BY <1>4, <1>7, <2>2
  <2>4. g[i] = Step(g[i - 1], i) BY <1>6, <2>3
  <2>5. Len(Step(g[i - 1], i)) = i BY <1>2, <1>7, <2>2
  <2> QED BY <2>4, <2>5
<1>8. \A i \in 0..n : Len(g[i]) = i
  <2> DEFINE T == {i \in 0..n : Len(g[i]) = i}
  <2>1. 0 \in T BY <1>6
  <2>2. \A i \in 1..n : i - 1 \in T => i \in T BY <1>7
  <2>3. \A i \in T : Len(g[i]) = i OBVIOUS
  <2> HIDE DEF T
  <2> QED BY <2>1, <2>2, <2>3, StepsReach
<1>9. \A i \in 1..n : i - 1 \in 0..n /\ g[i] = Step(g[i - 1], i) BY <1>7, <1>8
\* The function of the sort is this one.
<1>10. Is(g) BY <1>6, <1>9 DEF Step, PlaceOf
<1> DEFINE f == CHOOSE f : Is(f)
<1>11. Is(f) BY <1>10
<1>12. Sorted(keys, order) = f[n] BY DEF Sorted
<1> HIDE DEF f
<1>13. /\ f[0] = <<>>
       /\ \A i \in 1..n : f[i] = LET After == {k \in DOMAIN f[i - 1] :
                                              Precedes(keys[i], keys[f[i - 1][k]], order)}
                               IN InsertAt(f[i - 1], Min(After \cup {i}), i)
  <2> DEFINE Value(i) ==
        IF i = 0 THEN <<>>
        ELSE LET After == {k \in DOMAIN f[i - 1] : Precedes(keys[i], keys[f[i - 1][k]], order)}
             IN InsertAt(f[i - 1], Min(After \cup {i}), i)
  <2>1. f = [i \in 0..n |-> Value(i)] BY <1>11
  <2> HIDE DEF Value
  <2>2. \A i \in 0..n : f[i] = Value(i) BY <2>1
  <2>3. 0 \in 0..n /\ \A i \in 1..n : i \in 0..n /\ i # 0 OBVIOUS
  <2> QED BY <2>2, <2>3 DEF Value
<1>14. \A i \in 1..n : f[i] = Step(f[i - 1], i) BY <1>13 DEF Step, PlaceOf
<1> HIDE DEF Is
<1>15. f[n] = g[n]
  <2>1. f[0] = g[0] BY <1>6, <1>13
  <2>2. \A i \in 1..n : f[i - 1] = g[i - 1] => f[i] = g[i] BY <1>9, <1>14
  <2> DEFINE T == {i \in 0..n : f[i] = g[i]}
  <2>3. 0 \in T BY <2>1
  <2>4. \A i \in 1..n : i - 1 \in T => i \in T BY <2>2
  <2>5. \A i \in T : f[i] = g[i] OBVIOUS
  <2> HIDE DEF T
  <2>6. n \in T BY <2>3, <2>4, StepsReach
  <2> QED BY <2>5, <2>6
\* It arranges the first rows, step after step.
<1>16. Arranged(g[n], n, keys, order)
  <2> DEFINE T == {i \in 0..n : Arranged(g[i], i, keys, order)}
  <2>1. 0 \in T
    <3>1. <<>> \in [1..0 -> 1..0] OBVIOUS
    <3>2. Arranged(<<>>, 0, keys, order) BY <3>1 DEF Arranged
    <3> QED BY <1>6, <3>2
  <2>2. ASSUME NEW i \in 1..n, i - 1 \in T PROVE i \in T
    <3>1. i - 1 \in 0..n /\ g[i - 1] \in V /\ Len(g[i - 1]) = i - 1 BY <1>6, <1>8, <1>9
    <3>2. Arranged(g[i - 1], i - 1, keys, order) BY <2>2
    <3>3. g[i - 1] \in Seq(1..n) BY <3>1 DEF V
    <3>4. Arranged(Step(g[i - 1], i), i, keys, order)
      BY <3>1, <3>2, <3>3, InsertionArranged DEF Step
    <3>5. Arranged(g[i], i, keys, order) BY <1>9, <3>4
    <3> QED BY <3>5
  <2>3. \A i \in T : Arranged(g[i], i, keys, order) OBVIOUS
  <2> HIDE DEF T
  <2>4. n \in T BY <2>1, <2>2, StepsReach
  <2> QED BY <2>3, <2>4
<1> QED BY <1>12, <1>15, <1>16

\* What is arranged is ranked: k - 1 rows are sooner than the k-th.
LEMMA ArrangedRanked ==
  ASSUME NEW keys, NEW order, NEW n \in Nat, DOMAIN keys = 1..n, StrictWeak(keys, order, n),
         NEW p, Arranged(p, n, keys, order)
  PROVE  p = Ranked(keys, order)
<1> DEFINE So(i, j) == Sooner(keys, order, i, j)
           Before(i) == {j \in 1..n : So(j, i)}
<1>1. p \in [1..n -> 1..n] BY DEF Arranged
<1>2. \A j \in 1..n : \E k \in 1..n : p[k] = j BY DEF Arranged
<1>3. \A k, l \in 1..n : k < l => p[k] # p[l] /\ So(p[k], p[l]) BY DEF Arranged
<1>4. \A i, j \in 1..n : ~(So(i, j) /\ So(j, i)) BY DEF StrictWeak, Sooner
<1> HIDE DEF So
<1>5. ASSUME NEW k \in 1..n PROVE Cardinality(Before(p[k])) = k - 1
  <2> DEFINE First == 1..(k - 1)
             f == [l \in First |-> p[l]]
  <2>1. \A l \in First : l \in 1..n /\ l < k OBVIOUS
  <2>2. \A l \in First : p[l] \in Before(p[k]) BY <1>1, <1>3, <2>1
  <2>3. \A j \in Before(p[k]) : \E l \in First : p[l] = j
    <3> SUFFICES ASSUME NEW j \in 1..n, So(j, p[k]) PROVE \E l \in First : p[l] = j OBVIOUS
    <3>1. PICK l \in 1..n : p[l] = j BY <1>2
    <3>2. l # k BY <1>1, <1>4, <3>1
    <3>3. ~(k < l) BY <1>1, <1>3, <1>4, <3>1
    <3>4. l \in First BY <3>2, <3>3
    <3> QED BY <3>1, <3>4
  <2>4. f \in Bijection(First, Before(p[k]))
    <3> HIDE DEF Before
    <3>1. \A a, b \in First : p[a] = p[b] => a = b BY <1>3, <2>1
    <3>2. f \in [First -> Before(p[k])] BY <2>2
    <3>3. \A a, b \in First : f[a] = f[b] => a = b BY <3>1
    <3>4. \A j \in Before(p[k]) : \E l \in First : f[l] = j BY <2>3
    <3> HIDE DEF f, First
    <3> QED BY <3>2, <3>3, <3>4 DEF Bijection, Injection, Surjection, IsInjective
  <2>5. IsFiniteSet(First) /\ Cardinality(First) = k - 1 BY FS_Interval
  <2> HIDE DEF f, First, Before
  <2>6. ExistsBijection(First, Before(p[k])) BY <2>4 DEF ExistsBijection
  <2> QED BY <2>5, <2>6, FS_Bijection
<1>6. ASSUME NEW k \in 1..n
      PROVE  p[k] = CHOOSE i \in 1..n : Cardinality(Before(i)) = k - 1
  <2> HIDE DEF Before
  <2>1. p[k] \in 1..n /\ Cardinality(Before(p[k])) = k - 1 BY <1>1, <1>5
  <2>2. ASSUME NEW i \in 1..n, Cardinality(Before(i)) = k - 1 PROVE i = p[k]
    <3>1. PICK l \in 1..n : p[l] = i BY <1>2
    <3>2. Cardinality(Before(i)) = l - 1 BY <1>5, <3>1
    <3>3. l = k BY <2>2, <3>2
    <3> QED BY <3>1, <3>3
  <2> QED BY <2>1, <2>2
<1>7. Ranked(keys, order)
        = [k \in 1..n |-> CHOOSE i \in 1..n : Cardinality(Before(i)) = k - 1]
  BY DEF Ranked, So, Sooner
<1> HIDE DEF Before
<1> QED BY <1>1, <1>6, <1>7

\* Without an order, rows are left in the order they are in.
LEMMA Unordered ==
  ASSUME NEW keys, NEW n \in Nat, DOMAIN keys = 1..n
  PROVE  /\ StrictWeak(keys, <<>>, n) /\ Ranked(keys, <<>>) = [k \in 1..n |-> k]
<1>1. \A a, b : ~Precedes(a, b, <<>>)
  <2>1. DOMAIN <<>> = {} OBVIOUS
  <2> QED BY <2>1 DEF Precedes
<1>2. StrictWeak(keys, <<>>, n) BY <1>1 DEF StrictWeak
<1> DEFINE p == [k \in 1..n |-> k]
<1>3. Arranged(p, n, keys, <<>>)
  <2>1. p \in [1..n -> 1..n] /\ \A j \in 1..n : p[j] = j OBVIOUS
  <2> HIDE DEF p
  <2> QED BY <1>1, <2>1 DEF Arranged, Sooner
<1> HIDE DEF p
<1>4. p = Ranked(keys, <<>>) BY <1>2, <1>3, ArrangedRanked
<1> QED BY <1>2, <1>4 DEF p

----------------
(* The stages of a branch, and the rows its joins mean *)

\* The stages, by number; n joins come third and on.
IsStages(stages, select) ==
  LET n == Len(select.joins)
      last == IF select.where.op = "none" THEN n + 3 ELSE n + 4
  IN /\ n \in Nat /\ DOMAIN select.joins = 1..n /\ Len(stages) = last
     /\ stages[1].kind = "execution"
     /\ stages[2] = [kind |-> "read", source |-> select.from]
     /\ \A i \in 1..n :
          stages[i + 2] = [kind |-> "join", source |-> select.joins[i].source,
                           type |-> select.joins[i].type, on |-> select.joins[i].on]
     /\ select.where.op # "none" =>
          stages[n + 3] = [kind |-> "filter", expression |-> select.where]
     /\ stages[last].kind = "project"

LEMMA StagesAre ==
  ASSUME NEW select, Planned(select)
  PROVE  IsStages(Stages(select), select)
<1> DEFINE n == Len(select.joins)
           x1 == [kind |-> "execution"]
           x2 == [kind |-> "read", source |-> select.from]
           x3 == [kind |-> "filter", expression |-> select.where]
           x4 == [kind |-> "project"]
           J(i) == [kind |-> "join", source |-> select.joins[i].source,
                    type |-> select.joins[i].type, on |-> select.joins[i].on]
           first == <<x1, x2>>
           joins == [i \in DOMAIN select.joins |-> J(i)]
           filter == IF select.where.op = "none" THEN <<>> ELSE <<x3>>
           f == IF select.where.op = "none" THEN 0 ELSE 1
           last == <<x4>>
           All == {x1, x2, x3, x4} \cup {J(i) : i \in DOMAIN select.joins}
<1>1. n \in Nat /\ DOMAIN select.joins = 1..n BY LenProperties DEF Planned
<1>2. joins \in [1..n -> All] BY <1>1
<1>3. x1 \in All /\ x2 \in All /\ x3 \in All /\ x4 \in All OBVIOUS
<1>4. /\ x1.kind = "execution" /\ x4.kind = "project" OBVIOUS
<1>5. \A i \in 1..n : joins[i] = J(i) BY <1>1
<1> HIDE DEF n, x1, x2, x3, x4, J, joins, All
<1>6. joins \in Seq(All) /\ Len(joins) = n BY <1>1, <1>2, FunctionIsSeq
<1>7. first \in Seq(All) /\ Len(first) = 2 /\ first[1] = x1 /\ first[2] = x2 BY <1>3
<1>8. filter \in Seq(All) /\ Len(filter) = f /\ (f = 1 => filter[1] = x3) BY <1>3, EmptySeq
<1>9. last \in Seq(All) /\ Len(last) = 1 /\ last[1] = x4 BY <1>3
<1>10. f \in {0, 1} /\ (f = 0 <=> select.where.op = "none") OBVIOUS
<1> HIDE DEF first, filter, f, last
<1> DEFINE c == first \o joins
           d == c \o filter
           e == d \o last
<1>11. /\ c \in Seq(All) /\ Len(c) = 2 + n /\ c[1] = x1 /\ c[2] = x2
       /\ \A i \in 1..n : c[2 + i] = joins[i]
  <2>1. IsConcatenation(c, first, joins, All) BY <1>6, <1>7, Concatenated
  <2> HIDE DEF c
  <2> QED BY <1>6, <1>7, <2>1 DEF IsConcatenation
<1> HIDE DEF c
<1>12. /\ d \in Seq(All) /\ Len(d) = 2 + n + f
       /\ \A i \in 1..(2 + n) : d[i] = c[i]
       /\ f = 1 => d[2 + n + 1] = x3
  <2>1. IsConcatenation(d, c, filter, All) BY <1>8, <1>11, Concatenated
  <2> HIDE DEF d
  <2> QED BY <1>8, <1>11, <2>1 DEF IsConcatenation
<1> HIDE DEF d
<1>13. /\ Len(e) = 2 + n + f + 1 /\ \A i \in 1..(2 + n + f) : e[i] = d[i]
       /\ e[2 + n + f + 1] = x4
  <2>1. IsConcatenation(e, d, last, All) BY <1>9, <1>12, Concatenated
  <2> HIDE DEF e
  <2> QED BY <1>9, <1>12, <2>1 DEF IsConcatenation
<1> HIDE DEF e
<1>14. Stages(select) = e BY DEF Stages, e, d, c, first, joins, filter, last, x1, x2, x3, x4, J
<1>15. e[1] = x1 /\ e[2] = x2 BY <1>1, <1>10, <1>11, <1>12, <1>13
<1>16. ASSUME NEW i \in 1..n PROVE e[i + 2] = J(i)
  <2>1. 2 + i \in 1..(2 + n) /\ 2 + i \in 1..(2 + n + f) /\ i + 2 = 2 + i BY <1>1, <1>10
  <2> QED BY <1>5, <1>11, <1>12, <1>13, <2>1
<1>17. f = 1 => e[n + 3] = x3
  <2> SUFFICES ASSUME f = 1 PROVE e[n + 3] = x3 OBVIOUS
  <2>1. n + 3 = 2 + n + 1 /\ n + 3 \in 1..(2 + n + f) BY <1>1
  <2> QED BY <1>12, <1>13, <2>1
<1>18. /\ Len(e) = IF select.where.op = "none" THEN n + 3 ELSE n + 4
       /\ e[IF select.where.op = "none" THEN n + 3 ELSE n + 4] = x4
  BY <1>1, <1>10, <1>13
<1>19. select.where.op # "none" => e[n + 3] = x3 BY <1>10, <1>17
<1> QED BY <1>1, <1>4, <1>14, <1>15, <1>16, <1>18, <1>19 DEF IsStages, n, x2, x3, J

----------------
\* What a source held when a stage read it for a row, and the rows of a join (JoinedRows).
KeyOf(select, b, i, rows, k) ==
  <<b, i + 2, IF select.joins[i].source.kind = "subcollection" THEN Len(rows) - k + 1 ELSE 0>>
RightOf(seen, select, b, i, rows, k) ==
  IF KeyOf(select, b, i, rows, k) \in DOMAIN seen THEN seen[KeyOf(select, b, i, rows, k)] ELSE <<>>
Matches(seen, select, b, i, rows, k) ==
  Joined(rows[k], RightOf(seen, select, b, i, rows, k), select.joins[i], Primary(select))
JoinStep(seen, select, b, i, rows) ==
  FlattenSeq([k \in DOMAIN rows |-> Matches(seen, select, b, i, rows, k)])

\* The rows after each join (all, in PassingRows).
IsJoins(all, seen, select, b) ==
  all = [i \in 0..Len(select.joins) |->
           IF i = 0 THEN RowsOf(seen[<<b, 2, 0>>], Primary(select))
           ELSE JoinStep(seen, select, b, i, all[i - 1])]
JoinsOf(seen, select, b) == CHOOSE all : IsJoins(all, seen, select, b)

SeenTyped(seen) == \A key \in DOMAIN seen : seen[key] \in Seq(Docs)

\* The sources that are joined after i joins.
KnownAt(select, i) == {Primary(select)} \cup {select.joins[j].source.alias : j \in 1..i}

LEMMA KnownIs ==
  ASSUME NEW select, Planned(select)
  PROVE  /\ KnownAt(select, 0) = {Primary(select)}
         /\ KnownAt(select, Len(select.joins)) = Aliases(select)
         /\ \A i \in 0..Len(select.joins) : IsJoined(select, KnownAt(select, i))
         /\ \A i \in 1..Len(select.joins) :
              /\ select.joins[i].source.alias \in Aliases(select)
              /\ select.joins[i].on \in Expressions(select)
              /\ KnownAt(select, i) = KnownAt(select, i - 1) \cup {select.joins[i].source.alias}
<1> DEFINE n == Len(select.joins)
<1>1. n \in Nat /\ DOMAIN select.joins = 1..n BY LenProperties DEF Planned
<1> HIDE DEF n
<1>2. KnownAt(select, 0) = {Primary(select)} BY DEF KnownAt
<1>3. KnownAt(select, n) = Aliases(select) BY <1>1 DEF KnownAt, Aliases
<1>4. ASSUME NEW i \in 0..n PROVE IsJoined(select, KnownAt(select, i))
  <2>1. \A j \in 1..i : j \in 1..n BY <1>1
  <2> QED BY <1>1, <2>1 DEF IsJoined, KnownAt, Aliases
<1>5. ASSUME NEW i \in 1..n
      PROVE  /\ select.joins[i].source.alias \in Aliases(select)
             /\ select.joins[i].on \in Expressions(select)
             /\ KnownAt(select, i) = KnownAt(select, i - 1) \cup {select.joins[i].source.alias}
  BY <1>1 DEF Range, Expressions, Aliases, KnownAt
<1> QED BY <1>2, <1>3, <1>4, <1>5 DEF n

LEMMA RightTyped ==
  ASSUME NEW seen, SeenTyped(seen), NEW select, NEW b, NEW i, NEW rows, NEW k
  PROVE  RightOf(seen, select, b, i, rows, k) \in Seq(Docs)
BY EmptySeq DEF RightOf, SeenTyped

\* The rows that a join makes of each row.
LEMMA MatchesTyped ==
  ASSUME NEW seen, SeenTyped(seen), NEW select, NEW b, NEW i, NEW aliases,
         NEW rows \in Seq(RowsFor(aliases))
  PROVE  \A k \in 1..Len(rows) :
           Matches(seen, select, b, i, rows, k)
             \in Seq(RowsFor(aliases \cup {select.joins[i].source.alias}))
<1> SUFFICES ASSUME NEW k \in 1..Len(rows)
             PROVE  Matches(seen, select, b, i, rows, k)
                      \in Seq(RowsFor(aliases \cup {select.joins[i].source.alias}))
  OBVIOUS
<1>1. rows[k] \in RowsFor(aliases) BY LenProperties
<1>2. RightOf(seen, select, b, i, rows, k) \in Seq(Docs) BY RightTyped
<1> QED BY <1>1, <1>2, JoinedTyped DEF Matches

LEMMA JoinStepTyped ==
  ASSUME NEW seen, SeenTyped(seen), NEW select, NEW b, NEW i, NEW aliases,
         NEW rows \in Seq(RowsFor(aliases))
  PROVE  JoinStep(seen, select, b, i, rows) \in Seq(RowsFor(aliases \cup {select.joins[i].source.alias}))
<1> DEFINE R == RowsFor(aliases \cup {select.joins[i].source.alias})
           t == [k \in DOMAIN rows |-> Matches(seen, select, b, i, rows, k)]
<1>1. DOMAIN rows = 1..Len(rows) /\ Len(rows) \in Nat BY LenProperties
<1>2. \A k \in 1..Len(rows) : Matches(seen, select, b, i, rows, k) \in Seq(R) BY MatchesTyped
<1> HIDE DEF R
<1>3. t \in [1..Len(rows) -> Seq(R)] BY <1>1, <1>2
<1> HIDE DEF t
<1>4. t \in Seq(Seq(R)) BY <1>1, <1>3, FunctionIsSeq
<1>5. FlattenSeq(t) \in Seq(R) BY <1>4, FlattenTyped
<1> QED BY <1>5 DEF JoinStep, t, R

\* The same of rows of any sources.
LEMMA JoinStepInSpace ==
  ASSUME NEW seen, SeenTyped(seen), NEW select, NEW b, NEW i,
         select.joins[i].source.alias \in Aliases(select), NEW rows \in Seq(RowSpace(select))
  PROVE  JoinStep(seen, select, b, i, rows) \in Seq(RowSpace(select))
<1> DEFINE R == RowSpace(select)
           t == [k \in DOMAIN rows |-> Matches(seen, select, b, i, rows, k)]
<1>1. DOMAIN rows = 1..Len(rows) /\ Len(rows) \in Nat /\ \A k \in 1..Len(rows) : rows[k] \in R
  BY LenProperties
<1>2. ASSUME NEW k \in 1..Len(rows) PROVE Matches(seen, select, b, i, rows, k) \in Seq(R)
  <2>1. PICK aliases \in SUBSET Aliases(select) : rows[k] \in RowsFor(aliases) BY <1>1 DEF RowSpace
  <2>2. RightOf(seen, select, b, i, rows, k) \in Seq(Docs) BY RightTyped
  <2> DEFINE more == aliases \cup {select.joins[i].source.alias}
  <2>3. Matches(seen, select, b, i, rows, k) \in Seq(RowsFor(more)) BY <2>1, <2>2, JoinedTyped DEF Matches
  <2>4. more \in SUBSET Aliases(select) BY <2>1
  <2> HIDE DEF more
  <2>5. RowsFor(more) \subseteq R BY <2>4, MaskingIs
  <2> HIDE DEF R
  <2> QED BY <2>3, <2>5, SeqMonotonic
<1> HIDE DEF R
<1>3. t \in [1..Len(rows) -> Seq(R)] BY <1>1, <1>2
<1> HIDE DEF t
<1>4. t \in Seq(Seq(R)) BY <1>1, <1>3, FunctionIsSeq
<1>5. FlattenSeq(t) \in Seq(R) BY <1>4, FlattenTyped
<1> QED BY <1>5 DEF JoinStep, t, R

\* The rows after each join, once the first source was read.
IsJoined0(seen, select, b) ==
  LET all == JoinsOf(seen, select, b) IN
  /\ IsJoins(all, seen, select, b)
  /\ all[0] = RowsOf(seen[<<b, 2, 0>>], Primary(select))
  /\ \A i \in 1..Len(select.joins) : all[i] = JoinStep(seen, select, b, i, all[i - 1])
  /\ \A i \in 0..Len(select.joins) : all[i] \in Seq(RowsFor(KnownAt(select, i)))

LEMMA JoinsSolved ==
  ASSUME NEW seen, SeenTyped(seen), NEW select, Planned(select), NEW b, <<b, 2, 0>> \in DOMAIN seen
  PROVE  IsJoined0(seen, select, b)
<1> DEFINE n == Len(select.joins)
           p == Primary(select)
           V == Seq(RowSpace(select))
           base == RowsOf(seen[<<b, 2, 0>>], p)
           Step(rows, i) == JoinStep(seen, select, b, i, rows)
           F == [x \in V \X (1..n) |-> Step(x[1], x[2])]
<1>1. n \in Nat BY LenProperties DEF Planned
<1>2. base \in Seq(RowsFor({p}))
  <2>1. seen[<<b, 2, 0>>] \in Seq(Docs) BY DEF SeenTyped
  <2>2. p \in Aliases(select) BY DEF Aliases
  <2> HIDE DEF p
  <2> QED BY <2>1, <2>2, RowsOfTyped
<1>3. base \in V
  <2>1. {p} \in SUBSET Aliases(select) BY DEF Aliases
  <2>2. RowsFor({p}) \subseteq RowSpace(select) BY <2>1, MaskingIs
  <2> HIDE DEF base, p
  <2> QED BY <1>2, <2>2, SeqMonotonic
<1>4. \A rows \in V : \A i \in 1..n : Step(rows, i) \in V BY KnownIs, JoinStepInSpace
<1> HIDE DEF V, base, p, Step, n
<1>5. F \in [V \X (1..n) -> V] BY <1>4
<1>6. \A rows \in V : \A i \in 1..n : F[<<rows, i>>] = Step(rows, i) OBVIOUS
<1> HIDE DEF F
<1>7. Walk(n, V, base, F) BY <1>1, <1>3, <1>5, StepsSolved
<1>8. PICK g \in [0..n -> V] : g[0] = base /\ \A i \in 1..n : g[i] = F[<<g[i - 1], i>>]
  BY <1>7 DEF Walk
<1>9. \A i \in 1..n : g[i] = Step(g[i - 1], i)
  <2> SUFFICES ASSUME NEW i \in 1..n PROVE g[i] = Step(g[i - 1], i) OBVIOUS
  <2>1. i - 1 \in 0..n /\ g[i - 1] \in V BY <1>1, <1>8
  <2> QED BY <1>6, <1>8, <2>1
<1> DEFINE Value(f, i) == IF i = 0 THEN base ELSE Step(f[i - 1], i)
<1>10. g = [i \in 0..n |-> Value(g, i)]
  <2>1. \A i \in 0..n : g[i] = Value(g, i) BY <1>1, <1>8, <1>9
  <2>2. g = [i \in 0..n |-> g[i]] BY <1>8
  <2> HIDE DEF Value
  <2> QED BY <2>1, <2>2
<1>11. \A f : IsJoins(f, seen, select, b) <=> f = [i \in 0..n |-> Value(f, i)]
  BY DEF IsJoins, n, base, Step, p
<1> DEFINE all == JoinsOf(seen, select, b)
<1>12. IsJoins(all, seen, select, b) BY <1>10, <1>11 DEF JoinsOf
<1> HIDE DEF all
<1>13. \A i \in 0..n : all[i] = Value(all, i)
  <2>1. all = [i \in 0..n |-> Value(all, i)] BY <1>11, <1>12
  <2> HIDE DEF Value
  <2> QED BY <2>1
<1>14. all[0] = base /\ \A i \in 1..n : all[i] = Step(all[i - 1], i) BY <1>1, <1>13
<1>15. \A i \in 0..n : all[i] \in Seq(RowsFor(KnownAt(select, i)))
  <2> DEFINE Good(i) == all[i] \in Seq(RowsFor(KnownAt(select, i)))
             T == {i \in 0..n : Good(i)}
  <2>1. Good(0) BY <1>2, <1>14, KnownIs DEF p
  <2>2. ASSUME NEW i \in 1..n, Good(i - 1) PROVE Good(i)
    <3>1. JoinStep(seen, select, b, i, all[i - 1])
            \in Seq(RowsFor(KnownAt(select, i - 1) \cup {select.joins[i].source.alias}))
      BY <2>2, JoinStepTyped
    <3>2. KnownAt(select, i) = KnownAt(select, i - 1) \cup {select.joins[i].source.alias}
      BY KnownIs DEF n
    <3> QED BY <1>14, <3>1, <3>2 DEF Step
  <2> HIDE DEF Good
  <2>3. 0 \in T BY <1>1, <2>1
  <2>4. \A i \in 1..n : i - 1 \in T => i \in T BY <1>1, <2>2
  <2>5. \A i \in T : Good(i) OBVIOUS
  <2> HIDE DEF T
  <2>6. \A i \in 0..n : i \in T BY <1>1, <2>3, <2>4, StepsReach
  <2> QED BY <2>5, <2>6 DEF Good
<1> QED BY <1>12, <1>14, <1>15 DEF IsJoined0, all, base, Step, p, n

\* What is read later is not noticed by the joins before: i joins look at the stages
\* up to i + 2 of their branch.
LEMMA JoinsStable ==
  ASSUME NEW seen, NEW more, SeenTyped(seen), SeenTyped(more), NEW select, Planned(select), NEW b,
         <<b, 2, 0>> \in DOMAIN seen, NEW m \in 0..Len(select.joins),
         \A x \in 2..(m + 2) : \A y :
           /\ <<b, x, y>> \in DOMAIN more <=> <<b, x, y>> \in DOMAIN seen
           /\ <<b, x, y>> \in DOMAIN seen => more[<<b, x, y>>] = seen[<<b, x, y>>]
  PROVE  \A i \in 0..m : JoinsOf(more, select, b)[i] = JoinsOf(seen, select, b)[i]
<1> DEFINE f == JoinsOf(more, select, b)
           g == JoinsOf(seen, select, b)
           n == Len(select.joins)
<1>1. n \in Nat BY LenProperties DEF Planned
<1>2. 2 \in 2..(m + 2) BY <1>1
<1>3. <<b, 2, 0>> \in DOMAIN more /\ more[<<b, 2, 0>>] = seen[<<b, 2, 0>>] BY <1>2
<1>4. IsJoined0(seen, select, b) /\ IsJoined0(more, select, b) BY <1>3, JoinsSolved
<1>5. f[0] = g[0] BY <1>3, <1>4 DEF IsJoined0
<1>6. ASSUME NEW i \in 1..m, f[i - 1] = g[i - 1] PROVE f[i] = g[i]
  <2>1. f[i] = JoinStep(more, select, b, i, f[i - 1]) /\ g[i] = JoinStep(seen, select, b, i, g[i - 1])
    BY <1>1, <1>4 DEF IsJoined0
  <2> DEFINE rows == g[i - 1]
  <2>2. i + 2 \in 2..(m + 2) BY <1>1
  <2> HIDE DEF rows, f, g
  <2>3. ASSUME NEW k PROVE Matches(more, select, b, i, rows, k) = Matches(seen, select, b, i, rows, k)
    <3> DEFINE y == IF select.joins[i].source.kind = "subcollection" THEN Len(rows) - k + 1 ELSE 0
    <3>1. KeyOf(select, b, i, rows, k) = <<b, i + 2, y>> BY DEF KeyOf
    <3> HIDE DEF y
    <3>2. /\ <<b, i + 2, y>> \in DOMAIN more <=> <<b, i + 2, y>> \in DOMAIN seen
          /\ <<b, i + 2, y>> \in DOMAIN seen => more[<<b, i + 2, y>>] = seen[<<b, i + 2, y>>]
      BY <2>2
    <3>3. RightOf(more, select, b, i, rows, k) = RightOf(seen, select, b, i, rows, k)
      BY <3>1, <3>2 DEF RightOf
    <3> QED BY <3>3 DEF Matches
  <2>4. [k \in DOMAIN rows |-> Matches(more, select, b, i, rows, k)]
          = [k \in DOMAIN rows |-> Matches(seen, select, b, i, rows, k)]
    BY <2>3
  <2>5. JoinStep(more, select, b, i, rows) = JoinStep(seen, select, b, i, rows) BY <2>4 DEF JoinStep
  <2> QED BY <1>6, <2>1, <2>5 DEF rows
<1> DEFINE T == {i \in 0..m : f[i] = g[i]}
<1>7. 0 \in T BY <1>1, <1>5
<1>8. \A i \in 1..m : i - 1 \in T => i \in T BY <1>1, <1>6
<1>9. \A i \in T : f[i] = g[i] OBVIOUS
<1>10. m \in Nat BY <1>1
<1> HIDE DEF T, f, g
<1>11. \A i \in 0..m : i \in T BY <1>7, <1>8, <1>10, StepsReach
<1> QED BY <1>9, <1>11 DEF f, g

----------------
(* The end of a branch: limits, the order and the columns *)

\* How many of n rows a limit leaves.
Left(n, limit) == IF limit = NoLimit \/ n < limit THEN n ELSE limit
IsLimited(l, s, limit, S) ==
  /\ l \in Seq(S) /\ Len(l) = Left(Len(s), limit) /\ DOMAIN l = 1..Left(Len(s), limit)
  /\ Left(Len(s), limit) \in 0..Len(s) /\ Len(s) \in Nat
  /\ \A i \in 1..Left(Len(s), limit) : l[i] = s[i]

LEMMA LimitedIs ==
  ASSUME NEW S, NEW s \in Seq(S), NEW limit \in Nat
  PROVE  IsLimited(Limited(s, limit), s, limit, S)
<1> DEFINE n == Len(s)
           T == {limit, n}
           l == Limited(s, limit)
           m == Left(n, limit)
<1>1. n \in Nat /\ DOMAIN s = 1..n /\ \A i \in 1..n : s[i] \in S BY LenProperties
<1>2. m \in 0..n BY <1>1 DEF Left
<1>3. CASE limit = NoLimit
  <2>1. l = s /\ m = n BY <1>3 DEF Limited, Left
  <2> HIDE DEF l, m, n
  <2>2. /\ l \in Seq(S) /\ Len(l) = m /\ DOMAIN l = 1..m /\ \A i \in 1..m : l[i] = s[i]
    BY <1>1, <2>1 DEF n
  <2> QED BY <1>1, <1>2, <2>2 DEF IsLimited, l, m, n
<1>4. CASE limit # NoLimit
  <2>1. \E x \in T : \A y \in T : x <= y
    <3>1. T \in SUBSET Nat /\ T # {} BY <1>1
    <3> HIDE DEF T
    <3> QED BY <3>1, LeastNumber
  <2>2. Min(T) \in T /\ \A y \in T : Min(T) <= y
    <3> HIDE DEF T
    <3> QED BY <2>1 DEF Min
  <2>3. limit \in T /\ n \in T /\ \A y \in T : y = limit \/ y = n OBVIOUS
  <2> DEFINE min == Min(T)
  <2>3a. (min = limit \/ min = n) /\ min <= limit /\ min <= n BY <2>2, <2>3
  <2>4. min = m
    <3> HIDE DEF min, n
    <3>1. m = (IF n < limit THEN n ELSE limit) BY <1>4 DEF Left
    <3> HIDE DEF m
    <3> QED BY <1>1, <2>3a, <3>1
  <2>5. l = SubSeq(s, 1, m) BY <1>4, <2>4 DEF Limited
  <2> HIDE DEF l, m, n, T, min
  <2>6. \A i \in 1..m : s[i] \in S BY <1>1, <1>2
  <2>7. 1 \in Int /\ m \in Int BY <1>1, <1>2
  <2>8. /\ l \in Seq(S) /\ Len(l) = (IF 1 <= m THEN m - 1 + 1 ELSE 0)
        /\ \A i \in 1..(m - 1 + 1) : l[i] = s[1 + i - 1]
    BY <2>5, <2>6, <2>7, SubSeqProperties
  <2>9. Len(l) = m /\ (\A i \in 1..m : l[i] = s[i]) BY <1>2, <2>7, <2>8
  <2>10. DOMAIN l = 1..m BY <2>8, <2>9, LenProperties
  <2> QED BY <1>1, <1>2, <2>8, <2>9, <2>10 DEF IsLimited, l, m, n
<1> QED BY <1>3, <1>4

\* What rows mean in the end, when they are all of a branch (Meant).
MeantFrom(select, rows) ==
  LET ranked == Ranked(Keys(rows, select.order, Primary(select)), select.order)
      limited == Limited(ranked, select.limit)
  IN [k \in DOMAIN limited |-> Projected(select.columns, rows[limited[k]], Primary(select))]
EndOf(select, rows) ==
  LET sorted == Limited(SortRows(rows, select.order, Primary(select)), select.limit)
  IN [i \in DOMAIN sorted |-> Projected(select.columns, sorted[i], Primary(select))]

\* The rows of a source as they are read: up to the limit that is pushed down.
Read(select, rows) == Mapped(Masking(select), Limited(rows, ReadLimit(select, Primary(select))))
RankedKeys(select, rows) == StrictWeak(Keys(rows, select.order, Primary(select)), select.order, Len(rows))

\* A value for each row.
OutSpace(select) ==
  {Projected(select.columns, row, Primary(select)) : row \in RowsFor(Aliases(select))}

LEMMA KeysCounted ==
  ASSUME NEW S, NEW rows \in Seq(S), NEW order, NEW primary
  PROVE  /\ DOMAIN Keys(rows, order, primary) = 1..Len(rows) /\ Len(rows) \in Nat
         /\ Len(Keys(rows, order, primary)) = Len(rows)
BY LenProperties DEF Keys

\* The insertions of sortRows leave each row where its keys rank it, and rows that nothing
\* tells apart in the order they came, if their keys are ordered at all.
THEOREM SortRowsIs ==
  ASSUME NEW S, NEW rows \in Seq(S), NEW order, NEW primary,
         StrictWeak(Keys(rows, order, primary), order, Len(rows))
  PROVE  LET places == Ranked(Keys(rows, order, primary), order) IN
         /\ places \in [1..Len(rows) -> 1..Len(rows)]
         /\ SortRows(rows, order, primary) = [k \in 1..Len(rows) |-> rows[places[k]]]
<1> DEFINE keys == Keys(rows, order, primary)
           n == Len(rows)
           places == Sorted(keys, order)
<1>1. DOMAIN keys = 1..n /\ n \in Nat /\ Len(keys) = n BY KeysCounted
<1>2. SortRows(rows, order, primary) = [k \in DOMAIN places |-> rows[places[k]]] BY DEF SortRows
<1>3. StrictWeak(keys, order, n) OBVIOUS
<1> SUFFICES /\ Ranked(keys, order) \in [1..n -> 1..n]
             /\ SortRows(rows, order, primary) = [k \in 1..n |-> rows[Ranked(keys, order)[k]]]
  OBVIOUS
<1> HIDE DEF keys, n
<1>4. Arranged(places, n, keys, order) BY <1>1, <1>3, SortedArranged
<1>5. places = Ranked(keys, order) BY <1>1, <1>3, <1>4, ArrangedRanked
<1> HIDE DEF places
<1>6. places \in [1..n -> 1..n] BY <1>4 DEF Arranged
<1> QED BY <1>2, <1>5, <1>6

\* The end of a branch (runSelectRows) gives what its rows mean, although not all of them
\* were read, nor all of their fields (sourceReadLimitFor, sourceProjectionStateFor).
THEOREM EndMeans ==
  ASSUME NEW select, Planned(select), NEW rows \in Seq(RowsFor(Aliases(select))),
         RankedKeys(select, rows)
  PROVE  EndOf(select, Read(select, rows)) = MeantFrom(select, rows)
         /\ MeantFrom(select, rows) \in Seq(OutSpace(select))
<1> DEFINE A == Aliases(select)
           p == Primary(select)
           F == Masking(select)
           R == RowsFor(A)
           limit == select.limit
           order == select.order
           n == Len(rows)
           m == Left(n, limit)
           keys == Keys(rows, order, p)
           ranked == Ranked(keys, order)
           limited == Limited(ranked, limit)
           Out(row) == Projected(select.columns, row, p)
<1>1. limit \in Nat BY DEF Planned
<1>2. DOMAIN keys = 1..n /\ n \in Nat /\ Len(keys) = n BY KeysCounted
<1>3. \A i \in 1..n : rows[i] \in R BY LenProperties
<1>4. ranked \in [1..n -> 1..n] BY SortRowsIs DEF RankedKeys
<1>5. \A row \in R : F[row] = MaskRow(select, row) /\ Out(F[row]) = Out(row)
  <2>1. \A row \in R : F[row] = MaskRow(select, row) BY MaskingIs
  <2>2. \A row \in R : Out(MaskRow(select, row)) = Out(row) BY ProjectedKept
  <2> HIDE DEF F, R, Out
  <2> QED BY <2>1, <2>2
<1>6. \A row \in R : Out(row) \in OutSpace(select) BY DEF OutSpace
<1>7. \A x \in R : F[x] \in MaskedSpace(select)
  <2>1. A \in SUBSET Aliases(select) OBVIOUS
  <2>2. R \subseteq RowSpace(select) /\ F \in [RowSpace(select) -> MaskedSpace(select)]
    BY <2>1, MaskingIs
  <2> HIDE DEF R, F
  <2> QED BY <2>2
<1>8. MeantFrom(select, rows) = [k \in DOMAIN limited |-> Out(rows[limited[k]])] BY DEF MeantFrom
<1>9. /\ DOMAIN limited = 1..m /\ m \in 0..n /\ \A k \in 1..m : limited[k] = ranked[k]
  <2> HIDE DEF ranked, n, m
  <2>1. ranked \in Seq(1..n) /\ Len(ranked) = n BY <1>2, <1>4, FunctionIsSeq
  <2>2. IsLimited(limited, ranked, limit, 1..n) BY <1>1, <2>1, LimitedIs
  <2> HIDE DEF limited
  <2> QED BY <2>1, <2>2 DEF IsLimited, m
<1> HIDE DEF A, p, F, R, limit, order, n, m, keys, ranked, limited, Out
<1>10. MeantFrom(select, rows) = [k \in 1..m |-> Out(rows[ranked[k]])] BY <1>8, <1>9
<1>11. MeantFrom(select, rows) \in Seq(OutSpace(select))
  <2> DEFINE f == [k \in 1..m |-> Out(rows[ranked[k]])]
  <2>1. \A k \in 1..m : ranked[k] \in 1..n BY <1>2, <1>4, <1>9
  <2>2. f \in [1..m -> OutSpace(select)] BY <1>3, <1>6, <2>1
  <2> HIDE DEF f
  <2>3. m \in Nat BY <1>2, <1>9
  <2>4. f \in Seq(OutSpace(select)) BY <2>2, <2>3, FunctionIsSeq
  <2> QED BY <1>10, <2>4 DEF f
<1>12. CASE ReadLimit(select, p) = NoLimit
  <2> DEFINE held == Mapped(F, rows)
             sorted == SortRows(held, order, p)
  <2>1. Read(select, rows) = held BY <1>12 DEF Limited, Read, F, p
  <2>2. Keys(held, order, p) = keys BY KeysKept DEF keys, order, p, F
  <2>3. IsMapping(held, F, rows, MaskedSpace(select))
    <3>1. rows \in Seq(R) BY DEF R, A
    <3> QED BY <1>7, <3>1, MappedTyped
  <2>4. held \in Seq(MaskedSpace(select)) /\ Len(held) = n /\ \A i \in 1..n : held[i] = F[rows[i]]
    <3> HIDE DEF held
    <3> QED BY <2>3 DEF IsMapping, n
  <2> HIDE DEF held
  <2>5. StrictWeak(Keys(held, order, p), order, Len(held))
    BY <2>2, <2>4 DEF RankedKeys, keys, order, p, n
  <2>6. sorted = [k \in 1..Len(held) |-> held[Ranked(Keys(held, order, p), order)[k]]]
    <3> HIDE DEF sorted
    <3>1. SortRows(held, order, p) = [k \in 1..Len(held) |-> held[Ranked(Keys(held, order, p), order)[k]]]
      BY <2>4, <2>5, SortRowsIs
    <3> QED BY <3>1 DEF sorted
  <2>7. sorted = [k \in 1..n |-> held[ranked[k]]] BY <2>2, <2>4, <2>6 DEF ranked
  <2> HIDE DEF sorted
  <2>8. \A k \in 1..n : ranked[k] \in 1..n BY <1>4
  <2>9. sorted \in [1..n -> MaskedSpace(select)] BY <1>3, <1>7, <2>4, <2>7, <2>8
  <2>10. sorted \in Seq(MaskedSpace(select)) /\ Len(sorted) = n BY <1>2, <2>9, FunctionIsSeq
  <2> DEFINE cut == Limited(sorted, limit)
  <2>11. IsLimited(cut, sorted, limit, MaskedSpace(select)) BY <1>1, <2>10, LimitedIs
  <2>12. EndOf(select, held) = [i \in DOMAIN cut |-> Out(cut[i])]
    BY DEF EndOf, Out, p, order, limit, sorted
  <2> HIDE DEF cut
  <2>13. DOMAIN cut = 1..m /\ \A i \in 1..m : cut[i] = sorted[i] BY <2>10, <2>11 DEF IsLimited, m
  <2>14. ASSUME NEW i \in 1..m PROVE Out(cut[i]) = Out(rows[ranked[i]])
    <3>1. i \in 1..n BY <1>2, <1>9
    <3>2. ranked[i] \in 1..n BY <2>8, <3>1
    <3>3. cut[i] = F[rows[ranked[i]]] BY <2>4, <2>7, <2>13, <3>1, <3>2
    <3>4. rows[ranked[i]] \in R BY <1>3, <3>2
    <3> QED BY <1>5, <3>3, <3>4
  <2>15. EndOf(select, held) = [i \in 1..m |-> Out(rows[ranked[i]])] BY <2>12, <2>13, <2>14
  <2> QED BY <1>10, <1>11, <2>1, <2>15
<1>13. CASE ReadLimit(select, p) # NoLimit
  <2>1. ReadLimit(select, p) = limit /\ order = <<>> BY <1>13 DEF ReadLimit, limit, order
  <2>2. ranked = [k \in 1..n |-> k] BY <1>2, <2>1, Unordered DEF ranked
  <2> DEFINE some == Limited(rows, limit)
             held == Mapped(F, some)
             sorted == SortRows(held, order, p)
  <2>3. Read(select, rows) = held BY <2>1 DEF Read, F, p
  <2>4. IsLimited(some, rows, limit, R)
    <3>1. rows \in Seq(R) BY DEF R, A
    <3> QED BY <1>1, <3>1, LimitedIs
  <2>5. /\ some \in Seq(R) /\ Len(some) = m /\ \A i \in 1..m : some[i] = rows[i]
    <3> HIDE DEF some
    <3> QED BY <2>4 DEF IsLimited, m, n
  <2> HIDE DEF some
  <2>6. IsMapping(held, F, some, MaskedSpace(select)) BY <1>7, <2>5, MappedTyped
  <2>7. /\ held \in Seq(MaskedSpace(select)) /\ Len(held) = m
        /\ \A i \in 1..m : held[i] = F[some[i]]
    <3> HIDE DEF held
    <3> QED BY <2>5, <2>6 DEF IsMapping
  <2> HIDE DEF held
  <2>8. m \in Nat /\ DOMAIN Keys(held, order, p) = 1..m BY <1>2, <1>9, <2>7, KeysCounted
  <2>9. /\ StrictWeak(Keys(held, order, p), order, Len(held))
        /\ Ranked(Keys(held, order, p), order) = [k \in 1..m |-> k]
    BY <2>1, <2>7, <2>8, Unordered
  <2>10. sorted = [k \in 1..Len(held) |-> held[Ranked(Keys(held, order, p), order)[k]]]
    <3> HIDE DEF sorted
    <3>1. SortRows(held, order, p) = [k \in 1..Len(held) |-> held[Ranked(Keys(held, order, p), order)[k]]]
      BY <2>7, <2>9, SortRowsIs
    <3> QED BY <3>1 DEF sorted
  <2>11. sorted = [k \in 1..m |-> held[k]]
    <3> HIDE DEF sorted
    <3> QED BY <2>7, <2>9, <2>10
  <2> HIDE DEF sorted
  <2>12. sorted \in [1..m -> MaskedSpace(select)] BY <2>7, <2>11, LenProperties
  <2>13. sorted \in Seq(MaskedSpace(select)) /\ Len(sorted) = m BY <2>8, <2>12, FunctionIsSeq
  <2> DEFINE cut == Limited(sorted, limit)
  <2>14. IsLimited(cut, sorted, limit, MaskedSpace(select)) BY <1>1, <2>13, LimitedIs
  <2>15. EndOf(select, held) = [i \in DOMAIN cut |-> Out(cut[i])]
    BY DEF EndOf, Out, p, order, limit, sorted
  <2> HIDE DEF cut
  <2>16. Left(m, limit) = m BY <1>1, <1>2 DEF Left, m
  <2>17. DOMAIN cut = 1..m /\ \A i \in 1..m : cut[i] = sorted[i]
    BY <2>13, <2>14, <2>16 DEF IsLimited
  <2>18. ASSUME NEW i \in 1..m PROVE Out(cut[i]) = Out(rows[ranked[i]])
    <3>1. i \in 1..n /\ ranked[i] = i BY <1>2, <1>9, <2>2
    <3>2. cut[i] = F[rows[i]] BY <2>5, <2>7, <2>11, <2>17
    <3>3. rows[i] \in R BY <1>3, <3>1
    <3> QED BY <1>5, <3>1, <3>2, <3>3
  <2>19. EndOf(select, held) = [i \in 1..m |-> Out(rows[ranked[i]])] BY <2>15, <2>17, <2>18
  <2> QED BY <1>10, <1>11, <2>3, <2>19
<1> QED BY <1>12, <1>13

----------------
(* The documents of a source *)

Kinds == {"collection", "collection_group", "subcollection"}

LEMMA InTyped ==
  ASSUME written \in 0..(Len(DocumentsNow) - 1), NEW below, NEW name
  PROVE  In(below, name) \in Seq(Docs)
<1> DEFINE path == <<below, name>>
           ids == IF path \in DOMAIN Documents THEN Documents[path] ELSE <<>>
           d == [i \in 1..Len(ids) |-> [in |-> path, id |-> ids[i].id, data |-> ids[i].data]]
<1>1. Documents \in Range(DocumentsNow) BY SqlAssumption, LenProperties DEF Documents, Range
<1>2. CASE path \notin DOMAIN Documents
  <2>1. Len(ids) = 0 BY <1>2
  <2> HIDE DEF ids
  <2>2. d = <<>> BY <2>1
  <2> HIDE DEF d
  <2>3. d \in Seq(Docs) BY <2>2, EmptySeq
  <2> QED BY <2>3 DEF In, d, ids
<1>3. CASE path \in DOMAIN Documents
  <2>1. ids = Documents[path] BY <1>3
  <2> HIDE DEF ids
  <2>2. ids \in Seq(Range(ids)) BY <1>1, <1>3, <2>1, SqlAssumption
  <2>3. Len(ids) \in Nat /\ \A i \in 1..Len(ids) : ids[i] \in Range(ids) BY <2>2, LenProperties
  <2>4. Range(ids) \subseteq Contents BY <1>1, <1>3, <2>1 DEF Contents
  <2>5. path \in Places \ {<<>>}
    <3>1. path # <<>> OBVIOUS
    <3> HIDE DEF path
    <3> QED BY <1>1, <1>3, <3>1 DEF Places
  <2> HIDE DEF path
  <2>6. \A i \in 1..Len(ids) : ids[i].id \in {c.id : c \in Contents} /\ ids[i].data \in {c.data : c \in Contents}
    BY <2>3, <2>4
  <2>7. \A i \in 1..Len(ids) : [in |-> path, id |-> ids[i].id, data |-> ids[i].data] \in Docs
    BY <2>5, <2>6 DEF Docs
  <2>8. d \in [1..Len(ids) -> Docs] BY <2>7
  <2> HIDE DEF d
  <2>9. d \in Seq(Docs) BY <2>3, <2>8, FunctionIsSeq
  <2> QED BY <2>9 DEF In, d, ids, path
<1> QED BY <1>2, <1>3

LEMMA SetToSeqTyped ==
  ASSUME NEW S, IsFiniteSet(S)
  PROVE  SetToSeq(S) \in Seq(S)
<1> DEFINE n == Cardinality(S)
<1>1. n \in Nat /\ ExistsBijection(1..n, S) BY FS_CardinalityType
<1>2. PICK f : f \in Bijection(1..n, S) BY <1>1 DEF ExistsBijection
<1>3. f \in [1..n -> S] /\ IsInjective(f) BY <1>2 DEF Bijection, Injection, Surjection, IsInjective
<1> HIDE DEF n
<1>4. SetToSeq(S) \in [1..n -> S] BY <1>3 DEF SetToSeq, n
<1> HIDE DEF SetToSeq
<1> QED BY <1>1, <1>4, FunctionIsSeq

LEMMA HeldTyped ==
  ASSUME written \in 0..(Len(DocumentsNow) - 1), NEW source, source.kind \in Kinds, NEW row
  PROVE  Held(source, row) \in Seq(Docs)
<1>1. \A below, name : In(below, name) \in Seq(Docs) BY InTyped
<1>2. CASE source.kind = "collection_group"
  <2> DEFINE S == {path \in DOMAIN Documents : path[2] = source.name}
             places == SetToSeq(S)
             t == [i \in DOMAIN places |-> In(places[i][1], source.name)]
  <2>1. IsFiniteSet(DOMAIN Documents) BY SqlAssumption, LenProperties DEF Documents, Range
  <2>2. IsFiniteSet(S)
    <3>1. S \in SUBSET DOMAIN Documents OBVIOUS
    <3> HIDE DEF S
    <3> QED BY <2>1, <3>1, FS_Subset
  <2> HIDE DEF S
  <2>3. places \in Seq(S) BY <2>2, SetToSeqTyped
  <2> HIDE DEF places
  <2>4. DOMAIN places = 1..Len(places) /\ Len(places) \in Nat BY <2>3, LenProperties
  <2>5. t \in [1..Len(places) -> Seq(Docs)] BY <1>1, <2>4
  <2> HIDE DEF t
  <2>6. t \in Seq(Seq(Docs)) BY <2>4, <2>5, FunctionIsSeq
  <2>7. FlattenSeq(t) \in Seq(Docs) BY <2>6, FlattenTyped
  <2>8. Held(source, row) = FlattenSeq(t) BY <1>2 DEF Held, t, places, S
  <2> QED BY <2>7, <2>8
<1>3. CASE source.kind # "collection_group" BY <1>1, <1>3 DEF Held, Kinds
<1> QED BY <1>2, <1>3

----------------
(* What the stages make of rows, next to what the rows of a branch mean *)

\* The rows of a branch that its filter leaves (PassingRows), and the rows that are
\* meant before a stage.
PassingOf(seen, select, b) ==
  Filter(JoinsOf(seen, select, b)[Len(select.joins)], select.where, Primary(select))
RowsAt(seen, select, b, at) ==
  IF at <= Len(select.joins) + 3 THEN JoinsOf(seen, select, b)[at - 3] ELSE PassingOf(seen, select, b)

\* A local join, of which some rows are joined.
LeftSound(seen, select, b, i, left, joined) ==
  LET all == JoinsOf(seen, select, b)[i - 1]
      n == Len(all)
  IN \E k \in 0..n :
       /\ left = [j \in 1..(n - k) |-> Masking(select)[all[k + j]]]
       /\ joined = Mapped(Masking(select),
                          FlattenSeq([j \in 1..k |-> Matches(seen, select, b, i, all, j)]))

\* The rows of the joins, as they are typed.
IsRows(rows, select, aliases) ==
  /\ rows \in Seq(RowsFor(aliases)) /\ Len(rows) \in Nat /\ DOMAIN rows = 1..Len(rows)
  /\ \A k \in 1..Len(rows) : rows[k] \in RowsFor(aliases)
  /\ IsMapping(Mapped(Masking(select), rows), Masking(select), rows, MaskedSpace(select))

LEMMA RowsAre ==
  ASSUME NEW select, NEW aliases \in SUBSET Aliases(select), NEW rows \in Seq(RowsFor(aliases))
  PROVE  IsRows(rows, select, aliases)
BY MaskingIs, MappedTyped, LenProperties DEF IsRows

LEMMA PassingTyped ==
  ASSUME NEW seen, SeenTyped(seen), NEW select, Planned(select), NEW b, <<b, 2, 0>> \in DOMAIN seen
  PROVE  /\ JoinsOf(seen, select, b)[Len(select.joins)] \in Seq(RowsFor(Aliases(select)))
         /\ PassingOf(seen, select, b) \in Seq(RowsFor(Aliases(select)))
<1>1. Len(select.joins) \in Nat BY LenProperties DEF Planned
<1>2. JoinsOf(seen, select, b)[Len(select.joins)] \in Seq(RowsFor(Aliases(select)))
  BY <1>1, JoinsSolved, KnownIs DEF IsJoined0
<1> QED BY <1>2, FilterTyped DEF PassingOf

\* With joins or a filter, no limit is pushed down to the first source.
LEMMA ReadWhole ==
  ASSUME NEW select, NEW rows, select.joins # <<>> \/ select.where.op # "none"
  PROVE  Read(select, rows) = Mapped(Masking(select), rows)
BY DEF Read, ReadLimit, Limited

\* The first source is read.
LEMMA FirstIsRead ==
  ASSUME NEW seen, SeenTyped(seen), NEW select, Planned(select), NEW b, <<b, 2, 0>> \in DOMAIN seen
  PROVE  LET p == Primary(select)
             docs == Limited(seen[<<b, 2, 0>>], ReadLimit(select, p))
         IN RowsOf(MaskDocs(select, p, docs), p) = Read(select, JoinsOf(seen, select, b)[0])
<1> DEFINE p == Primary(select)
           all == seen[<<b, 2, 0>>]
           limit == ReadLimit(select, p)
           docs == Limited(all, limit)
           rows == RowsOf(all, p)
           some == Limited(rows, limit)
<1>1. all \in Seq(Docs) BY DEF SeenTyped
<1>2. limit \in Nat BY DEF ReadLimit, NoLimit, Planned
<1>3. p \in Aliases(select) BY DEF Aliases
<1> SUFFICES RowsOf(MaskDocs(select, p, docs), p) = Read(select, JoinsOf(seen, select, b)[0]) OBVIOUS
<1>4. JoinsOf(seen, select, b)[0] = rows BY JoinsSolved DEF IsJoined0
<1>5. Read(select, JoinsOf(seen, select, b)[0]) = Mapped(Masking(select), some) BY <1>4 DEF Read
<1> HIDE DEF p, all, limit, docs, rows, some
<1>6. rows \in Seq(RowsFor({p})) /\ Len(rows) = Len(all) BY <1>1, <1>3, RowsOfTyped DEF rows
<1>7. IsLimited(docs, all, limit, Docs) BY <1>1, <1>2, LimitedIs DEF docs
<1>8. IsLimited(some, rows, limit, RowsFor({p})) BY <1>2, <1>6, LimitedIs DEF some
<1>9. docs \in Seq(Docs) BY <1>7 DEF IsLimited
<1>10. RowsOf(MaskDocs(select, p, docs), p) = Mapped(Masking(select), RowsOf(docs, p))
  BY <1>3, <1>9, RowsOfTyped
<1>11. RowsOf(docs, p) = some
  <2> DEFINE m == Left(Len(all), limit)
  <2>1. /\ DOMAIN docs = 1..m /\ DOMAIN some = 1..m /\ Len(all) \in Nat /\ m \in 0..Len(all)
        /\ \A i \in 1..m : docs[i] = all[i] /\ some[i] = rows[i]
    BY <1>6, <1>7, <1>8 DEF IsLimited
  <2>2. Len(some) = m /\ some \in Seq(RowsFor({p})) BY <1>6, <1>8 DEF IsLimited
  <2> HIDE DEF m
  <2>3. DOMAIN all = 1..Len(all) BY <1>1, LenProperties
  <2>4. \A i \in 1..m : rows[i] = WithDocument(<<>>, p, all[i])
    <3>1. \A i \in 1..m : i \in 1..Len(all) BY <2>1
    <3> HIDE DEF WithDocument
    <3> QED BY <2>3, <3>1 DEF rows, RowsOf
  <2>5. RowsOf(docs, p) = [i \in 1..m |-> some[i]]
    <3> HIDE DEF WithDocument
    <3> QED BY <2>1, <2>4 DEF RowsOf
  <2>6. some = [i \in 1..m |-> some[i]] BY <2>2, LenProperties
  <2> QED BY <2>5, <2>6
<1> QED BY <1>5, <1>10, <1>11

\* A row is joined, with the documents the source had for it.
JoinAt(stage, join) == stage.source = join.source /\ stage.type = join.type /\ stage.on = join.on
RowJoins(seen, select, b, i, stage, k) ==
  LET all == JoinsOf(seen, select, b)[i - 1]
      docs == MaskDocs(select, select.joins[i].source.alias, RightOf(seen, select, b, i, all, k))
  IN Joined(Masking(select)[all[k]], docs, stage, Primary(select))
       = Mapped(Masking(select), Matches(seen, select, b, i, all, k))
LEMMA RowIsJoined ==
  ASSUME NEW seen, SeenTyped(seen), NEW select, Planned(select), NEW b, <<b, 2, 0>> \in DOMAIN seen,
         NEW i \in 1..Len(select.joins), NamesOf(select.joins[i].on, select, KnownAt(select, i)),
         NEW stage, JoinAt(stage, select.joins[i])
  PROVE  \A k \in 1..Len(JoinsOf(seen, select, b)[i - 1]) : RowJoins(seen, select, b, i, stage, k)
<1> SUFFICES ASSUME NEW k \in 1..Len(JoinsOf(seen, select, b)[i - 1])
             PROVE  RowJoins(seen, select, b, i, stage, k)
  OBVIOUS
<1> DEFINE all == JoinsOf(seen, select, b)[i - 1]
           join == select.joins[i]
           right == RightOf(seen, select, b, i, all, k)
           docs == MaskDocs(select, join.source.alias, right)
           A == KnownAt(select, i - 1)
           p == Primary(select)
           row == all[k]
<1> SUFFICES Joined(Masking(select)[row], docs, stage, p)
               = Mapped(Masking(select), Matches(seen, select, b, i, all, k))
  BY DEF RowJoins
<1>0. Len(select.joins) \in Nat BY LenProperties DEF Planned
<1>1. i - 1 \in 0..Len(select.joins) BY <1>0
<1>2. all \in Seq(RowsFor(A)) /\ IsJoined(select, A) BY <1>1, JoinsSolved, KnownIs DEF IsJoined0
<1>3. /\ join.source.alias \in Aliases(select) /\ join.on \in Expressions(select)
      /\ NamesOf(join.on, select, A \cup {join.source.alias})
  BY KnownIs
<1>4. right \in Seq(Docs) BY RightTyped
<1>5. Matches(seen, select, b, i, all, k) = Joined(row, right, join, p) BY DEF Matches
<1>6. Joined(Masking(select)[row], docs, stage, p) = Joined(Masking(select)[row], docs, join, p)
  BY DEF Joined, JoinAt
<1>7. row \in RowsFor(A) BY <1>2, LenProperties
<1> HIDE DEF all, join, right, A, p, row
<1>8. Masking(select)[row] = MaskRow(select, row) BY <1>2, <1>7, MaskingIs DEF IsJoined
<1>9. Joined(MaskRow(select, row), docs, join, p) = Mapped(Masking(select), Joined(row, right, join, p))
  BY <1>2, <1>3, <1>4, <1>7, JoinedKept DEF p
<1> QED BY <1>5, <1>6, <1>8, <1>9

----------------
\* A join of a collection, with all the rows at once.
JoinsRows(seen, select, b, i, stage, docs) ==
  LET rows == Read(select, JoinsOf(seen, select, b)[i - 1]) IN
  FlattenSeq([k \in DOMAIN rows |-> Joined(rows[k], docs, stage, Primary(select))])
    = Read(select, JoinsOf(seen, select, b)[i])
LEMMA RowsAreJoined ==
  ASSUME NEW seen, SeenTyped(seen), NEW select, Planned(select), NEW b, <<b, 2, 0>> \in DOMAIN seen,
         NEW i \in 1..Len(select.joins), NamesOf(select.joins[i].on, select, KnownAt(select, i)),
         select.joins[i].source.kind # "subcollection", <<b, i + 2, 0>> \in DOMAIN seen,
         NEW stage, JoinAt(stage, select.joins[i]),
         NEW docs, docs = MaskDocs(select, select.joins[i].source.alias, seen[<<b, i + 2, 0>>])
  PROVE  JoinsRows(seen, select, b, i, stage, docs)
<1> DEFINE all == JoinsOf(seen, select, b)[i - 1]
           next == JoinsOf(seen, select, b)[i]
           A == KnownAt(select, i - 1)
           F == Masking(select)
           rows == Mapped(F, all)
           M(k) == Matches(seen, select, b, i, all, k)
           t == [k \in DOMAIN all |-> M(k)]
           u == [k \in DOMAIN rows |-> Joined(rows[k], docs, stage, Primary(select))]
           R == RowsFor(KnownAt(select, i))
<1>0. Len(select.joins) \in Nat /\ DOMAIN select.joins = 1..Len(select.joins)
  BY LenProperties DEF Planned
<1>1. i - 1 \in 0..Len(select.joins) /\ i \in 0..Len(select.joins) BY <1>0
<1>2. all \in Seq(RowsFor(A)) /\ A \in SUBSET Aliases(select) BY <1>1, JoinsSolved, KnownIs DEF IsJoined0, IsJoined
<1>3. select.joins # <<>>
  <2>1. DOMAIN <<>> = {} OBVIOUS
  <2> QED BY <1>0, <2>1
<1>4. Read(select, all) = rows /\ Read(select, next) = Mapped(F, next) BY <1>3, ReadWhole
<1>5. next = FlattenSeq(t) BY JoinsSolved DEF IsJoined0, JoinStep
<1> SUFFICES FlattenSeq(u) = Mapped(F, next) BY <1>4 DEF JoinsRows
<1>6. \A k \in 1..Len(all) : Joined(F[all[k]], docs, stage, Primary(select)) = Mapped(F, M(k))
  <2> SUFFICES ASSUME NEW k \in 1..Len(all)
               PROVE  Joined(F[all[k]], docs, stage, Primary(select)) = Mapped(F, M(k))
    OBVIOUS
  <2>1. RightOf(seen, select, b, i, all, k) = seen[<<b, i + 2, 0>>] BY DEF RightOf, KeyOf
  <2>2. RowJoins(seen, select, b, i, stage, k) BY RowIsJoined
  <2> QED BY <2>1, <2>2 DEF RowJoins
<1>7. \A k \in 1..Len(all) : M(k) \in Seq(R) BY <1>2, MatchesTyped, KnownIs
<1> HIDE DEF all, next, A, M, R
<1>8. IsRows(all, select, A) BY <1>2, RowsAre
<1>9. /\ Len(all) \in Nat /\ DOMAIN all = 1..Len(all) /\ DOMAIN rows = 1..Len(all)
      /\ \A k \in 1..Len(all) : rows[k] = F[all[k]]
  BY <1>8 DEF IsRows, IsMapping
<1> HIDE DEF rows
<1> DEFINE V == {F[x] : x \in R}
<1>10. t \in [1..Len(all) -> Seq(R)] BY <1>7, <1>9
<1>11. \A k \in 1..Len(all) : u[k] = Mapped(F, M(k)) /\ t[k] = M(k) BY <1>6, <1>9
<1>12. DOMAIN u = 1..Len(all) /\ u = [k \in 1..Len(all) |-> u[k]] BY <1>9
<1> HIDE DEF t, u, F
<1>13. \A k \in 1..Len(all) : Mapped(F, M(k)) \in Seq(V)
  <2>1. \A x \in R : F[x] \in V OBVIOUS
  <2> HIDE DEF V
  <2> QED BY <1>7, <2>1, MappedTyped DEF IsMapping
<1> HIDE DEF V
<1>14. u \in [1..Len(all) -> Seq(V)] BY <1>11, <1>12, <1>13
<1>15. t \in Seq(Seq(R)) /\ Len(t) = Len(all) BY <1>9, <1>10, FunctionIsSeq
<1>16. u \in Seq(Seq(V)) /\ Len(u) = Len(all) BY <1>9, <1>14, FunctionIsSeq
<1>17. MappedEach(u, F, t, R) BY <1>11, <1>15, <1>16 DEF MappedEach, V
<1> QED BY <1>5, <1>17, FlattenMapped

\* A local join begins with no row joined.
LEMMA LeftBegins ==
  ASSUME NEW seen, SeenTyped(seen), NEW select, Planned(select), NEW b, <<b, 2, 0>> \in DOMAIN seen,
         NEW i \in 1..Len(select.joins)
  PROVE  LeftSound(seen, select, b, i, Read(select, JoinsOf(seen, select, b)[i - 1]), <<>>)
<1> DEFINE all == JoinsOf(seen, select, b)[i - 1]
           A == KnownAt(select, i - 1)
           F == Masking(select)
<1>0. Len(select.joins) \in Nat /\ DOMAIN select.joins = 1..Len(select.joins)
  BY LenProperties DEF Planned
<1>1. i - 1 \in 0..Len(select.joins) BY <1>0
<1>2. all \in Seq(RowsFor(A)) /\ A \in SUBSET Aliases(select)
  BY <1>1, JoinsSolved, KnownIs DEF IsJoined0, IsJoined
<1>3. select.joins # <<>>
  <2>1. DOMAIN <<>> = {} OBVIOUS
  <2> QED BY <1>0, <2>1
<1>4. Read(select, all) = Mapped(F, all) BY <1>3, ReadWhole
<1>5. IsRows(all, select, A) BY <1>2, RowsAre
<1> SUFFICES \E k \in 0..Len(all) :
       /\ Mapped(F, all) = [j \in 1..(Len(all) - k) |-> F[all[k + j]]]
       /\ <<>> = Mapped(F, FlattenSeq([j \in 1..k |-> Matches(seen, select, b, i, all, j)]))
  BY <1>4 DEF LeftSound
<1> HIDE DEF all, A, F
<1>6. Len(all) \in Nat /\ DOMAIN all = 1..Len(all) BY <1>5 DEF IsRows
<1>7. Mapped(F, all) = [j \in 1..(Len(all) - 0) |-> F[all[0 + j]]] BY <1>6 DEF Mapped
<1>8. <<>> = Mapped(F, FlattenSeq([j \in 1..0 |-> Matches(seen, select, b, i, all, j)]))
  <2>1. [j \in 1..0 |-> Matches(seen, select, b, i, all, j)] = <<>>
    <3>1. 1..0 = {} OBVIOUS
    <3> QED BY <3>1
  <2>2. Mapped(F, <<>>) = <<>> BY DEF Mapped
  <2> QED BY <2>1, <2>2, FlattenEmpty
<1>9. 0 \in 0..Len(all) BY <1>6
<1> QED BY <1>7, <1>8, <1>9

\* The next row is joined, with the documents the source has for it; it has none when
\* it was not asked.
LEMMA LeftGoes ==
  ASSUME NEW seen, SeenTyped(seen), NEW select, Planned(select), NEW b, <<b, 2, 0>> \in DOMAIN seen,
         NEW i \in 1..Len(select.joins), NamesOf(select.joins[i].on, select, KnownAt(select, i)),
         select.joins[i].source.kind = "subcollection",
         NEW stage, JoinAt(stage, select.joins[i]),
         NEW left, NEW joined, LeftSound(seen, select, b, i, left, joined), left # <<>>,
         NEW docs,
         docs = MaskDocs(select, select.joins[i].source.alias,
                         IF <<b, i + 2, Len(left)>> \in DOMAIN seen
                         THEN seen[<<b, i + 2, Len(left)>>] ELSE <<>>)
  PROVE  LeftSound(seen, select, b, i, Tail(left),
                   joined \o Joined(Head(left), docs, stage, Primary(select)))
<1> DEFINE all == JoinsOf(seen, select, b)[i - 1]
           n == Len(all)
           A == KnownAt(select, i - 1)
           F == Masking(select)
           M(j) == Matches(seen, select, b, i, all, j)
           R == RowsFor(KnownAt(select, i))
           Rest(k) == [j \in 1..(n - k) |-> F[all[k + j]]]
           Each(k) == [j \in 1..k |-> M(j)]
<1>0. Len(select.joins) \in Nat /\ DOMAIN select.joins = 1..Len(select.joins)
  BY LenProperties DEF Planned
<1>1. i - 1 \in 0..Len(select.joins) BY <1>0
<1>2. all \in Seq(RowsFor(A)) /\ A \in SUBSET Aliases(select)
  BY <1>1, JoinsSolved, KnownIs DEF IsJoined0, IsJoined
<1>3. PICK k \in 0..n : left = Rest(k) /\ joined = Mapped(F, FlattenSeq(Each(k))) BY DEF LeftSound
<1>4. \A j \in 1..n : M(j) \in Seq(R)
  <2>1. \A j \in 1..n : M(j) \in Seq(RowsFor(A \cup {select.joins[i].source.alias}))
    BY <1>2, MatchesTyped
  <2> QED BY <2>1, KnownIs
<1> SUFFICES \E l \in 0..n :
       /\ Tail(left) = Rest(l)
       /\ joined \o Joined(Head(left), docs, stage, Primary(select)) = Mapped(F, FlattenSeq(Each(l)))
  BY DEF LeftSound
<1>5. n \in Nat /\ k \in Nat BY <1>2, LenProperties
<1>6. \A j \in 1..n : F[all[j]] \in MaskedSpace(select)
  <2>1. IsRows(all, select, A) BY <1>2, RowsAre
  <2> HIDE DEF all, A
  <2>2. \A j \in 1..Len(all) : Mapped(F, all)[j] = F[all[j]] BY <2>1 DEF IsRows, IsMapping
  <2>3. Mapped(F, all) \in Seq(MaskedSpace(select)) /\ Len(Mapped(F, all)) = Len(all)
    BY <2>1 DEF IsRows, IsMapping
  <2> HIDE DEF F
  <2>4. \A j \in 1..Len(all) : Mapped(F, all)[j] \in MaskedSpace(select) BY <2>3, LenProperties
  <2> QED BY <2>2, <2>4 DEF all
<1>7. left \in Seq(MaskedSpace(select)) /\ Len(left) = n - k /\ DOMAIN left = 1..(n - k)
  <2> HIDE DEF all, n, F
  <2>1. \A j \in 1..(n - k) : k + j \in 1..n BY <1>5
  <2>2. left \in [1..(n - k) -> MaskedSpace(select)] BY <1>3, <1>6, <2>1
  <2>3. n - k \in Nat BY <1>3, <1>5
  <2> QED BY <2>2, <2>3, FunctionIsSeq
<1>8. n - k > 0 BY <1>5, <1>7, EmptySeq
<1>9. k + 1 \in 1..n /\ 1 \in 1..(n - k) BY <1>5, <1>8
<1>10. Head(left) = F[all[k + 1]]
  <2>1. Head(left) = left[1] BY <1>7
  <2> HIDE DEF all, n, F
  <2> QED BY <1>3, <1>9, <2>1
<1>11. Tail(left) = Rest(k + 1)
  <2> DEFINE V == MaskedSpace(select)
  <2>0. left \in Seq(V) /\ left # <<>> BY <1>7
  <2> HIDE DEF all, F, V
  <2>1. Tail(left) = [j \in 1..(Len(left) - 1) |-> left[j + 1]]
    <3> DEFINE tail == Tail(left)
    <3>1. tail \in Seq(V) /\ Len(tail) = Len(left) - 1 /\ \A j \in 1..Len(tail) : tail[j] = left[j + 1]
      BY <2>0, HeadTailProperties
    <3> HIDE DEF tail
    <3>2. DOMAIN tail = 1..Len(tail) /\ tail = [j \in DOMAIN tail |-> tail[j]] BY <3>1, LenProperties
    <3>3. tail = [j \in 1..(Len(left) - 1) |-> left[j + 1]] BY <3>1, <3>2
    <3> QED BY <3>3 DEF tail
  <2>2. n - (k + 1) = n - k - 1 BY <1>5
  <2>3. \A j \in 1..(n - k - 1) : left[j + 1] = F[all[k + 1 + j]]
    <3> SUFFICES ASSUME NEW j \in 1..(n - k - 1) PROVE left[j + 1] = F[all[k + 1 + j]] OBVIOUS
    <3>1. j + 1 \in 1..(n - k) /\ k + (j + 1) = k + 1 + j BY <1>5
    <3> QED BY <1>3, <3>1
  <2> HIDE DEF n
  <2> QED BY <1>7, <2>1, <2>2, <2>3
<1>12. Joined(Head(left), docs, stage, Primary(select)) = Mapped(F, M(k + 1))
  <2>1. n - (k + 1) + 1 = Len(left) BY <1>5, <1>7
  <2>2. KeyOf(select, b, i, all, k + 1) = <<b, i + 2, Len(left)>> BY <2>1 DEF KeyOf
  <2>3. docs = MaskDocs(select, select.joins[i].source.alias, RightOf(seen, select, b, i, all, k + 1))
    BY <2>2 DEF RightOf
  <2>4. RowJoins(seen, select, b, i, stage, k + 1) BY <1>9, RowIsJoined
  <2>5. Joined(F[all[k + 1]], docs, stage, Primary(select)) = Mapped(F, M(k + 1))
    BY <2>3, <2>4 DEF RowJoins
  <2> QED BY <1>10, <2>5
<1> HIDE DEF all, n, F, M, R, A
<1>13. Each(k + 1) = Append(Each(k), M(k + 1)) /\ Each(k) \in Seq(Seq(R)) /\ M(k + 1) \in Seq(R)
  <2>1. M(k + 1) \in Seq(R) /\ \A j \in 1..k : M(j) \in Seq(R)
    <3>1. \A j \in 1..k : j \in 1..n BY <1>5, <1>9
    <3> QED BY <1>4, <1>9, <3>1
  <2> DEFINE S == Seq(R)
  <2> HIDE DEF S
  <2>2. Each(k) \in [1..k -> S] BY <2>1 DEF S
  <2>3. Each(k) \in Seq(S) /\ Len(Each(k)) = k
    <3> DEFINE e == Each(k)
    <3>1. e \in [1..k -> S] BY <2>2
    <3> HIDE DEF e
    <3>2. e \in Seq(S) /\ Len(e) = k BY <1>5, <3>1, FunctionIsSeq
    <3> QED BY <3>2 DEF e
  <2>4. Append(Each(k), M(k + 1)) = [j \in 1..(k + 1) |-> IF j <= k THEN Each(k)[j] ELSE M(k + 1)]
    <3> DEFINE e == Each(k)
               x == M(k + 1)
    <3>1. e \in Seq(S) /\ Len(e) = k /\ x \in S BY <2>1, <2>3 DEF S
    <3> HIDE DEF e, x
    <3>2. Append(e, x) \in Seq(S) /\ Len(Append(e, x)) = k + 1
          /\ \A j \in 1..(k + 1) : Append(e, x)[j] = IF j <= k THEN e[j] ELSE x
      BY <1>5, <3>1
    <3> DEFINE ax == Append(e, x)
    <3> HIDE DEF ax
    <3>3. ax \in Seq(S) /\ Len(ax) = k + 1 /\ \A j \in 1..(k + 1) : ax[j] = IF j <= k THEN e[j] ELSE x
      BY <3>2 DEF ax
    <3>4. DOMAIN ax = 1..(k + 1) /\ ax = [j \in DOMAIN ax |-> ax[j]] BY <3>3, LenProperties
    <3>5. ax = [j \in 1..(k + 1) |-> IF j <= k THEN e[j] ELSE x] BY <3>3, <3>4
    <3> QED BY <3>5 DEF ax, e, x
  <2>5. \A j \in 1..(k + 1) : (IF j <= k THEN Each(k)[j] ELSE M(k + 1)) = M(j) BY <1>5
  <2>6. Append(Each(k), M(k + 1)) = Each(k + 1) BY <2>4, <2>5
  <2> QED BY <2>1, <2>3, <2>6 DEF S
<1> DEFINE e == Each(k)
           f == Each(k + 1)
           x == M(k + 1)
<1>14. f = Append(e, x) /\ e \in Seq(Seq(R)) /\ x \in Seq(R) BY <1>13
<1>15. joined = Mapped(F, FlattenSeq(e)) BY <1>3
<1>16. Joined(Head(left), docs, stage, Primary(select)) = Mapped(F, x) BY <1>12
<1> HIDE DEF e, f, x
<1>17. FlattenSeq(f) = FlattenSeq(e) \o x BY <1>14, FlattenAppend
<1>18. FlattenSeq(e) \in Seq(R) BY <1>14, FlattenTyped
<1>19. Mapped(F, FlattenSeq(e) \o x) = Mapped(F, FlattenSeq(e)) \o Mapped(F, x)
  <2> DEFINE g == FlattenSeq(e)
  <2> HIDE DEF g
  <2>1. g \in Seq(R) BY <1>18 DEF g
  <2>2. Mapped(F, g \o x) = Mapped(F, g) \o Mapped(F, x)
    <3> SUFFICES ASSUME g \in Seq(R), x \in Seq(R) PROVE Mapped(F, g \o x) = Mapped(F, g) \o Mapped(F, x)
      BY <1>14, <2>1
    <3> QED BY ONLY g \in Seq(R), x \in Seq(R), MappedConcatenated
  <2> QED BY <2>2 DEF g
<1>20. joined \o Joined(Head(left), docs, stage, Primary(select)) = Mapped(F, FlattenSeq(f))
  BY <1>15, <1>16, <1>17, <1>19
<1>21. k + 1 \in 0..n BY <1>5, <1>9
<1>22. Mapped(F, FlattenSeq(f)) = Mapped(F, FlattenSeq(Each(k + 1))) BY DEF f
<1> QED BY <1>11, <1>20, <1>21, <1>22

\* A local join ends when no row is left.
LEMMA LeftEnds ==
  ASSUME NEW seen, SeenTyped(seen), NEW select, Planned(select), NEW b, <<b, 2, 0>> \in DOMAIN seen,
         NEW i \in 1..Len(select.joins),
         NEW joined, LeftSound(seen, select, b, i, <<>>, joined)
  PROVE  joined = Read(select, JoinsOf(seen, select, b)[i])
<1> DEFINE all == JoinsOf(seen, select, b)[i - 1]
           n == Len(all)
           F == Masking(select)
<1>0. Len(select.joins) \in Nat /\ DOMAIN select.joins = 1..Len(select.joins)
  BY LenProperties DEF Planned
<1>1. i - 1 \in 0..Len(select.joins) BY <1>0
<1>2. all \in Seq(RowsFor(KnownAt(select, i - 1))) BY <1>1, JoinsSolved DEF IsJoined0
<1>3. PICK k \in 0..n :
        /\ <<>> = [j \in 1..(n - k) |-> F[all[k + j]]]
        /\ joined = Mapped(F, FlattenSeq([j \in 1..k |-> Matches(seen, select, b, i, all, j)]))
  BY DEF LeftSound
<1>4. n \in Nat /\ DOMAIN all = 1..n BY <1>2, LenProperties
<1>5. 1..(n - k) = {}
  <2>1. DOMAIN <<>> = {} OBVIOUS
  <2> QED BY <1>3, <2>1
<1>6. k = n
  <2> HIDE DEF n
  <2>1. n - k \in Nat BY <1>4
  <2>2. n - k = 0 BY <1>5, <2>1
  <2> QED BY <1>4, <2>2
<1>7. JoinsOf(seen, select, b)[i] = FlattenSeq([j \in 1..n |-> Matches(seen, select, b, i, all, j)])
  BY <1>4, JoinsSolved DEF IsJoined0, JoinStep
<1>8. select.joins # <<>>
  <2>1. DOMAIN <<>> = {} OBVIOUS
  <2> QED BY <1>0, <2>1
<1> QED BY <1>3, <1>6, <1>7, <1>8, ReadWhole

----------------
(* Filters, the collecting of documents, the end of a branch *)

LEMMA RowsAreFiltered ==
  ASSUME NEW seen, SeenTyped(seen), NEW select, Planned(select), NEW b, <<b, 2, 0>> \in DOMAIN seen
  PROVE  LET all == JoinsOf(seen, select, b)[Len(select.joins)] IN
         /\ select.where.op = "none" => PassingOf(seen, select, b) = all
         /\ select.where.op # "none" =>
              Filter(Read(select, all), select.where, Primary(select))
                = Read(select, PassingOf(seen, select, b))
<1> DEFINE all == JoinsOf(seen, select, b)[Len(select.joins)]
<1>1. all \in Seq(RowsFor(Aliases(select))) BY PassingTyped
<1>2. PassingOf(seen, select, b) = Filter(all, select.where, Primary(select)) BY DEF PassingOf
<1>3. select.where \in Expressions(select) BY DEF Expressions
<1> HIDE DEF all
<1>4. select.where.op = "none" => PassingOf(seen, select, b) = all BY <1>2 DEF Filter
<1>5. ASSUME select.where.op # "none"
      PROVE  Filter(Read(select, all), select.where, Primary(select)) = Read(select, PassingOf(seen, select, b))
  BY <1>1, <1>2, <1>3, <1>5, FilterKept, WhollyJoined, ReadWhole
<1> QED BY <1>4, <1>5 DEF all

\* What a run collects of the documents that a source had for it.
MaskedDocs(select, a) == {MaskDoc(select, a, d) : d \in Docs}
Answered(select, a, held) == MaskDocs(select, a, Limited(held, ReadLimit(select, a)))
Gathering(select, a, held, docs, todo) ==
  /\ docs \in Seq(MaskedDocs(select, a)) /\ todo \in Seq(MaskedDocs(select, a))
  /\ docs \o todo = Answered(select, a, held)

LEMMA GatheringBegins ==
  ASSUME NEW select, Planned(select), NEW a, NEW held \in Seq(Docs)
  PROVE  LET docs == Limited(held, ReadLimit(select, a)) IN
         Gathering(select, a, held, <<>>,
                   [i \in DOMAIN docs |-> [docs[i] EXCEPT !.data = Masked(@, Mask(select, a))]])
<1> DEFINE limit == ReadLimit(select, a)
           docs == Limited(held, limit)
           all == MaskDocs(select, a, docs)
           V == MaskedDocs(select, a)
<1>1. [i \in DOMAIN docs |-> [docs[i] EXCEPT !.data = Masked(@, Mask(select, a))]] = all
  BY DEF MaskDocs, MaskDoc
<1>2. all = Answered(select, a, held) BY DEF Answered
<1>3. limit \in Nat BY DEF ReadLimit, NoLimit, Planned
<1> HIDE DEF limit
<1>4. IsLimited(docs, held, limit, Docs) BY <1>3, LimitedIs
<1> HIDE DEF docs
<1>5. docs \in Seq(Docs) BY <1>4 DEF IsLimited
<1>6. DOMAIN docs = 1..Len(docs) /\ Len(docs) \in Nat /\ \A i \in 1..Len(docs) : docs[i] \in Docs
  BY <1>5, LenProperties
<1>7. \A d \in Docs : MaskDoc(select, a, d) \in V BY DEF MaskedDocs
<1> HIDE DEF V
<1>8. all \in [1..Len(docs) -> V] BY <1>6, <1>7 DEF MaskDocs
<1> HIDE DEF all
<1>9. all \in Seq(V) BY <1>6, <1>8, FunctionIsSeq
<1>10. <<>> \in Seq(V) /\ <<>> \o all = all BY <1>9, EmptySeq, ConcatEmptySeq
<1> QED BY <1>1, <1>2, <1>9, <1>10 DEF Gathering, limit, docs, V

LEMMA GatheringGoes ==
  ASSUME NEW select, NEW a, NEW held, NEW docs, NEW todo, Gathering(select, a, held, docs, todo),
         todo # <<>>
  PROVE  Gathering(select, a, held, Append(docs, Head(todo)), Tail(todo))
<1> DEFINE V == MaskedDocs(select, a)
           x == Head(todo)
           rest == Tail(todo)
<1>1. docs \in Seq(V) /\ todo \in Seq(V) /\ docs \o todo = Answered(select, a, held) BY DEF Gathering
<1> HIDE DEF V
<1>2. x \in V /\ rest \in Seq(V) /\ Append(docs, x) \in Seq(V) BY <1>1
<1>3. Append(docs, x) \o rest = docs \o todo
  <2>1. Append(docs, x) = docs \o <<x>> BY <1>1, <1>2, AppendIsConcat
  <2>2. <<x>> \in Seq(V) BY <1>2
  <2> DEFINE y == <<x>>
  <2>3. (docs \o y) \o rest = docs \o (y \o rest)
    <3> HIDE DEF y, x, rest
    <3> QED BY <1>1, <1>2, <2>2, ConcatAssociative DEF y
  <2>4. y \o rest = todo
    <3>1. y \o rest \in Seq(V) /\ Len(y \o rest) = Len(todo) BY <1>1, <1>2, <2>2
    <3>2. \A i \in 1..Len(todo) : (y \o rest)[i] = todo[i]
      <4>1. Len(y) = 1 /\ y[1] = x /\ Len(rest) = Len(todo) - 1 /\ x = todo[1] /\ Len(todo) \in Nat
            /\ \A i \in 1..(Len(todo) - 1) : rest[i] = todo[i + 1]
        BY <1>1
      <4>2. IsConcatenation(y \o rest, y, rest, V) BY <1>2, <2>2, Concatenated
      <4> DEFINE c == y \o rest
      <4> HIDE DEF c, y, rest, x
      <4>3. c[1] = y[1] /\ \A i \in 1..Len(rest) : c[1 + i] = rest[i]
        <5>1. 1 \in 1..Len(y) BY <4>1
        <5> QED BY <4>1, <4>2, <5>1 DEF IsConcatenation, c
      <4>4. \A i \in 1..Len(todo) : i = 1 \/ (i - 1 \in 1..Len(rest) /\ 1 + (i - 1) = i /\ i - 1 + 1 = i)
        BY <4>1
      <4>5. \A i \in 1..Len(todo) : c[i] = todo[i]
        <5> SUFFICES ASSUME NEW i \in 1..Len(todo) PROVE c[i] = todo[i] OBVIOUS
        <5>1. CASE i = 1 BY <4>1, <4>3, <5>1
        <5>2. CASE i # 1
          <6> DEFINE j == i - 1
          <6>1. j \in 1..Len(rest) /\ 1 + j = i /\ j + 1 = i /\ j \in 1..(Len(todo) - 1) BY <4>1, <4>4, <5>2
          <6> HIDE DEF j
          <6>2. c[1 + j] = rest[j] /\ rest[j] = todo[j + 1] BY <4>1, <4>3, <6>1
          <6> QED BY <6>1, <6>2
        <5> QED BY <5>1, <5>2
      <4> QED BY <4>5 DEF c
    <3> DEFINE c == y \o rest
    <3> HIDE DEF c, y, x, rest
    <3>3. c \in Seq(V) /\ Len(c) = Len(todo) /\ \A i \in 1..Len(todo) : c[i] = todo[i] BY <3>1, <3>2 DEF c
    <3> QED BY <1>1, <3>3, SeqEqual DEF c
  <2> QED BY <2>1, <2>3, <2>4
<1> QED BY <1>1, <1>2, <1>3 DEF Gathering, V

\* All is collected when nothing is left to come, or the limit is reached.
LEMMA GatheringEnds ==
  ASSUME NEW select, Planned(select), NEW a, NEW held \in Seq(Docs), NEW docs, NEW todo,
         Gathering(select, a, held, docs, todo),
         todo = <<>> \/ Reached(Len(docs), ReadLimit(select, a))
  PROVE  docs = Answered(select, a, held)
<1> DEFINE V == MaskedDocs(select, a)
           limit == ReadLimit(select, a)
           some == Limited(held, limit)
<1>1. docs \in Seq(V) /\ todo \in Seq(V) /\ docs \o todo = MaskDocs(select, a, some)
  BY DEF Gathering, Answered
<1>2. docs \o todo = Answered(select, a, held) BY DEF Gathering
<1>3. limit \in Nat BY DEF ReadLimit, NoLimit, Planned
<1> HIDE DEF V
<1>4. ASSUME todo # <<>> PROVE FALSE
  <2>1. limit # NoLimit /\ Len(docs) >= limit BY <1>4 DEF Reached
  <2> HIDE DEF limit
  <2>2. IsLimited(some, held, limit, Docs) BY <1>3, LimitedIs
  <2> HIDE DEF some
  <2>3. some \in Seq(Docs) /\ Len(some) = Left(Len(held), limit) /\ Len(held) \in Nat BY <2>2 DEF IsLimited
  <2>4. Len(some) <= limit BY <1>3, <2>1, <2>3 DEF Left
  <2>5. Len(MaskDocs(select, a, some)) = Len(some)
    <3>1. DOMAIN some = 1..Len(some) /\ Len(some) \in Nat BY <2>3, LenProperties
    <3>2. MaskDocs(select, a, some) = [i \in 1..Len(some) |-> MaskDoc(select, a, some[i])]
      BY <3>1 DEF MaskDocs
    <3> HIDE DEF MaskDoc
    <3> QED BY <3>1, <3>2
  <2>6. Len(docs \o todo) = Len(docs) + Len(todo) /\ Len(todo) > 0 /\ Len(docs) \in Nat /\ Len(todo) \in Nat
    BY <1>1, <1>4, EmptySeq
  <2> QED BY <1>1, <1>3, <2>1, <2>4, <2>5, <2>6
<1>5. docs \o <<>> = docs BY <1>1, ConcatEmptySeq
<1> QED BY <1>2, <1>4, <1>5

\* A source read without a limit is answered wholly.
LEMMA JoinAnswered ==
  ASSUME NEW select, Planned(select), NEW i \in 1..Len(select.joins), NEW a, NEW held
  PROVE  Answered(select, a, held) = MaskDocs(select, a, held) /\ select.joins # <<>>
<1>0. Len(select.joins) \in Nat /\ DOMAIN select.joins = 1..Len(select.joins)
  BY LenProperties DEF Planned
<1>1. select.joins # <<>>
  <2>1. DOMAIN <<>> = {} OBVIOUS
  <2> QED BY <1>0, <2>1
<1> QED BY <1>1 DEF Answered, ReadLimit, Limited

----------------
(* What is read later changes nothing of what the rows before meant *)

Grown(more, seen, key, held) ==
  /\ SeenTyped(more) /\ DOMAIN more = DOMAIN seen \cup {key} /\ more[key] = held
  /\ \A k \in DOMAIN seen : k # key => more[k] = seen[k]

LEMMA SeenGrows ==
  ASSUME NEW seen, SeenTyped(seen), NEW key, NEW held \in Seq(Docs)
  PROVE  Grown(WithDocument(seen, key, held), seen, key, held)
BY DEF Grown, SeenTyped, WithDocument

LEMMA PassingStable ==
  ASSUME NEW seen, SeenTyped(seen), NEW b, NEW y, NEW z, NEW held, NEW more,
         Grown(more, seen, <<b, y, z>>, held), NEW select, Planned(select), NEW c, c # b,
         <<c, 2, 0>> \in DOMAIN seen
  PROVE  PassingOf(more, select, c) = PassingOf(seen, select, c)
<1> DEFINE n == Len(select.joins)
<1>1. n \in Nat BY LenProperties DEF Planned
<1>2. \A x \in 2..(n + 2) : \A w :
        /\ <<c, x, w>> \in DOMAIN more <=> <<c, x, w>> \in DOMAIN seen
        /\ <<c, x, w>> \in DOMAIN seen => more[<<c, x, w>>] = seen[<<c, x, w>>]
  BY DEF Grown
<1>3. SeenTyped(more) BY DEF Grown
<1>4. n \in 0..n BY <1>1
<1>5. \A i \in 0..n : JoinsOf(more, select, c)[i] = JoinsOf(seen, select, c)[i]
  <2> DEFINE m == n
  <2>1. m \in 0..Len(select.joins) BY <1>4
  <2>2. \A x \in 2..(m + 2) : \A w :
          /\ <<c, x, w>> \in DOMAIN more <=> <<c, x, w>> \in DOMAIN seen
          /\ <<c, x, w>> \in DOMAIN seen => more[<<c, x, w>>] = seen[<<c, x, w>>]
    BY <1>2
  <2> HIDE DEF m
  <2>3. \A i \in 0..m : JoinsOf(more, select, c)[i] = JoinsOf(seen, select, c)[i]
    BY <1>3, <2>1, <2>2, JoinsStable
  <2> QED BY <2>3 DEF m
<1> QED BY <1>4, <1>5 DEF PassingOf

LEMMA JoinsBefore ==
  ASSUME NEW seen, SeenTyped(seen), NEW select, Planned(select), NEW b, <<b, 2, 0>> \in DOMAIN seen,
         NEW i \in 1..Len(select.joins), NEW z, NEW held, NEW more,
         Grown(more, seen, <<b, i + 2, z>>, held)
  PROVE  JoinsOf(more, select, b)[i - 1] = JoinsOf(seen, select, b)[i - 1]
<1> DEFINE n == Len(select.joins)
<1>1. n \in Nat BY LenProperties DEF Planned
<1>2. \A x \in 2..(i - 1 + 2) : \A w :
        /\ <<b, x, w>> \in DOMAIN more <=> <<b, x, w>> \in DOMAIN seen
        /\ <<b, x, w>> \in DOMAIN seen => more[<<b, x, w>>] = seen[<<b, x, w>>]
  BY <1>1 DEF Grown
<1>3. SeenTyped(more) BY DEF Grown
<1>4. i - 1 \in 0..n BY <1>1
<1>5. \A j \in 0..(i - 1) : JoinsOf(more, select, b)[j] = JoinsOf(seen, select, b)[j]
  BY <1>2, <1>3, <1>4, JoinsStable
<1>6. i - 1 \in 0..(i - 1) BY <1>1
<1> QED BY <1>5, <1>6

LEMMA LeftStable ==
  ASSUME NEW seen, SeenTyped(seen), NEW select, Planned(select), NEW b, <<b, 2, 0>> \in DOMAIN seen,
         NEW i \in 1..Len(select.joins), select.joins[i].source.kind = "subcollection",
         NEW left, NEW joined, LeftSound(seen, select, b, i, left, joined), NEW held, NEW more,
         Grown(more, seen, <<b, i + 2, Len(left)>>, held)
  PROVE  LeftSound(more, select, b, i, left, joined)
<1> DEFINE all == JoinsOf(seen, select, b)[i - 1]
           n == Len(all)
           F == Masking(select)
<1>0. Len(select.joins) \in Nat BY LenProperties DEF Planned
<1>1. i - 1 \in 0..Len(select.joins) BY <1>0
<1>2. all \in Seq(RowsFor(KnownAt(select, i - 1))) BY <1>1, JoinsSolved DEF IsJoined0
<1>3. n \in Nat BY <1>2, LenProperties
<1>4. PICK k \in 0..n :
        /\ left = [j \in 1..(n - k) |-> F[all[k + j]]]
        /\ joined = Mapped(F, FlattenSeq([j \in 1..k |-> Matches(seen, select, b, i, all, j)]))
  BY DEF LeftSound
<1>5. JoinsOf(more, select, b)[i - 1] = all BY JoinsBefore
<1> SUFFICES joined = Mapped(F, FlattenSeq([j \in 1..k |-> Matches(more, select, b, i, all, j)]))
  BY <1>4, <1>5 DEF LeftSound
<1> HIDE DEF all, F
<1>6. Len(left) = n - k
  <2> DEFINE V == {F[all[k + j]] : j \in 1..(n - k)}
  <2>1. left \in [1..(n - k) -> V] BY <1>4
  <2> HIDE DEF V
  <2>2. n - k \in Nat BY <1>3
  <2> QED BY <2>1, <2>2, FunctionIsSeq
<1>7. \A j \in 1..k : Matches(more, select, b, i, all, j) = Matches(seen, select, b, i, all, j)
  <2> SUFFICES ASSUME NEW j \in 1..k
               PROVE  Matches(more, select, b, i, all, j) = Matches(seen, select, b, i, all, j)
    OBVIOUS
  <2>1. KeyOf(select, b, i, all, j) = <<b, i + 2, n - j + 1>> BY DEF KeyOf
  <2>2. n - j + 1 # Len(left) BY <1>3, <1>6
  <2>3. KeyOf(select, b, i, all, j) # <<b, i + 2, Len(left)>> BY <2>1, <2>2
  <2>4. RightOf(more, select, b, i, all, j) = RightOf(seen, select, b, i, all, j)
    BY <2>3 DEF RightOf, Grown
  <2> QED BY <2>4 DEF Matches
<1>8. [j \in 1..k |-> Matches(more, select, b, i, all, j)]
        = [j \in 1..k |-> Matches(seen, select, b, i, all, j)]
  BY <1>7
<1> QED BY <1>4, <1>8

----------------
(* Runs: where one is *)

SqlFields == {"name", "pc", "aborted", "elapsed", "reads", "reason", "branch", "at", "rows", "left",
              "joined", "docs", "todo", "outputRows", "seen"}

\* The branch a run is at, its stages and its read budget.
BranchOf(s) == SqlPlans[s.name].branches[s.branch]
StagesOf(s) == Stages(BranchOf(s))
BudgetOf(s) ==
  IF SqlPlans[s.name].readBudget # NoLimit THEN SqlPlans[s.name].readBudget ELSE BranchOf(s).readBudget

SqlSound(s) ==
  /\ s = [f \in SqlFields |-> s[f]]
  /\ s.pc \in {"new", "stages", "joining", "asked", "collecting"} \cup SqlOver
  /\ s.reason \in {"none", "budget", "cancelled", "timeout"}
  /\ s.name \in DOMAIN SqlPlans \cup {NoSql} /\ s.reads \in Nat
  /\ IF s.pc = "new" THEN s = NewSqlRun(s.name) ELSE s.name # NoSql
  /\ s.pc \notin SqlOver \cup {"new"} =>
       /\ s.branch \in 1..Len(SqlPlans[s.name].branches) /\ s.at \in 1..(Len(StagesOf(s)) + 1)
       /\ Stops(s) \/ s.reads < BudgetOf(s)
  /\ s.pc \in {"joining", "asked", "collecting"} => s.at <= Len(StagesOf(s))

SqlPlaced == SqlSound(sql) /\ written \in 0..(Len(DocumentsNow) - 1)

LEMMA StagesCounted ==
  ASSUME NEW select, Planned(select)
  PROVE  Len(Stages(select)) \in Nat
BY StagesAre DEF IsStages

\* The branches of a statement.
Branch(name, b) == SqlPlans[name].branches[b]
LEMMA BranchesPlanned ==
  ASSUME NEW name \in DOMAIN SqlPlans
  PROVE  /\ SqlPlans[name].readBudget \in Nat \ {0} /\ Len(SqlPlans[name].branches) \in Nat
         /\ DOMAIN SqlPlans[name].branches = 1..Len(SqlPlans[name].branches)
         /\ \A b \in DOMAIN SqlPlans[name].branches :
              Planned(Branch(name, b)) /\ Branch(name, b).readBudget \in Nat \ {0}
BY SqlAssumption, LenProperties DEF Branch, Planned

LEMMA BranchCounted ==
  ASSUME SqlSound(sql), sql.pc \notin SqlOver \cup {"new"}
  PROVE  /\ Len(StagesOf(sql)) \in Nat /\ Len(SqlPlan.branches) \in Nat
         /\ sql.branch \in DOMAIN SqlPlan.branches
         /\ Select = BranchOf(sql) /\ SqlStages = StagesOf(sql) /\ ReadBudget = BudgetOf(sql)
<1>1. sql.name \in DOMAIN SqlPlans /\ sql.branch \in 1..Len(SqlPlan.branches)
  BY DEF SqlSound, SqlPlan
<1>2. SqlPlan.branches \in Seq(Range(SqlPlan.branches)) BY <1>1, SqlAssumption DEF SqlPlan
<1>3. Len(SqlPlan.branches) \in Nat /\ sql.branch \in DOMAIN SqlPlan.branches
  BY <1>1, <1>2, LenProperties
<1>4. Planned(Select) BY <1>1, <1>3, SqlAssumption DEF Select, SqlPlan
<1>5. Select = BranchOf(sql) /\ SqlStages = StagesOf(sql) /\ ReadBudget = BudgetOf(sql)
  BY DEF BranchOf, Select, StagesOf, SqlStages, SqlPlan, ReadBudget, BudgetOf
<1>6. Len(SqlStages) \in Nat BY <1>4, StagesCounted DEF SqlStages
<1> QED BY <1>3, <1>5, <1>6

LEMMA SqlIsTyped ==
  ASSUME SqlPlaced
  PROVE  SqlTypeOK
BY DEF SqlPlaced, SqlSound, SqlTypeOK, SqlPlan, SqlStages, Select, ReadBudget, StagesOf, BranchOf, BudgetOf

\* A run that is at a stage goes on: at the stage, at the next one, or to its end.
At(s, t) == t.name = s.name /\ t.branch = s.branch /\ t.at = s.at /\ t.reads = s.reads
LEMMA SqlGoes ==
  ASSUME SqlSound(sql), sql.pc \notin SqlOver \cup {"new"}, NEW t,
         t = [f \in SqlFields |-> t[f]], t.pc \in {"stages", "joining", "asked", "collecting"} \cup SqlOver,
         t.reason \in {"none", "budget", "cancelled", "timeout"},
         t.name = sql.name, t.branch = sql.branch, t.at \in {sql.at, sql.at + 1},
         sql.at <= Len(StagesOf(sql)) \/ t.at = sql.at,
         t.pc \in {"joining", "asked", "collecting"} => t.at = sql.at /\ sql.at <= Len(StagesOf(sql)),
         t.reads \in Nat, t.reads = sql.reads \/ t.reads < BudgetOf(sql) \/ Stops(t),
         Stops(sql) => Stops(t)
  PROVE  SqlSound(t)
<1>1. StagesOf(t) = StagesOf(sql) /\ BudgetOf(t) = BudgetOf(sql) BY DEF StagesOf, BudgetOf, BranchOf
<1>2. Len(StagesOf(sql)) \in Nat BY BranchCounted
<1> QED BY <1>1, <1>2 DEF SqlSound, SqlOver

LEMMA LooksGoes ==
  ASSUME SqlSound(sql), sql.pc \notin SqlOver \cup {"new"}
  PROVE  LET s == Looks(sql) IN
         /\ SqlSound(s) /\ s = [f \in SqlFields |-> s[f]] /\ At(sql, s) /\ s.pc = sql.pc
         /\ s.reason \in {"none", "budget", "cancelled", "timeout"} /\ (Stops(sql) => Stops(s))
         /\ s.outputRows = sql.outputRows
<1>1. sql = [f \in SqlFields |-> sql[f]] BY DEF SqlSound
<1>2. LET s == Looks(sql) IN
      /\ s = [f \in SqlFields |-> s[f]] /\ At(sql, s) /\ s.pc = sql.pc
      /\ s.reason \in {"none", "budget", "cancelled", "timeout"} /\ (Stops(sql) => Stops(s))
      /\ s.outputRows = sql.outputRows
  BY <1>1 DEF Looks, SqlFields, At, Stops, SqlSound
<1>3. sql.reads \in Nat /\ sql.pc \in {"stages", "joining", "asked", "collecting"}
      /\ (sql.pc \in {"joining", "asked", "collecting"} => sql.at <= Len(StagesOf(sql)))
  BY DEF SqlSound
<1> HIDE DEF Looks
<1>4. SqlSound(Looks(sql)) BY <1>2, <1>3, SqlGoes DEF At
<1> QED BY <1>2, <1>4

\* The next stage of a run that has looked, or has not.
LEMMA NextStageKeeps ==
  ASSUME SqlSound(sql), sql.pc \notin SqlOver \cup {"new"}, sql.at <= Len(StagesOf(sql)),
         NEW s \in {sql, Looks(sql)}, NEW rows, NextSqlStage(s, rows)
  PROVE  SqlSound(sql') /\ UNCHANGED written
<1> DEFINE t == [s EXCEPT !.pc = "stages", !.rows = rows, !.at = @ + 1, !.left = <<>>, !.joined = <<>>,
                    !.docs = <<>>, !.todo = <<>>]
<1>1. /\ s = [f \in SqlFields |-> s[f]] /\ At(sql, s)
      /\ s.reason \in {"none", "budget", "cancelled", "timeout"} /\ (Stops(sql) => Stops(s))
  BY LooksGoes DEF SqlSound, At
<1>2. /\ t = [f \in SqlFields |-> t[f]] /\ t.pc = "stages" /\ t.reason = s.reason
      /\ t.name = sql.name /\ t.branch = sql.branch /\ t.at = sql.at + 1 /\ t.reads = sql.reads
  BY <1>1 DEF SqlFields, At
<1>3. sql' = t /\ UNCHANGED written BY DEF NextSqlStage, SqlDoes
<1> HIDE DEF t
<1>4. sql.reads \in Nat BY DEF SqlSound
<1>5. SqlSound(t) BY <1>1, <1>2, <1>4, SqlGoes DEF Stops
<1> QED BY <1>3, <1>5

LEMMA EndBranchKeeps ==
  ASSUME SqlSound(sql), sql.pc = "stages", NEW s \in {sql, Looks(sql)}, EndBranch(s)
  PROVE  SqlSound(sql') /\ UNCHANGED written
<1>0. sql.pc \notin SqlOver \cup {"new"} BY DEF SqlOver
<1>1. /\ s = [f \in SqlFields |-> s[f]] /\ At(sql, s) /\ SqlSound(s) /\ s.pc = "stages"
      /\ s.reason \in {"none", "budget", "cancelled", "timeout"}
  BY <1>0, LooksGoes DEF SqlSound, At
<1>2. PICK rows : sql' = (IF Stops(s) \/ s.branch = Len(SqlPlan.branches)
             THEN [s EXCEPT !.pc = "done", !.outputRows = rows, !.rows = <<>>]
             ELSE [s EXCEPT !.branch = @ + 1, !.at = 1, !.outputRows = rows, !.rows = <<>>])
             /\ UNCHANGED written
  BY DEF EndBranch, SqlDoes
<1>3. CASE Stops(s) \/ s.branch = Len(SqlPlan.branches)
  BY <1>1, <1>2, <1>3 DEF SqlFields, SqlSound, SqlOver
<1>4. CASE ~(Stops(s) \/ s.branch = Len(SqlPlan.branches))
  <2> DEFINE t == [s EXCEPT !.branch = @ + 1, !.at = 1, !.outputRows = rows, !.rows = <<>>]
  <2>1. sql' = t BY <1>2, <1>4
  <2>2. /\ t = [f \in SqlFields |-> t[f]] /\ t.pc = "stages" /\ t.reason = s.reason
        /\ t.name = sql.name /\ t.branch = sql.branch + 1 /\ t.at = 1 /\ t.reads = sql.reads
    BY <1>1 DEF SqlFields, At
  <2> HIDE DEF t
  <2>3. sql.name # NoSql /\ sql.name \in DOMAIN SqlPlans /\ sql.branch \in 1..Len(SqlPlan.branches)
        /\ sql.reads \in Nat
    BY <1>0 DEF SqlSound, SqlPlan
  <2>4. SqlPlan.branches \in Seq(Range(SqlPlan.branches)) BY <2>3, SqlAssumption DEF SqlPlan
  <2>5. t.branch \in 1..Len(SqlPlan.branches) /\ t.branch \in DOMAIN SqlPlan.branches
        /\ sql.branch \in DOMAIN SqlPlan.branches
    BY <1>1, <1>4, <2>2, <2>3, <2>4, LenProperties DEF At
  <2>6. /\ Planned(BranchOf(t))
        /\ BranchOf(t).readBudget = BranchOf(sql).readBudget
    BY <2>2, <2>3, <2>5, SqlAssumption DEF BranchOf, SqlPlan
  <2>7. Len(StagesOf(t)) \in Nat BY <2>6, StagesCounted DEF StagesOf
  <2>8. BudgetOf(t) = BudgetOf(sql) BY <2>2, <2>6 DEF BudgetOf
  <2>9. sql.reads < BudgetOf(sql) BY <1>0, <1>1, <1>4 DEF SqlSound, At, BudgetOf, BranchOf
  <2>10. /\ t.branch \in 1..Len(SqlPlans[t.name].branches) /\ t.at \in 1..(Len(StagesOf(t)) + 1)
         /\ t.reads < BudgetOf(t)
    BY <2>2, <2>5, <2>7, <2>8, <2>9 DEF SqlPlan
  <2>11. t.name \in DOMAIN SqlPlans /\ t.name # NoSql /\ t.reads \in Nat BY <2>2, <2>3
  <2>12. t.reason \in {"none", "budget", "cancelled", "timeout"} BY <1>1, <2>2
  <2>13. SqlSound(t) BY <2>2, <2>10, <2>11, <2>12 DEF SqlSound, SqlOver
  <2> QED BY <1>2, <2>1, <2>13
<1> QED BY <1>3, <1>4

----------------

LEMMA StartSqlKeeps ==
  ASSUME SqlPlaced, StartSql
  PROVE  SqlPlaced'
<1> DEFINE t == [sql EXCEPT !.pc = IF SqlPlan.branches = <<>> THEN "failed" ELSE "stages"]
<1>1. /\ sql.pc = "new" /\ sql.name # NoSql /\ SqlSound(sql) /\ sql.name \in DOMAIN SqlPlans
      /\ sql = NewSqlRun(sql.name)
  BY DEF StartSql, SqlPlaced, SqlSound, SqlOver
<1>2. sql' = t /\ UNCHANGED written BY DEF StartSql, SqlDoes
<1>3. /\ t = [f \in SqlFields |-> t[f]] /\ t.name = sql.name /\ t.reads = 0 /\ t.branch = 1 /\ t.at = 1
      /\ t.reason = "none" /\ t.pc = (IF SqlPlan.branches = <<>> THEN "failed" ELSE "stages")
  BY <1>1 DEF SqlFields, NewSqlRun, SqlSound
<1> HIDE DEF t
<1>4. CASE SqlPlan.branches = <<>> BY <1>1, <1>2, <1>3, <1>4 DEF SqlPlaced, SqlSound, SqlOver
<1>5. CASE SqlPlan.branches # <<>>
  <2>1. SqlPlan.branches \in Seq(Range(SqlPlan.branches)) BY <1>1, SqlAssumption DEF SqlPlan
  <2>2. 1 \in 1..Len(SqlPlan.branches) /\ 1 \in DOMAIN SqlPlan.branches
    BY <1>5, <2>1, EmptySeq, LenProperties
  <2>3. Planned(BranchOf(t)) /\ BudgetOf(t) \in Nat \ {0}
    BY <1>1, <1>3, <2>2, BranchesPlanned DEF Branch, BranchOf, BudgetOf, SqlPlan
  <2>4. Len(StagesOf(t)) \in Nat BY <2>3, StagesCounted DEF StagesOf
  <2> QED BY <1>1, <1>2, <1>3, <1>5, <2>2, <2>3, <2>4 DEF SqlPlaced, SqlSound, SqlOver, SqlPlan
<1> QED BY <1>4, <1>5

LEMMA RunSqlStageKeeps ==
  ASSUME SqlPlaced, RunSqlStage
  PROVE  SqlPlaced'
<1> DEFINE s == Looks(sql)
<1>1. SqlSound(sql) /\ sql.pc = "stages" /\ sql.pc \notin SqlOver \cup {"new"}
  BY DEF SqlPlaced, RunSqlStage, SqlOver
<1>2. SqlStages = StagesOf(sql) /\ Len(StagesOf(sql)) \in Nat /\ sql.at \in Nat
  BY <1>1, BranchCounted DEF SqlSound
<1>3. CASE EndBranch(sql) \/ EndBranch(s) BY <1>1, <1>3, EndBranchKeeps DEF SqlPlaced
<1>4. CASE sql.at <= Len(StagesOf(sql)) /\ \E rows : NextSqlStage(s, rows)
  BY <1>1, <1>4, NextStageKeeps DEF SqlPlaced
<1>5. CASE /\ sql.at <= Len(StagesOf(sql))
           /\ \/ SqlDoes([s EXCEPT !.pc = "joining", !.left = s.rows])
              \/ SqlDoes([s EXCEPT !.pc = "asked"])
  <2>1. /\ s = [f \in SqlFields |-> s[f]] /\ At(sql, s)
        /\ s.reason \in {"none", "budget", "cancelled", "timeout"} /\ (Stops(sql) => Stops(s))
    BY <1>1, LooksGoes
  <2> HIDE DEF s
  <2>2. /\ sql' = [f \in SqlFields |-> sql'[f]] /\ sql'.pc \in {"joining", "asked"}
        /\ sql'.reason = s.reason /\ At(sql, sql') /\ UNCHANGED written
    BY <1>5, <2>1 DEF SqlDoes, SqlFields, At
  <2>3. sql.reads \in Nat BY <1>1 DEF SqlSound
  <2>4. SqlSound(sql') BY <1>1, <1>5, <2>1, <2>2, <2>3, SqlGoes DEF At, Stops
  <2> QED BY <2>2, <2>4 DEF SqlPlaced
<1>6. \/ EndBranch(sql) \/ EndBranch(s)
      \/ /\ ~(sql.at > Len(SqlStages))
         /\ \/ \E rows : NextSqlStage(s, rows)
            \/ SqlDoes([s EXCEPT !.pc = "joining", !.left = s.rows])
            \/ SqlDoes([s EXCEPT !.pc = "asked"])
  <2> HIDE DEF s
  <2>1. CASE sql.at > Len(SqlStages) BY <2>1 DEF RunSqlStage
  <2>2. CASE ~(sql.at > Len(SqlStages)) /\ Stops(s) BY <2>2 DEF RunSqlStage, s
  <2>3. CASE ~(sql.at > Len(SqlStages)) /\ ~Stops(s) BY <2>3 DEF RunSqlStage, s
  <2> QED BY <2>1, <2>2, <2>3
<1> QED BY <1>2, <1>3, <1>4, <1>5, <1>6

LEMMA JoinNextRowKeeps ==
  ASSUME SqlPlaced, JoinNextRow
  PROVE  SqlPlaced'
<1> DEFINE s == Looks(sql)
<1>1. /\ SqlSound(sql) /\ sql.pc = "joining" /\ sql.pc \notin SqlOver \cup {"new"}
      /\ sql.at <= Len(StagesOf(sql)) /\ sql.reads \in Nat
  BY DEF SqlPlaced, JoinNextRow, SqlOver, SqlSound
<1>2. CASE \E r \in {sql, s} : \E rows : NextSqlStage(r, rows)
  BY <1>1, <1>2, NextStageKeeps DEF SqlPlaced
<1>3. CASE \/ \E left, joined : SqlDoes([s EXCEPT !.left = left, !.joined = joined])
           \/ SqlDoes([s EXCEPT !.pc = "asked"])
  <2>1. /\ s = [f \in SqlFields |-> s[f]] /\ At(sql, s) /\ s.pc = "joining"
        /\ s.reason \in {"none", "budget", "cancelled", "timeout"} /\ (Stops(sql) => Stops(s))
    BY <1>1, LooksGoes
  <2> HIDE DEF s
  <2>2. /\ sql' = [f \in SqlFields |-> sql'[f]] /\ sql'.pc \in {"joining", "asked"}
        /\ sql'.reason = s.reason /\ At(sql, sql') /\ UNCHANGED written
    BY <1>3, <2>1 DEF SqlDoes, SqlFields, At
  <2>3. SqlSound(sql') BY <1>1, <2>1, <2>2, SqlGoes DEF At, Stops
  <2> QED BY <2>2, <2>3 DEF SqlPlaced
<1>4. \/ \E r \in {sql, s} : \E rows : NextSqlStage(r, rows)
      \/ \E left, joined : SqlDoes([s EXCEPT !.left = left, !.joined = joined])
      \/ SqlDoes([s EXCEPT !.pc = "asked"])
  BY DEF JoinNextRow
<1> QED BY <1>2, <1>3, <1>4

LEMMA SqlAnswersKeeps ==
  ASSUME SqlPlaced, SqlAnswers
  PROVE  SqlPlaced'
<1>1. /\ SqlSound(sql) /\ sql.pc = "asked" /\ sql.pc \notin SqlOver \cup {"new"}
      /\ sql.at <= Len(StagesOf(sql)) /\ sql.reads \in Nat /\ sql = [f \in SqlFields |-> sql[f]]
      /\ sql.reason \in {"none", "budget", "cancelled", "timeout"}
  BY DEF SqlPlaced, SqlAnswers, SqlOver, SqlSound
<1>2. PICK seen, todo : SqlDoes([sql EXCEPT !.pc = "collecting", !.seen = seen, !.todo = todo])
  BY DEF SqlAnswers
<1>3. /\ sql' = [f \in SqlFields |-> sql'[f]] /\ sql'.pc = "collecting"
      /\ sql'.reason = sql.reason /\ At(sql, sql') /\ UNCHANGED written
  BY <1>1, <1>2 DEF SqlDoes, SqlFields, At
<1>4. SqlSound(sql') BY <1>1, <1>3, SqlGoes DEF At, Stops
<1> QED BY <1>3, <1>4 DEF SqlPlaced

LEMMA SqlReadFailsKeeps ==
  ASSUME SqlPlaced, SqlReadFails
  PROVE  SqlPlaced'
BY DEF SqlPlaced, SqlReadFails, SqlSound, SqlFields, SqlOver

LEMMA CollectKeeps ==
  ASSUME SqlPlaced, Collect
  PROVE  SqlPlaced'
<1> DEFINE s == Looks(sql)
           counted(docs, todo) ==
             [s EXCEPT !.docs = docs, !.todo = todo, !.reads = @ + 1,
                       !.reason = IF s.reads + 1 >= ReadBudget THEN "budget" ELSE @]
<1>1. /\ SqlSound(sql) /\ sql.pc = "collecting" /\ sql.pc \notin SqlOver \cup {"new"}
      /\ sql.at <= Len(StagesOf(sql)) /\ sql.reads \in Nat
  BY DEF SqlPlaced, Collect, SqlOver, SqlSound
<1>2. \A r \in {sql, s} : /\ r = [f \in SqlFields |-> r[f]] /\ At(sql, r) /\ r.pc = "collecting"
                          /\ r.reason \in {"none", "budget", "cancelled", "timeout"}
                          /\ Stops(sql) => Stops(r)
  BY <1>1, LooksGoes DEF SqlSound, At
<1>3. ASSUME NEW r \in {sql, s}, EndRead(r) PROVE SqlPlaced'
  <2>1. CASE \E rows : NextSqlStage(r, rows) BY <1>1, <1>3, <2>1, NextStageKeeps DEF SqlPlaced
  <2>2. CASE \E left, joined : SqlDoes([r EXCEPT !.pc = "joining", !.left = left, !.docs = <<>>,
                                                 !.todo = <<>>, !.joined = joined])
    <3>1. r = [f \in SqlFields |-> r[f]] /\ At(sql, r)
          /\ r.reason \in {"none", "budget", "cancelled", "timeout"} /\ (Stops(sql) => Stops(r))
      BY <1>2, <1>3
    <3> HIDE DEF s
    <3>2. /\ sql' = [f \in SqlFields |-> sql'[f]] /\ sql'.pc = "joining"
          /\ sql'.reason = r.reason /\ At(sql, sql') /\ UNCHANGED written
      BY <2>2, <3>1 DEF SqlDoes, SqlFields, At
    <3>3. SqlSound(sql') BY <1>1, <3>1, <3>2, SqlGoes DEF At, Stops
    <3> QED BY <3>2, <3>3 DEF SqlPlaced
  <2>3. \/ \E rows : NextSqlStage(r, rows)
        \/ \E left, joined : SqlDoes([r EXCEPT !.pc = "joining", !.left = left, !.docs = <<>>,
                                               !.todo = <<>>, !.joined = joined])
    <3> HIDE DEF s
    <3> QED BY <1>3 DEF EndRead
  <2> QED BY <2>1, <2>2, <2>3
<1>4. ASSUME NEW docs, NEW todo, SqlDoes(counted(docs, todo)) PROVE SqlPlaced'
  <2>1. /\ s = [f \in SqlFields |-> s[f]] /\ At(sql, s) /\ s.pc = "collecting"
        /\ s.reason \in {"none", "budget", "cancelled", "timeout"} /\ (Stops(sql) => Stops(s))
    BY <1>2
  <2> HIDE DEF s
  <2>2. /\ sql' = [f \in SqlFields |-> sql'[f]] /\ sql'.pc = "collecting"
        /\ sql'.reason = (IF sql.reads + 1 >= ReadBudget THEN "budget" ELSE s.reason)
        /\ sql'.name = sql.name /\ sql'.branch = sql.branch /\ sql'.at = sql.at
        /\ sql'.reads = sql.reads + 1 /\ UNCHANGED written
    BY <1>4, <2>1 DEF SqlDoes, SqlFields, At
  <2>3. ReadBudget = BudgetOf(sql) /\ BudgetOf(sql) \in Nat
    BY <1>1, BranchCounted, BranchesPlanned DEF SqlSound, SqlPlan, Branch, BudgetOf, BranchOf
  <2>4. /\ Stops(sql) => Stops(sql')
        /\ sql'.reads < BudgetOf(sql) \/ Stops(sql')
    BY <1>1, <2>1, <2>2, <2>3 DEF Stops
  <2>5. SqlSound(sql') BY <1>1, <2>1, <2>2, <2>4, SqlGoes
  <2> QED BY <2>2, <2>5 DEF SqlPlaced
<1>5. \/ \E r \in {sql, s} : EndRead(r)
      \/ \E docs, todo : SqlDoes(counted(docs, todo))
  BY DEF Collect
<1> QED BY <1>3, <1>4, <1>5

\* Cancellations, the clock, and the writes of others.
LEMMA SqlAroundKeeps ==
  ASSUME SqlPlaced, CancelSql \/ SqlTime \/ SqlWritten
  PROVE  SqlPlaced'
<1>0. /\ SqlSound(sql) /\ sql.pc \notin SqlOver \cup {"new"}
      /\ written \in 0..(Len(DocumentsNow) - 1)
  BY DEF SqlPlaced, CancelSql, SqlTime, SqlWritten, SqlOver
<1>1. CASE SqlWritten BY <1>0, <1>1, SqlAssumption, LenProperties DEF SqlWritten, SqlPlaced
<1>2. CASE CancelSql \/ SqlTime
  <2>1. PICK aborted, elapsed :
          SqlDoes([sql EXCEPT !.aborted = aborted, !.elapsed = elapsed])
    <3>1. sql = [f \in SqlFields |-> sql[f]] BY <1>0 DEF SqlSound
    <3>2. CASE CancelSql
      <4>1. SqlDoes([sql EXCEPT !.aborted = TRUE]) BY <3>2 DEF CancelSql
      <4>2. [sql EXCEPT !.aborted = TRUE] = [sql EXCEPT !.aborted = TRUE, !.elapsed = sql.elapsed]
        BY <3>1 DEF SqlFields
      <4> QED BY <4>1, <4>2
    <3>3. CASE SqlTime
      <4>1. SqlDoes([sql EXCEPT !.elapsed = @ + 1]) BY <3>3 DEF SqlTime
      <4>2. [sql EXCEPT !.elapsed = @ + 1]
              = [sql EXCEPT !.aborted = sql.aborted, !.elapsed = sql.elapsed + 1]
        BY <3>1 DEF SqlFields
      <4> QED BY <4>1, <4>2
    <3> QED BY <1>2, <3>2, <3>3
  <2>2. /\ sql' = [f \in SqlFields |-> sql'[f]] /\ sql'.pc = sql.pc
        /\ sql'.reason = sql.reason /\ At(sql, sql') /\ UNCHANGED written
    BY <1>0, <2>1 DEF SqlSound, SqlDoes, SqlFields, At
  <2>3. /\ sql.pc \in {"stages", "joining", "asked", "collecting"} /\ sql.reads \in Nat
        /\ sql.pc \in {"joining", "asked", "collecting"} => sql.at <= Len(StagesOf(sql))
        /\ sql.reason \in {"none", "budget", "cancelled", "timeout"}
    BY <1>0 DEF SqlSound
  <2>4. SqlSound(sql') BY <1>0, <2>2, <2>3, SqlGoes DEF At, Stops
  <2> QED BY <2>2, <2>4, <1>0 DEF SqlPlaced
<1> QED BY <1>1, <1>2

LEMMA LoseSqlKeeps ==
  ASSUME SqlPlaced, LoseSql
  PROVE  SqlPlaced'
BY DEF LoseSql, SqlPlaced, SqlSound, NewSqlRun, SqlFields, SqlOver

----------------
(* Runs: what the rows are, when nothing has stopped one yet *)

\* The conditions of the joins name sources that are joined, in all branches.
NamesTrue(name) ==
  \A b \in DOMAIN SqlPlans[name].branches : \A i \in 1..Len(Branch(name, b).joins) :
    NamesOf(Branch(name, b).joins[i].on, Branch(name, b), KnownAt(Branch(name, b), i))

\* What the first m branches give.
MeantOf(seen, name, c) == MeantFrom(Branch(name, c), PassingOf(seen, Branch(name, c), c))
RankedOf(seen, name, c) == RankedKeys(Branch(name, c), PassingOf(seen, Branch(name, c), c))
OutputsMeant(seen, name, m, output) ==
  /\ \A c \in 1..m : <<c, 2, 0>> \in DOMAIN seen
  /\ (\A c \in 1..m : RankedOf(seen, name, c))
       => output = FlattenSeq([c \in 1..m |-> MeantOf(seen, name, c)])

\* Sources are read in their order.
Unread(s) ==
  /\ \A x \in Nat : x > s.branch => \A y, z : <<x, y, z>> \notin DOMAIN s.seen
  /\ \A y \in Nat : y > s.at => \A z : <<s.branch, y, z>> \notin DOMAIN s.seen
  /\ \A z \in Nat : \/ s.pc = "stages" \/ z < Len(s.left)
                    \/ s.pc # "collecting" /\ z = Len(s.left)
       => <<s.branch, s.at, z>> \notin DOMAIN s.seen

\* A run that is reading a source.
SourceAt(select, at) == IF at = 2 THEN select.from ELSE select.joins[at - 2].source
IsLocal(select, at) == at # 2 /\ select.joins[at - 2].source.kind = "subcollection"
KeyAt(s) == <<s.branch, s.at, Len(s.left)>>
ReadingSound(s, select) ==
  /\ s.at \in 2..(Len(select.joins) + 2)
  /\ s.pc = "joining" => IsLocal(select, s.at)
  /\ ~IsLocal(select, s.at) => s.left = <<>>
  /\ IsLocal(select, s.at) => /\ LeftSound(s.seen, select, s.branch, s.at - 2, s.left, s.joined)
                              /\ s.pc # "joining" => s.left # <<>>
  /\ s.pc = "collecting" =>
       /\ KeyAt(s) \in DOMAIN s.seen
       /\ Gathering(select, SourceAt(select, s.at).alias, s.seen[KeyAt(s)], s.docs, s.todo)

BranchSound(s, select) ==
  /\ Unread(s)
  /\ s.at > 2 => /\ <<s.branch, 2, 0>> \in DOMAIN s.seen
                 /\ s.rows = Read(select, RowsAt(s.seen, select, s.branch, s.at))
  /\ s.pc = "stages" => s.left = <<>> /\ s.joined = <<>>
  /\ s.pc # "collecting" => s.docs = <<>> /\ s.todo = <<>>
  /\ s.pc # "stages" => ReadingSound(s, select)

SqlMeant(s) ==
  s.pc \notin {"new", "failed", "lost"} /\ s.reason = "none" /\ NamesTrue(s.name) =>
    /\ s.name \in DOMAIN SqlPlans /\ SeenTyped(s.seen)
    /\ OutputsMeant(s.seen, s.name,
                    IF s.pc = "done" THEN Len(SqlPlans[s.name].branches) ELSE s.branch - 1, s.outputRows)
    /\ s.pc # "done" => BranchSound(s, BranchOf(s))

\* The inductive invariant.
SqlInv == SqlPlaced /\ SqlMeant(sql)

----------------
\* A branch more.
LEMMA EachMore ==
  ASSUME NEW S, NEW k \in Nat, NEW f \in [1..(k + 1) -> Seq(S)]
  PROVE  FlattenSeq(f) = FlattenSeq([j \in 1..k |-> f[j]]) \o f[k + 1]
<1> DEFINE V == Seq(S)
           e == [j \in 1..k |-> f[j]]
           x == f[k + 1]
<1>1. f \in Seq(V) /\ Len(f) = k + 1
  <2>1. f \in [1..(k + 1) -> V] /\ k + 1 \in Nat OBVIOUS
  <2> HIDE DEF V
  <2> QED BY <2>1, FunctionIsSeq
<1>2. \A j \in 1..k : j \in 1..(k + 1) OBVIOUS
<1>3. e \in [1..k -> V] /\ x \in V BY <1>2
<1>4. \A j \in 1..k : e[j] = f[j] OBVIOUS
<1> HIDE DEF V, e
<1>5. e \in Seq(V) /\ Len(e) = k BY <1>3, FunctionIsSeq
<1>6. x = f[k + 1] OBVIOUS
<1> HIDE DEF x
<1> DEFINE a == Append(e, x)
<1>7. a \in Seq(V) /\ Len(a) = k + 1 /\ \A j \in 1..(k + 1) : a[j] = IF j <= k THEN e[j] ELSE x
  BY <1>3, <1>5
<1> HIDE DEF a
<1>8. \A j \in 1..Len(a) : a[j] = f[j] BY <1>4, <1>6, <1>7
<1>9. a = f BY <1>1, <1>7, <1>8, SeqEqual
<1>10. FlattenSeq(a) = FlattenSeq(e) \o x BY <1>3, <1>5, FlattenAppend DEF a, V
<1> QED BY <1>9, <1>10 DEF e, x

LEMMA OutputsGrow ==
  ASSUME NEW seen, SeenTyped(seen), NEW name \in DOMAIN SqlPlans, NEW m \in Nat,
         m + 1 \in DOMAIN SqlPlans[name].branches, NEW output, OutputsMeant(seen, name, m, output),
         <<m + 1, 2, 0>> \in DOMAIN seen
  PROVE  OutputsMeant(seen, name, m + 1,
                      output \o EndOf(Branch(name, m + 1),
                                      Read(Branch(name, m + 1),
                                           PassingOf(seen, Branch(name, m + 1), m + 1))))
<1> DEFINE x == EndOf(Branch(name, m + 1),
                      Read(Branch(name, m + 1), PassingOf(seen, Branch(name, m + 1), m + 1)))
<1>1. \A c \in 1..(m + 1) : c \in 1..m \/ c = m + 1 OBVIOUS
<1>2. \A c \in 1..(m + 1) : <<c, 2, 0>> \in DOMAIN seen BY <1>1 DEF OutputsMeant
<1>3. \A c \in 1..(m + 1) : Planned(Branch(name, c)) BY BranchesPlanned
<1> HIDE DEF x
<1>4. ASSUME \A c \in 1..(m + 1) : RankedOf(seen, name, c)
      PROVE  output \o x = FlattenSeq([c \in 1..(m + 1) |-> MeantOf(seen, name, c)])
  <2> DEFINE S == UNION {OutSpace(Branch(name, c)) : c \in 1..(m + 1)}
             f == [c \in 1..(m + 1) |-> MeantOf(seen, name, c)]
  <2>1. ASSUME NEW c \in 1..(m + 1)
        PROVE  /\ MeantOf(seen, name, c) \in Seq(S)
               /\ EndOf(Branch(name, c), Read(Branch(name, c), PassingOf(seen, Branch(name, c), c)))
                    = MeantOf(seen, name, c)
    <3> DEFINE select == Branch(name, c)
               rows == PassingOf(seen, select, c)
    <3>1. Planned(select) /\ <<c, 2, 0>> \in DOMAIN seen BY <1>2, <1>3
    <3>2. RankedKeys(select, rows) BY <1>4 DEF RankedOf
    <3>3. OutSpace(select) \subseteq S OBVIOUS
    <3>4. MeantOf(seen, name, c) = MeantFrom(select, rows) BY DEF MeantOf
    <3>5. rows \in Seq(RowsFor(Aliases(select))) BY <3>1, PassingTyped
    <3> HIDE DEF rows, select, S
    <3>6. EndOf(select, Read(select, rows)) = MeantFrom(select, rows)
          /\ MeantFrom(select, rows) \in Seq(OutSpace(select))
      BY <3>1, <3>2, <3>5, EndMeans
    <3>7. MeantFrom(select, rows) \in Seq(S) BY <3>3, <3>6, SeqMonotonic
    <3> QED BY <3>4, <3>6, <3>7 DEF rows, select
  <2> HIDE DEF S
  <2>2. f \in [1..(m + 1) -> Seq(S)] BY <2>1
  <2>3. m + 1 \in 1..(m + 1) /\ \A c \in 1..m : c \in 1..(m + 1) OBVIOUS
  <2>4. x = f[m + 1] BY <2>1, <2>3 DEF x
  <2>5. [c \in 1..m |-> f[c]] = [c \in 1..m |-> MeantOf(seen, name, c)] BY <2>3
  <2>6. output = FlattenSeq([c \in 1..m |-> MeantOf(seen, name, c)]) BY <1>4, <2>3 DEF OutputsMeant
  <2> DEFINE g == f
  <2>7. g \in [1..(m + 1) -> Seq(S)] BY <2>2
  <2>8. output = FlattenSeq([c \in 1..m |-> g[c]]) /\ x = g[m + 1] BY <2>4, <2>5, <2>6
  <2> HIDE DEF g
  <2>9. FlattenSeq(g) = FlattenSeq([c \in 1..m |-> g[c]]) \o g[m + 1] BY <2>7, EachMore
  <2>10. FlattenSeq(g) = output \o x BY <2>8, <2>9
  <2> QED BY <2>10 DEF g
<1> QED BY <1>2, <1>4 DEF OutputsMeant, x

LEMMA OutputsStable ==
  ASSUME NEW seen, SeenTyped(seen), NEW name \in DOMAIN SqlPlans,
         NEW m \in Nat, m < Len(SqlPlans[name].branches), NEW output, OutputsMeant(seen, name, m, output),
         NEW y, NEW z, NEW held, NEW more, Grown(more, seen, <<m + 1, y, z>>, held)
  PROVE  OutputsMeant(more, name, m, output)
<1>1. \A c \in 1..m : c # m + 1 /\ c \in DOMAIN SqlPlans[name].branches BY BranchesPlanned
<1>2. \A c \in 1..m : <<c, 2, 0>> \in DOMAIN more BY DEF OutputsMeant, Grown
<1>3. ASSUME NEW c \in 1..m
      PROVE  PassingOf(more, Branch(name, c), c) = PassingOf(seen, Branch(name, c), c)
  <2>1. Planned(Branch(name, c)) /\ <<c, 2, 0>> \in DOMAIN seen BY <1>1, BranchesPlanned DEF OutputsMeant
  <2> QED BY <1>1, <2>1, PassingStable
<1>4. \A c \in 1..m : /\ RankedOf(more, name, c) = RankedOf(seen, name, c)
                      /\ MeantOf(more, name, c) = MeantOf(seen, name, c)
  BY <1>3 DEF RankedOf, MeantOf
<1>5. [c \in 1..m |-> MeantOf(more, name, c)] = [c \in 1..m |-> MeantOf(seen, name, c)] BY <1>4
<1> QED BY <1>2, <1>4, <1>5 DEF OutputsMeant

----------------
(* Every step keeps what the rows are *)

Working == {"stages", "joining", "asked", "collecting"}
Placed(s, select, stages) ==
  /\ s.name \in DOMAIN SqlPlans /\ Len(SqlPlans[s.name].branches) \in Nat
  /\ s.branch \in DOMAIN SqlPlans[s.name].branches
  /\ s.branch \in 1..Len(SqlPlans[s.name].branches)
  /\ select = Branch(s.name, s.branch) /\ Planned(select)
  /\ IsStages(stages, select) /\ s.at \in 1..(Len(stages) + 1)
  /\ s.pc # "stages" => s.at <= Len(stages)

LEMMA RunPlaced ==
  ASSUME SqlSound(sql), sql.pc \in Working
  PROVE  Placed(sql, Select, SqlStages) /\ SqlPlan = SqlPlans[sql.name] /\ Select = BranchOf(sql)
<1>0. sql.pc \notin SqlOver \cup {"new"} BY DEF Working, SqlOver
<1>1. /\ sql.pc \notin SqlOver \cup {"new"} /\ sql.name \in DOMAIN SqlPlans
      /\ sql.branch \in 1..Len(SqlPlans[sql.name].branches)
  BY <1>0 DEF SqlSound
<1>2. Select = BranchOf(sql) /\ SqlStages = StagesOf(sql) /\ Select = Branch(sql.name, sql.branch)
      /\ SqlPlan = SqlPlans[sql.name]
  BY DEF Select, SqlStages, StagesOf, BranchOf, Branch, SqlPlan
<1>3. sql.branch \in DOMAIN SqlPlans[sql.name].branches /\ Len(SqlPlans[sql.name].branches) \in Nat
      /\ Planned(Select)
  BY <1>1, <1>2, BranchesPlanned
<1>4. IsStages(SqlStages, Select) BY <1>3, StagesAre DEF SqlStages
<1>5. /\ sql.at \in 1..(Len(SqlStages) + 1)
      /\ sql.pc # "stages" => sql.at <= Len(SqlStages)
  BY <1>1, <1>2 DEF SqlSound, Working
<1> QED BY <1>1, <1>2, <1>3, <1>4, <1>5 DEF Placed

\* A run that nothing has stopped, at work on a branch.
AtWork(s, select, stages) ==
  /\ s = [f \in SqlFields |-> s[f]] /\ s.pc \in Working /\ s.reason = "none" /\ NamesTrue(s.name)
  /\ Placed(s, select, stages) /\ SeenTyped(s.seen)
  /\ OutputsMeant(s.seen, s.name, s.branch - 1, s.outputRows)
  /\ BranchSound(s, select)

LEMMA WorkIs ==
  ASSUME SqlSound(sql), SqlMeant(sql), sql.pc \in Working, sql.reason = "none", NamesTrue(sql.name)
  PROVE  AtWork(sql, Select, SqlStages)
BY RunPlaced DEF Working, SqlSound, AtWork, SqlMeant

\* What a step leaves as it is.
Stays(s, t) ==
  t.name = s.name /\ t.branch = s.branch /\ t.reason = s.reason /\ t.outputRows = s.outputRows

LEMMA WorkGoes ==
  ASSUME AtWork(sql, Select, SqlStages), NEW t, Stays(sql, t), t.pc \in Working,
         t.seen = sql.seen, BranchSound(t, Select)
  PROVE  SqlMeant(t)
<1>1. BranchOf(t) = Select BY DEF Stays, BranchOf, Select, SqlPlan
<1>2. t.pc # "done" BY DEF Working
<1> QED BY <1>1, <1>2 DEF AtWork, Placed, Stays, SqlMeant

\* The next stage.
LEMMA NextStageMeans ==
  ASSUME AtWork(sql, Select, SqlStages), NEW rows, NextSqlStage(sql, rows),
         sql.at >= 2 => /\ <<sql.branch, 2, 0>> \in DOMAIN sql.seen
                        /\ rows = Read(Select, RowsAt(sql.seen, Select, sql.branch, sql.at + 1))
  PROVE  SqlMeant(sql')
<1>1. /\ sql'.pc = "stages" /\ sql'.rows = rows /\ sql'.at = sql.at + 1 /\ sql'.left = <<>>
      /\ sql'.joined = <<>> /\ sql'.docs = <<>> /\ sql'.todo = <<>> /\ Stays(sql, sql')
      /\ sql'.seen = sql.seen
  BY DEF AtWork, SqlFields, NextSqlStage, SqlDoes, Stays
<1>2. sql.at \in Nat /\ sql.branch \in Nat BY DEF AtWork, Placed
<1>3. Unread(sql')
  <2>1. Unread(sql) BY DEF AtWork, BranchSound
  <2>2. sql'.branch = sql.branch /\ sql'.seen = sql.seen /\ sql'.at = sql.at + 1 BY <1>1 DEF Stays
  <2>3. \A x \in Nat : x > sql'.branch => \A y, z : <<x, y, z>> \notin DOMAIN sql'.seen
    BY <2>1, <2>2 DEF Unread
  <2>4. \A y \in Nat : y > sql'.at => \A z : <<sql'.branch, y, z>> \notin DOMAIN sql'.seen
    BY <1>2, <2>1, <2>2 DEF Unread
  <2>5. \A z : <<sql'.branch, sql'.at, z>> \notin DOMAIN sql'.seen BY <1>2, <2>1, <2>2 DEF Unread
  <2> QED BY <2>3, <2>4, <2>5 DEF Unread
<1>4. sql'.at > 2 => /\ <<sql'.branch, 2, 0>> \in DOMAIN sql'.seen
                     /\ sql'.rows = Read(Select, RowsAt(sql'.seen, Select, sql'.branch, sql'.at))
  BY <1>1, <1>2 DEF Stays
<1>5. BranchSound(sql', Select) BY <1>1, <1>3, <1>4 DEF BranchSound
<1>6. sql'.pc \in Working BY <1>1 DEF Working
<1> QED BY <1>1, <1>5, <1>6, WorkGoes

\* The end of a branch, with all its stages done.
LEMMA EndBranchMeans ==
  ASSUME AtWork(sql, Select, SqlStages), sql.pc = "stages", sql.at > Len(SqlStages), EndBranch(sql)
  PROVE  SqlMeant(sql')
<1> DEFINE b == sql.branch
           n == Len(Select.joins)
           out == sql.outputRows \o EndOf(Select, sql.rows)
           N == Len(SqlPlans[sql.name].branches)
<1>1. /\ b \in 1..N /\ N \in Nat /\ sql.at = Len(SqlStages) + 1 /\ n \in Nat /\ Planned(Select)
      /\ Len(SqlStages) \in {n + 3, n + 4} /\ Select = Branch(sql.name, b) /\ sql.name \in DOMAIN SqlPlans
      /\ (Len(SqlStages) = n + 3 <=> Select.where.op = "none")
      /\ b \in DOMAIN SqlPlans[sql.name].branches
  <2>1. Placed(sql, Select, SqlStages) BY DEF AtWork
  <2>2. IsStages(SqlStages, Select) /\ sql.at \in 1..(Len(SqlStages) + 1)
        /\ b \in 1..N /\ N \in Nat /\ Planned(Select) /\ Select = Branch(sql.name, b)
        /\ sql.name \in DOMAIN SqlPlans /\ b \in DOMAIN SqlPlans[sql.name].branches
    BY <2>1 DEF Placed
  <2>3. n \in Nat /\ Len(SqlStages) = IF Select.where.op = "none" THEN n + 3 ELSE n + 4
    BY <2>2 DEF IsStages
  <2> HIDE DEF n, N, b
  <2> QED BY <2>2, <2>3
<1>2. /\ SeenTyped(sql.seen) /\ OutputsMeant(sql.seen, sql.name, b - 1, sql.outputRows)
      /\ <<b, 2, 0>> \in DOMAIN sql.seen
      /\ sql.rows = Read(Select, RowsAt(sql.seen, Select, b, sql.at))
      /\ sql.left = <<>> /\ sql.joined = <<>> /\ sql.docs = <<>> /\ sql.todo = <<>>
  BY <1>1 DEF AtWork, BranchSound
<1>3. RowsAt(sql.seen, Select, b, sql.at) = PassingOf(sql.seen, Select, b) BY <1>1 DEF RowsAt
<1>4. OutputsMeant(sql.seen, sql.name, b, out)
  <2> DEFINE m == b - 1
  <2>1. m \in Nat /\ m + 1 = b BY <1>1
  <2>2. OutputsMeant(sql.seen, sql.name, m, sql.outputRows) BY <1>2
  <2>3. out = sql.outputRows \o EndOf(Branch(sql.name, m + 1),
                   Read(Branch(sql.name, m + 1), PassingOf(sql.seen, Branch(sql.name, m + 1), m + 1)))
    BY <1>1, <1>2, <1>3, <2>1
  <2>4. m + 1 \in DOMAIN SqlPlans[sql.name].branches /\ <<m + 1, 2, 0>> \in DOMAIN sql.seen
    BY <1>1, <1>2, <2>1
  <2> HIDE DEF m, out, b
  <2>5. OutputsMeant(sql.seen, sql.name, m + 1, out) BY <1>1, <1>2, <2>1, <2>2, <2>3, <2>4, OutputsGrow
  <2> QED BY <2>1, <2>5
<1>5. SqlPlan = SqlPlans[sql.name] /\ Primary(Select) = Primary(Select) BY DEF SqlPlan
<1>6. sql' = IF Stops(sql) \/ b = N
             THEN [sql EXCEPT !.pc = "done", !.outputRows = out, !.rows = <<>>]
             ELSE [sql EXCEPT !.branch = @ + 1, !.at = 1, !.outputRows = out, !.rows = <<>>]
  BY <1>5 DEF EndBranch, SqlDoes, EndOf
<1>7. ~Stops(sql) /\ sql = [f \in SqlFields |-> sql[f]] BY DEF AtWork, Stops
<1> HIDE DEF out, N
<1>8. CASE b = N BY <1>1, <1>2, <1>4, <1>6, <1>7, <1>8 DEF SqlFields, SqlMeant, N
<1>9. CASE b # N
  <2>1. /\ sql'.pc = "stages" /\ sql'.outputRows = out /\ sql'.name = sql.name /\ sql'.seen = sql.seen
        /\ sql'.branch = b + 1 /\ sql'.at = 1 /\ sql'.left = <<>> /\ sql'.joined = <<>>
        /\ sql'.docs = <<>> /\ sql'.todo = <<>>
    BY <1>2, <1>6, <1>7, <1>9, sql.pc = "stages" DEF SqlFields
  <2>2. Unread(sql')
    <3>1. Unread(sql) BY DEF AtWork, BranchSound
    <3>2. \A x \in Nat : x >= b + 1 => \A y, z : <<x, y, z>> \notin DOMAIN sql'.seen
      <4>1. \A x \in Nat : x >= b + 1 => x > sql.branch BY <1>1
      <4> QED BY <2>1, <3>1, <4>1 DEF Unread
    <3>3. b + 1 \in Nat /\ b + 1 >= b + 1 /\ \A x \in Nat : x > b + 1 => x >= b + 1 BY <1>1
    <3>4. \A y, z : <<b + 1, y, z>> \notin DOMAIN sql'.seen BY <3>2, <3>3
    <3> HIDE DEF b
    <3> QED BY <2>1, <3>2, <3>3, <3>4 DEF Unread
  <2>3. BranchSound(sql', BranchOf(sql')) BY <2>1, <2>2 DEF BranchSound
  <2>4. sql'.branch - 1 = b BY <1>1, <2>1
  <2> QED BY <1>1, <1>2, <1>4, <2>1, <2>3, <2>4 DEF SqlMeant
<1> QED BY <1>8, <1>9

----------------
\* A stop, once there, is kept; a run that looks and finds none is as it was.
LEMMA StoppedMeans ==
  ASSUME NEW t, t.reason # "none" \/ ~NamesTrue(t.name)
  PROVE  SqlMeant(t)
BY DEF SqlMeant

LEMMA LooksIs ==
  ASSUME SqlSound(sql)
  PROVE  LET s == Looks(sql) IN
         /\ s = [f \in SqlFields |-> s[f]] /\ s.name = sql.name
         /\ sql.reason # "none" => s.reason # "none"
         /\ ~Stops(s) => s = sql /\ sql.reason = "none"
BY DEF SqlSound, Looks, SqlFields, Stops

LEMMA EndBranchStays ==
  ASSUME NEW s, s = [f \in SqlFields |-> s[f]], EndBranch(s)
  PROVE  sql'.name = s.name /\ sql'.reason = s.reason
<1>1. PICK rows : sql' = (IF Stops(s) \/ s.branch = Len(SqlPlan.branches)
             THEN [s EXCEPT !.pc = "done", !.outputRows = rows, !.rows = <<>>]
             ELSE [s EXCEPT !.branch = @ + 1, !.at = 1, !.outputRows = rows, !.rows = <<>>])
  BY DEF EndBranch, SqlDoes
<1> QED BY <1>1 DEF SqlFields

LEMMA NextStageStays ==
  ASSUME NEW s, s = [f \in SqlFields |-> s[f]], NEW rows, NextSqlStage(s, rows)
  PROVE  sql'.name = s.name /\ sql'.reason = s.reason
BY DEF NextSqlStage, SqlDoes, SqlFields

LEMMA StartSqlMeans ==
  ASSUME SqlSound(sql), StartSql
  PROVE  SqlMeant(sql')
<1>1. sql = NewSqlRun(sql.name) /\ sql.pc = "new" BY DEF SqlSound, StartSql
<1>2. sql' = [sql EXCEPT !.pc = IF SqlPlan.branches = <<>> THEN "failed" ELSE "stages"]
  BY DEF StartSql, SqlDoes
<1>3. /\ sql'.pc \in {"failed", "stages"} /\ sql'.branch = 1 /\ sql'.at = 1 /\ sql'.left = <<>>
      /\ sql'.joined = <<>> /\ sql'.docs = <<>> /\ sql'.todo = <<>> /\ sql'.outputRows = <<>>
      /\ sql'.seen = <<>>
  BY <1>1, <1>2 DEF NewSqlRun
<1>4. DOMAIN <<>> = {} /\ SeenTyped(<<>>)
  <2>1. DOMAIN <<>> = {} OBVIOUS
  <2> QED BY <2>1 DEF SeenTyped
<1>5. OutputsMeant(<<>>, sql'.name, 0, <<>>)
  <2>1. [c \in 1..0 |-> MeantOf(<<>>, sql'.name, c)] = <<>>
    <3>1. 1..0 = {} OBVIOUS
    <3> QED BY <3>1
  <2>2. \A c \in 1..0 : FALSE OBVIOUS
  <2> QED BY <2>1, <2>2, FlattenEmpty DEF OutputsMeant
<1>7. sql'.name \in DOMAIN SqlPlans
  <2>1. sql'.name = sql.name BY <1>1, <1>2 DEF NewSqlRun
  <2> QED BY <2>1 DEF SqlSound, StartSql
<1>6. BranchSound(sql', BranchOf(sql')) \/ sql'.pc = "failed" BY <1>3, <1>4 DEF BranchSound, Unread
<1> QED BY <1>3, <1>4, <1>5, <1>6, <1>7 DEF SqlMeant

\* A stage asks for the documents of its source, or begins with the rows of a local join.
LEMMA AskMeans ==
  ASSUME AtWork(sql, Select, SqlStages), sql.pc = "stages", sql.at \in 2..(Len(Select.joins) + 2),
         \/ ~IsLocal(Select, sql.at) /\ SqlDoes([sql EXCEPT !.pc = "asked"])
         \/ IsLocal(Select, sql.at) /\ SqlDoes([sql EXCEPT !.pc = "joining", !.left = sql.rows])
  PROVE  SqlMeant(sql')
<1> DEFINE local == IsLocal(Select, sql.at)
<1>1. /\ sql'.pc = (IF local THEN "joining" ELSE "asked") /\ Stays(sql, sql')
      /\ sql'.seen = sql.seen /\ sql'.at = sql.at /\ sql'.rows = sql.rows
      /\ sql'.left = (IF local THEN sql.rows ELSE sql.left) /\ sql'.joined = sql.joined
      /\ sql'.docs = sql.docs /\ sql'.todo = sql.todo
  BY DEF AtWork, SqlFields, SqlDoes, Stays
<1>2. /\ Unread(sql) /\ sql.left = <<>> /\ sql.joined = <<>> /\ sql.docs = <<>> /\ sql.todo = <<>>
      /\ sql.at > 2 => /\ <<sql.branch, 2, 0>> \in DOMAIN sql.seen
                       /\ sql.rows = Read(Select, RowsAt(sql.seen, Select, sql.branch, sql.at))
  BY DEF AtWork, BranchSound
<1>3. /\ SeenTyped(sql.seen) /\ Planned(Select) /\ Len(Select.joins) \in Nat
  BY DEF AtWork, Placed, IsStages
<1> HIDE DEF local
<1>4. Unread(sql') BY <1>1, <1>2 DEF Unread, Stays
<1>5. local => LeftSound(sql'.seen, Select, sql'.branch, sql'.at - 2, sql'.left, sql'.joined)
  <2> SUFFICES ASSUME local
               PROVE  LeftSound(sql'.seen, Select, sql'.branch, sql'.at - 2, sql'.left, sql'.joined)
    OBVIOUS
  <2> DEFINE i == sql.at - 2
  <2>1. sql.at > 2 /\ i \in 1..Len(Select.joins) /\ sql.at - 3 = i - 1 /\ sql.at <= Len(Select.joins) + 3
    BY <1>3 DEF IsLocal, local
  <2>2. sql.rows = Read(Select, JoinsOf(sql.seen, Select, sql.branch)[i - 1])
    BY <1>2, <2>1 DEF RowsAt
  <2> HIDE DEF i
  <2>3. LeftSound(sql.seen, Select, sql.branch, i, sql.rows, <<>>)
    BY <1>2, <1>3, <2>1, <2>2, LeftBegins
  <2> QED BY <1>1, <1>2, <2>3 DEF Stays, i
<1>6. ReadingSound(sql', Select) BY <1>1, <1>2, <1>5 DEF ReadingSound, local
<1>7. BranchSound(sql', Select) BY <1>1, <1>2, <1>4, <1>6 DEF BranchSound, Stays
<1>8. sql'.pc \in Working BY <1>1 DEF Working
<1> QED BY <1>1, <1>7, <1>8, WorkGoes

LEMMA RunSqlStageMeans ==
  ASSUME SqlSound(sql), SqlMeant(sql), RunSqlStage
  PROVE  SqlMeant(sql')
<1> DEFINE s == Looks(sql)
           n == Len(Select.joins)
           over == sql.at > Len(SqlStages)
<1>1. /\ s = [f \in SqlFields |-> s[f]] /\ s.name = sql.name
      /\ sql.reason # "none" => s.reason # "none"
      /\ ~Stops(s) => s = sql /\ sql.reason = "none"
  BY LooksIs
<1>2. sql = [f \in SqlFields |-> sql[f]] BY DEF SqlSound
<1>3. sql.pc = "stages" /\ sql.pc \in Working BY DEF RunSqlStage, Working
<1> HIDE DEF s, over
<1>4. CASE ~over /\ Stops(s)
  BY <1>1, <1>4, EndBranchStays, StoppedMeans DEF RunSqlStage, s, over, Stops
<1>5. CASE over /\ (sql.reason # "none" \/ ~NamesTrue(sql.name))
  BY <1>2, <1>5, EndBranchStays, StoppedMeans DEF RunSqlStage, over
<1>6. CASE over /\ sql.reason = "none" /\ NamesTrue(sql.name)
  BY <1>3, <1>6, WorkIs, EndBranchMeans DEF RunSqlStage, over
<1>7. CASE ~over /\ ~Stops(s) /\ ~NamesTrue(sql.name)
  <2>1. s = sql BY <1>1, <1>7
  <2>2. \/ \E rows : NextSqlStage(sql, rows)
        \/ SqlDoes([sql EXCEPT !.pc = "joining", !.left = sql.rows])
        \/ SqlDoes([sql EXCEPT !.pc = "asked"])
    <3> DEFINE F == Filter(sql.rows, SqlStage.expression, Primary(Select))
    <3>1. \/ NextSqlStage(sql, sql.rows) \/ NextSqlStage(sql, F)
          \/ SqlDoes([sql EXCEPT !.pc = "joining", !.left = sql.rows])
          \/ SqlDoes([sql EXCEPT !.pc = "asked"])
      BY <1>7, <2>1 DEF RunSqlStage, s, over
    <3> QED BY <3>1
  <2>3. sql'.name = sql.name BY <1>2, <2>2, NextStageStays DEF SqlDoes, SqlFields
  <2> QED BY <1>7, <2>3, StoppedMeans
<1>8. CASE ~over /\ ~Stops(s) /\ NamesTrue(sql.name)
  <2>1. s = sql /\ sql.reason = "none" BY <1>1, <1>8
  <2>2. AtWork(sql, Select, SqlStages) BY <1>3, <1>8, <2>1, WorkIs
  <2>3. (CASE SqlStage.kind \in {"execution", "project"} -> NextSqlStage(sql, sql.rows)
          [] SqlStage.kind = "filter" ->
               NextSqlStage(sql, Filter(sql.rows, SqlStage.expression, Primary(Select)))
          [] SqlStage.kind = "join" /\ SqlStage.source.kind = "subcollection" ->
               SqlDoes([sql EXCEPT !.pc = "joining", !.left = sql.rows])
          [] OTHER -> SqlDoes([sql EXCEPT !.pc = "asked"]))
    BY <1>8, <2>1 DEF RunSqlStage, s, over
  <2>4. /\ n \in Nat /\ Planned(Select) /\ IsStages(SqlStages, Select) /\ sql.at \in 1..Len(SqlStages)
        /\ Len(SqlStages) = (IF Select.where.op = "none" THEN n + 3 ELSE n + 4)
    <3>1. Placed(sql, Select, SqlStages) BY <2>2 DEF AtWork
    <3>2. Planned(Select) /\ IsStages(SqlStages, Select) /\ sql.at \in 1..(Len(SqlStages) + 1)
      BY <3>1 DEF Placed
    <3>3. n \in Nat /\ Len(SqlStages) = (IF Select.where.op = "none" THEN n + 3 ELSE n + 4)
      BY <3>2 DEF IsStages
    <3> HIDE DEF n
    <3>4. sql.at \in 1..Len(SqlStages) BY <1>8, <3>2, <3>3 DEF over
    <3> QED BY <3>2, <3>3, <3>4
  <2>5. /\ SeenTyped(sql.seen)
        /\ sql.at > 2 => /\ <<sql.branch, 2, 0>> \in DOMAIN sql.seen
                         /\ sql.rows = Read(Select, RowsAt(sql.seen, Select, sql.branch, sql.at))
    BY <2>2 DEF AtWork, BranchSound
  <2>6. CASE sql.at = 1 BY <2>2, <2>3, <2>4, <2>6, NextStageMeans DEF SqlStage, IsStages
  <2>7. CASE sql.at = 2 BY <1>3, <2>2, <2>3, <2>4, <2>7, AskMeans DEF SqlStage, IsStages, IsLocal
  <2>8. CASE sql.at \in 3..(n + 2)
    <3> DEFINE i == sql.at - 2
    <3>1. i \in 1..n /\ i + 2 = sql.at /\ sql.at # 2 /\ sql.at \in 2..(n + 2) BY <2>4, <2>8
    <3>2. SqlStage.kind = "join" /\ SqlStage.source = Select.joins[i].source
      <4> DEFINE join == Select.joins[i]
      <4> HIDE DEF i
      <4>1. SqlStages[i + 2] = [kind |-> "join", source |-> join.source, type |-> join.type, on |-> join.on]
        BY <2>4, <3>1 DEF IsStages
      <4>2. SqlStage = SqlStages[i + 2] BY <3>1 DEF SqlStage
      <4> QED BY <4>1, <4>2
    <3>3. IsLocal(Select, sql.at) <=> SqlStage.source.kind = "subcollection" BY <3>1, <3>2 DEF IsLocal
    <3>4. \/ ~IsLocal(Select, sql.at) /\ SqlDoes([sql EXCEPT !.pc = "asked"])
          \/ IsLocal(Select, sql.at) /\ SqlDoes([sql EXCEPT !.pc = "joining", !.left = sql.rows])
      BY <2>3, <3>2, <3>3
    <3> QED BY <1>3, <2>2, <3>1, <3>4, AskMeans
  <2>9. CASE sql.at \in {n + 3, n + 4}
    <3> DEFINE all == JoinsOf(sql.seen, Select, sql.branch)[n]
               passing == PassingOf(sql.seen, Select, sql.branch)
    <3>1. sql.at > 2 /\ sql.at >= 2 BY <2>4, <2>9
    <3>2. /\ Select.where.op = "none" => passing = all
          /\ Select.where.op # "none" => Filter(Read(Select, all), Select.where, Primary(Select))
                                           = Read(Select, passing)
      BY <2>4, <2>5, <3>1, RowsAreFiltered
    <3>3. RowsAt(sql.seen, Select, sql.branch, sql.at + 1) = passing BY <2>4, <2>9 DEF RowsAt
    <3>4. sql.at = n + 3 => RowsAt(sql.seen, Select, sql.branch, sql.at) = all BY <2>4 DEF RowsAt
    <3>5. sql.at = n + 4 => RowsAt(sql.seen, Select, sql.branch, sql.at) = passing
      BY <2>4 DEF RowsAt
    <3> HIDE DEF all, passing, n
    <3>6. CASE sql.at = n + 3 /\ Select.where.op # "none"
      <4>1. SqlStage.kind = "filter" /\ SqlStage.expression = Select.where
        BY <2>4, <3>6 DEF SqlStage, IsStages, n
      <4>2. NextSqlStage(sql, Filter(sql.rows, Select.where, Primary(Select))) BY <2>3, <4>1
      <4>3. Filter(sql.rows, Select.where, Primary(Select)) = Read(Select, passing)
        BY <2>5, <3>1, <3>2, <3>4, <3>6
      <4> QED BY <2>2, <2>5, <3>1, <3>3, <4>2, <4>3, NextStageMeans
    <3>7. CASE ~(sql.at = n + 3 /\ Select.where.op # "none")
      <4>1. SqlStage.kind = "project" BY <2>4, <2>9, <3>7 DEF SqlStage, IsStages
      <4>2. NextSqlStage(sql, sql.rows) BY <2>3, <4>1
      <4>3. sql.rows = Read(Select, passing) BY <2>4, <2>5, <2>9, <3>1, <3>2, <3>4, <3>5, <3>7
      <4> QED BY <2>2, <2>5, <3>1, <3>3, <4>2, <4>3, NextStageMeans
    <3> QED BY <3>6, <3>7
  <2>10. sql.at = 1 \/ sql.at = 2 \/ sql.at \in 3..(n + 2) \/ sql.at \in {n + 3, n + 4} BY <2>4
  <2> QED BY <2>6, <2>7, <2>8, <2>9, <2>10
<1> QED BY <1>4, <1>5, <1>6, <1>7, <1>8

----------------
LEMMA LeftTyped ==
  ASSUME NEW seen, SeenTyped(seen), NEW select, Planned(select), NEW b, <<b, 2, 0>> \in DOMAIN seen,
         NEW i \in 1..Len(select.joins), NEW left, NEW joined, LeftSound(seen, select, b, i, left, joined)
  PROVE  Len(left) \in Nat /\ (left # <<>> => Len(Tail(left)) = Len(left) - 1 /\ Len(left) > 0)
<1> DEFINE all == JoinsOf(seen, select, b)[i - 1]
           n == Len(all)
           F == Masking(select)
<1>1. i - 1 \in 0..Len(select.joins) BY LenProperties DEF Planned
<1>2. all \in Seq(RowsFor(KnownAt(select, i - 1))) BY <1>1, JoinsSolved DEF IsJoined0
<1>3. PICK k \in 0..n : left = [j \in 1..(n - k) |-> F[all[k + j]]] BY DEF LeftSound
<1>4. n \in Nat BY <1>2, LenProperties
<1> HIDE DEF all, n, F
<1> DEFINE V == {F[all[k + j]] : j \in 1..(n - k)}
<1>5. left \in [1..(n - k) -> V] BY <1>3
<1> HIDE DEF V
<1>6. left \in Seq(V)
  <2>1. n - k \in Nat BY <1>4
  <2> QED BY <1>5, <2>1, FunctionIsSeq
<1> QED BY <1>6, HeadTailProperties, LenProperties, EmptySeq

\* What a stage that reads has, as its join has it.
LEMMA ReadingIs ==
  ASSUME AtWork(sql, Select, SqlStages), sql.pc # "stages"
  PROVE  /\ ReadingSound(sql, Select) /\ Unread(sql) /\ SeenTyped(sql.seen) /\ Planned(Select)
         /\ sql.at \in 2..(Len(Select.joins) + 2) /\ Len(Select.joins) \in Nat
         /\ SqlStage.source = SourceAt(Select, sql.at)
         /\ SqlStage.kind = "read" <=> sql.at = 2
         /\ sql.at # 2 =>
              /\ sql.at - 2 \in 1..Len(Select.joins) /\ sql.at - 2 + 2 = sql.at /\ sql.at > 2
              /\ JoinAt(SqlStage, Select.joins[sql.at - 2])
              /\ NamesOf(Select.joins[sql.at - 2].on, Select, KnownAt(Select, sql.at - 2))
              /\ <<sql.branch, 2, 0>> \in DOMAIN sql.seen
              /\ sql.rows = Read(Select, JoinsOf(sql.seen, Select, sql.branch)[sql.at - 2 - 1])
              /\ RowsAt(sql.seen, Select, sql.branch, sql.at + 1)
                   = JoinsOf(sql.seen, Select, sql.branch)[sql.at - 2]
<1>1. /\ ReadingSound(sql, Select) /\ Unread(sql) /\ SeenTyped(sql.seen)
      /\ sql.at > 2 => /\ <<sql.branch, 2, 0>> \in DOMAIN sql.seen
                       /\ sql.rows = Read(Select, RowsAt(sql.seen, Select, sql.branch, sql.at))
  BY DEF AtWork, BranchSound
<1>2. Placed(sql, Select, SqlStages) BY DEF AtWork
<1>3. Planned(Select) /\ IsStages(SqlStages, Select) BY <1>2 DEF Placed
<1>4. Len(Select.joins) \in Nat BY <1>3 DEF IsStages
<1>5. sql.at \in 2..(Len(Select.joins) + 2) BY <1>1 DEF ReadingSound
<1>6. CASE sql.at = 2 BY <1>1, <1>3, <1>4, <1>5, <1>6 DEF SqlStage, IsStages, SourceAt
<1>7. CASE sql.at # 2
  <2> DEFINE i == sql.at - 2
             join == Select.joins[i]
  <2>1. i \in 1..Len(Select.joins) /\ i + 2 = sql.at /\ sql.at > 2 /\ sql.at - 3 = i - 1
        /\ sql.at + 1 - 3 = i /\ sql.at <= Len(Select.joins) + 3 /\ sql.at + 1 <= Len(Select.joins) + 3
    BY <1>4, <1>5, <1>7
  <2> HIDE DEF i
  <2>2. SqlStages[i + 2] = [kind |-> "join", source |-> join.source, type |-> join.type, on |-> join.on]
    BY <1>3, <2>1 DEF IsStages
  <2>3. SqlStage = SqlStages[i + 2] BY <2>1 DEF SqlStage
  <2>4. SqlStage.kind = "join" /\ SqlStage.source = join.source /\ SqlStage.type = join.type
        /\ SqlStage.on = join.on
    BY <2>2, <2>3
  <2>5. NamesOf(join.on, Select, KnownAt(Select, i)) BY <1>2, <2>1 DEF AtWork, Placed, NamesTrue
  <2>6. SourceAt(Select, sql.at) = join.source BY <1>7 DEF SourceAt, i
  <2>7. JoinAt(SqlStage, join) BY <2>4 DEF JoinAt
  <2>8. /\ <<sql.branch, 2, 0>> \in DOMAIN sql.seen
        /\ sql.rows = Read(Select, JoinsOf(sql.seen, Select, sql.branch)[i - 1])
        /\ RowsAt(sql.seen, Select, sql.branch, sql.at + 1) = JoinsOf(sql.seen, Select, sql.branch)[i]
    BY <1>1, <2>1 DEF RowsAt
  <2>9. SqlStage.kind # "read" BY <2>4
  <2>10. /\ i \in 1..Len(Select.joins) /\ i + 2 = sql.at /\ sql.at > 2
         /\ JoinAt(SqlStage, Select.joins[i]) /\ NamesOf(Select.joins[i].on, Select, KnownAt(Select, i))
    BY <2>1, <2>5, <2>7
  <2> QED BY <1>1, <1>3, <1>4, <1>5, <1>7, <2>4, <2>6, <2>8, <2>9, <2>10 DEF i
<1> QED BY <1>6, <1>7

\* The keys of what was read, when a row is taken off those left, or nothing is.
LEMMA UnreadGoes ==
  ASSUME Unread(sql), NEW t, Stays(sql, t), t.at = sql.at, t.seen = sql.seen, t.pc # "stages",
         \A z \in Nat : z < Len(t.left) \/ z = Len(t.left)
           => z < Len(sql.left) \/ (sql.pc # "collecting" /\ z = Len(sql.left))
  PROVE  Unread(t)
BY DEF Unread, Stays

LEMMA JoinNextRowMeans ==
  ASSUME SqlSound(sql), SqlMeant(sql), JoinNextRow
  PROVE  SqlMeant(sql')
<1> DEFINE s == Looks(sql)
           i == sql.at - 2
           p == Primary(Select)
<1>1. /\ s = [f \in SqlFields |-> s[f]] /\ s.name = sql.name
      /\ sql.reason # "none" => s.reason # "none"
      /\ ~Stops(s) => s = sql /\ sql.reason = "none"
  BY LooksIs
<1>2. sql = [f \in SqlFields |-> sql[f]] BY DEF SqlSound
<1>3. sql.pc = "joining" /\ sql.pc \in Working /\ sql.pc # "stages" BY DEF JoinNextRow, Working
<1> HIDE DEF s
<1>4. CASE sql.left # <<>> /\ Stops(s)
  BY <1>1, <1>4, NextStageStays, StoppedMeans DEF JoinNextRow, s, Stops
<1>5. ASSUME sql.left = <<>> \/ ~Stops(s)
      PROVE  \/ sql.left = <<>> /\ NextSqlStage(sql, sql.joined)
             \/ /\ sql.left # <<>>
                /\ SqlDoes([sql EXCEPT !.left = Tail(@),
                              !.joined = @ \o Joined(Head(sql.left), <<>>, SqlStage, p)])
             \/ sql.left # <<>> /\ SqlDoes([sql EXCEPT !.pc = "asked"])
  <2>1. CASE sql.left = <<>> BY <2>1 DEF JoinNextRow
  <2>2. CASE sql.left # <<>>
    <3>1. s = sql BY <1>1, <1>5, <2>2
    <3> QED BY <1>5, <2>2, <3>1 DEF JoinNextRow, s
  <2> QED BY <2>1, <2>2
<1>6. CASE (sql.left = <<>> \/ ~Stops(s)) /\ (sql.reason # "none" \/ ~NamesTrue(sql.name))
  BY <1>2, <1>5, <1>6, NextStageStays, StoppedMeans DEF SqlDoes, SqlFields
<1>7. CASE (sql.left = <<>> \/ ~Stops(s)) /\ sql.reason = "none" /\ NamesTrue(sql.name)
  <2>1. AtWork(sql, Select, SqlStages) BY <1>3, <1>7, WorkIs
  <2>2. IsLocal(Select, sql.at) /\ sql.at # 2 BY <1>3, <2>1, ReadingIs DEF ReadingSound, IsLocal
  <2>3. /\ Unread(sql) /\ SeenTyped(sql.seen) /\ Planned(Select) /\ Len(Select.joins) \in Nat
        /\ sql.at \in 2..(Len(Select.joins) + 2)
        /\ i \in 1..Len(Select.joins) /\ i + 2 = sql.at /\ sql.at > 2
        /\ JoinAt(SqlStage, Select.joins[i])
        /\ NamesOf(Select.joins[i].on, Select, KnownAt(Select, i))
        /\ <<sql.branch, 2, 0>> \in DOMAIN sql.seen
        /\ RowsAt(sql.seen, Select, sql.branch, sql.at + 1) = JoinsOf(sql.seen, Select, sql.branch)[i]
    BY <1>3, <2>1, <2>2, ReadingIs
  <2>4. LeftSound(sql.seen, Select, sql.branch, i, sql.left, sql.joined)
    BY <1>3, <2>1, <2>2, ReadingIs DEF ReadingSound
  <2>5. Select.joins[i].source.kind = "subcollection" BY <2>2 DEF IsLocal
  <2>6. sql.docs = <<>> /\ sql.todo = <<>>
        /\ sql.rows = Read(Select, RowsAt(sql.seen, Select, sql.branch, sql.at))
    BY <1>3, <2>1, <2>3 DEF AtWork, BranchSound
  <2>7. Len(sql.left) \in Nat
        /\ (sql.left # <<>> => Len(Tail(sql.left)) = Len(sql.left) - 1 /\ Len(sql.left) > 0)
    BY <2>3, <2>4, LeftTyped
  <2>8. CASE sql.left = <<>> /\ NextSqlStage(sql, sql.joined)
    <3>1. LeftSound(sql.seen, Select, sql.branch, i, <<>>, sql.joined) BY <2>4, <2>8
    <3> HIDE DEF i
    <3>2. sql.joined = Read(Select, JoinsOf(sql.seen, Select, sql.branch)[i]) BY <2>3, <3>1, LeftEnds
    <3> QED BY <2>1, <2>3, <2>8, <3>2, NextStageMeans
  <2>9. CASE /\ sql.left # <<>>
             /\ SqlDoes([sql EXCEPT !.left = Tail(@),
                              !.joined = @ \o Joined(Head(sql.left), <<>>, SqlStage, p)])
    <3> DEFINE joined == sql.joined \o Joined(Head(sql.left), <<>>, SqlStage, p)
    <3>1. /\ sql'.pc = "joining" /\ Stays(sql, sql') /\ sql'.seen = sql.seen /\ sql'.at = sql.at
          /\ sql'.rows = sql.rows /\ sql'.left = Tail(sql.left) /\ sql'.joined = joined
          /\ sql'.docs = sql.docs /\ sql'.todo = sql.todo
      BY <1>2, <1>3, <2>9 DEF SqlDoes, SqlFields, Stays
    <3> HIDE DEF i
    <3>2. <<sql.branch, i + 2, Len(sql.left)>> \notin DOMAIN sql.seen BY <1>3, <2>3, <2>7 DEF Unread
    <3>3. <<>> = MaskDocs(Select, Select.joins[i].source.alias, <<>>) BY DEF MaskDocs
    <3>4. LeftSound(sql.seen, Select, sql.branch, i, Tail(sql.left), joined)
      <4> DEFINE docs == MaskDocs(Select, Select.joins[i].source.alias,
                           IF <<sql.branch, i + 2, Len(sql.left)>> \in DOMAIN sql.seen
                           THEN sql.seen[<<sql.branch, i + 2, Len(sql.left)>>] ELSE <<>>)
      <4>1. docs = <<>> BY <3>2, <3>3
      <4>2. LeftSound(sql.seen, Select, sql.branch, i, Tail(sql.left),
                      sql.joined \o Joined(Head(sql.left), docs, SqlStage, Primary(Select)))
        BY <2>3, <2>4, <2>5, <2>9, LeftGoes
      <4> QED BY <4>1, <4>2
    <3> HIDE DEF joined, p
    <3>5. Unread(sql')
      <4>1. \A z \in Nat : z < Len(sql'.left) \/ z = Len(sql'.left)
              => z < Len(sql.left) \/ (sql.pc # "collecting" /\ z = Len(sql.left))
        BY <2>7, <2>9, <3>1
      <4> QED BY <2>3, <3>1, <4>1, UnreadGoes
    <3>6. ReadingSound(sql', Select) BY <2>2, <2>3, <3>1, <3>4 DEF ReadingSound, Stays, i
    <3>7. BranchSound(sql', Select) BY <2>3, <2>6, <3>1, <3>5, <3>6 DEF BranchSound, Stays
    <3>8. sql'.pc \in Working BY <3>1 DEF Working
    <3> QED BY <2>1, <3>1, <3>7, <3>8, WorkGoes
  <2>10. CASE sql.left # <<>> /\ SqlDoes([sql EXCEPT !.pc = "asked"])
    <3>1. /\ sql'.pc = "asked" /\ Stays(sql, sql') /\ sql'.seen = sql.seen /\ sql'.at = sql.at
          /\ sql'.rows = sql.rows /\ sql'.left = sql.left /\ sql'.joined = sql.joined
          /\ sql'.docs = sql.docs /\ sql'.todo = sql.todo
      BY <1>2, <2>10 DEF SqlDoes, SqlFields, Stays
    <3>2. Unread(sql') BY <1>3, <2>3, <3>1, UnreadGoes
    <3>3. ReadingSound(sql', Select) BY <2>2, <2>3, <2>4, <2>10, <3>1 DEF ReadingSound, Stays
    <3>4. BranchSound(sql', Select) BY <2>3, <2>6, <3>1, <3>2, <3>3 DEF BranchSound, Stays
    <3>5. sql'.pc \in Working BY <3>1 DEF Working
    <3> QED BY <2>1, <3>1, <3>4, <3>5, WorkGoes
  <2> QED BY <1>5, <1>7, <2>8, <2>9, <2>10
<1> QED BY <1>4, <1>6, <1>7

----------------
\* The sources of a statement are of one of three kinds.
LEMMA SourcesAre ==
  ASSUME NEW select, Planned(select), NEW at \in 2..(Len(select.joins) + 2)
  PROVE  SourceAt(select, at).kind \in Kinds
BY LenProperties DEF Planned, Kinds, SourceAt

LEMMA SqlAnswersMeans ==
  ASSUME SqlPlaced, SqlMeant(sql), SqlAnswers
  PROVE  SqlMeant(sql')
<1> DEFINE source == SqlStage.source
           held == Held(source, IF sql.left = <<>> THEN <<>> ELSE Head(sql.left))
           docs == Limited(held, ReadLimit(Select, source.alias))
           key == <<sql.branch, sql.at, Len(sql.left)>>
           todo == [j \in DOMAIN docs |-> [docs[j] EXCEPT !.data = Masked(@, Mask(Select, source.alias))]]
           more == WithDocument(sql.seen, key, held)
           i == sql.at - 2
<1>1. SqlSound(sql) /\ sql = [f \in SqlFields |-> sql[f]] /\ written \in 0..(Len(DocumentsNow) - 1)
  BY DEF SqlPlaced, SqlSound
<1>2. sql.pc = "asked" /\ sql.pc \in Working /\ sql.pc # "stages" BY DEF SqlAnswers, Working
<1>3. SqlDoes([sql EXCEPT !.pc = "collecting", !.seen = more, !.todo = todo]) BY DEF SqlAnswers
<1> HIDE DEF more, todo, held, docs
<1>4. /\ sql'.pc = "collecting" /\ Stays(sql, sql') /\ sql'.seen = more /\ sql'.at = sql.at
      /\ sql'.rows = sql.rows /\ sql'.left = sql.left /\ sql'.joined = sql.joined
      /\ sql'.docs = sql.docs /\ sql'.todo = todo
  BY <1>1, <1>3 DEF SqlDoes, SqlFields, Stays
<1>5. CASE sql.reason # "none" \/ ~NamesTrue(sql.name) BY <1>4, <1>5, StoppedMeans DEF Stays
<1>6. CASE sql.reason = "none" /\ NamesTrue(sql.name)
  <2>1. AtWork(sql, Select, SqlStages) BY <1>1, <1>2, <1>6, WorkIs
  <2>2. /\ ReadingSound(sql, Select) /\ Unread(sql) /\ SeenTyped(sql.seen) /\ Planned(Select)
        /\ sql.at \in 2..(Len(Select.joins) + 2) /\ Len(Select.joins) \in Nat
        /\ source = SourceAt(Select, sql.at)
    BY <1>2, <2>1, ReadingIs
  <2>3. sql.at # 2 =>
              /\ i \in 1..Len(Select.joins) /\ i + 2 = sql.at /\ sql.at > 2
              /\ <<sql.branch, 2, 0>> \in DOMAIN sql.seen
              /\ sql.rows = Read(Select, JoinsOf(sql.seen, Select, sql.branch)[i - 1])
    BY <1>2, <2>1, ReadingIs
  <2>4. /\ sql.name \in DOMAIN SqlPlans /\ Len(SqlPlans[sql.name].branches) \in Nat
        /\ sql.branch \in 1..Len(SqlPlans[sql.name].branches)
    BY <2>1 DEF AtWork, Placed
  <2>5. OutputsMeant(sql.seen, sql.name, sql.branch - 1, sql.outputRows) BY <2>1 DEF AtWork
  <2>6. sql.docs = <<>> BY <1>2, <2>1 DEF AtWork, BranchSound
  <2>7. held \in Seq(Docs)
    <3>1. source.kind \in Kinds BY <2>2, SourcesAre
    <3> QED BY <1>1, <3>1, HeldTyped DEF held
  <2>8. Grown(more, sql.seen, key, held) BY <2>2, <2>7, SeenGrows DEF more
  <2>9. SeenTyped(more) BY <2>8 DEF Grown
  <2>10. OutputsMeant(more, sql.name, sql.branch - 1, sql.outputRows)
    <3> DEFINE m == sql.branch - 1
    <3>1. m \in Nat /\ m < Len(SqlPlans[sql.name].branches) /\ m + 1 = sql.branch BY <2>4
    <3>2. Grown(more, sql.seen, <<m + 1, sql.at, Len(sql.left)>>, held) BY <2>8, <3>1
    <3>3. OutputsMeant(sql.seen, sql.name, m, sql.outputRows) BY <2>5
    <3> HIDE DEF m
    <3>4. OutputsMeant(more, sql.name, m, sql.outputRows)
      BY <2>2, <2>4, <3>1, <3>2, <3>3, OutputsStable
    <3> QED BY <3>4 DEF m
  <2>11. Len(sql.left) \in Nat
    <3>1. CASE sql.left = <<>> BY <3>1, EmptySeq
    <3>2. CASE sql.left # <<>>
      <4>1. IsLocal(Select, sql.at) /\ sql.at # 2 BY <2>2, <3>2 DEF ReadingSound, IsLocal
      <4>2. LeftSound(sql.seen, Select, sql.branch, i, sql.left, sql.joined)
        BY <2>2, <4>1 DEF ReadingSound
      <4> HIDE DEF i
      <4> QED BY <2>2, <2>3, <4>1, <4>2, LeftTyped
    <3> QED BY <3>1, <3>2
  <2>12. Unread(sql')
    <3>1. sql'.branch = sql.branch BY <1>4 DEF Stays
    <3>2. \A k : k \in DOMAIN more => k \in DOMAIN sql.seen \/ k = key BY <2>8 DEF Grown
    <3>3. \A x \in Nat : x > sql.branch => \A y, z : <<x, y, z>> \notin DOMAIN more
      <4>1. \A x \in Nat : x > sql.branch => \A y, z : <<x, y, z>> # key BY <2>4
      <4> HIDE DEF key
      <4> QED BY <2>2, <3>2, <4>1 DEF Unread
    <3>4. \A y \in Nat : y > sql.at => \A z : <<sql.branch, y, z>> \notin DOMAIN more
      <4>1. \A y \in Nat : y > sql.at => \A z : <<sql.branch, y, z>> # key BY <2>2
      <4> HIDE DEF key
      <4> QED BY <2>2, <3>2, <4>1 DEF Unread
    <3>5. \A z \in Nat : z < Len(sql.left) => <<sql.branch, sql.at, z>> \notin DOMAIN more
      <4>1. \A z \in Nat : z < Len(sql.left) => <<sql.branch, sql.at, z>> # key BY <2>11
      <4> HIDE DEF key
      <4> QED BY <2>2, <3>2, <4>1 DEF Unread
    <3> QED BY <1>4, <3>1, <3>3, <3>4, <3>5 DEF Unread
  <2>13. sql.at > 2 => /\ <<sql.branch, 2, 0>> \in DOMAIN more
                       /\ sql.rows = Read(Select, RowsAt(more, Select, sql.branch, sql.at))
    <3> SUFFICES ASSUME sql.at > 2
                 PROVE  /\ <<sql.branch, 2, 0>> \in DOMAIN more
                        /\ sql.rows = Read(Select, RowsAt(more, Select, sql.branch, sql.at))
      OBVIOUS
    <3>1. sql.at # 2 /\ sql.at - 3 = i - 1 /\ sql.at <= Len(Select.joins) + 3 BY <2>2
    <3>2. Grown(more, sql.seen, <<sql.branch, i + 2, Len(sql.left)>>, held) BY <2>3, <2>8, <3>1
    <3> HIDE DEF i
    <3>3. JoinsOf(more, Select, sql.branch)[i - 1] = JoinsOf(sql.seen, Select, sql.branch)[i - 1]
      BY <2>2, <2>3, <3>1, <3>2, JoinsBefore
    <3>4. RowsAt(more, Select, sql.branch, sql.at) = JoinsOf(more, Select, sql.branch)[i - 1]
      BY <3>1 DEF RowsAt
    <3> QED BY <2>3, <2>8, <3>1, <3>3, <3>4 DEF Grown
  <2>14. ReadingSound(sql', Select)
    <3>1. sql'.branch = sql.branch /\ KeyAt(sql') = key BY <1>4 DEF Stays, KeyAt
    <3>2. ~IsLocal(Select, sql.at) => sql.left = <<>> BY <2>2 DEF ReadingSound
    <3>3. IsLocal(Select, sql.at) => sql.left # <<>> BY <1>2, <2>2 DEF ReadingSound
    <3>4. ASSUME IsLocal(Select, sql.at)
          PROVE  LeftSound(more, Select, sql.branch, i, sql.left, sql.joined)
      <4>1. sql.at # 2 /\ Select.joins[i].source.kind = "subcollection" BY <3>4 DEF IsLocal
      <4>2. LeftSound(sql.seen, Select, sql.branch, i, sql.left, sql.joined)
        BY <2>2, <3>4 DEF ReadingSound
      <4>3. Grown(more, sql.seen, <<sql.branch, i + 2, Len(sql.left)>>, held) BY <2>3, <2>8, <4>1
      <4> HIDE DEF i
      <4> QED BY <2>2, <2>3, <4>1, <4>2, <4>3, LeftStable
    <3>5. key \in DOMAIN more /\ more[key] = held BY <2>8 DEF Grown
    <3>6. Gathering(Select, source.alias, held, <<>>, todo)
      BY <2>2, <2>7, GatheringBegins DEF todo, docs
    <3>7. Gathering(Select, SourceAt(Select, sql.at).alias, more[key], sql.docs, todo)
      BY <2>2, <2>6, <3>5, <3>6
    <3> HIDE DEF key, source
    <3> QED BY <1>4, <2>2, <3>1, <3>2, <3>3, <3>4, <3>5, <3>7 DEF ReadingSound
  <2>15. BranchSound(sql', Select) BY <1>4, <2>12, <2>13, <2>14 DEF BranchSound, Stays
  <2>16. BranchOf(sql') = Select BY <1>4 DEF Stays, BranchOf, Select, SqlPlan
  <2> QED BY <1>4, <2>4, <2>9, <2>10, <2>15, <2>16 DEF SqlMeant, Stays
<1> QED BY <1>5, <1>6

\* Cancellations, the clock and the writes of others change nothing of what a run has read.
LEMMA SqlAroundMeans ==
  ASSUME SqlSound(sql), SqlMeant(sql), CancelSql \/ SqlTime \/ SqlWritten
  PROVE  SqlMeant(sql')
<1>1. sql = [f \in SqlFields |-> sql[f]] BY DEF SqlSound
<1>2. /\ sql'.name = sql.name /\ sql'.pc = sql.pc /\ sql'.reason = sql.reason
      /\ sql'.branch = sql.branch /\ sql'.at = sql.at /\ sql'.rows = sql.rows /\ sql'.left = sql.left
      /\ sql'.joined = sql.joined /\ sql'.docs = sql.docs /\ sql'.todo = sql.todo
      /\ sql'.outputRows = sql.outputRows /\ sql'.seen = sql.seen
  BY <1>1 DEF CancelSql, SqlDoes, SqlFields, SqlTime, SqlWritten
<1>3. BranchOf(sql') = BranchOf(sql) BY <1>2 DEF BranchOf
<1>4. \A select : BranchSound(sql, select) => BranchSound(sql', select)
  BY <1>2 DEF Unread, ReadingSound, KeyAt, BranchSound
<1> QED BY <1>2, <1>3, <1>4 DEF SqlMeant

LEMMA SqlReadFailsMeans ==
  ASSUME SqlSound(sql), SqlReadFails
  PROVE  SqlMeant(sql')
BY DEF SqlSound, SqlReadFails, SqlFields, SqlMeant

LEMMA LoseSqlMeans ==
  ASSUME LoseSql
  PROVE  SqlMeant(sql')
<1>1. sql'.pc \in {"new", "lost"} BY DEF LoseSql, NewSqlRun
<1> QED BY <1>1 DEF SqlMeant

----------------
\* A source is read: what a run that nothing has stopped makes of its documents.
LEMMA EndReadMeans ==
  ASSUME AtWork(sql, Select, SqlStages), sql.pc = "collecting",
         sql.todo = <<>> \/ Reached(Len(sql.docs), ReadLimit(Select, SqlStage.source.alias)),
         EndRead(sql)
  PROVE  SqlMeant(sql')
<1> DEFINE i == sql.at - 2
           b == sql.branch
           p == Primary(Select)
           a == SourceAt(Select, sql.at).alias
           key == KeyAt(sql)
           held == sql.seen[key]
<1>1. sql = [f \in SqlFields |-> sql[f]] BY DEF AtWork
<1>2. /\ ReadingSound(sql, Select) /\ Unread(sql) /\ SeenTyped(sql.seen) /\ Planned(Select)
      /\ sql.at \in 2..(Len(Select.joins) + 2) /\ Len(Select.joins) \in Nat
      /\ SqlStage.source = SourceAt(Select, sql.at) /\ (SqlStage.kind = "read" <=> sql.at = 2)
  BY ReadingIs
<1>3. sql.at # 2 =>
        /\ i \in 1..Len(Select.joins) /\ i + 2 = sql.at /\ sql.at > 2
        /\ JoinAt(SqlStage, Select.joins[i])
        /\ NamesOf(Select.joins[i].on, Select, KnownAt(Select, i))
        /\ <<b, 2, 0>> \in DOMAIN sql.seen
        /\ sql.rows = Read(Select, JoinsOf(sql.seen, Select, b)[i - 1])
        /\ RowsAt(sql.seen, Select, b, sql.at + 1) = JoinsOf(sql.seen, Select, b)[i]
  BY ReadingIs
<1>4. key \in DOMAIN sql.seen /\ Gathering(Select, a, held, sql.docs, sql.todo)
  BY <1>2 DEF ReadingSound
<1>5. held \in Seq(Docs) BY <1>2, <1>4 DEF SeenTyped
<1>6. sql.docs = Answered(Select, a, held)
  <2>1. sql.todo = <<>> \/ Reached(Len(sql.docs), ReadLimit(Select, a)) BY <1>2
  <2> HIDE DEF a, held
  <2> QED BY <1>2, <1>4, <1>5, <2>1, GatheringEnds
<1>7. CASE sql.at = 2
  <2>1. NextSqlStage(sql, RowsOf(sql.docs, p)) BY <1>2, <1>7 DEF EndRead
  <2>2. sql.left = <<>> BY <1>2, <1>7 DEF ReadingSound, IsLocal
  <2>3. key = <<b, 2, 0>> /\ a = p BY <1>7, <2>2 DEF KeyAt, SourceAt, Primary
  <2>4. <<b, 2, 0>> \in DOMAIN sql.seen BY <1>4, <2>3
  <2>5. RowsOf(MaskDocs(Select, p, Limited(sql.seen[<<b, 2, 0>>], ReadLimit(Select, p))), p)
          = Read(Select, JoinsOf(sql.seen, Select, b)[0])
    BY <1>2, <2>4, FirstIsRead
  <2>6. sql.docs = MaskDocs(Select, p, Limited(sql.seen[<<b, 2, 0>>], ReadLimit(Select, p)))
    BY <1>6, <2>3 DEF Answered
  <2>7. RowsOf(sql.docs, p) = Read(Select, JoinsOf(sql.seen, Select, b)[0]) BY <2>5, <2>6
  <2>8. RowsAt(sql.seen, Select, b, sql.at + 1) = JoinsOf(sql.seen, Select, b)[0]
    BY <1>2, <1>7 DEF RowsAt
  <2> QED BY <2>1, <2>4, <2>7, <2>8, NextStageMeans
<1>8. ASSUME sql.at # 2
      PROVE  /\ Select.joins[i].source.alias = a /\ SqlStage.source.kind = Select.joins[i].source.kind
             /\ sql.docs = MaskDocs(Select, a, held) /\ i \in 1..Len(Select.joins)
  <2>1. Select.joins[i].source = SourceAt(Select, sql.at) BY <1>8 DEF SourceAt
  <2>2. Answered(Select, a, held) = MaskDocs(Select, a, held)
    <3> HIDE DEF a, held, i
    <3> QED BY <1>2, <1>3, <1>8, JoinAnswered
  <2> QED BY <1>2, <1>3, <1>6, <1>8, <2>1, <2>2
<1>9. CASE sql.at # 2 /\ ~IsLocal(Select, sql.at)
  <2> DEFINE rows == FlattenSeq([j \in DOMAIN sql.rows |-> Joined(sql.rows[j], sql.docs, SqlStage, p)])
  <2>1. Select.joins[i].source.kind # "subcollection" BY <1>9 DEF IsLocal
  <2>2. NextSqlStage(sql, rows) BY <1>2, <1>8, <1>9, <2>1 DEF EndRead
  <2>3. key = <<b, i + 2, 0>> BY <1>2, <1>3, <1>9 DEF ReadingSound, KeyAt
  <2>4. <<b, i + 2, 0>> \in DOMAIN sql.seen
        /\ sql.docs = MaskDocs(Select, Select.joins[i].source.alias, sql.seen[<<b, i + 2, 0>>])
    BY <1>4, <1>8, <1>9, <2>3
  <2>5. rows = Read(Select, JoinsOf(sql.seen, Select, b)[i])
    <3> DEFINE docs == sql.docs
               all == Read(Select, JoinsOf(sql.seen, Select, b)[i - 1])
    <3>1. docs = MaskDocs(Select, Select.joins[i].source.alias, sql.seen[<<b, i + 2, 0>>]) BY <2>4
    <3>2. rows = FlattenSeq([j \in DOMAIN all |-> Joined(all[j], docs, SqlStage, Primary(Select))])
      BY <1>3, <1>9
    <3> HIDE DEF docs, rows, i
    <3>3. JoinsRows(sql.seen, Select, b, i, SqlStage, docs)
      BY <1>2, <1>3, <1>9, <2>1, <2>4, <3>1, RowsAreJoined
    <3> QED BY <3>2, <3>3 DEF JoinsRows
  <2> HIDE DEF rows, i
  <2> QED BY <1>3, <1>9, <2>2, <2>5, NextStageMeans
<1>10. CASE sql.at # 2 /\ IsLocal(Select, sql.at)
  <2> DEFINE joined == sql.joined \o Joined(Head(sql.left), sql.docs, SqlStage, p)
  <2>1. Select.joins[i].source.kind = "subcollection" BY <1>10 DEF IsLocal
  <2>2. SqlDoes([sql EXCEPT !.pc = "joining", !.left = Tail(@), !.docs = <<>>, !.todo = <<>>,
                            !.joined = joined])
    BY <1>2, <1>8, <1>10, <2>1 DEF EndRead
  <2> HIDE DEF joined
  <2>3. /\ sql'.pc = "joining" /\ Stays(sql, sql') /\ sql'.seen = sql.seen /\ sql'.at = sql.at
        /\ sql'.rows = sql.rows /\ sql'.left = Tail(sql.left) /\ sql'.joined = joined
        /\ sql'.docs = <<>> /\ sql'.todo = <<>>
    BY <1>1, <2>2 DEF SqlDoes, SqlFields, Stays
  <2>4. LeftSound(sql.seen, Select, b, i, sql.left, sql.joined) /\ sql.left # <<>>
    BY <1>2, <1>10 DEF ReadingSound
  <2>5. Len(sql.left) \in Nat /\ Len(Tail(sql.left)) = Len(sql.left) - 1
    <3> HIDE DEF i
    <3> QED BY <1>2, <1>3, <1>10, <2>4, LeftTyped
  <2>6. key = <<b, i + 2, Len(sql.left)>> BY <1>3, <1>10 DEF KeyAt
  <2>7. LeftSound(sql.seen, Select, b, i, Tail(sql.left), joined)
    <3> DEFINE docs == MaskDocs(Select, Select.joins[i].source.alias,
                         IF <<b, i + 2, Len(sql.left)>> \in DOMAIN sql.seen
                         THEN sql.seen[<<b, i + 2, Len(sql.left)>>] ELSE <<>>)
    <3>1. docs = sql.docs BY <1>4, <1>8, <1>10, <2>6
    <3>2. LeftSound(sql.seen, Select, b, i, Tail(sql.left),
                    sql.joined \o Joined(Head(sql.left), docs, SqlStage, Primary(Select)))
      <4> HIDE DEF i
      <4> QED BY <1>2, <1>3, <1>10, <2>1, <2>4, LeftGoes
    <3> QED BY <3>1, <3>2 DEF joined
  <2>8. Unread(sql')
    <3>1. \A z \in Nat : z < Len(sql'.left) \/ z = Len(sql'.left) => z < Len(sql.left) BY <2>3, <2>5
    <3> QED BY <1>2, <2>3, <3>1, UnreadGoes
  <2>9. ReadingSound(sql', Select) BY <1>2, <1>10, <2>3, <2>7 DEF ReadingSound, Stays
  <2>10. sql.rows = Read(Select, RowsAt(sql.seen, Select, b, sql.at))
    BY <1>3, <1>10 DEF AtWork, BranchSound
  <2>11. BranchSound(sql', Select) BY <1>3, <1>10, <2>3, <2>8, <2>9, <2>10 DEF BranchSound, Stays
  <2>12. sql'.pc \in Working BY <2>3 DEF Working
  <2> QED BY <2>3, <2>11, <2>12, WorkGoes
<1> QED BY <1>7, <1>9, <1>10

LEMMA EndReadStays ==
  ASSUME NEW s, s = [f \in SqlFields |-> s[f]], EndRead(s)
  PROVE  sql'.name = s.name /\ sql'.reason = s.reason
BY NextStageStays DEF EndRead, SqlDoes, SqlFields

LEMMA CollectMeans ==
  ASSUME SqlSound(sql), SqlMeant(sql), Collect
  PROVE  SqlMeant(sql')
<1> DEFINE s == Looks(sql)
           ended == sql.todo = <<>> \/ Reached(Len(sql.docs), ReadLimit(Select, SqlStage.source.alias))
           a == SourceAt(Select, sql.at).alias
<1>1. /\ s = [f \in SqlFields |-> s[f]] /\ s.name = sql.name
      /\ sql.reason # "none" => s.reason # "none"
      /\ ~Stops(s) => s = sql /\ sql.reason = "none"
  BY LooksIs
<1>2. sql = [f \in SqlFields |-> sql[f]] BY DEF SqlSound
<1>3. sql.pc = "collecting" /\ sql.pc \in Working /\ sql.pc # "stages" BY DEF Collect, Working
<1> HIDE DEF s, ended
<1>4. CASE ~ended /\ Stops(s) BY <1>1, <1>4, EndReadStays, StoppedMeans DEF Collect, s, ended, Stops
<1>5. CASE ended
  BY <1>2, <1>3, <1>5, EndReadStays, WorkIs, EndReadMeans, StoppedMeans DEF Collect, ended
<1>6. CASE ~ended /\ ~Stops(s)
  <2>1. s = sql /\ sql.reason = "none" BY <1>1, <1>6
  <2> DEFINE docs == Append(sql.docs, Head(sql.todo))
             todo == Tail(sql.todo)
  <2>2. SqlDoes([sql EXCEPT !.docs = docs, !.todo = todo, !.reads = @ + 1,
                            !.reason = IF sql.reads + 1 >= ReadBudget THEN "budget" ELSE @])
    BY <1>6, <2>1 DEF Collect, s, ended
  <2> HIDE DEF docs, todo
  <2>3. /\ sql'.pc = "collecting" /\ sql'.name = sql.name /\ sql'.branch = sql.branch
        /\ sql'.outputRows = sql.outputRows /\ sql'.reason \in {"none", "budget"}
        /\ sql'.seen = sql.seen /\ sql'.at = sql.at
        /\ sql'.rows = sql.rows /\ sql'.left = sql.left /\ sql'.joined = sql.joined
        /\ sql'.docs = docs /\ sql'.todo = todo
    BY <1>2, <1>3, <2>1, <2>2 DEF SqlDoes, SqlFields
  <2>4. CASE sql'.reason = "none" /\ NamesTrue(sql.name)
    <3>1. AtWork(sql, Select, SqlStages) BY <1>3, <2>1, <2>4, WorkIs
    <3>2. /\ Stays(sql, sql') /\ KeyAt(sql') = KeyAt(sql) /\ sql'.pc \in Working
      BY <1>3, <2>1, <2>3, <2>4 DEF Stays, KeyAt, Working
    <3>3. /\ ReadingSound(sql, Select) /\ Unread(sql) BY <1>3, <3>1, ReadingIs
    <3>4. Gathering(Select, a, sql.seen[KeyAt(sql)], sql.docs, sql.todo) BY <1>3, <3>3 DEF ReadingSound
    <3>5. sql.todo # <<>> BY <1>6 DEF ended
    <3> HIDE DEF a
    <3>6. Gathering(Select, a, sql.seen[KeyAt(sql)], docs, todo)
      BY <3>4, <3>5, GatheringGoes DEF docs, todo
    <3>7. Unread(sql') BY <1>3, <2>3, <3>3 DEF Unread
    <3>8. ReadingSound(sql', Select) BY <1>3, <2>3, <3>2, <3>3, <3>6 DEF ReadingSound, a
    <3>9. BranchSound(sql', Select) BY <1>3, <2>3, <3>1, <3>7, <3>8 DEF BranchSound, AtWork
    <3> QED BY <2>3, <3>1, <3>2, <3>9, WorkGoes
  <2> QED BY <2>3, <2>4, StoppedMeans
<1> QED BY <1>4, <1>5, <1>6

----------------
(* Runs: the invariant, and what it gives *)

\* A run begins as the invariant has it.
LEMMA SqlBegins ==
  ASSUME NEW name \in DOMAIN SqlPlans \cup {NoSql}, sql = NewSqlRun(name), written = 0
  PROVE  SqlInv
<1>1. 0 \in 0..(Len(DocumentsNow) - 1) BY SqlAssumption, LenProperties, EmptySeq
<1>2. SqlSound(sql) BY DEF NewSqlRun, SqlSound, SqlFields, SqlOver
<1>3. SqlMeant(sql) BY DEF SqlMeant, NewSqlRun
<1> QED BY <1>1, <1>2, <1>3 DEF SqlInv, SqlPlaced

LEMMA SqlNextKeeps ==
  ASSUME SqlInv, SqlNext
  PROVE  SqlInv'
<1>1. SqlPlaced /\ SqlSound(sql) /\ SqlMeant(sql) BY DEF SqlInv, SqlPlaced
<1>2. SqlPlaced'
  BY <1>1, StartSqlKeeps, RunSqlStageKeeps, JoinNextRowKeeps, SqlAnswersKeeps, SqlReadFailsKeeps,
     CollectKeeps, SqlAroundKeeps DEF SqlNext
<1>3. SqlMeant(sql')
  BY <1>1, StartSqlMeans, RunSqlStageMeans, JoinNextRowMeans, SqlAnswersMeans, SqlReadFailsMeans,
     CollectMeans, SqlAroundMeans DEF SqlNext
<1>4. SqlMeant(sql)' BY <1>3 DEF SqlMeant
<1> QED BY <1>2, <1>4 DEF SqlInv

LEMMA LoseSqlStays ==
  ASSUME SqlInv, LoseSql
  PROVE  SqlInv'
BY LoseSqlKeeps, LoseSqlMeans DEF SqlInv

LEMMA SqlStays ==
  ASSUME SqlInv, UNCHANGED sqlVars
  PROVE  SqlInv'
BY DEF SqlInv, SqlPlaced, sqlVars

\* The rows that pass, as PassingRows computes them from the history.
LEMMA PassingRowsIs ==
  ASSUME NEW b
  PROVE  PassingRows(b) = PassingOf(sql.seen, Branch(sql.name, b), b)
<1>1. \A i, rows : JoinedRows(b, i, rows) = JoinStep(sql.seen, Branch(sql.name, b), b, i, rows)
  BY DEF JoinedRows, JoinStep, Matches, RightOf, KeyOf, SqlPlan, Branch
<1> DEFINE select == Branch(sql.name, b)
           plan == SqlPlan.branches[b]
           Solves(f) == f = [i \in 0..Len(plan.joins) |->
                               IF i = 0 THEN RowsOf(sql.seen[<<b, 2, 0>>], Primary(plan))
                               ELSE JoinedRows(b, i, f[i - 1])]
           all == CHOOSE f : Solves(f)
<1>2. plan = select BY DEF SqlPlan, Branch
<1>3. PassingRows(b) = Filter(all[Len(plan.joins)], plan.where, Primary(plan)) BY DEF PassingRows
<1>4. \A f : Solves(f) <=> IsJoins(f, sql.seen, select, b)
  <2> HIDE DEF JoinedRows, JoinStep, select, plan
  <2> SUFFICES ASSUME NEW f PROVE Solves(f) <=> IsJoins(f, sql.seen, select, b) OBVIOUS
  <2>1. [i \in 0..Len(plan.joins) |->
           IF i = 0 THEN RowsOf(sql.seen[<<b, 2, 0>>], Primary(plan)) ELSE JoinedRows(b, i, f[i - 1])]
          = [i \in 0..Len(select.joins) |->
               IF i = 0 THEN RowsOf(sql.seen[<<b, 2, 0>>], Primary(select))
               ELSE JoinStep(sql.seen, select, b, i, f[i - 1])]
    BY <1>1, <1>2 DEF select
  <2> QED BY <2>1 DEF IsJoins
<1> HIDE DEF Solves
<1>5. all = CHOOSE f : IsJoins(f, sql.seen, select, b) BY <1>4, Zenon
<1>6. JoinsOf(sql.seen, select, b) = all BY <1>5 DEF JoinsOf
<1> HIDE DEF all
<1> QED BY <1>2, <1>3, <1>6 DEF PassingOf

\* What a branch means: names of its sources, an order of its rows, and its rows.
LEMMA MeaningIs ==
  ASSUME NEW name, sql.name = name, NEW b
  PROVE  /\ Meant(b) = MeantOf(sql.seen, name, b)
         /\ NamesItsSources(b) /\ DOMAIN Branch(name, b).joins = 1..Len(Branch(name, b).joins) =>
              \A i \in 1..Len(Branch(name, b).joins) :
                NamesOf(Branch(name, b).joins[i].on, Branch(name, b), KnownAt(Branch(name, b), i))
<1>1. SqlPlan.branches[b] = Branch(name, b) BY DEF SqlPlan, Branch
<1>2. PassingRows(b) = PassingOf(sql.seen, Branch(name, b), b) BY PassingRowsIs
<1>3. Meant(b) = MeantOf(sql.seen, name, b) BY <1>1, <1>2 DEF Meant, MeantOf, MeantFrom
<1>4. NamesItsSources(b) /\ DOMAIN Branch(name, b).joins = 1..Len(Branch(name, b).joins) =>
        \A i \in 1..Len(Branch(name, b).joins) :
          NamesOf(Branch(name, b).joins[i].on, Branch(name, b), KnownAt(Branch(name, b), i))
  BY <1>1 DEF NamesItsSources, NamesOf, KnownAt
<1> QED BY <1>3, <1>4

LEMMA ComparesRanked ==
  ASSUME NEW name, sql.name = name, NEW b, ComparesItsRows(b), NEW S,
         PassingOf(sql.seen, Branch(name, b), b) \in Seq(S)
  PROVE  RankedOf(sql.seen, name, b)
<1> DEFINE select == Branch(name, b)
           rows == PassingOf(sql.seen, select, b)
           keys == Keys(rows, select.order, Primary(select))
<1>1. SqlPlan.branches[b] = select BY DEF SqlPlan, Branch
<1>2. PassingRows(b) = rows BY PassingRowsIs
<1>3. \A i, j, k \in DOMAIN keys :
        /\ Precedes(keys[i], keys[k], select.order) =>
             Precedes(keys[i], keys[j], select.order) \/ Precedes(keys[j], keys[k], select.order)
        /\ ~(Precedes(keys[i], keys[k], select.order) /\ Precedes(keys[k], keys[i], select.order))
  <2> HIDE DEF select, rows
  <2> QED BY <1>1, <1>2 DEF ComparesItsRows
<1>4. DOMAIN keys = 1..Len(rows)
  <2> HIDE DEF rows, select
  <2>1. rows \in Seq(S) BY DEF rows, select
  <2> QED BY <2>1, KeysCounted
<1>5. RankedOf(sql.seen, name, b) = StrictWeak(keys, select.order, Len(rows))
  BY DEF RankedOf, RankedKeys
<1> HIDE DEF keys, rows, select
<1> QED BY <1>3, <1>4, <1>5 DEF StrictWeak

\* A run that was not stopped gives the rows its statement means (executeFirestoreSql).
THEOREM InvCompletes ==
  SqlInv => CompletesWithItsRows
<1> DEFINE name == sql.name
           n == Len(SqlPlans[name].branches)
<1> SUFFICES ASSUME SqlInv, sql.pc = "done", sql.reason = "none",
                    \A b \in DOMAIN SqlPlan.branches : NamesItsSources(b) /\ ComparesItsRows(b),
                    sql.name \in DOMAIN SqlPlans
             PROVE  sql.outputRows = FlattenSeq([b \in DOMAIN SqlPlan.branches |-> Meant(b)])
  <2>1. SqlInv /\ sql.pc = "done" => sql.name \in DOMAIN SqlPlans BY DEF SqlInv, SqlPlaced, SqlSound
  <2> QED BY <2>1 DEF CompletesWithItsRows
<1>1. DOMAIN SqlPlan.branches = 1..n /\ \A b \in 1..n : Planned(Branch(name, b))
  BY BranchesPlanned DEF SqlPlan
<1>2. NamesTrue(name) BY <1>1, LenProperties, MeaningIs DEF Planned, NamesTrue, SqlPlan
<1>3. SeenTyped(sql.seen) /\ OutputsMeant(sql.seen, name, n, sql.outputRows)
  BY <1>2 DEF SqlInv, SqlMeant
<1>4. ASSUME NEW b \in 1..n PROVE RankedOf(sql.seen, name, b)
  BY <1>1, <1>3, PassingTyped, ComparesRanked DEF OutputsMeant
<1>5. sql.outputRows = FlattenSeq([b \in 1..n |-> MeantOf(sql.seen, name, b)])
  BY <1>3, <1>4 DEF OutputsMeant
<1>6. [b \in DOMAIN SqlPlan.branches |-> Meant(b)] = [b \in 1..n |-> MeantOf(sql.seen, name, b)]
  BY <1>1, MeaningIs
<1> QED BY <1>5, <1>6

=============================================================================
