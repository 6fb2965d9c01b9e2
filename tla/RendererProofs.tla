--------------------------- MODULE RendererProofs ---------------------------
(* The tabs of the renderer: UsersInv, which is inductive for any number
   of users, pages of any size, and calls that are answered in any order,
   and gives ShowsItsUsers; what the workspace's operators keep and give;
   WorkbenchInv, which is inductive for any workspaces restored, accounts,
   paths, and any number of tabs, runs and rows; and from it
   WorkbenchTypeOK, ShowsItsAccount, NoRunUnattended and ViewReturns.
   The query tab, whose proofs are in FirestoreTabProofs, goes its own way
   in the renderer, as the others do; TypeOK is that of all of them. *)
EXTENDS Renderer, FirestoreTabProofs, FiniteSetTheorems, SequenceTheorems, WellFoundedInduction, TLAPS

----------------
(* Users: the invariant *)

Cursors == 0..(LastUser - 1)
Requests == [filter : Filters, runId : Nat]
CallRecords ==
  [op : {"load", "more", "save"}, id : Nat, request : Requests, cursor : Cursors,
   uid : Users \cup {0}, asOf : [Users -> Nat]]
AnswerRecords ==
  [call : CallRecords, ok : BOOLEAN, items : Seq(UserRecords), cursor : Cursors]
UsersTabs ==
  [filter : Filters, active : Requests, error : BOOLEAN, cursor : Cursors, runId : Nat,
   searched : Seq(UserRecords), users : Seq(UserRecords), more : BOOLEAN,
   fetching : BOOLEAN, loading : BOOLEAN, loaded : Filters \cup {NotLoaded}]

UsersTyped ==
  /\ claims \in [Users -> Nat \ {0}] /\ updatedUsers \in [Users -> Nat] /\ since \in [Users -> Nat]
  /\ {onUsers, mixed, takenBack} \subseteq BOOLEAN /\ visits \in Nat
  /\ usersTab \in UsersTabs
  /\ usersAsked \subseteq CallRecords /\ usersAnswered \in Seq(AnswerRecords)

\* The load that is active is under way, with the last number there is.
ActiveUnderway ==
  /\ usersTab.loading <=> usersTab.active # NoUsersRequest
  /\ usersTab.active.runId <= usersTab.runId
  /\ usersTab.loading => \E c \in Underway : c.op = "load" /\ c.request = usersTab.active

\* The calls are as they are sent.
CallsKnown ==
  \A c \in Underway :
    /\ c.op = "load" => c.request.runId \in 1..usersTab.runId /\ c.cursor = 0
    /\ c.op = "more" => c.cursor # 0
    /\ c.op = "save" <=> c.uid \in Users

\* A call has a number of its own, and is answered once.
AnsweredOnce ==
  /\ \A c \in Underway : c.id <= visits
  /\ \A i \in DOMAIN usersAnswered :
       /\ usersAnswered[i].call \notin usersAsked
       /\ \A j \in DOMAIN usersAnswered : usersAnswered[i].call = usersAnswered[j].call => i = j

\* A page of the list goes on from its cursor.
PageFrom(cursor, items, next) ==
  /\ \A i \in DOMAIN items : items[i].uid = cursor + i
  /\ next = (IF cursor + Len(items) < LastUser THEN cursor + Len(items) ELSE 0)
  /\ cursor + Len(items) <= LastUser

\* What was answered is what was asked for.
AnswerTrue(a) ==
  a.ok =>
    /\ a.call.op = "more" \/ (a.call.op = "load" /\ a.call.request.filter = NoFilter) =>
         PageFrom(a.call.cursor, a.items, a.cursor) /\ a.items # <<>>
    /\ a.call.op = "load" /\ a.call.request.filter # NoFilter =>
         Len(a.items) = 1 /\ a.items[1].uid = a.call.request.filter /\ a.cursor = 0
    /\ a.call.op = "save" => Len(a.items) = 1 /\ a.items[1].uid = a.call.uid
AnswersTrue == \A i \in DOMAIN usersAnswered : AnswerTrue(usersAnswered[i])

\* What is loading, or is loaded, is what the filter asks for.
FilterLoaded ==
  onUsers /\ ~takenBack =>
    /\ usersTab.loading => usersTab.active.filter = usersTab.filter
    /\ ~usersTab.loading /\ ~mixed /\ ~usersTab.error => usersTab.loaded = usersTab.filter

\* A further page that crosses no load goes on with the list there is; it is the only one.
MoreFits ==
  ~mixed =>
    /\ usersTab.more => usersTab.loaded = NoFilter
    /\ \A c \in Underway : c.op = "more" =>
         /\ ~usersTab.loading /\ usersTab.more /\ usersTab.filter = NoFilter
         /\ c.cursor = usersTab.cursor
         /\ \A d \in Underway : d.op = "more" => d = c

\* The list is there, without a gap: it is the last thing that was loaded.
ListLoaded == ~mixed /\ ~usersTab.loading /\ usersTab.loaded = NoFilter
                /\ (usersTab.more \/ ~usersTab.error)
ListWhole ==
  ListLoaded =>
    /\ usersTab.users # <<>> /\ PageFrom(0, usersTab.users, usersTab.cursor)
    /\ usersTab.more <=> usersTab.cursor # 0

\* The user who was searched for is there.
SearchLoaded == ~mixed /\ ~usersTab.loading /\ usersTab.loaded \in Users /\ ~usersTab.error
SearchedIs ==
  usersTab.loaded \in Users =>
    Len(usersTab.searched) = 1 /\ usersTab.searched[1].uid = usersTab.loaded

\* A row is as new as the tab was told, or hidden behind what was saved since.
Newer(row) == row.claims >= since[row.uid] \/ updatedUsers[row.uid] # 0
RowsNew ==
  /\ ListLoaded => \A i \in DOMAIN usersTab.users : Newer(usersTab.users[i])
  /\ SearchLoaded => \A i \in DOMAIN usersTab.searched : Newer(usersTab.searched[i])

\* The active load is as new as the tab was told when it was sent.
IsActive(c) == c.op = "load" /\ c.request = usersTab.active /\ usersTab.loading
ActiveNew ==
  \A c \in Underway : IsActive(c) => \A u \in Users :
    /\ c.asOf[u] <= claims[u]
    /\ updatedUsers[u] # 0 => updatedUsers[u] >= c.asOf[u]

\* Its answer, and those of further pages, are as new as what the tab was told.
AnswerNew(a) ==
  a.ok => \A i \in DOMAIN a.items :
    /\ IsActive(a.call) => Newer(a.items[i]) /\ a.items[i].claims >= a.call.asOf[a.items[i].uid]
    /\ a.call.op = "more" /\ ~mixed => Newer(a.items[i])
AnswersNew == \A n \in DOMAIN usersAnswered : AnswerNew(usersAnswered[n])

\* What is answered to a save is newer than anything the tab was told, one save after another.
IsSaved(a) == a.ok /\ a.call.op = "save"
SaveNew(a) ==
  IsSaved(a) =>
    /\ since[a.items[1].uid] <= a.items[1].claims /\ a.items[1].claims <= claims[a.items[1].uid]
    /\ \A c \in Underway : IsActive(c) => c.asOf[a.items[1].uid] <= a.items[1].claims
InOrder(b, a) == IsSaved(a) /\ IsSaved(b) /\ a.call.uid = b.call.uid => b.items[1].claims <= a.items[1].claims
SavesNew ==
  \A n \in DOMAIN usersAnswered :
    /\ SaveNew(usersAnswered[n])
    /\ \A m \in DOMAIN usersAnswered : m < n => InOrder(usersAnswered[m], usersAnswered[n])

\* What the tab was told is not newer than what there is, and what it shows of saves is no older.
ToldTrue ==
  \A u \in Users :
    since[u] <= claims[u] /\ (updatedUsers[u] # 0 => updatedUsers[u] >= since[u])

UsersInv ==
  /\ UsersTyped /\ ActiveUnderway /\ CallsKnown /\ AnsweredOnce /\ AnswersTrue /\ FilterLoaded
  /\ MoreFits /\ ListWhole /\ SearchedIs /\ RowsNew /\ ActiveNew /\ AnswersNew /\ SavesNew /\ ToldTrue

----------------
(* Users: calls and answers *)

\* The greater of two numbers is one of them, and no less than either,
LEMMA MaxOfTwo ==
  ASSUME NEW m \in Nat, NEW n \in Nat
  PROVE  Max({m, n}) \in Nat /\ Max({m, n}) >= m /\ Max({m, n}) >= n /\ Max({m, n}) \in {m, n}
<1>1. PICK x \in {m, n} : \A y \in {m, n} : x >= y OBVIOUS
<1> QED BY <1>1 DEF Max

\* and so for the lesser.
LEMMA MinOfTwo ==
  ASSUME NEW m \in Nat, NEW n \in Nat
  PROVE  Min({m, n}) \in {m, n} /\ Min({m, n}) <= m /\ Min({m, n}) <= n
<1>1. PICK x \in {m, n} : \A y \in {m, n} : x <= y OBVIOUS
<1> QED BY <1>1 DEF Min

\* What the tab is made of.
LEMMA UsersParts ==
  ASSUME UsersTyped
  PROVE  /\ claims \in [Users -> Nat \ {0}] /\ updatedUsers \in [Users -> Nat] /\ since \in [Users -> Nat]
         /\ \A u \in Users : claims[u] \in Nat \ {0} /\ updatedUsers[u] \in Nat /\ since[u] \in Nat
         /\ onUsers \in BOOLEAN /\ mixed \in BOOLEAN /\ takenBack \in BOOLEAN /\ visits \in Nat
         /\ usersTab.filter \in Filters /\ usersTab.active \in Requests /\ usersTab.error \in BOOLEAN
         /\ usersTab.cursor \in Cursors /\ usersTab.runId \in Nat
         /\ usersTab.searched \in Seq(UserRecords) /\ usersTab.users \in Seq(UserRecords)
         /\ usersTab.more \in BOOLEAN /\ usersTab.fetching \in BOOLEAN /\ usersTab.loading \in BOOLEAN
         /\ usersTab.loaded \in Filters \cup {NotLoaded}
         /\ usersTab.active.runId \in Nat /\ usersTab.active.filter \in Filters
         /\ LastUser \in Nat \ {0} /\ UsersPerPage \in Nat \ {0} /\ Users = 1..LastUser
         /\ OthersUsers \subseteq Users
BY UsersAssumption DEF UsersTyped, UsersTabs, Requests, Users

\* The calls under way: those that were sent, and those whose answers are on their way.
LEMMA UnderwayParts ==
  ASSUME UsersTyped
  PROVE  /\ \A i \in DOMAIN usersAnswered :
              usersAnswered[i] \in AnswerRecords /\ usersAnswered[i].call \in Underway
         /\ DOMAIN usersAnswered = 1..Len(usersAnswered) /\ Len(usersAnswered) \in Nat
         /\ usersAsked \subseteq Underway
         /\ \A c \in Underway : c \in CallRecords
         /\ \A c : c \in Underway <=> c \in usersAsked \/ \E i \in DOMAIN usersAnswered : usersAnswered[i].call = c
<1> DEFINE A == AnswerRecords
<1>1. usersAnswered \in Seq(A) /\ usersAsked \subseteq CallRecords BY DEF UsersTyped
<1>2. \A a \in A : a.call \in CallRecords BY DEF AnswerRecords
<1> HIDE DEF A
<1>3. \A i \in DOMAIN usersAnswered : usersAnswered[i] \in A BY <1>1
<1>4. DOMAIN usersAnswered = 1..Len(usersAnswered) /\ Len(usersAnswered) \in Nat BY <1>1
<1>5. \A c : c \in Underway <=> c \in usersAsked \/ \E i \in DOMAIN usersAnswered : usersAnswered[i].call = c
  BY DEF Underway
<1> QED BY <1>1, <1>2, <1>3, <1>4, <1>5 DEF A

\* An answer that is taken ends its call, and no other.
LEMMA Received ==
  ASSUME UsersTyped, AnsweredOnce, usersAnswered # <<>>, usersAnswered' = Tail(usersAnswered),
         usersAsked' = usersAsked, visits' = visits
  PROVE  LET answer == Head(usersAnswered)
         IN /\ answer \in AnswerRecords /\ answer = usersAnswered[1] /\ 1 \in DOMAIN usersAnswered
            /\ answer.call \in Underway /\ answer.call \in CallRecords
            /\ usersAnswered' \in Seq(AnswerRecords)
            /\ \A i \in DOMAIN usersAnswered' :
                 /\ i + 1 \in DOMAIN usersAnswered /\ i + 1 # 1
                 /\ usersAnswered'[i] = usersAnswered[i + 1]
            /\ \A c : c \in Underway' <=> c \in Underway /\ c # answer.call
            /\ AnsweredOnce'
<1> DEFINE A == AnswerRecords
<1>1. usersAnswered \in Seq(A) /\ usersAsked \subseteq CallRecords BY DEF UsersTyped
<1>2. Head(usersAnswered) \in A /\ Head(usersAnswered).call \in CallRecords BY UnderwayParts, <1>1 DEF AnswerRecords
<1> HIDE DEF A
<1>3. /\ Tail(usersAnswered) \in Seq(A) /\ Head(usersAnswered) = usersAnswered[1]
      /\ 1 \in DOMAIN usersAnswered /\ Len(usersAnswered) \in Nat /\ DOMAIN usersAnswered = 1..Len(usersAnswered)
      /\ DOMAIN Tail(usersAnswered) = 1..(Len(usersAnswered) - 1)
      /\ \A i \in 1..(Len(usersAnswered) - 1) : Tail(usersAnswered)[i] = usersAnswered[i + 1]
  BY <1>1
<1>4. \A i \in DOMAIN usersAnswered' : /\ i \in Nat /\ i + 1 \in DOMAIN usersAnswered /\ i + 1 # 1
                                       /\ usersAnswered'[i] = usersAnswered[i + 1]
  BY <1>3
<1>5. \A j \in DOMAIN usersAnswered : j # 1 =>
        j - 1 \in DOMAIN usersAnswered' /\ usersAnswered'[j - 1] = usersAnswered[j]
  BY <1>3
<1>6. \A c : c \in Underway' <=> c \in Underway /\ c # Head(usersAnswered).call
  <2>1. \A c \in Underway' : c \in Underway /\ c # usersAnswered[1].call
    BY <1>3, <1>4 DEF Underway, AnsweredOnce
  <2>2. \A c \in Underway : c # usersAnswered[1].call => c \in Underway' BY <1>5 DEF Underway
  <2> QED BY <2>1, <2>2, <1>3
<1>7. AnsweredOnce'
  <2>1. \A i \in DOMAIN usersAnswered' : usersAnswered'[i].call \notin usersAsked'
    BY <1>4 DEF AnsweredOnce
  <2>2. \A i, j \in DOMAIN usersAnswered' : usersAnswered'[i].call = usersAnswered'[j].call => i = j
    <3>1. ASSUME NEW i \in DOMAIN usersAnswered', NEW j \in DOMAIN usersAnswered', usersAnswered'[i].call = usersAnswered'[j].call
          PROVE  i = j
      <4>1. i + 1 = j + 1 BY <1>4, <3>1 DEF AnsweredOnce
      <4> QED BY <1>4, <4>1
    <3> QED BY <3>1
  <2> QED BY <1>6, <2>1, <2>2 DEF AnsweredOnce
<1>8. Head(usersAnswered).call \in Underway BY <1>3, UnderwayParts
<1> QED BY <1>1, <1>2, <1>3, <1>4, <1>6, <1>7, <1>8 DEF A

\* An answer that tells nothing.
LEMMA UnheardUsers ==
  ASSUME UsersInv, usersAnswered # <<>>, usersAnswered' = Tail(usersAnswered),
         UNCHANGED <<usersMain, visits, onUsers, usersAsked, usersTab, updatedUsers, mixed, takenBack, since>>,
         ~IsActive(Head(usersAnswered).call)
  PROVE  UsersInv'
<1> USE DEF UsersInv
<1>1. /\ usersAnswered' \in Seq(AnswerRecords) /\ AnsweredOnce'
      /\ \A c : c \in Underway' <=> c \in Underway /\ c # Head(usersAnswered).call
      /\ \A i \in DOMAIN usersAnswered' :
           i + 1 \in DOMAIN usersAnswered /\ usersAnswered'[i] = usersAnswered[i + 1]
  BY Received
<1>2. UsersTyped' BY <1>1 DEF UsersTyped, usersMain
<1>3. ActiveUnderway' BY <1>1 DEF ActiveUnderway, IsActive
<1>4. CallsKnown' BY <1>1 DEF CallsKnown
<1>5. AnswersTrue' BY <1>1 DEF AnswersTrue
<1>6. FilterLoaded' BY DEF FilterLoaded
<1>7. MoreFits' BY <1>1 DEF MoreFits
<1>8. ListWhole' BY DEF ListWhole, ListLoaded
<1>9. SearchedIs' BY DEF SearchedIs
<1>10. RowsNew' BY DEF RowsNew, ListLoaded, SearchLoaded, Newer
<1>11. ActiveNew' BY <1>1 DEF ActiveNew, IsActive, usersMain
<1>12. AnswersNew'
  <2>1. \A a : AnswerNew(a) => AnswerNew(a)' BY DEF AnswerNew, IsActive, Newer
  <2>2. \A i \in DOMAIN usersAnswered' : AnswerNew(usersAnswered'[i]) BY <1>1 DEF AnswersNew
  <2> QED BY <2>1, <2>2 DEF AnswersNew
<1>13. SavesNew' 
  BY <1>1, UnderwayParts DEF SaveNew, IsActive, usersMain, SavesNew, InOrder, IsSaved
<1>14. ToldTrue' BY DEF ToldTrue, usersMain
<1> QED BY <1>1, <1>2, <1>3, <1>4, <1>5, <1>6, <1>7, <1>8, <1>9, <1>10, <1>11, <1>12, <1>13, <1>14

\* What is answered to a save is the user it was for.
LEMMA SavedUser ==
  ASSUME UsersTyped, AnswersTrue, NEW n \in DOMAIN usersAnswered, IsSaved(usersAnswered[n])
  PROVE  \E u \in Users : /\ usersAnswered[n].call.uid = u /\ usersAnswered[n].items[1].uid = u
                          /\ usersAnswered[n].items[1].claims \in Nat \ {0}
                          /\ usersAnswered[n].items[1] = Head(usersAnswered[n].items)
<1>1. usersAnswered[n] \in AnswerRecords BY UnderwayParts
<1>2. Len(usersAnswered[n].items) = 1 /\ usersAnswered[n].items[1].uid = usersAnswered[n].call.uid
  BY DEF AnswersTrue, AnswerTrue, IsSaved
<1>3. usersAnswered[n].items \in Seq(UserRecords) BY <1>1 DEF AnswerRecords
<1>4. usersAnswered[n].items[1] \in UserRecords BY <1>2, <1>3
<1>5. usersAnswered[n].items[1] = Head(usersAnswered[n].items) BY <1>3
<1> QED BY <1>2, <1>4, <1>5 DEF UserRecords

\* What a list of users holds is users.
LEMMA UserOf ==
  ASSUME NEW list \in Seq(UserRecords), NEW i \in DOMAIN list
  PROVE  list[i] \in UserRecords
<1> DEFINE U == UserRecords
<1>1. list \in Seq(U) OBVIOUS
<1> HIDE DEF U
<1>2. list[i] \in U BY <1>1
<1> QED BY <1>2 DEF U

----------------
(* Users: what the main process does *)

\* What the main process answers is what there is by then (AdminAuthProvider).
LEMMA AnswerKeeps ==
  ASSUME UsersInv, NEW answer \in AnswerRecords, answer.call \in usersAsked, UsersReplies(answer),
         claims' \in [Users -> Nat \ {0}], \A u \in Users : claims[u] <= claims'[u],
         AnswerTrue(answer), answer.ok => answer.items \in Seq(UserRecords),
         answer.ok => \A i \in DOMAIN answer.items : answer.items[i].claims = claims'[answer.items[i].uid]
  PROVE  UsersInv'
<1> USE DEF UsersInv
<1>1. /\ usersAnswered' = Append(usersAnswered, answer) /\ usersAsked' = usersAsked \ {answer.call}
      /\ UNCHANGED <<visits, onUsers, usersTab, updatedUsers, mixed, takenBack, since>>
  BY DEF UsersReplies
<1> DEFINE A == AnswerRecords
<1> DEFINE last == Len(usersAnswered) + 1
<1>2. usersAnswered \in Seq(A) /\ answer \in A BY DEF UsersTyped
<1> HIDE DEF A
<1>3. /\ usersAnswered' \in Seq(A) /\ DOMAIN usersAnswered' = 1..last
      /\ DOMAIN usersAnswered = 1..Len(usersAnswered) /\ Len(usersAnswered) \in Nat
      /\ \A i \in DOMAIN usersAnswered : usersAnswered'[i] = usersAnswered[i]
      /\ usersAnswered'[last] = answer
  BY <1>1, <1>2, AppendProperties
<1>4. /\ \A i \in DOMAIN usersAnswered' : (i \in DOMAIN usersAnswered /\ i < last) \/ i = last
      /\ \A i \in DOMAIN usersAnswered : i \in DOMAIN usersAnswered' /\ i < last
      /\ last \in DOMAIN usersAnswered' /\ last \notin DOMAIN usersAnswered
  BY <1>3
<1> HIDE DEF last
<1>5. \A c : c \in Underway' <=> c \in Underway BY <1>1, <1>3, <1>4, UnderwayParts DEF Underway
<1>6. AnsweredOnce' BY <1>1, <1>3, <1>4, <1>5 DEF AnsweredOnce
<1>7. \A u \in Users : /\ claims[u] \in Nat \ {0} /\ claims'[u] \in Nat \ {0}
                       /\ since[u] \in Nat /\ updatedUsers[u] \in Nat /\ since[u] <= claims[u]
  BY UsersParts DEF ToldTrue
<1>8. answer.call \in Underway /\ answer.call \in CallRecords BY UnderwayParts
<1>9. \A c \in CallRecords : \A u \in Users : c.asOf[u] \in Nat BY DEF CallRecords
<1>10. answer.ok => \A i \in DOMAIN answer.items : answer.items[i].uid \in Users
  <2> DEFINE U == UserRecords
  <2>1. answer.ok => answer.items \in Seq(U) OBVIOUS
  <2>2. \A r \in U : r.uid \in Users BY DEF UserRecords
  <2> HIDE DEF U
  <2> QED BY <2>1, <2>2
<1>11. UsersTyped' BY <1>1, <1>3 DEF UsersTyped, A
<1>12. ActiveUnderway' BY <1>1, <1>5 DEF ActiveUnderway
<1>13. CallsKnown' BY <1>1, <1>5 DEF CallsKnown
<1>14. AnswersTrue' BY <1>3, <1>4 DEF AnswersTrue
<1>15. FilterLoaded' BY <1>1 DEF FilterLoaded
<1>16. MoreFits' BY <1>1, <1>5 DEF MoreFits
<1>17. ListWhole' BY <1>1 DEF ListWhole, ListLoaded
<1>18. SearchedIs' BY <1>1 DEF SearchedIs
<1>19. RowsNew' BY <1>1 DEF RowsNew, ListLoaded, SearchLoaded, Newer
<1>20. ActiveNew' BY <1>1, <1>5, <1>7, <1>9, UnderwayParts DEF IsActive, ActiveNew
<1>21. AnswersNew'
  <2>1. \A a : AnswerNew(a) => AnswerNew(a)' BY <1>1 DEF AnswerNew, IsActive, Newer
  <2>2. AnswerNew(answer)
    <3>1. ASSUME answer.ok, NEW i \in DOMAIN answer.items
          PROVE  /\ answer.items[i].claims >= since[answer.items[i].uid]
                 /\ IsActive(answer.call) => answer.items[i].claims >= answer.call.asOf[answer.items[i].uid]
      <4>1. PICK u \in Users : u = answer.items[i].uid /\ answer.items[i].claims = claims'[u] BY <1>10, <3>1
      <4>2. /\ claims[u] \in Nat /\ claims'[u] \in Nat /\ since[u] \in Nat /\ answer.call.asOf[u] \in Nat
            /\ since[u] <= claims[u] /\ claims[u] <= claims'[u]
        BY <1>7, <1>8, <1>9
      <4>3. IsActive(answer.call) => answer.call.asOf[u] <= claims[u] BY <1>8 DEF ActiveNew
      <4> QED BY <4>1, <4>2, <4>3
    <3> QED BY <3>1 DEF AnswerNew, Newer
  <2> QED BY <1>3, <1>4, <2>1, <2>2 DEF AnswersNew
<1>22. SavesNew'
  <2>1. \A n \in DOMAIN usersAnswered : IsSaved(usersAnswered[n]) =>
          \E u \in Users : /\ usersAnswered[n].call.uid = u /\ usersAnswered[n].items[1].uid = u
                           /\ usersAnswered[n].items[1].claims \in Nat
    BY SavedUser
  <2>2. ASSUME NEW n \in DOMAIN usersAnswered PROVE SaveNew(usersAnswered[n])'
    <3>1. SUFFICES ASSUME IsSaved(usersAnswered[n]) PROVE SaveNew(usersAnswered[n])'
      BY <1>3 DEF SaveNew, IsSaved
    <3>2. PICK u \in Users : /\ usersAnswered[n].call.uid = u /\ usersAnswered[n].items[1].uid = u
                             /\ usersAnswered[n].items[1].claims \in Nat
      BY <2>1, <3>1
    <3>3. /\ since[u] <= usersAnswered[n].items[1].claims /\ usersAnswered[n].items[1].claims <= claims[u]
          /\ \A c \in Underway : IsActive(c) => c.asOf[u] <= usersAnswered[n].items[1].claims
      BY <3>1, <3>2 DEF SavesNew, SaveNew
    <3>4. usersAnswered[n].items[1].claims <= claims'[u] BY <1>7, <3>2, <3>3
    <3> QED BY <1>1, <1>3, <1>5, <3>2, <3>3, <3>4 DEF SaveNew, IsActive
  <2>3. SaveNew(answer)'
    <3>1. SUFFICES ASSUME IsSaved(answer) PROVE SaveNew(answer)' BY DEF SaveNew, IsSaved
    <3>2. Len(answer.items) = 1 /\ answer.items \in Seq(UserRecords) BY <3>1 DEF AnswerTrue, IsSaved
    <3>3. 1 \in DOMAIN answer.items BY <3>2
    <3>4. PICK u \in Users : u = answer.items[1].uid /\ answer.items[1].claims = claims'[u]
      BY <1>10, <3>1, <3>3 DEF IsSaved
    <3>5. ASSUME NEW c \in Underway, IsActive(c) PROVE c.asOf[u] <= claims'[u]
      BY <1>7, <1>9, <3>5, UnderwayParts DEF ActiveNew
    <3>6. since[u] <= claims'[u] /\ claims'[u] <= claims'[u] BY <1>7
    <3> QED BY <1>1, <1>5, <3>4, <3>5, <3>6 DEF SaveNew, IsActive
  <2>4. ASSUME NEW m \in DOMAIN usersAnswered PROVE InOrder(usersAnswered[m], answer)
    <3>1. SUFFICES ASSUME IsSaved(answer), IsSaved(usersAnswered[m]), answer.call.uid = usersAnswered[m].call.uid
                   PROVE  usersAnswered[m].items[1].claims <= answer.items[1].claims
      BY DEF InOrder
    <3>2. PICK u \in Users : /\ usersAnswered[m].call.uid = u /\ usersAnswered[m].items[1].uid = u
                             /\ usersAnswered[m].items[1].claims \in Nat
      BY <2>1, <3>1
    <3>3. usersAnswered[m].items[1].claims <= claims[u] BY <3>1, <3>2 DEF SavesNew, SaveNew
    <3>4. Len(answer.items) = 1 /\ answer.items[1].uid = u /\ answer.items \in Seq(UserRecords)
      BY <3>1, <3>2 DEF AnswerTrue, IsSaved
    <3>5. answer.items[1].claims = claims'[u] BY <3>1, <3>4 DEF IsSaved
    <3> QED BY <1>7, <3>2, <3>3, <3>5
  <2>5. \A n \in DOMAIN usersAnswered' : SaveNew(usersAnswered[n])' BY <1>3, <1>4, <2>2, <2>3
  <2>6. \A n, m \in DOMAIN usersAnswered' : m < n => m \in DOMAIN usersAnswered
    BY <1>3, <1>4 DEF last
  <2>7. \A n, m \in DOMAIN usersAnswered' : m < n => InOrder(usersAnswered'[m], usersAnswered'[n])
    BY <1>3, <1>4, <2>4, <2>6 DEF SavesNew
  <2> QED BY <2>5, <2>7 DEF SavesNew, InOrder, IsSaved
<1>23. ToldTrue' BY <1>1, <1>7 DEF ToldTrue
<1> QED BY <1>6, <1>11, <1>12, <1>13, <1>14, <1>15, <1>16, <1>17, <1>18, <1>19, <1>20, <1>21, <1>22, <1>23

\* A call that is sent, whatever it is.
LEMMA Sent ==
  ASSUME UsersTyped, AnsweredOnce, visits' = visits + 1, NEW call, call.id = visits',
         usersAsked' = usersAsked \cup {call}, usersAnswered' = usersAnswered
  PROVE  /\ \A c : c \in Underway' <=> c \in Underway \/ c = call
         /\ AnsweredOnce'
BY UnderwayParts DEF Underway, AnsweredOnce, UsersTyped, CallRecords

\* The claims of a user are changed elsewhere.
LEMMA ClaimsElsewhereKeep ==
  ASSUME UsersInv, NEW u \in Users, OthersWrite(u)
  PROVE  UsersInv'
<1> USE DEF UsersInv
<1>0. UNCHANGED <<visits, onUsers, usersTab, updatedUsers, usersAsked, usersAnswered, mixed, takenBack, since>>
  BY DEF OthersWrite
<1>1. \A c : c \in Underway' <=> c \in Underway BY <1>0 DEF Underway
<1>2. /\ claims' \in [Users -> Nat \ {0}]
      /\ \A v \in Users : claims[v] \in Nat /\ claims'[v] \in Nat /\ claims[v] <= claims'[v]
  BY UsersParts DEF OthersWrite
<1>3. UsersTyped' BY <1>0, <1>2 DEF UsersTyped
<1>4. ActiveUnderway' /\ CallsKnown' /\ AnsweredOnce' BY <1>0, <1>1 DEF ActiveUnderway, CallsKnown, AnsweredOnce
<1>5. AnswersTrue' BY <1>0 DEF AnswersTrue
<1>6. FilterLoaded' /\ MoreFits' BY <1>0, <1>1 DEF FilterLoaded, MoreFits
<1>7. ListWhole' /\ SearchedIs' BY <1>0 DEF ListWhole, SearchedIs, ListLoaded
<1>8. RowsNew' BY <1>0 DEF RowsNew, ListLoaded, SearchLoaded, Newer
<1>9. ActiveNew' BY <1>0, <1>1, <1>2, UnderwayParts DEF ActiveNew, CallRecords, IsActive
<1>10. AnswersNew' BY <1>0 DEF AnswersNew, AnswerNew, IsActive, Newer
<1>11. SavesNew'
  <2>1. ASSUME NEW n \in DOMAIN usersAnswered PROVE SaveNew(usersAnswered[n])'
    <3>1. SUFFICES ASSUME IsSaved(usersAnswered[n]) PROVE SaveNew(usersAnswered[n])'
      BY <1>0 DEF SaveNew, IsSaved
    <3>2. PICK v \in Users : v = usersAnswered[n].items[1].uid /\ usersAnswered[n].items[1].claims \in Nat
      BY <3>1, SavedUser
    <3>3. SaveNew(usersAnswered[n]) BY DEF SavesNew
    <3>4. usersAnswered[n].items[1].claims <= claims'[v] BY <1>2, <3>1, <3>2, <3>3 DEF SaveNew
    <3> QED BY <1>0, <1>1, <3>1, <3>2, <3>3, <3>4 DEF SaveNew, IsActive
  <2> QED BY <1>0, <2>1 DEF SavesNew, InOrder, IsSaved
<1>12. ToldTrue' BY <1>0, <1>2, UsersParts DEF ToldTrue
<1> QED BY <1>3, <1>4, <1>5, <1>6, <1>7, <1>8, <1>9, <1>10, <1>11, <1>12

----------------
(* Users: what the user does *)

\* Another filter, without a load, or none.
LEMMA FilterChanged ==
  ASSUME UsersInv, NEW f \in Filters, usersTab' = [usersTab EXCEPT !.filter = f], visits' = visits + 1,
         {onUsers', takenBack'} \subseteq BOOLEAN, FilterLoaded', MoreFits',
         UNCHANGED <<usersMain, updatedUsers, usersAsked, usersAnswered, mixed, since>>
  PROVE  UsersInv'
<1> USE DEF UsersInv
<1>1. /\ usersTab' \in UsersTabs /\ usersTab'.active = usersTab.active /\ usersTab'.error = usersTab.error
      /\ usersTab'.cursor = usersTab.cursor /\ usersTab'.runId = usersTab.runId
      /\ usersTab'.searched = usersTab.searched /\ usersTab'.users = usersTab.users
      /\ usersTab'.more = usersTab.more /\ usersTab'.loading = usersTab.loading
      /\ usersTab'.loaded = usersTab.loaded
  BY DEF UsersTyped, UsersTabs
<1>2. \A c : c \in Underway' <=> c \in Underway BY DEF Underway
<1>3. UsersTyped' BY <1>1 DEF UsersTyped, usersMain
<1>4. ActiveUnderway' /\ CallsKnown' BY <1>1, <1>2 DEF ActiveUnderway, CallsKnown
<1>5. AnsweredOnce' BY <1>2, UnderwayParts DEF AnsweredOnce, CallRecords, UsersTyped
<1>6. AnswersTrue' BY DEF AnswersTrue
<1>7. ListWhole' /\ SearchedIs' BY <1>1 DEF ListWhole, SearchedIs, ListLoaded
<1>8. RowsNew' BY <1>1 DEF RowsNew, ListLoaded, SearchLoaded, Newer
<1>9. ActiveNew' BY <1>1, <1>2 DEF ActiveNew, IsActive, usersMain
<1>10. AnswersNew' BY <1>1 DEF AnswersNew, AnswerNew, IsActive, Newer
<1>11. SavesNew' BY <1>1, <1>2 DEF SavesNew, SaveNew, IsSaved, IsActive, usersMain, InOrder
<1>12. ToldTrue' BY DEF ToldTrue, usersMain
<1> QED BY <1>3, <1>4, <1>5, <1>6, <1>7, <1>8, <1>9, <1>10, <1>11, <1>12

\* Of a load that was just sent nothing is known but that it is the last (authUsersLoadStarted).
LEMMA LoadKeeps ==
  ASSUME UsersInv, NEW t \in UsersTabs, t.runId >= usersTab.runId, NEW asOf \in [Users -> Nat],
         t.searched = usersTab.searched, t.users = usersTab.users, t.more = usersTab.more,
         t.cursor = usersTab.cursor, t.loaded = usersTab.loaded, LoadUsers(t, asOf),
         visits' = visits + 1, onUsers' \in BOOLEAN, UNCHANGED <<usersMain, usersAnswered, since>>,
         updatedUsers' \in [Users -> Nat],
         \A u \in Users : /\ updatedUsers'[u] = 0 \/ (updatedUsers'[u] = updatedUsers[u] /\ asOf[u] = 0)
                          /\ asOf[u] <= claims[u] /\ (BeingSaved(u) => asOf[u] = 0)
  PROVE  UsersInv'
<1> USE DEF UsersInv
<1> DEFINE request == [filter |-> t.filter, runId |-> t.runId + 1]
<1> DEFINE call == [UsersCall("load") EXCEPT !.request = request, !.asOf = asOf]
<1>1. /\ usersTab' = [t EXCEPT !.active = request, !.error = FALSE, !.runId = request.runId,
                               !.fetching = FALSE, !.loading = TRUE]
      /\ usersAsked' = usersAsked \cup {call} /\ mixed' = (mixed \/ Pending("more"))
      /\ takenBack' = takenBack
  BY DEF LoadUsers
<1>2. t.filter \in Filters /\ t.runId \in Nat /\ request \in Requests /\ request.filter = t.filter
      /\ request.runId = t.runId + 1
  BY DEF UsersTabs, Requests
<1>3. usersTab.runId \in Nat /\ visits \in Nat /\ visits' \in Nat /\ usersTab.active.runId \in Nat
      /\ \A u \in Users : updatedUsers[u] \in Nat /\ since[u] \in Nat /\ claims[u] \in Nat /\ asOf[u] \in Nat
  BY UsersParts
<1>4. /\ call \in CallRecords /\ call.op = "load" /\ call.request = request /\ call.cursor = 0
      /\ call.uid = 0 /\ call.asOf = asOf /\ call.id = visits'
  <2>1. 0 \in Cursors BY UsersAssumption DEF Cursors
  <2> QED BY <1>2, <1>3, <2>1 DEF UsersCall, NoUpdates, NoUsersRequest, CallRecords
<1> HIDE DEF request, call
<1>5. /\ usersTab' \in UsersTabs /\ usersTab'.active = request /\ usersTab'.error = FALSE
      /\ usersTab'.cursor = usersTab.cursor /\ usersTab'.runId = t.runId + 1
      /\ usersTab'.searched = usersTab.searched /\ usersTab'.users = usersTab.users
      /\ usersTab'.more = usersTab.more /\ usersTab'.loading = TRUE
      /\ usersTab'.loaded = usersTab.loaded /\ usersTab'.filter = t.filter
  <2>1. PICK n \in Nat : n = t.runId + 1 /\ request.runId = n BY <1>2
  <2>2. usersTab' = [t EXCEPT !.active = request, !.error = FALSE, !.runId = n,
                              !.fetching = FALSE, !.loading = TRUE]
    BY <1>1, <2>1
  <2>3. usersTab' \in UsersTabs BY <1>2, <2>2 DEF UsersTabs
  <2>4. /\ usersTab'.active = request /\ usersTab'.error = FALSE /\ usersTab'.runId = n
        /\ usersTab'.loading = TRUE
    BY <2>2 DEF UsersTabs
  <2>5. /\ usersTab'.cursor = t.cursor /\ usersTab'.searched = t.searched
        /\ usersTab'.users = t.users /\ usersTab'.more = t.more
        /\ usersTab'.loaded = t.loaded /\ usersTab'.filter = t.filter
    BY <2>2 DEF UsersTabs
  <2> QED BY <2>1, <2>3, <2>4, <2>5
<1>6. AnsweredOnce' /\ \A c : c \in Underway' <=> c \in Underway \/ c = call BY <1>1, <1>4, Sent
<1>7. \A c \in Underway : c.op = "load" => c.request.runId \in Nat /\ c.request.runId >= 1 /\ c.request.runId <= usersTab.runId
  BY <1>3 DEF CallsKnown
<1>8. request.runId \in Nat /\ request.runId > usersTab.runId /\ request.runId >= 1 BY <1>2, <1>3
<1>9. \A c \in Underway' : IsActive(c)' => c = call BY <1>3, <1>5, <1>6, <1>7, <1>8 DEF IsActive
<1>10. UsersTyped' BY <1>1, <1>3, <1>4, <1>5 DEF UsersTyped, usersMain
<1>11. ActiveUnderway' BY <1>2, <1>4, <1>5, <1>6, <1>8 DEF NoUsersRequest, ActiveUnderway
<1>12. CallsKnown' BY <1>2, <1>3, <1>4, <1>5, <1>6, <1>7, <1>8 DEF Users, CallsKnown
<1>13. AnswersTrue' BY DEF AnswersTrue
<1>14. FilterLoaded' BY <1>2, <1>5 DEF FilterLoaded
<1>15. MoreFits' BY <1>1, <1>4, <1>5, <1>6 DEF Pending, MoreFits
<1>16. ListWhole' /\ SearchedIs' BY <1>5 DEF ListWhole, ListLoaded, SearchedIs
<1>17. RowsNew' BY <1>5 DEF RowsNew, ListLoaded, SearchLoaded
<1>18. ActiveNew' BY <1>3, <1>4, <1>9 DEF ActiveNew, usersMain
<1>19. AnswersNew'
  <2>1. \A n \in DOMAIN usersAnswered : usersAnswered[n].call \in Underway /\ ~IsActive(usersAnswered[n].call)'
    BY <1>3, <1>5, <1>7, <1>8, UnderwayParts DEF IsActive
  <2>2. \A n \in DOMAIN usersAnswered : usersAnswered[n].call.op = "more" => mixed'
    BY <1>1, <2>1 DEF Pending
  <2>3. \A n \in DOMAIN usersAnswered : AnswerNew(usersAnswered[n])' BY <2>1, <2>2 DEF AnswerNew
  <2> QED BY <2>3 DEF AnswersNew
<1>20. SavesNew'
  <2>1. ASSUME NEW n \in DOMAIN usersAnswered PROVE SaveNew(usersAnswered[n])'
    <3>1. SUFFICES ASSUME IsSaved(usersAnswered[n]) PROVE SaveNew(usersAnswered[n])'
      BY DEF SaveNew, IsSaved
    <3>2. PICK u \in Users : /\ usersAnswered[n].call.uid = u /\ usersAnswered[n].items[1].uid = u
                             /\ usersAnswered[n].items[1].claims \in Nat
      BY <3>1, SavedUser
    <3>3. BeingSaved(u) BY <3>2, UnderwayParts DEF BeingSaved
    <3>4. call.asOf[u] <= usersAnswered[n].items[1].claims BY <1>3, <1>4, <3>2, <3>3
    <3>5. /\ since[u] <= usersAnswered[n].items[1].claims /\ usersAnswered[n].items[1].claims <= claims[u]
      BY <3>1, <3>2 DEF SavesNew, SaveNew
    <3> QED BY <1>9, <3>2, <3>4, <3>5 DEF SaveNew, usersMain
  <2> QED BY <2>1 DEF SavesNew, InOrder, IsSaved
<1>21. ToldTrue' BY DEF ToldTrue, usersMain
<1> QED BY <1>6, <1>10, <1>11, <1>12, <1>13, <1>14, <1>15, <1>16, <1>17, <1>18, <1>19, <1>20, <1>21

\* The effect of useAuthTabState: what is loaded or loading is what the filter asks for.
LEMMA EffectKeeps ==
  ASSUME UsersInv, NEW f \in Filters, Effect([usersTab EXCEPT !.filter = f]),
         visits' = visits + 1, onUsers' \in BOOLEAN,
         UNCHANGED <<usersMain, updatedUsers, usersAnswered, since>>
  PROVE  UsersInv'
<1> USE DEF UsersInv
<1> DEFINE t == [usersTab EXCEPT !.filter = f]
<1>1. /\ t \in UsersTabs /\ t.filter = f /\ t.active = usersTab.active /\ t.error = usersTab.error
      /\ t.cursor = usersTab.cursor /\ t.runId = usersTab.runId
      /\ t.searched = usersTab.searched /\ t.users = usersTab.users
      /\ t.more = usersTab.more /\ t.loading = usersTab.loading /\ t.loaded = usersTab.loaded
  BY DEF UsersTyped, UsersTabs
<1>2. CASE InHand(t)
  <2>1. /\ usersTab' = t /\ usersAsked' = usersAsked /\ mixed' = mixed
        /\ takenBack' = (takenBack \/ (t.active # NoUsersRequest /\ t.active.filter # t.filter))
    BY <1>2 DEF Effect
  <2>2. {onUsers', takenBack'} \subseteq BOOLEAN BY <2>1 DEF UsersTyped
  <2> HIDE DEF t
  <2>3. \A c : c \in Underway' <=> c \in Underway BY <2>1 DEF Underway
  <2>4. usersTab.loading <=> usersTab.active # NoUsersRequest BY DEF ActiveUnderway
  <2>5. FilterLoaded' BY <1>1, <1>2, <2>1, <2>4 DEF FilterLoaded, InHand
  <2>6. MoreFits' BY <1>1, <1>2, <2>1, <2>3, <2>4 DEF MoreFits, InHand
  <2> QED BY <2>1, <2>2, <2>5, <2>6, FilterChanged DEF t
<1>3. CASE ~InHand(t)
  <2>1. LoadUsers(t, NoUpdates) BY <1>3 DEF Effect
  <2>2. NoUpdates \in [Users -> Nat] /\ \A u \in Users : NoUpdates[u] = 0 BY DEF NoUpdates
  <2>3. updatedUsers \in [Users -> Nat] /\ \A u \in Users : claims[u] \in Nat /\ usersTab.runId \in Nat BY UsersParts
  <2> HIDE DEF t
  <2>4. \A u \in Users : /\ updatedUsers'[u] = 0 \/ (updatedUsers'[u] = updatedUsers[u] /\ NoUpdates[u] = 0)
                         /\ NoUpdates[u] <= claims[u] /\ (BeingSaved(u) => NoUpdates[u] = 0)
    BY <2>2, <2>3
  <2>5. t.runId >= usersTab.runId BY <1>1, <2>3, UsersParts
  <2> QED BY <1>1, <2>1, <2>2, <2>3, <2>4, <2>5, LoadKeeps
<1> QED BY <1>2, <1>3

\* The tab is shown, and the effect runs for the filter it has.
LEMMA ShowUsersKeeps ==
  ASSUME UsersInv, ShowUsers
  PROVE  UsersInv'
BY EffectKeeps DEF UsersInv, UsersTyped, UsersTabs, ShowUsers

\* Another filter is set (authFilterChanged), and the effect runs for it.
LEMMA SetAuthFilterKeeps ==
  ASSUME UsersInv, NEW f \in Filters, SetAuthFilter(f)
  PROVE  UsersInv'
BY EffectKeeps DEF SetAuthFilter, Visits, UsersInv, UsersTyped

\* A tab that is left does not load (useAuthTabState, authTab.clear).
LEMMA HideUsersKeeps ==
  ASSUME UsersInv, HideUsers \/ LeaveUsers
  PROVE  UsersInv'
<1>1. PICK f \in {usersTab.filter, NoFilter} : usersTab' = [usersTab EXCEPT !.filter = f]
  BY DEF UsersInv, UsersTyped, UsersTabs, HideUsers, LeaveUsers
<1>2. /\ visits' = visits + 1 /\ onUsers' = FALSE
      /\ UNCHANGED <<usersMain, updatedUsers, usersAsked, usersAnswered, mixed, takenBack, since>>
  BY DEF HideUsers, LeaveUsers, Visits
<1>3. /\ usersTab'.filter = f /\ usersTab'.more = usersTab.more /\ usersTab'.loading = usersTab.loading
      /\ usersTab'.loaded = usersTab.loaded /\ usersTab'.cursor = usersTab.cursor /\ f \in Filters
  BY <1>1 DEF UsersInv, UsersTyped, UsersTabs, Filters
<1>4. FilterLoaded' BY <1>2 DEF FilterLoaded
<1>5. MoreFits' BY <1>2, <1>3 DEF Underway, UsersInv, MoreFits
<1>6. {onUsers', takenBack'} \subseteq BOOLEAN BY <1>2 DEF UsersInv, UsersTyped
<1> QED BY <1>1, <1>2, <1>3, <1>4, <1>5, <1>6, FilterChanged

\* A refresh asks for what is there now (refreshAuthUsersCommand).
LEMMA RefetchUsersKeeps ==
  ASSUME UsersInv, RefetchUsers
  PROVE  UsersInv'
<1> DEFINE t == [usersTab EXCEPT !.runId = @ + 1]
<1> DEFINE asOf == [u \in Users |-> IF BeingSaved(u) THEN 0 ELSE claims[u]]
<1>1. LoadUsers(t, asOf) /\ visits' = visits + 1 /\ updatedUsers' = NoUpdates
      /\ UNCHANGED <<usersMain, onUsers, usersAnswered, since>>
  BY DEF RefetchUsers, RemoveProjectUpdates, Visits
<1>2. usersTab.runId \in Nat /\ usersTab \in UsersTabs /\ \A u \in Users : claims[u] \in Nat
  BY UsersParts DEF UsersInv, UsersTyped
<1>3. /\ t \in UsersTabs /\ t.cursor = usersTab.cursor /\ t.runId >= usersTab.runId
      /\ t.searched = usersTab.searched /\ t.users = usersTab.users
      /\ t.more = usersTab.more /\ t.loaded = usersTab.loaded
  BY <1>2 DEF UsersTabs
<1>4. asOf \in [Users -> Nat] /\ \A u \in Users : asOf[u] <= claims[u] /\ (BeingSaved(u) => asOf[u] = 0)
  BY <1>2
<1>5. updatedUsers' \in [Users -> Nat] /\ \A u \in Users : updatedUsers'[u] = 0 BY <1>1 DEF NoUpdates
<1>6. onUsers' \in BOOLEAN BY <1>1 DEF UsersInv, UsersTyped
<1> HIDE DEF t, asOf
<1> QED BY <1>1, <1>3, <1>4, <1>5, <1>6, LoadKeeps

\* A further page that crosses no load goes on with the list.
LEMMA LoadMoreUsersKeeps ==
  ASSUME UsersInv, LoadMoreUsers
  PROVE  UsersInv'
<1> USE DEF UsersInv
<1> DEFINE call == [UsersCall("more") EXCEPT !.cursor = usersTab.cursor]
<1>1. /\ usersTab.filter = NoFilter /\ usersTab.more /\ usersTab.cursor # 0 /\ visits' = visits + 1
      /\ usersTab' = [usersTab EXCEPT !.error = FALSE, !.fetching = TRUE]
      /\ usersAsked' = usersAsked \cup {call} /\ mixed' = (mixed \/ usersTab.loading \/ Pending("more"))
      /\ UNCHANGED <<usersMain, onUsers, updatedUsers, usersAnswered, takenBack, since>>
  BY DEF LoadMoreUsers, Visits
<1>2. /\ usersTab' \in UsersTabs /\ usersTab'.active = usersTab.active /\ usersTab'.error = FALSE
      /\ usersTab'.cursor = usersTab.cursor /\ usersTab'.runId = usersTab.runId
      /\ usersTab'.searched = usersTab.searched /\ usersTab'.users = usersTab.users
      /\ usersTab'.more = usersTab.more /\ usersTab'.loading = usersTab.loading
      /\ usersTab'.loaded = usersTab.loaded /\ usersTab'.filter = usersTab.filter
  BY <1>1 DEF UsersTyped, UsersTabs
<1>3. /\ call \in CallRecords /\ call.op = "more" /\ call.cursor = usersTab.cursor /\ call.uid = 0
      /\ call.id = visits'
  <2>1. visits' \in Nat /\ usersTab.cursor \in Cursors BY <1>1, UsersParts
  <2> QED BY <2>1 DEF UsersCall, NoUpdates, NoUsersRequest, CallRecords, Requests, Filters
<1> HIDE DEF call
<1>4. AnsweredOnce' /\ \A c : c \in Underway' <=> c \in Underway \/ c = call BY <1>1, <1>3, Sent
<1>5. UsersTyped' BY <1>1, <1>2, <1>3, UsersParts DEF UsersTyped, usersMain
<1>6. ActiveUnderway' BY <1>2, <1>4 DEF ActiveUnderway
<1>7. CallsKnown'
  <2>1. 0 \notin Users BY DEF Users
  <2> QED BY <1>1, <1>2, <1>3, <1>4, <2>1 DEF CallsKnown
<1>8. AnswersTrue' BY <1>1 DEF AnswersTrue
<1>9. usersTab.more /\ (~mixed => usersTab.loaded = NoFilter) BY <1>1 DEF MoreFits
<1>10. FilterLoaded' BY <1>1, <1>2, <1>9 DEF FilterLoaded
<1>11. MoreFits' BY <1>1, <1>2, <1>3, <1>4, <1>9 DEF Pending, MoreFits
<1>12. ListWhole' /\ SearchedIs' BY <1>1, <1>2 DEF ListWhole, ListLoaded, SearchedIs
<1>13. RowsNew'
  <2>1. NoFilter \notin Users BY DEF NoFilter, Users
  <2> QED BY <1>1, <1>2, <1>9, <2>1 DEF RowsNew, ListLoaded, SearchLoaded, Newer
<1>14. \A c \in Underway' : IsActive(c)' => c \in Underway /\ IsActive(c)
  BY <1>2, <1>3, <1>4 DEF IsActive
<1>15. ActiveNew' BY <1>1, <1>14 DEF ActiveNew, usersMain
<1>16. AnswersNew'
  <2>1. \A n \in DOMAIN usersAnswered : AnswerNew(usersAnswered[n])'
    BY <1>1, <1>2 DEF AnswersNew, AnswerNew, IsActive, Newer
  <2> QED BY <1>1, <2>1 DEF AnswersNew
<1>17. SavesNew' BY <1>1, <1>14 DEF SavesNew, SaveNew, IsSaved, usersMain, InOrder
<1>18. ToldTrue' BY <1>1 DEF ToldTrue, usersMain
<1> QED BY <1>4, <1>5, <1>6, <1>7, <1>8, <1>10, <1>11, <1>12, <1>13, <1>15, <1>16, <1>17, <1>18

\* A save is sent, and nothing is shown of it yet (saveAuthCustomClaimsCommand).
LEMMA SaveClaimsKeeps ==
  ASSUME UsersInv, NEW u \in Users, SaveClaims(u)
  PROVE  UsersInv'
<1> USE DEF UsersInv
<1> DEFINE call == [UsersCall("save") EXCEPT !.uid = u]
<1>1. /\ visits' = visits + 1 /\ usersAsked' = usersAsked \cup {call}
      /\ UNCHANGED <<usersMain, onUsers, usersTab, updatedUsers, usersAnswered, mixed, takenBack, since>>
  BY DEF SaveClaims, Visits
<1>2. call \in CallRecords /\ call.op = "save" /\ call.uid = u /\ call.id = visits'
  <2>1. visits' \in Nat /\ 0 \in Cursors BY <1>1, UsersParts DEF Cursors
  <2> QED BY <2>1 DEF UsersCall, NoUpdates, NoUsersRequest, CallRecords, Requests, Filters
<1> HIDE DEF call
<1>3. AnsweredOnce' /\ \A c : c \in Underway' <=> c \in Underway \/ c = call BY <1>1, <1>2, Sent
<1>4. UsersTyped' BY <1>1, <1>2, UsersParts DEF UsersTyped, usersMain
<1>5. ActiveUnderway' /\ CallsKnown' BY <1>1, <1>2, <1>3 DEF ActiveUnderway, CallsKnown
<1>6. AnswersTrue' BY <1>1 DEF AnswersTrue
<1>7. FilterLoaded' BY <1>1 DEF FilterLoaded
<1>8. MoreFits' BY <1>1, <1>2, <1>3 DEF MoreFits
<1>9. ListWhole' /\ SearchedIs' BY <1>1 DEF ListWhole, ListLoaded, SearchedIs
<1>10. RowsNew' BY <1>1 DEF RowsNew, ListLoaded, SearchLoaded, Newer
<1>11. \A c \in Underway' : IsActive(c)' => c \in Underway /\ IsActive(c)
  BY <1>1, <1>2, <1>3 DEF IsActive
<1>12. ActiveNew' BY <1>1, <1>11 DEF ActiveNew, usersMain
<1>13. AnswersNew' BY <1>1 DEF AnswersNew, AnswerNew, IsActive, Newer
<1>14. SavesNew' BY <1>1, <1>11 DEF SavesNew, SaveNew, IsSaved, usersMain, InOrder
<1>15. ToldTrue' BY <1>1 DEF ToldTrue, usersMain
<1> QED BY <1>3, <1>4, <1>5, <1>6, <1>7, <1>8, <1>9, <1>10, <1>12, <1>13, <1>14, <1>15

----------------
(* Users: what an answer does *)

\* The answer that is next.
LEMMA NextAnswer ==
  ASSUME UsersInv, NEW op, NEW ok, Receives(op, ok)
  PROVE  LET answer == Head(usersAnswered)
         IN /\ answer.call.op = op /\ answer.ok = ok /\ answer.call \in Underway
            /\ answer.call \in CallRecords /\ answer.items \in Seq(UserRecords) /\ answer.cursor \in Cursors
            /\ AnswerTrue(answer) /\ AnswerNew(answer) /\ SaveNew(answer)
            /\ usersAnswered' \in Seq(AnswerRecords) /\ AnsweredOnce'
            /\ \A i \in DOMAIN usersAnswered' : \E n \in DOMAIN usersAnswered :
                 n # 1 /\ n > 1 /\ usersAnswered'[i] = usersAnswered[n]
            /\ \A i, j \in DOMAIN usersAnswered' : i < j =>
                 /\ i + 1 \in DOMAIN usersAnswered /\ usersAnswered'[i] = usersAnswered[i + 1]
                 /\ j + 1 \in DOMAIN usersAnswered /\ usersAnswered'[j] = usersAnswered[j + 1]
                 /\ i + 1 < j + 1
            /\ \A c : c \in Underway' <=> c \in Underway /\ c # answer.call
            /\ usersAnswered # <<>> /\ usersAnswered' = Tail(usersAnswered)
            /\ UNCHANGED <<usersMain, visits, onUsers, usersAsked>>
            /\ 1 \in DOMAIN usersAnswered /\ usersAnswered[1] = answer
<1> USE DEF UsersInv
<1>1. /\ usersAnswered # <<>> /\ Head(usersAnswered).call.op = op /\ Head(usersAnswered).ok = ok
      /\ usersAnswered' = Tail(usersAnswered) /\ UNCHANGED <<usersMain, visits, onUsers, usersAsked>>
  BY DEF Receives
<1>2. LET answer == Head(usersAnswered)
      IN /\ answer \in AnswerRecords /\ answer = usersAnswered[1] /\ 1 \in DOMAIN usersAnswered
         /\ answer.call \in Underway /\ answer.call \in CallRecords
         /\ usersAnswered' \in Seq(AnswerRecords)
         /\ \A i \in DOMAIN usersAnswered' :
              /\ i + 1 \in DOMAIN usersAnswered /\ i + 1 # 1
              /\ usersAnswered'[i] = usersAnswered[i + 1]
         /\ \A c : c \in Underway' <=> c \in Underway /\ c # answer.call
         /\ AnsweredOnce'
  BY <1>1, Received
<1>3. \A i \in DOMAIN usersAnswered' : i \in Nat /\ i >= 1
  <2> DEFINE A == AnswerRecords
  <2>1. usersAnswered' \in Seq(A) BY <1>2
  <2> HIDE DEF A
  <2> QED BY <2>1
<1>4. \A i \in DOMAIN usersAnswered' : i + 1 > 1 BY <1>3
<1>5. \A i, j \in DOMAIN usersAnswered' : i < j => i + 1 < j + 1 BY <1>3
<1>6. Head(usersAnswered).items \in Seq(UserRecords) /\ Head(usersAnswered).cursor \in Cursors
  BY <1>2 DEF AnswerRecords
<1>7. AnswerTrue(Head(usersAnswered)) /\ AnswerNew(Head(usersAnswered)) /\ SaveNew(Head(usersAnswered))
  BY <1>2 DEF AnswersTrue, AnswersNew, SavesNew
<1>8. \A i \in DOMAIN usersAnswered' : \E n \in DOMAIN usersAnswered :
         n # 1 /\ n > 1 /\ usersAnswered'[i] = usersAnswered[n]
  BY <1>2, <1>4
<1>9. \A i, j \in DOMAIN usersAnswered' : i < j =>
         /\ i + 1 \in DOMAIN usersAnswered /\ usersAnswered'[i] = usersAnswered[i + 1]
         /\ j + 1 \in DOMAIN usersAnswered /\ usersAnswered'[j] = usersAnswered[j + 1]
         /\ i + 1 < j + 1
  BY <1>2, <1>5
<1> QED BY <1>1, <1>2, <1>6, <1>7, <1>8, <1>9

\* A load whose request is the active one is under way.
LEMMA ActiveIsUnderway ==
  ASSUME UsersInv, NEW c \in Underway, c.op = "load", SameUsersRequest(c.request)
  PROVE  IsActive(c) /\ usersTab.loading
BY UsersParts DEF UsersInv, CallsKnown, NoUsersRequest, ActiveUnderway, SameUsersRequest, IsActive

\* An answer to the active load is shown, and no other (authUsersLoadSucceeded).
LEMMA UsersLoadedKeeps ==
  ASSUME UsersInv, UsersLoaded
  PROVE  UsersInv'
<1> USE DEF UsersInv
<1>0. Receives("load", TRUE) /\ updatedUsers' = updatedUsers BY DEF UsersLoaded
<1> DEFINE answer == Head(usersAnswered)
<1>1. /\ answer.call.op = "load" /\ answer.ok /\ answer.call \in Underway
      /\ answer.call \in CallRecords /\ answer.items \in Seq(UserRecords) /\ answer.cursor \in Cursors
      /\ AnswerTrue(answer) /\ AnswerNew(answer)
      /\ usersAnswered' \in Seq(AnswerRecords) /\ AnsweredOnce'
      /\ \A i \in DOMAIN usersAnswered' : \E n \in DOMAIN usersAnswered :
           n # 1 /\ n > 1 /\ usersAnswered'[i] = usersAnswered[n]
      /\ \A i, j \in DOMAIN usersAnswered' : i < j =>
           /\ i + 1 \in DOMAIN usersAnswered /\ usersAnswered'[i] = usersAnswered[i + 1]
           /\ j + 1 \in DOMAIN usersAnswered /\ usersAnswered'[j] = usersAnswered[j + 1]
           /\ i + 1 < j + 1
      /\ \A c : c \in Underway' <=> c \in Underway /\ c # answer.call
      /\ usersAnswered # <<>> /\ usersAnswered' = Tail(usersAnswered)
      /\ UNCHANGED <<usersMain, visits, onUsers, usersAsked>>
  BY <1>0, NextAnswer
<1>2. CASE ~SameUsersRequest(answer.call.request)
  BY <1>0, <1>1, <1>2, UnheardUsers DEF UsersLoaded, IsActive, SameUsersRequest
<1>3. CASE SameUsersRequest(answer.call.request)
  <2> DEFINE request == answer.call.request
  <2> DEFINE lists == request.filter = NoFilter
  <2>1. /\ usersTab' = [usersTab EXCEPT
             !.active = NoUsersRequest, !.error = FALSE, !.cursor = answer.cursor,
             !.searched = IF lists THEN @ ELSE answer.items,
             !.users = IF lists THEN answer.items ELSE @,
             !.more = answer.cursor # 0,
             !.fetching = FALSE, !.loading = FALSE, !.loaded = request.filter]
        /\ mixed' = (mixed /\ (~lists \/ Pending("more")))
        /\ takenBack' = (takenBack /\ request.filter # usersTab.filter)
        /\ since' = [u \in Users |-> Max({since[u], answer.call.asOf[u]})]
    BY <1>3 DEF UsersLoaded
  <2>2. IsActive(answer.call) /\ usersTab.loading /\ usersTab.active = request
    BY <1>1, <1>3, ActiveIsUnderway DEF SameUsersRequest
  <2>3. request.filter \in Filters /\ NoUsersRequest \in Requests /\ request \in Requests
    BY <1>1 DEF CallRecords, Requests, NoUsersRequest, Filters
  <2>4. /\ usersTab' \in UsersTabs /\ usersTab'.active = NoUsersRequest /\ ~usersTab'.error
        /\ usersTab'.cursor = answer.cursor /\ usersTab'.runId = usersTab.runId
        /\ usersTab'.searched = (IF lists THEN usersTab.searched ELSE answer.items)
        /\ usersTab'.users = (IF lists THEN answer.items ELSE usersTab.users)
        /\ usersTab'.more = (answer.cursor # 0) /\ ~usersTab'.loading
        /\ usersTab'.loaded = request.filter /\ usersTab'.filter = usersTab.filter
    <3> HIDE DEF lists, request, answer
    <3>1. usersTab \in UsersTabs BY DEF UsersTyped
    <3>2. PICK x, y : /\ x = (IF lists THEN usersTab.searched ELSE answer.items)
                      /\ y = (IF lists THEN answer.items ELSE usersTab.users)
      OBVIOUS
    <3>3. x \in Seq(UserRecords) /\ y \in Seq(UserRecords) BY <1>1, <3>1, <3>2 DEF UsersTabs
    <3>4. usersTab' = [usersTab EXCEPT
             !.active = NoUsersRequest, !.error = FALSE, !.cursor = answer.cursor,
             !.searched = x, !.users = y, !.more = answer.cursor # 0,
             !.fetching = FALSE, !.loading = FALSE, !.loaded = request.filter]
      BY <2>1, <3>1, <3>2 DEF UsersTabs
    <3>5. usersTab' \in UsersTabs BY <1>1, <2>3, <3>1, <3>3, <3>4 DEF UsersTabs
    <3>6. /\ usersTab'.active = NoUsersRequest /\ ~usersTab'.error /\ usersTab'.cursor = answer.cursor
          /\ usersTab'.searched = x /\ usersTab'.users = y
      BY <3>1, <3>4 DEF UsersTabs
    <3>7. /\ usersTab'.more = (answer.cursor # 0) /\ ~usersTab'.loading /\ usersTab'.loaded = request.filter
          /\ usersTab'.runId = usersTab.runId /\ usersTab'.filter = usersTab.filter
      BY <3>1, <3>4 DEF UsersTabs
    <3> QED BY <3>2, <3>5, <3>6, <3>7
  <2>5. \A u \in Users : /\ since[u] \in Nat /\ answer.call.asOf[u] \in Nat
                         /\ claims[u] \in Nat /\ updatedUsers[u] \in Nat
    BY <1>1, UsersParts DEF CallRecords
  <2>6. \A u \in Users : /\ since'[u] \in Nat /\ since'[u] \in {since[u], answer.call.asOf[u]}
                         /\ since'[u] >= since[u]
    BY <2>1, <2>5, MaxOfTwo
  <2>7. since' \in [Users -> Nat] BY <2>1, <2>6
  <2> HIDE DEF request, answer
  <2>8. UsersTyped' BY <1>0, <1>1, <2>1, <2>4, <2>7 DEF UsersTyped, usersMain
  <2>9. ActiveUnderway' BY <2>4, UsersParts DEF NoUsersRequest, ActiveUnderway
  <2>10. CallsKnown' BY <1>1, <2>4 DEF CallsKnown
  <2>11. AnswersTrue' BY <1>1 DEF AnswersTrue
  <2>12. FilterLoaded' BY <1>1, <2>1, <2>2, <2>4 DEF FilterLoaded
  <2>13. ~mixed' => \A c \in Underway : c.op # "more" BY <2>1, <2>2 DEF MoreFits, Pending
  <2>14. /\ lists => PageFrom(0, answer.items, answer.cursor) /\ answer.items # <<>>
         /\ ~lists => Len(answer.items) = 1 /\ answer.items[1].uid = request.filter /\ answer.cursor = 0
    BY <1>1 DEF AnswerTrue, CallsKnown, request
  <2>15. MoreFits' BY <1>1, <2>4, <2>13, <2>14 DEF MoreFits
  <2>16. ListWhole' BY <2>4, <2>14 DEF ListWhole, ListLoaded
  <2>17. SearchedIs'
    <3>1. NoFilter \notin Users BY DEF NoFilter, Users
    <3> QED BY <2>4, <2>14, <3>1 DEF SearchedIs
  <2>18. PICK items : items = answer.items OBVIOUS
  <2>19. RowsNew'
    <3>1. ASSUME NEW i \in DOMAIN items PROVE Newer(items[i])'
      <4>1. items[i] \in UserRecords BY <1>1, <2>18, UserOf
      <4>2. PICK u \in Users : u = items[i].uid /\ items[i].claims \in Nat BY <4>1 DEF UserRecords
      <4>3. Newer(items[i]) /\ items[i].claims >= answer.call.asOf[u]
        BY <1>1, <2>2, <2>18, <4>2 DEF AnswerNew
      <4>4. items[i].claims >= since[u] \/ updatedUsers[u] # 0 BY <4>2, <4>3 DEF Newer
      <4>5. items[i].claims >= since'[u] \/ updatedUsers'[u] # 0 BY <1>0, <2>6, <4>2, <4>3, <4>4
      <4> QED BY <4>2, <4>5 DEF Newer
    <3>2. NoFilter \notin Users BY DEF NoFilter, Users
    <3>3. lists => usersTab'.users = items BY <2>4, <2>18
    <3>4. ~lists => usersTab'.searched = items BY <2>4, <2>18
    <3>5. ListLoaded' => \A i \in DOMAIN usersTab'.users : Newer(usersTab.users[i])'
      BY <2>4, <3>1, <3>3 DEF ListLoaded
    <3>6. SearchLoaded' => \A i \in DOMAIN usersTab'.searched : Newer(usersTab.searched[i])'
      BY <2>4, <3>1, <3>2, <3>4 DEF SearchLoaded
    <3> QED BY <3>5, <3>6 DEF RowsNew
  <2>20. ActiveNew' BY <2>4 DEF ActiveNew, IsActive
  <2>21. AnswersNew' BY <1>1, <2>4, <2>13, UnderwayParts DEF AnswerNew, IsActive, AnswersNew
  <2>22. SavesNew'
    <3>1. ASSUME NEW n \in DOMAIN usersAnswered PROVE SaveNew(usersAnswered[n]) /\
                 (IsSaved(usersAnswered[n]) => LET user == usersAnswered[n].items[1]
                    IN since'[user.uid] <= user.claims /\ user.claims <= claims[user.uid])
      <4>1. SaveNew(usersAnswered[n]) BY DEF SavesNew
      <4>2. SUFFICES ASSUME IsSaved(usersAnswered[n])
                     PROVE  LET user == usersAnswered[n].items[1]
                            IN since'[user.uid] <= user.claims /\ user.claims <= claims[user.uid]
        BY <4>1
      <4>3. PICK u \in Users : u = usersAnswered[n].items[1].uid /\ usersAnswered[n].items[1].claims \in Nat
        BY <4>2, SavedUser
      <4>4. /\ since[u] <= usersAnswered[n].items[1].claims /\ usersAnswered[n].items[1].claims <= claims[u]
            /\ answer.call.asOf[u] <= usersAnswered[n].items[1].claims
        BY <1>1, <2>2, <4>1, <4>2, <4>3 DEF SaveNew
      <4>5. since'[u] <= usersAnswered[n].items[1].claims BY <2>6, <4>4
      <4> QED BY <4>3, <4>4, <4>5
    <3>2. \A i \in DOMAIN usersAnswered' : SaveNew(usersAnswered[i])'
      BY <1>1, <2>4, <3>1 DEF SaveNew, IsActive, IsSaved, usersMain
    <3>3. \A i, j \in DOMAIN usersAnswered' : i < j => InOrder(usersAnswered'[i], usersAnswered'[j])
      BY <1>1 DEF SavesNew
    <3> QED BY <3>2, <3>3 DEF SavesNew, InOrder, IsSaved
  <2>23. ToldTrue' BY <1>0, <1>1, <2>2, <2>6 DEF ToldTrue, ActiveNew, usersMain
  <2> QED BY <1>1, <2>8, <2>9, <2>10, <2>11, <2>12, <2>15, <2>16, <2>17, <2>19, <2>20, <2>21, <2>22, <2>23
<1> QED BY <1>2, <1>3

\* It fails: nothing is loaded (authUsersLoadFailed).
LEMMA UsersNotLoadedKeeps ==
  ASSUME UsersInv, UsersNotLoaded
  PROVE  UsersInv'
<1> USE DEF UsersInv
<1>0. Receives("load", FALSE) /\ UNCHANGED <<updatedUsers, mixed, takenBack, since>> BY DEF UsersNotLoaded
<1> DEFINE answer == Head(usersAnswered)
<1>1. /\ answer.call.op = "load" /\ answer.call \in Underway
      /\ usersAnswered' \in Seq(AnswerRecords) /\ AnsweredOnce'
      /\ \A i \in DOMAIN usersAnswered' : \E n \in DOMAIN usersAnswered :
           n # 1 /\ n > 1 /\ usersAnswered'[i] = usersAnswered[n]
      /\ \A i, j \in DOMAIN usersAnswered' : i < j =>
           /\ i + 1 \in DOMAIN usersAnswered /\ usersAnswered'[i] = usersAnswered[i + 1]
           /\ j + 1 \in DOMAIN usersAnswered /\ usersAnswered'[j] = usersAnswered[j + 1]
           /\ i + 1 < j + 1
      /\ \A c : c \in Underway' <=> c \in Underway /\ c # answer.call
      /\ usersAnswered # <<>> /\ usersAnswered' = Tail(usersAnswered)
      /\ UNCHANGED <<usersMain, visits, onUsers, usersAsked>>
  BY <1>0, NextAnswer
<1>2. CASE ~SameUsersRequest(answer.call.request)
  BY <1>0, <1>1, <1>2, UnheardUsers DEF UsersNotLoaded, IsActive, SameUsersRequest
<1>3. CASE SameUsersRequest(answer.call.request)
  <2>1. usersTab' = [usersTab EXCEPT !.active = NoUsersRequest, !.error = TRUE, !.more = FALSE,
                                     !.fetching = FALSE, !.loading = FALSE]
    BY <1>3 DEF UsersNotLoaded
  <2>2. IsActive(answer.call) /\ usersTab.loading BY <1>1, <1>3, ActiveIsUnderway
  <2> HIDE DEF answer
  <2>3. NoUsersRequest \in Requests BY DEF Requests, NoUsersRequest, Filters
  <2>4. /\ usersTab' \in UsersTabs /\ usersTab'.active = NoUsersRequest /\ usersTab'.error
        /\ usersTab'.cursor = usersTab.cursor /\ usersTab'.runId = usersTab.runId
        /\ usersTab'.searched = usersTab.searched /\ usersTab'.users = usersTab.users
        /\ ~usersTab'.more /\ ~usersTab'.loading
        /\ usersTab'.loaded = usersTab.loaded /\ usersTab'.filter = usersTab.filter
    BY <2>1, <2>3 DEF UsersTyped, UsersTabs
  <2>5. UsersTyped' BY <1>0, <1>1, <2>4 DEF UsersTyped, usersMain
  <2>6. ActiveUnderway' BY <2>4, UsersParts DEF NoUsersRequest, ActiveUnderway
  <2>7. CallsKnown' BY <1>1, <2>4 DEF CallsKnown
  <2>8. AnswersTrue' BY <1>1 DEF AnswersTrue
  <2>9. FilterLoaded' BY <2>4 DEF FilterLoaded
  <2>10. ~mixed' => \A c \in Underway : c.op # "more" BY <1>0, <2>2 DEF MoreFits
  <2>11. MoreFits' BY <1>1, <2>4, <2>10 DEF MoreFits
  <2>12. ListWhole' /\ SearchedIs' BY <2>4 DEF ListWhole, ListLoaded, SearchedIs
  <2>13. RowsNew' BY <2>4 DEF RowsNew, ListLoaded, SearchLoaded
  <2>14. ActiveNew' BY <2>4 DEF ActiveNew, IsActive
  <2>15. AnswersNew' BY <1>1, <2>4, <2>10, UnderwayParts DEF AnswerNew, IsActive, AnswersNew
  <2>16. SavesNew' BY <1>0, <1>1, <2>4 DEF SavesNew, SaveNew, IsActive, IsSaved, usersMain, InOrder
  <2>17. ToldTrue' BY <1>0, <1>1 DEF ToldTrue, usersMain
  <2> QED BY <1>1, <2>5, <2>6, <2>7, <2>8, <2>9, <2>11, <2>12, <2>13, <2>14, <2>15, <2>16, <2>17
<1> QED BY <1>2, <1>3

\* A further page, and its failure, change the list or nothing, whatever is loading.
LEMMA MoreUsersKeeps ==
  ASSUME UsersInv, MoreUsersLoaded \/ MoreUsersNotLoaded
  PROVE  UsersInv'
<1> USE DEF UsersInv
<1> DEFINE answer == Head(usersAnswered)
<1>0. PICK ok \in BOOLEAN :
        /\ Receives("more", ok) /\ answer.ok = ok /\ UNCHANGED <<updatedUsers, mixed, takenBack, since>>
        /\ (MoreUsersLoaded /\ ok) \/ (MoreUsersNotLoaded /\ ~ok)
  BY DEF MoreUsersLoaded, Receives, MoreUsersNotLoaded
<1>1. /\ answer.call.op = "more" /\ answer.call \in Underway
      /\ answer.call \in CallRecords /\ answer.items \in Seq(UserRecords) /\ answer.cursor \in Cursors
      /\ AnswerTrue(answer) /\ AnswerNew(answer)
      /\ usersAnswered' \in Seq(AnswerRecords) /\ AnsweredOnce'
      /\ \A i \in DOMAIN usersAnswered' : \E n \in DOMAIN usersAnswered :
           n # 1 /\ n > 1 /\ usersAnswered'[i] = usersAnswered[n]
      /\ \A i, j \in DOMAIN usersAnswered' : i < j =>
           /\ i + 1 \in DOMAIN usersAnswered /\ usersAnswered'[i] = usersAnswered[i + 1]
           /\ j + 1 \in DOMAIN usersAnswered /\ usersAnswered'[j] = usersAnswered[j + 1]
           /\ i + 1 < j + 1
      /\ \A c : c \in Underway' <=> c \in Underway /\ c # answer.call
      /\ usersAnswered # <<>> /\ usersAnswered' = Tail(usersAnswered)
      /\ UNCHANGED <<usersMain, visits, onUsers, usersAsked>>
  BY <1>0, NextAnswer
<1>2. PICK items \in Seq(UserRecords) :
        items = IF answer.ok THEN usersTab.users \o answer.items ELSE usersTab.users
  <2> DEFINE U == UserRecords
  <2>1. usersTab.users \in Seq(U) /\ answer.items \in Seq(U) BY <1>1, UsersParts
  <2> HIDE DEF U
  <2>2. usersTab.users \o answer.items \in Seq(U) BY <2>1
  <2>3. (IF answer.ok THEN usersTab.users \o answer.items ELSE usersTab.users) \in Seq(U) BY <2>1, <2>2
  <2> QED BY <2>3 DEF U
<1>3. PICK cursor \in Cursors : cursor = IF answer.ok THEN answer.cursor ELSE usersTab.cursor
  BY <1>1, UsersParts
<1>4. PICK more \in BOOLEAN : more = IF answer.ok THEN answer.cursor # 0 ELSE usersTab.more
  BY UsersParts
<1>5. PICK fails \in BOOLEAN : fails = ~answer.ok OBVIOUS
<1>6. usersTab' = [usersTab EXCEPT !.error = fails, !.cursor = cursor, !.users = items,
                                   !.more = more, !.fetching = FALSE]
  BY <1>0, <1>2, <1>3, <1>4, <1>5 DEF MoreUsersLoaded, MoreUsersNotLoaded, Receives, UsersTyped, UsersTabs
<1>7. /\ usersTab' \in UsersTabs /\ usersTab'.active = usersTab.active /\ usersTab'.error = fails
      /\ usersTab'.cursor = cursor /\ usersTab'.runId = usersTab.runId
      /\ usersTab'.searched = usersTab.searched /\ usersTab'.users = items
      /\ usersTab'.more = more /\ usersTab'.loading = usersTab.loading
      /\ usersTab'.loaded = usersTab.loaded /\ usersTab'.filter = usersTab.filter
  BY <1>6 DEF UsersTyped, UsersTabs
<1> HIDE DEF answer
<1>8. ~mixed => /\ ~usersTab.loading /\ usersTab.more /\ usersTab.filter = NoFilter
                /\ usersTab.loaded = NoFilter /\ answer.call.cursor = usersTab.cursor
                /\ \A d \in Underway : d.op = "more" => d = answer.call
  BY <1>1 DEF MoreFits
<1>9. \A c \in Underway' : IsActive(c)' => c \in Underway /\ IsActive(c) BY <1>1, <1>7 DEF IsActive
<1>10. UsersTyped' BY <1>0, <1>1, <1>7 DEF UsersTyped, usersMain
<1>11. ActiveUnderway'
  <2>1. ASSUME usersTab.loading PROVE \E c \in Underway' : c.op = "load" /\ c.request = usersTab.active
    <3>1. PICK c \in Underway : c.op = "load" /\ c.request = usersTab.active BY <2>1 DEF ActiveUnderway
    <3>2. c # answer.call BY <1>1, <3>1
    <3> QED BY <1>1, <3>1, <3>2
  <2> QED BY <1>7, <2>1 DEF ActiveUnderway
<1>12. CallsKnown' BY <1>1, <1>7 DEF CallsKnown
<1>13. AnswersTrue' BY <1>1 DEF AnswersTrue
<1>14. FilterLoaded' BY <1>0, <1>1, <1>7, <1>8 DEF FilterLoaded
<1>15. MoreFits' BY <1>0, <1>1, <1>7, <1>8 DEF MoreFits
<1>16. ~mixed => ListLoaded /\ PageFrom(0, usersTab.users, usersTab.cursor) /\ usersTab.users # <<>>
  BY <1>8 DEF ListLoaded, ListWhole
<1>17. ~mixed /\ answer.ok => PageFrom(answer.call.cursor, answer.items, answer.cursor) /\ answer.items # <<>>
  BY <1>1 DEF AnswerTrue
<1>18. ASSUME ~mixed
       PROVE  /\ items # <<>> /\ PageFrom(0, items, cursor) /\ (more <=> cursor # 0)
              /\ \A i \in DOMAIN items : Newer(items[i])
  <2>1. CASE ~answer.ok BY <1>2, <1>3, <1>4, <1>8, <1>16, <1>18, <2>1 DEF ListWhole, RowsNew
  <2>2. CASE answer.ok
    <3>1. PICK n \in Nat, m \in Nat : n = Len(usersTab.users) /\ m = Len(answer.items) BY <1>1, UsersParts
    <3>2. LastUser \in Nat /\ usersTab.cursor \in Nat /\ usersTab.cursor # 0
      BY <1>8, <1>16, <1>18, UsersParts DEF Cursors, ListWhole
    <3>3. usersTab.cursor = n /\ n < LastUser BY <1>16, <1>18, <3>1, <3>2 DEF PageFrom
    <3>4. /\ usersTab.users \in Seq(UserRecords) /\ answer.items \in Seq(UserRecords)
          /\ items = usersTab.users \o answer.items /\ cursor = answer.cursor /\ (more <=> answer.cursor # 0)
      BY <1>1, <1>2, <1>3, <1>4, <2>2, UsersParts
    <3>5. /\ Len(items) = n + m /\ DOMAIN items = 1..(n + m)
          /\ \A i \in 1..n : i \in DOMAIN usersTab.users /\ items[i] = usersTab.users[i]
          /\ \A i \in (n + 1)..(n + m) : i - n \in DOMAIN answer.items /\ items[i] = answer.items[i - n]
      <4> DEFINE U == UserRecords
      <4>1. usersTab.users \in Seq(U) /\ answer.items \in Seq(U) BY <3>4
      <4> HIDE DEF U
      <4>2. /\ Len(items) = n + m /\ items \in Seq(U)
            /\ \A i \in 1..Len(items) : items[i] = IF i <= n THEN usersTab.users[i] ELSE answer.items[i - n]
        <5>1. LET both == usersTab.users \o answer.items
              IN /\ both \in Seq(U) /\ Len(both) = Len(usersTab.users) + Len(answer.items)
                 /\ \A i \in 1..(Len(usersTab.users) + Len(answer.items)) :
                      both[i] = IF i <= Len(usersTab.users) THEN usersTab.users[i]
                                ELSE answer.items[i - Len(usersTab.users)]
          BY <4>1, ConcatProperties
        <5> QED BY <3>1, <3>4, <5>1
      <4>3. DOMAIN items = 1..(n + m) BY <4>2
      <4>4. \A i \in 1..n : i \in DOMAIN usersTab.users /\ items[i] = usersTab.users[i]
        <5>1. \A i \in 1..n : i \in 1..(n + m) /\ i <= n OBVIOUS
        <5>2. DOMAIN usersTab.users = 1..n BY <3>1, <4>1
        <5> QED BY <4>2, <5>1, <5>2
      <4>5. \A i \in (n + 1)..(n + m) : i - n \in DOMAIN answer.items /\ items[i] = answer.items[i - n]
        <5>1. \A i \in (n + 1)..(n + m) : i \in 1..(n + m) /\ ~(i <= n) /\ i - n \in 1..m OBVIOUS
        <5>2. DOMAIN answer.items = 1..m BY <3>1, <4>1
        <5> QED BY <4>2, <5>1, <5>2
      <4> QED BY <4>2, <4>3, <4>4, <4>5
    <3>6. \A i \in 1..n : usersTab.users[i].uid = 0 + i BY <1>16, <1>18, <3>5 DEF PageFrom
    <3>7. \A i \in DOMAIN answer.items : answer.items[i].uid = n + i BY <1>8, <1>17, <1>18, <2>2, <3>3 DEF PageFrom
    <3>8. \A i \in (n + 1)..(n + m) : items[i].uid = n + (i - n) /\ n + (i - n) = i
      <4>1. \A i \in (n + 1)..(n + m) : n + (i - n) = i OBVIOUS
      <4>2. \A i \in (n + 1)..(n + m) : items[i].uid = n + (i - n) BY <3>5, <3>7
      <4> QED BY <4>1, <4>2
    <3>9. \A i \in DOMAIN items : i \in 1..n \/ i \in (n + 1)..(n + m) BY <3>5
    <3>10. \A i \in DOMAIN items : items[i].uid = 0 + i BY <3>5, <3>6, <3>8, <3>9
    <3>11. /\ cursor = (IF n + m < LastUser THEN n + m ELSE 0) /\ n + m <= LastUser
      BY <1>8, <1>17, <1>18, <2>2, <3>1, <3>3, <3>4 DEF PageFrom
    <3>12. PageFrom(0, items, cursor)
      <4>1. 0 + Len(items) = n + m BY <3>5
      <4> QED BY <3>10, <3>11, <4>1 DEF PageFrom
    <3>13. items # <<>> BY <3>2, <3>3, <3>5
    <3>14. \A i \in DOMAIN usersTab.users : Newer(usersTab.users[i]) BY <1>16, <1>18 DEF RowsNew
    <3>15. \A i \in DOMAIN answer.items : Newer(answer.items[i]) BY <1>1, <1>18, <2>2 DEF AnswerNew
    <3>16. \A i \in DOMAIN items : Newer(items[i]) BY <3>5, <3>9, <3>14, <3>15
    <3> QED BY <3>4, <3>12, <3>13, <3>16
  <2> QED BY <2>1, <2>2
<1>19. ListWhole' BY <1>0, <1>7, <1>18 DEF ListWhole, ListLoaded
<1>20. SearchedIs' BY <1>7 DEF SearchedIs
<1>21. RowsNew'
  BY <1>0, <1>7, <1>8, <1>18 DEF ListLoaded, Newer, NoFilter, Users, SearchLoaded, RowsNew
<1>22. ActiveNew' BY <1>0, <1>1, <1>9 DEF ActiveNew, usersMain
<1>23. AnswersNew' BY <1>0, <1>1, <1>7 DEF AnswersNew, AnswerNew, IsActive, Newer
<1>24. SavesNew' BY <1>0, <1>1, <1>9 DEF SavesNew, SaveNew, IsSaved, usersMain, InOrder
<1>25. ToldTrue' BY <1>0, <1>1 DEF ToldTrue, usersMain
<1> QED BY <1>1, <1>10, <1>11, <1>12, <1>13, <1>14, <1>15, <1>19, <1>20, <1>21, <1>22, <1>23, <1>24, <1>25

\* What was saved is shown over what was loaded (authCustomClaimsSaveSucceeded).
LEMMA ClaimsSavedKeeps ==
  ASSUME UsersInv, ClaimsSaved
  PROVE  UsersInv'
<1> USE DEF UsersInv
<1> DEFINE answer == Head(usersAnswered)
<1>0. Receives("save", TRUE) /\ UNCHANGED <<usersTab, mixed, takenBack>> BY DEF ClaimsSaved
<1>1. /\ answer.call.op = "save" /\ answer.ok /\ answer.call \in Underway
      /\ SaveNew(answer)
      /\ usersAnswered' \in Seq(AnswerRecords) /\ AnsweredOnce'
      /\ \A i \in DOMAIN usersAnswered' : \E n \in DOMAIN usersAnswered :
           n # 1 /\ n > 1 /\ usersAnswered'[i] = usersAnswered[n]
      /\ \A i, j \in DOMAIN usersAnswered' : i < j =>
           /\ i + 1 \in DOMAIN usersAnswered /\ usersAnswered'[i] = usersAnswered[i + 1]
           /\ j + 1 \in DOMAIN usersAnswered /\ usersAnswered'[j] = usersAnswered[j + 1]
           /\ i + 1 < j + 1
      /\ \A c : c \in Underway' <=> c \in Underway /\ c # answer.call
      /\ usersAnswered # <<>> /\ usersAnswered' = Tail(usersAnswered)
      /\ UNCHANGED <<usersMain, visits, onUsers, usersAsked>>
      /\ 1 \in DOMAIN usersAnswered /\ usersAnswered[1] = answer
  BY <1>0, NextAnswer
<1>2. PICK u \in Users, told \in Nat \ {0} :
        answer.call.uid = u /\ Head(answer.items) = [uid |-> u, claims |-> told]
        /\ answer.items[1].uid = u /\ answer.items[1].claims = told
  <2>1. IsSaved(usersAnswered[1]) BY <1>1 DEF IsSaved
  <2>2. usersAnswered[1].items \in Seq(UserRecords) BY <1>1, UnderwayParts DEF AnswerRecords
  <2>3. Len(usersAnswered[1].items) = 1 BY <1>1, <2>1 DEF AnswersTrue, AnswerTrue, IsSaved
  <2>4. Head(usersAnswered[1].items) \in UserRecords BY <2>2, <2>3
  <2> QED BY <1>1, <2>1, <2>4, SavedUser DEF UserRecords
<1>3. /\ updatedUsers' = [updatedUsers EXCEPT ![u] = told]
      /\ since' = [since EXCEPT ![u] = Max({since[u], told})]
  <2>1. LET user == Head(answer.items)
        IN /\ updatedUsers' = [updatedUsers EXCEPT ![user.uid] = user.claims]
           /\ since' = [since EXCEPT ![user.uid] = Max({since[user.uid], user.claims})]
    BY DEF ClaimsSaved
  <2>2. Head(answer.items).uid = u /\ Head(answer.items).claims = told BY <1>2
  <2> HIDE DEF answer
  <2> QED BY <2>1, <2>2
<1>4. /\ since[u] <= told /\ told <= claims[u]
      /\ \A c \in Underway : IsActive(c) => c.asOf[u] <= told
  BY <1>1, <1>2 DEF SaveNew, IsSaved
<1> HIDE DEF answer
<1>5. \A v \in Users : since[v] \in Nat /\ updatedUsers[v] \in Nat /\ claims[v] \in Nat BY UsersParts
<1>6. Max({since[u], told}) = told BY <1>4, <1>5, MaxOfTwo
<1>7. /\ updatedUsers' \in [Users -> Nat] /\ since' \in [Users -> Nat]
      /\ updatedUsers'[u] = told /\ since'[u] = told
      /\ \A v \in Users \ {u} : updatedUsers'[v] = updatedUsers[v] /\ since'[v] = since[v]
  BY <1>3, <1>6, UsersParts
<1>8. UsersTyped' BY <1>0, <1>1, <1>7 DEF UsersTyped, usersMain
<1>9. ActiveUnderway' BY <1>0, <1>1 DEF ActiveUnderway
<1>10. CallsKnown' BY <1>0, <1>1 DEF CallsKnown
<1>11. AnswersTrue' BY <1>1 DEF AnswersTrue
<1>12. FilterLoaded' BY <1>0, <1>1 DEF FilterLoaded
<1>13. MoreFits' BY <1>0, <1>1 DEF MoreFits
<1>14. ListWhole' /\ SearchedIs' BY <1>0 DEF ListWhole, ListLoaded, SearchedIs
<1>15. \A row \in UserRecords : Newer(row) => Newer(row)' BY <1>7 DEF Newer, UserRecords
<1>16. RowsNew'
  <2>1. ASSUME ListLoaded, NEW i \in DOMAIN usersTab.users PROVE Newer(usersTab.users[i])'
    <3>1. usersTab.users[i] \in UserRecords BY UsersParts, UserOf
    <3>2. Newer(usersTab.users[i]) BY <2>1 DEF RowsNew
    <3>3. PICK row \in UserRecords : row = usersTab.users[i] BY <3>1
    <3>4. Newer(row)' BY <1>15, <3>2, <3>3
    <3> QED BY <1>0, <3>3, <3>4 DEF Newer
  <2>2. ASSUME SearchLoaded, NEW i \in DOMAIN usersTab.searched PROVE Newer(usersTab.searched[i])'
    <3>1. usersTab.searched[i] \in UserRecords BY UsersParts, UserOf
    <3>2. Newer(usersTab.searched[i]) BY <2>2 DEF RowsNew
    <3>3. PICK row \in UserRecords : row = usersTab.searched[i] BY <3>1
    <3>4. Newer(row)' BY <1>15, <3>2, <3>3
    <3> QED BY <1>0, <3>3, <3>4 DEF Newer
  <2> QED BY <1>0, <2>1, <2>2 DEF RowsNew, ListLoaded, SearchLoaded
<1>17. \A c \in Underway' : IsActive(c)' => c \in Underway /\ IsActive(c) BY <1>0, <1>1 DEF IsActive
<1>18. ActiveNew'
  <2>1. ASSUME NEW c \in Underway, IsActive(c), NEW v \in Users
        PROVE  c.asOf[v] <= claims[v] /\ (updatedUsers'[v] # 0 => updatedUsers'[v] >= c.asOf[v])
    BY <1>4, <1>7, <2>1, UnderwayParts DEF CallRecords, ActiveNew
  <2> QED BY <1>1, <1>17, <2>1 DEF ActiveNew, usersMain
<1>19. AnswersNew'
  <2>1. ASSUME NEW n \in DOMAIN usersAnswered PROVE \A a : a = usersAnswered[n] => AnswerNew(a)'
    <3>1. usersAnswered[n] \in AnswerRecords /\ AnswerNew(usersAnswered[n])
      BY UnderwayParts DEF AnswersNew
    <3>2. PICK a : a = usersAnswered[n] OBVIOUS
    <3>3. \A i \in DOMAIN a.items : a.items[i] \in UserRecords BY <3>1, <3>2, UserOf DEF AnswerRecords
    <3>4. AnswerNew(a)' BY <1>0, <1>15, <3>1, <3>2, <3>3 DEF AnswerNew, IsActive
    <3> QED BY <3>2, <3>4
  <2>2. \A i \in DOMAIN usersAnswered' : AnswerNew(usersAnswered[i])'
    <3>1. ASSUME NEW i \in DOMAIN usersAnswered' PROVE AnswerNew(usersAnswered[i])'
      <4>1. PICK n \in DOMAIN usersAnswered : usersAnswered'[i] = usersAnswered[n] BY <1>1
      <4>2. PICK a : a = usersAnswered[n] OBVIOUS
      <4>3. AnswerNew(a)' BY <2>1, <4>2
      <4> QED BY <4>1, <4>2, <4>3 DEF AnswerNew, IsActive, Newer
    <3> QED BY <3>1
  <2> QED BY <2>2 DEF AnswersNew
<1>20. SavesNew'
  <2>1. ASSUME NEW n \in DOMAIN usersAnswered, n # 1, n > 1, IsSaved(usersAnswered[n])
        PROVE  LET user == usersAnswered[n].items[1]
               IN since'[user.uid] <= user.claims /\ user.claims <= claims[user.uid]
    <3>1. PICK v \in Users : /\ usersAnswered[n].call.uid = v /\ usersAnswered[n].items[1].uid = v
                             /\ usersAnswered[n].items[1].claims \in Nat
      BY <2>1, SavedUser
    <3>2. since[v] <= usersAnswered[n].items[1].claims /\ usersAnswered[n].items[1].claims <= claims[v]
      BY <2>1, <3>1 DEF SavesNew, SaveNew
    <3>3. v = u => told <= usersAnswered[n].items[1].claims
      BY <1>1, <1>2, <2>1, <3>1 DEF SavesNew, InOrder, IsSaved
    <3>4. since'[v] <= usersAnswered[n].items[1].claims BY <1>7, <3>2, <3>3
    <3> QED BY <3>1, <3>2, <3>4
  <2>2. \A i \in DOMAIN usersAnswered' : SaveNew(usersAnswered'[i]) BY <1>1 DEF SavesNew
  <2>3. \A i \in DOMAIN usersAnswered' : IsSaved(usersAnswered'[i]) =>
          LET user == usersAnswered'[i].items[1]
          IN since'[user.uid] <= user.claims /\ user.claims <= claims[user.uid]
    BY <1>1, <2>1
  <2>4. \A i \in DOMAIN usersAnswered' : SaveNew(usersAnswered[i])'
    BY <1>0, <1>1, <1>17, <2>2, <2>3 DEF SaveNew, IsSaved, usersMain
  <2>5. \A i, j \in DOMAIN usersAnswered' : i < j => InOrder(usersAnswered'[i], usersAnswered'[j])
    BY <1>1 DEF SavesNew
  <2> QED BY <2>4, <2>5 DEF SavesNew, InOrder, IsSaved
<1>21. ToldTrue'
  <2>1. ASSUME NEW v \in Users
        PROVE  since'[v] <= claims[v] /\ (updatedUsers'[v] # 0 => updatedUsers'[v] >= since'[v])
    BY <1>4, <1>5, <1>7 DEF ToldTrue
  <2> QED BY <1>1, <2>1 DEF ToldTrue, usersMain
<1> QED BY <1>1, <1>8, <1>9, <1>10, <1>11, <1>12, <1>13, <1>14, <1>16, <1>18, <1>19, <1>20, <1>21

\* A save that failed tells the list nothing (authCustomClaimsSaveFailed).
LEMMA ClaimsNotSavedKeeps ==
  ASSUME UsersInv, ClaimsNotSaved
  PROVE  UsersInv'
BY UnheardUsers DEF ClaimsNotSaved, Receives, IsActive

\* What the main process does with a call, and its answer to it.
LEMMA CallAnswered ==
  ASSUME UsersInv, NEW c \in usersAsked,
         ListUsers(c) \/ SearchUsers(c) \/ SetCustomClaims(c) \/ Refuse(c)
  PROVE  UsersInv'
<1> USE DEF UsersInv
<1>1. c \in CallRecords /\ c \in Underway BY UnderwayParts
<1>2. /\ \A u \in Users : claims[u] \in Nat \ {0}
      /\ claims \in [Users -> Nat \ {0}] /\ LastUser \in Nat \ {0} /\ UsersPerPage \in Nat \ {0}
  BY UsersParts
<1>3. c.cursor \in Nat /\ c.cursor < LastUser /\ (c.op = "load" => c.cursor = 0)
  BY <1>1, <1>2 DEF CallRecords, Cursors, CallsKnown
<1>4. CASE ListUsers(c)
  <2> DEFINE last == Min({c.cursor + UsersPerPage, LastUser})
  <2> DEFINE page == [i \in 1..(last - c.cursor) |-> UserRecord(c.cursor + i)]
  <2> DEFINE next == IF last < LastUser THEN last ELSE 0
  <2> DEFINE answer == UsersReply(c, TRUE, page, next)
  <2>1. last \in Nat /\ last > c.cursor /\ last <= LastUser BY <1>2, <1>3, MinOfTwo
  <2>2. /\ UsersReplies(answer) /\ claims' = claims
        /\ c.op = "more" \/ (c.op = "load" /\ c.request.filter = NoFilter)
    BY <1>4 DEF ListUsers
  <2> HIDE DEF last
  <2>3. PICK n \in Nat : n = last - c.cursor /\ n > 0 /\ c.cursor + n = last BY <1>3, <2>1
  <2>4. \A i \in 1..n : c.cursor + i \in Users
    <3>1. \A i \in 1..n : c.cursor + i >= 1 /\ c.cursor + i <= LastUser /\ c.cursor + i \in Nat
      BY <1>2, <1>3, <2>1, <2>3
    <3> QED BY <1>2, <3>1 DEF Users
  <2>5. page = [i \in 1..n |-> UserRecord(c.cursor + i)] BY <2>3
  <2> HIDE DEF page
  <2>6. \A i \in 1..n : /\ UserRecord(c.cursor + i) \in UserRecords
                        /\ UserRecord(c.cursor + i).uid = c.cursor + i
                        /\ UserRecord(c.cursor + i).claims = claims[c.cursor + i]
    BY <1>2, <2>4 DEF UserRecord, UserRecords
  <2>7. /\ page \in Seq(UserRecords) /\ Len(page) = n /\ DOMAIN page = 1..n /\ page # <<>>
        /\ \A i \in 1..n : page[i] = UserRecord(c.cursor + i)
    <3> DEFINE U == UserRecords
    <3>1. \A i \in 1..n : UserRecord(c.cursor + i) \in U BY <2>6
    <3> HIDE DEF U
    <3>2. page \in Seq(U) /\ Len(page) = n BY <2>3, <2>5, <3>1
    <3> QED BY <2>3, <2>5, <3>2 DEF U
  <2>8. next \in Cursors /\ PageFrom(c.cursor, page, next)
    BY <1>2, <2>1, <2>3, <2>6, <2>7 DEF Cursors, PageFrom
  <2> HIDE DEF next
  <2>9. /\ answer \in AnswerRecords /\ answer.call = c /\ answer.ok /\ answer.items = page
        /\ answer.cursor = next
    BY <1>1, <2>7, <2>8 DEF UsersReply, AnswerRecords
  <2> HIDE DEF answer
  <2>10. AnswerTrue(answer) BY <2>2, <2>7, <2>8, <2>9 DEF AnswerTrue
  <2>11. \A i \in DOMAIN page : page[i].claims = claims'[page[i].uid] BY <2>2, <2>6, <2>7
  <2>12. \A u \in Users : claims[u] <= claims'[u] BY <1>2, <2>2
  <2> QED BY <1>2, <2>2, <2>7, <2>9, <2>10, <2>11, <2>12, AnswerKeeps
<1>5. CASE SearchUsers(c)
  <2> DEFINE row == UserRecord(c.request.filter)
  <2> DEFINE answer == UsersReply(c, TRUE, <<row>>, 0)
  <2>1. /\ UsersReplies(answer) /\ claims' = claims /\ c.op = "load" /\ c.request.filter # NoFilter
    BY <1>5 DEF SearchUsers
  <2>2. c.request.filter \in Users BY <1>1, <2>1 DEF CallRecords, Requests, Filters
  <2>3. row \in UserRecords /\ row.uid = c.request.filter /\ row.claims = claims[row.uid]
    BY <1>2, <2>2 DEF UserRecord, UserRecords
  <2> HIDE DEF row
  <2>4. /\ answer \in AnswerRecords /\ answer.call = c /\ answer.ok /\ answer.items = <<row>>
        /\ answer.cursor = 0
    BY <1>1, <1>2, <2>3 DEF UsersReply, AnswerRecords, Cursors
  <2>5. Len(<<row>>) = 1 /\ <<row>>[1] = row /\ <<row>> \in Seq(UserRecords) /\ DOMAIN <<row>> = {1} BY <2>3
  <2> HIDE DEF answer
  <2>6. AnswerTrue(answer) BY <2>1, <2>3, <2>4, <2>5 DEF AnswerTrue
  <2>7. \A u \in Users : claims[u] <= claims'[u] BY <1>2, <2>1
  <2>8. \A i \in DOMAIN answer.items : answer.items[i].claims = claims'[answer.items[i].uid]
    BY <2>1, <2>3, <2>4, <2>5
  <2> QED BY <1>2, <2>1, <2>4, <2>5, <2>6, <2>7, <2>8, AnswerKeeps
<1>6. CASE SetCustomClaims(c)
  <2> DEFINE row == [uid |-> c.uid, claims |-> claims'[c.uid]]
  <2> DEFINE answer == UsersReply(c, TRUE, <<row>>, 0)
  <2>1. /\ UsersReplies(answer) /\ claims' = [claims EXCEPT ![c.uid] = @ + 1] /\ c.op = "save"
    BY <1>6 DEF SetCustomClaims
  <2>2. c.uid \in Users BY <1>1, <2>1 DEF CallsKnown
  <2>3. claims' \in [Users -> Nat \ {0}] /\ \A u \in Users : claims'[u] \in Nat \ {0} /\ claims[u] <= claims'[u]
    BY <1>2, <2>1, <2>2
  <2>4. row \in UserRecords /\ row.uid = c.uid /\ row.claims = claims'[row.uid]
    BY <2>2, <2>3 DEF UserRecords
  <2> HIDE DEF row
  <2>5. /\ answer \in AnswerRecords /\ answer.call = c /\ answer.ok /\ answer.items = <<row>>
        /\ answer.cursor = 0
    BY <1>1, <1>2, <2>4 DEF UsersReply, AnswerRecords, Cursors
  <2>6. Len(<<row>>) = 1 /\ <<row>>[1] = row /\ <<row>> \in Seq(UserRecords) /\ DOMAIN <<row>> = {1} BY <2>4
  <2>7. PICK a : a = answer OBVIOUS
  <2> HIDE DEF answer
  <2>8. AnswerTrue(a) BY <2>1, <2>4, <2>5, <2>6, <2>7 DEF AnswerTrue
  <2>9. \A i \in DOMAIN a.items : a.items[i].claims = claims'[a.items[i].uid]
    BY <2>4, <2>5, <2>6, <2>7
  <2> QED BY <2>1, <2>3, <2>5, <2>6, <2>7, <2>8, <2>9, AnswerKeeps
<1>7. CASE Refuse(c)
  <2> DEFINE answer == UsersReply(c, FALSE, <<>>, 0)
  <2>1. /\ UsersReplies(answer)
        /\ claims' = claims \/ (c.op = "save" /\ claims' = [claims EXCEPT ![c.uid] = @ + 1])
    BY <1>7 DEF Refuse
  <2>2. c.op = "save" => c.uid \in Users BY <1>1 DEF CallsKnown
  <2>3. claims' \in [Users -> Nat \ {0}] /\ \A u \in Users : claims[u] <= claims'[u]
    BY <1>2, <2>1, <2>2
  <2>4. answer \in AnswerRecords /\ answer.call = c /\ ~answer.ok
    BY <1>1, <1>2 DEF UsersReply, AnswerRecords, Cursors
  <2> HIDE DEF answer
  <2>5. AnswerTrue(answer) BY <2>4 DEF AnswerTrue
  <2> QED BY <2>1, <2>3, <2>4, <2>5, AnswerKeeps
<1> QED BY <1>4, <1>5, <1>6, <1>7

----------------
(* Users: all of it *)

\* The invariant holds of a tab that is new,
LEMMA UsersBegin == InitUsersTab => UsersInv
<1> SUFFICES ASSUME InitUsersTab PROVE UsersInv OBVIOUS
<1>1. /\ claims = [u \in Users |-> 1] /\ visits = 0 /\ onUsers = FALSE
      /\ updatedUsers = NoUpdates /\ usersAsked = {} /\ usersAnswered = <<>>
      /\ mixed = FALSE /\ takenBack = FALSE /\ since = NoUpdates
  BY DEF InitUsersTab
<1>2. PICK f \in Filters :
        usersTab = [filter |-> f, active |-> NoUsersRequest, error |-> FALSE, cursor |-> 0,
                    runId |-> 0, searched |-> <<>>, users |-> <<>>, more |-> FALSE,
                    fetching |-> FALSE, loading |-> FALSE, loaded |-> NotLoaded]
  BY DEF InitUsersTab
<1>3. LastUser \in Nat \ {0} /\ 0 \in Cursors /\ NoUsersRequest \in Requests /\ NoUsersRequest.runId = 0
  BY UsersAssumption DEF Cursors, Requests, NoUsersRequest, Filters
<1>4. NotLoaded \notin Users /\ NotLoaded # NoFilter BY <1>3 DEF NotLoaded, Users, NoFilter
<1>5. NoUpdates \in [Users -> Nat] /\ claims \in [Users -> Nat \ {0}]
      /\ \A u \in Users : NoUpdates[u] = 0 /\ claims[u] = 1
  BY <1>1 DEF NoUpdates
<1>6. Underway = {} /\ DOMAIN usersAnswered = {} BY <1>1 DEF Underway
<1>7. UsersTyped
  <2>1. usersTab \in UsersTabs BY <1>2, <1>3 DEF UsersTabs
  <2>2. usersAnswered \in Seq(AnswerRecords) BY <1>1
  <2> QED BY <1>1, <1>5, <2>1, <2>2 DEF UsersTyped
<1>8. ActiveUnderway BY <1>2, <1>3 DEF ActiveUnderway
<1>9. CallsKnown /\ AnsweredOnce /\ AnswersTrue /\ AnswersNew /\ SavesNew /\ ActiveNew
  BY <1>6 DEF CallsKnown, AnsweredOnce, AnswersTrue, AnswersNew, SavesNew, ActiveNew
<1>10. FilterLoaded BY <1>1 DEF FilterLoaded
<1>11. MoreFits BY <1>2, <1>6 DEF MoreFits
<1>12. ListWhole /\ SearchedIs /\ RowsNew
  BY <1>2, <1>4 DEF ListWhole, SearchedIs, RowsNew, ListLoaded, SearchLoaded
<1>13. ToldTrue BY <1>1, <1>5 DEF ToldTrue
<1> QED BY <1>7, <1>8, <1>9, <1>10, <1>11, <1>12, <1>13 DEF UsersInv

\* and every step keeps it.
LEMMA UsersStep == UsersInv /\ [UsersTabNext]_usersVars => UsersInv'
<1> SUFFICES ASSUME UsersInv, [UsersTabNext]_usersVars PROVE UsersInv' OBVIOUS
<1>1. CASE UNCHANGED usersVars
  <2>1. UNCHANGED <<claims, visits, onUsers, usersTab, updatedUsers, usersAsked, usersAnswered, mixed, takenBack, since>>
    BY <1>1 DEF usersVars, usersMain
  <2>2. \A c : c \in Underway' <=> c \in Underway BY <2>1 DEF Underway
  <2>3. (UsersTyped /\ ActiveUnderway /\ CallsKnown /\ AnsweredOnce /\ AnswersTrue /\ FilterLoaded)'
    BY <2>1, <2>2 DEF UsersInv, UsersTyped, ActiveUnderway, CallsKnown, AnsweredOnce, AnswersTrue, FilterLoaded
  <2>4. (MoreFits /\ ListWhole /\ SearchedIs /\ RowsNew)'
    BY <2>1, <2>2 DEF UsersInv, MoreFits, ListWhole, SearchedIs, RowsNew, ListLoaded, SearchLoaded, Newer
  <2>5. (ActiveNew /\ ToldTrue)' BY <2>1, <2>2 DEF UsersInv, ActiveNew, IsActive, ToldTrue
  <2>6. AnswersNew' BY <2>1 DEF UsersInv, AnswersNew, AnswerNew, IsActive, Newer
  <2>7. SavesNew' BY <2>1, <2>2 DEF UsersInv, SavesNew, SaveNew, InOrder, IsSaved, IsActive
  <2> QED BY <2>3, <2>4, <2>5, <2>6, <2>7 DEF UsersInv
<1>2. CASE ShowUsers BY <1>2, ShowUsersKeeps
<1>3. CASE HideUsers \/ LeaveUsers BY <1>3, HideUsersKeeps
<1>4. CASE RefetchUsers BY <1>4, RefetchUsersKeeps
<1>5. CASE LoadMoreUsers BY <1>5, LoadMoreUsersKeeps
<1>6. CASE \E f \in Filters : SetAuthFilter(f) BY <1>6, SetAuthFilterKeeps
<1>7. CASE \E u \in Users : SaveClaims(u) BY <1>7, SaveClaimsKeeps
<1>8. CASE \E u \in OthersUsers : OthersWrite(u)
  <2>1. OthersUsers \subseteq Users BY UsersParts DEF UsersInv
  <2> QED BY <1>8, <2>1, ClaimsElsewhereKeep
<1>9. CASE \E c \in usersAsked : ListUsers(c) \/ SearchUsers(c) \/ SetCustomClaims(c) \/ Refuse(c)
  BY <1>9, CallAnswered
<1>10. CASE UsersLoaded BY <1>10, UsersLoadedKeeps
<1>11. CASE UsersNotLoaded BY <1>11, UsersNotLoadedKeeps
<1>12. CASE MoreUsersLoaded \/ MoreUsersNotLoaded BY <1>12, MoreUsersKeeps
<1>13. CASE ClaimsSaved BY <1>13, ClaimsSavedKeeps
<1>14. CASE ClaimsNotSaved BY <1>14, ClaimsNotSavedKeeps
<1> QED BY <1>1, <1>2, <1>3, <1>4, <1>5, <1>6, <1>7, <1>8, <1>9, <1>10, <1>11, <1>12, <1>13, <1>14
         DEF UsersTabNext

\* What the invariant says of a tab that rests is what the property asks of it.
LEMMA UsersShown == UsersInv => ShowsItsUsers
<1> SUFFICES ASSUME UsersInv, onUsers, Underway = {}, ~usersTab.error, ~takenBack, ~mixed
             PROVE  LET n == Len(UserRows)
                        wanted == IF usersTab.filter = NoFilter THEN 1..n ELSE {usersTab.filter}
                    IN /\ {UserRows[i].uid : i \in 1..n} = wanted /\ Cardinality(wanted) = n
                       /\ \A i, j \in 1..n : i < j => UserRows[i].uid < UserRows[j].uid
                       /\ usersTab.filter = NoFilter => n > 0 /\ (usersTab.more <=> n < LastUser)
                       /\ \A i \in 1..n : UserRows[i].claims >= since[UserRows[i].uid]
  BY DEF ShowsItsUsers
<1> USE DEF UsersInv
<1>1. ~usersTab.loading BY DEF ActiveUnderway
<1>2. usersTab.loaded = usersTab.filter /\ usersTab.filter \in Filters BY <1>1, UsersParts DEF FilterLoaded
<1>3. Listed \in Seq(UserRecords) BY UsersParts DEF Listed
<1>4. PICK n \in Nat : n = Len(Listed) /\ DOMAIN Listed = 1..n BY <1>3
<1>5. \A i \in 1..n : Listed[i] \in UserRecords BY <1>3, <1>4, UserOf
<1>6. \A i \in 1..n : Newer(Listed[i])
  <2>1. CASE usersTab.filter = NoFilter
    <3>1. ListLoaded BY <1>1, <1>2, <2>1 DEF ListLoaded
    <3> QED BY <1>4, <2>1, <3>1 DEF RowsNew, Listed
  <2>2. CASE usersTab.filter # NoFilter
    <3>1. SearchLoaded BY <1>1, <1>2, <2>2 DEF SearchLoaded, Filters
    <3> QED BY <1>4, <2>2, <3>1 DEF RowsNew, Listed
  <2> QED BY <2>1, <2>2
<1>7. /\ DOMAIN UserRows = 1..n
      /\ \A i \in 1..n : UserRows[i].uid = Listed[i].uid /\ UserRows[i].uid \in Users
  BY <1>4, <1>5 DEF UserRows, UserRecords
<1>8. ASSUME NEW i \in 1..n PROVE UserRows[i].claims >= since[UserRows[i].uid]
  <2>1. PICK u \in Users : u = Listed[i].uid /\ u = UserRows[i].uid BY <1>7
  <2>2. Listed[i] \in UserRecords /\ (Listed[i].claims >= since[u] \/ updatedUsers[u] # 0)
    BY <1>5, <1>6, <2>1 DEF Newer
  <2>3. UserRows[i] = IF updatedUsers[u] = 0 THEN Listed[i]
                      ELSE [Listed[i] EXCEPT !.claims = updatedUsers[u]]
    BY <1>4, <2>1 DEF UserRows
  <2>4. updatedUsers[u] # 0 => updatedUsers[u] >= since[u] BY DEF ToldTrue
  <2> QED BY <2>1, <2>2, <2>3, <2>4 DEF UserRecords
<1>9. UserRows \in Seq([uid : Users, claims : Nat]) /\ Len(UserRows) = n
  <2> DEFINE U == [uid : Users, claims : Nat]
  <2>1. ASSUME NEW i \in 1..n PROVE UserRows[i] \in U
    <3>1. PICK u \in Users : u = Listed[i].uid BY <1>7
    <3>2. UserRows[i] = IF updatedUsers[u] = 0 THEN Listed[i]
                        ELSE [Listed[i] EXCEPT !.claims = updatedUsers[u]]
      BY <1>4, <3>1 DEF UserRows
    <3>3. updatedUsers[u] \in Nat BY UsersParts
    <3> QED BY <1>5, <3>2, <3>3 DEF UserRecords
  <2>2. UserRows = [i \in 1..n |-> UserRows[i]] BY <1>4 DEF UserRows
  <2> HIDE DEF U
  <2>3. UserRows \in Seq(U) /\ Len(UserRows) = n BY <1>4, <1>7, <2>1, <2>2
  <2> QED BY <2>3 DEF U
<1>10. CASE usersTab.filter = NoFilter
  <2>1. ListLoaded BY <1>1, <1>2, <1>10 DEF ListLoaded
  <2>2. /\ Listed # <<>> /\ PageFrom(0, Listed, usersTab.cursor) /\ (usersTab.more <=> usersTab.cursor # 0)
    BY <1>10, <2>1 DEF ListWhole, Listed
  <2>3. \A i \in 1..n : UserRows[i].uid = i BY <1>4, <1>7, <2>2 DEF PageFrom
  <2>4. n > 0 BY <1>3, <1>4, <2>2
  <2>5. usersTab.more <=> n < LastUser BY <1>4, <2>2, <2>4, UsersParts DEF PageFrom
  <2>6. Cardinality(1..n) = n BY <2>4, FS_Interval
  <2>7. {UserRows[i].uid : i \in 1..n} = 1..n BY <2>3
  <2>8. \A i, j \in 1..n : i < j => UserRows[i].uid < UserRows[j].uid BY <2>3
  <2> QED BY <1>8, <1>9, <1>10, <2>4, <2>5, <2>6, <2>7, <2>8
<1>11. CASE usersTab.filter # NoFilter
  <2>1. usersTab.filter \in Users BY <1>2, <1>11 DEF Filters
  <2>2. n = 1 /\ Listed[1].uid = usersTab.filter BY <1>2, <1>4, <1>11, <2>1 DEF SearchedIs, Listed
  <2>3. 1..n = {1} BY <2>2
  <2>4. {UserRows[i].uid : i \in 1..n} = {usersTab.filter} BY <1>7, <2>2, <2>3
  <2>5. Cardinality({usersTab.filter}) = n BY FS_Singleton, <2>2
  <2>6. \A i, j \in 1..n : ~(i < j) BY <2>2
  <2> QED BY <1>8, <1>9, <1>11, <2>4, <2>5, <2>6
<1> QED BY <1>10, <1>11

\* The invariant includes the types.
LEMMA UsersTabTyped == UsersInv => UsersTabTypeOK
<1> SUFFICES ASSUME UsersInv PROVE UsersTabTypeOK OBVIOUS
<1>1. usersTab.cursor \in Users \cup {0} BY UsersParts DEF UsersInv, Cursors
<1> QED BY <1>1, UsersParts DEF UsersInv, UsersTyped, ActiveUnderway, UsersTabTypeOK

----------------
(* The invariant of the workspace and its runs *)

RunsTyped ==
  /\ runs \in Seq([tab : AllTabs, account : Accounts, rows : 0..MaxRows,
                   cancelled : BOOLEAN, over : BOOLEAN])
  /\ \A r \in DOMAIN runs : runs[r].tab[1] \in RunKinds
  /\ hasty \subseteq DOMAIN runs

\* Commands that wait for their compilation are for tabs that have runs.
CommandsTyped ==
  /\ compiling \in Seq([tab : AllTabs, account : Accounts, item : Items])
  /\ \A i \in DOMAIN compiling : compiling[i].tab[1] \in RunKinds

\* The run that is active in a tab is its own.
ActiveOwned ==
  \A t \in DOMAIN activeRuns :
    t \in AllTabs /\ activeRuns[t] \in DOMAIN runs /\ runs[activeRuns[t]].tab = t

\* A result is of a run of its tab, of the active one if there is one, and tells no
\* more than the run gave; unless it is empty its tab still has the account of the run.
ResultTrue(t) ==
  LET given == results[t]
      r == runs[given.run]
  IN /\ given \in [run : DOMAIN runs, rows : 0..MaxRows, whole : BOOLEAN]
     /\ r.tab = t /\ given.rows <= r.rows
     /\ given.whole => r.over /\ given.rows = r.rows
     /\ given.rows > 0 \/ given.whole => TabIsCurrent(t, r.account)
     /\ IsBusy(t) => activeRuns[t] = given.run
ResultsTrue == \A t \in DOMAIN results : t \in AllTabs /\ ResultTrue(t)

\* What the main process said of a run: that it ended is only said of one that did.
MessagesTrue ==
  /\ events \in Seq([run : DOMAIN runs, type : {"row", "end"}])
  /\ \A i \in DOMAIN events : events[i].type = "end" => runs[events[i].run].over
  /\ answers \subseteq [run : DOMAIN runs, rejected : BOOLEAN]
  /\ \A a \in answers : runs[a.run].over

\* The rows an active run has shown, and those on their way, are rows it gave.
RowsComing(r) == {i \in DOMAIN events : events[i] = [run |-> r, type |-> "row"]}
RowsGiven ==
  \A r \in DOMAIN runs :
    Running(runs[r].tab, r) => RowsOf(runs[r].tab) + Cardinality(RowsComing(r)) <= runs[r].rows

\* A dialog to close tabs was opened in a workspace that has changed in its history only.
DialogTrue ==
  \A dialog \in closing :
    WellFormed(dialog.in) /\ dialog.in.tabs = workspace.tabs /\ dialog.in.active = workspace.active

\* All of it.
WorkbenchInv ==
  /\ WellFormed(workspace) /\ available \subseteq Accounts /\ tabCounter \in Nat
  /\ RunsTyped /\ CommandsTyped /\ ActiveOwned /\ ResultsTrue /\ MessagesTrue /\ RowsGiven
  /\ DialogTrue /\ NoRunUnattended

\* A set of numbers has a least element,
LEMMA LeastOf ==
  ASSUME NEW T \in SUBSET Nat, T # {}
  PROVE  \E n \in T : \A m \in T : n <= m
<1>1. PICK n \in T : \A m \in T : ~(<<m, n>> \in OpToRel(<, Nat)) BY NatLessThanWellFounded, WFMin
<1>2. \A m \in T : ~(m < n) BY <1>1 DEF OpToRel
<1> QED BY <1>2

\* and a set of positions a greatest one.
LEMMA GreatestOf ==
  ASSUME NEW n \in Nat, NEW T \in SUBSET (1..n), T # {}
  PROVE  Max(T) \in T
<1> DEFINE D == {n - i : i \in T}
<1>0. D # {} OBVIOUS
<1>1. D \in SUBSET Nat OBVIOUS
<1> HIDE DEF D
<1>2. PICK d \in D : \A e \in D : d <= e BY <1>0, <1>1, LeastOf
<1>3. PICK i \in T : d = n - i BY DEF D
<1>4. ASSUME NEW k \in T PROVE i >= k
  <2>1. n - k \in D BY DEF D
  <2>2. n - i <= n - k BY <1>2, <1>3, <2>1
  <2> QED BY <2>2
<1> QED BY <1>4 DEF Max


\* A fold over a finite set S, whose recursion goes by an element ch chooses.
FoldStep(f, s, base, F, ch) == IF s = {} THEN base ELSE F[<<f[s \ {ch[s]}], ch[s]>>]
\* The subsets of up to n elements.
Small(S, n) == {s \in SUBSET S : Cardinality(s) <= n}

\* There is a fold of F over S.
FoldIsThere(S, V, base, F, ch) ==
  \E f \in [SUBSET S -> V] : \A s \in SUBSET S : f[s] = FoldStep(f, s, base, F, ch)

\* There is one: by induction on the size of the sets it is about.
LEMMA FoldSolved ==
  ASSUME NEW S, IsFiniteSet(S), NEW V, NEW base \in V, NEW F \in [V \X S -> V],
         NEW ch, \A s \in SUBSET S : s # {} => ch[s] \in s
  PROVE  FoldIsThere(S, V, base, F, ch)
<1> DEFINE Solved(n) == \E f \in [Small(S, n) -> V] : \A s \in Small(S, n) : f[s] = FoldStep(f, s, base, F, ch)
<1>0. \A s \in SUBSET S : IsFiniteSet(s) /\ Cardinality(s) \in Nat /\ Cardinality(s) <= Cardinality(S)
  BY FS_Subset, FS_CardinalityType
<1>1. Solved(0)
  <2> DEFINE f == [s \in Small(S, 0) |-> base]
  <2>1. \A s \in Small(S, 0) : s = {} BY <1>0, FS_EmptySet DEF Small
  <2>2. f \in [Small(S, 0) -> V] OBVIOUS
  <2>3. \A s \in Small(S, 0) : f[s] = FoldStep(f, s, base, F, ch) BY <2>1 DEF FoldStep
  <2> QED BY <2>2, <2>3
<1>2. ASSUME NEW n \in Nat, Solved(n) PROVE Solved(n + 1)
  <2>1. PICK g \in [Small(S, n) -> V] : \A s \in Small(S, n) : g[s] = FoldStep(g, s, base, F, ch)
    BY <1>2
  <2> DEFINE f == [s \in Small(S, n + 1) |-> FoldStep(g, s, base, F, ch)]
  <2>2. ASSUME NEW s \in Small(S, n + 1), s # {} PROVE s \ {ch[s]} \in Small(S, n) /\ ch[s] \in S
    <3>1. ch[s] \in s /\ s \in SUBSET S /\ Cardinality(s) <= n + 1 BY <2>2 DEF Small
    <3>2. Cardinality(s \ {ch[s]}) = Cardinality(s) - 1 BY <1>0, <3>1, FS_RemoveElement
    <3>3. Cardinality(s) \in Nat BY <1>0, <3>1
    <3>4. Cardinality(s \ {ch[s]}) <= n BY <3>1, <3>2, <3>3
    <3> QED BY <3>1, <3>4 DEF Small
  <2>3. Small(S, n) \subseteq Small(S, n + 1) BY <1>0 DEF Small
  <2>4. f \in [Small(S, n + 1) -> V] BY <2>1, <2>2 DEF FoldStep
  <2>5. \A s \in Small(S, n) : f[s] = g[s] BY <2>1, <2>3
  <2>6. ASSUME NEW s \in Small(S, n + 1) PROVE f[s] = FoldStep(f, s, base, F, ch)
    <3>1. f[s] = FoldStep(g, s, base, F, ch) OBVIOUS
    <3> HIDE DEF f
    <3>2. CASE s = {} BY <3>1, <3>2 DEF FoldStep
    <3>3. CASE s # {} BY <2>2, <2>5, <3>1, <3>3 DEF FoldStep
    <3> QED BY <3>2, <3>3
  <2> HIDE DEF f
  <2> QED BY <2>4, <2>6
<1> DEFINE Un == {n \in Nat : ~Solved(n)}
<1>3. Un \in SUBSET Nat OBVIOUS
<1>4. Un = {}
  <2> SUFFICES ASSUME Un # {} PROVE FALSE OBVIOUS
  <2> HIDE DEF Solved
  <2>1. \A n \in Un : n \in Nat /\ ~Solved(n) OBVIOUS
  <2>2. \A n \in Nat : n \notin Un => Solved(n) OBVIOUS
  <2> HIDE DEF Un
  <2>3. PICK n \in Un : \A m \in Un : n <= m BY <1>3, LeastOf
  <2>4. n # 0 BY <1>1, <2>1, <2>3
  <2>5. n - 1 \in Nat /\ n - 1 \notin Un /\ (n - 1) + 1 = n BY <2>1, <2>3, <2>4
  <2>6. Solved(n - 1) BY <2>2, <2>5
  <2>7. Solved((n - 1) + 1) BY <1>2, <2>5, <2>6
  <2> QED BY <2>1, <2>5, <2>7
<1>5. Cardinality(S) \in Nat BY FS_CardinalityType
<1>6. Small(S, Cardinality(S)) = SUBSET S BY <1>0 DEF Small
<1>7. Solved(Cardinality(S))
  <2> HIDE DEF Solved
  <2> QED BY <1>4, <1>5
<1> QED BY <1>6, <1>7 DEF FoldIsThere

\* A fold along a sequence of n elements, of steps that stay within V.
Along(n, V, base, F) ==
  \E f \in [SUBSET (1..n) -> V] :
    \A s \in SUBSET (1..n) : f[s] = IF s = {} THEN base ELSE F[<<f[s \ {Max(s)}], Max(s)>>]

\* There is a fold along 1..n when its steps stay within V.
LEMMA FoldAlong ==
  ASSUME NEW n \in Nat, NEW V, NEW base \in V, NEW F \in [V \X (1..n) -> V]
  PROVE  Along(n, V, base, F)
<1> DEFINE S == 1..n
<1> DEFINE ch == [s \in SUBSET S |-> Max(s)]
<1>1. IsFiniteSet(S) BY FS_Interval
<1>2. \A s \in SUBSET S : s # {} => Max(s) \in s BY GreatestOf
<1>3. \A s \in SUBSET S : s # {} => ch[s] \in s BY <1>2
<1>4. \A s \in SUBSET S : ch[s] = Max(s) OBVIOUS
<1>0. F \in [V \X S -> V] OBVIOUS
<1> HIDE DEF S, ch
<1>8. FoldIsThere(S, V, base, F, ch) BY <1>0, <1>1, <1>3, FoldSolved
<1>5. PICK f \in [SUBSET S -> V] : \A s \in SUBSET S : f[s] = FoldStep(f, s, base, F, ch)
  BY <1>8 DEF FoldIsThere
<1>6. \A s \in SUBSET S : f[s] = IF s = {} THEN base ELSE F[<<f[s \ {Max(s)}], Max(s)>>]
  BY <1>4, <1>5 DEF FoldStep
<1> QED BY <1>5, <1>6 DEF S, Along

\* What holds at first and is kept by each of n steps holds at the end.
LEMMA StepsReach ==
  ASSUME NEW n \in Nat, NEW T, 0 \in T, \A k \in 1..n : k - 1 \in T => k \in T
  PROVE  \A k \in 0..n : k \in T
<1> DEFINE U == {k \in 0..n : k \notin T}
<1>1. SUFFICES ASSUME U # {} PROVE FALSE OBVIOUS
<1>2. U \in SUBSET Nat OBVIOUS
<1>3. \A k \in U : k \in 0..n /\ k \notin T OBVIOUS
<1>4. \A k \in 0..n : k \notin U => k \in T OBVIOUS
<1> HIDE DEF U
<1>5. PICK k \in U : \A m \in U : k <= m BY <1>1, <1>2, LeastOf
<1>6. k # 0 /\ k \in 1..n BY <1>3
<1>7. k - 1 \in 0..n /\ k - 1 \notin U BY <1>5, <1>6
<1> QED BY <1>3, <1>4, <1>6, <1>7

\* The positions up to k, and the one before.
LEMMA UpTo ==
  ASSUME NEW k \in Nat, k # 0
  PROVE  Max(1..k) = k /\ (1..k) \ {k} = 1..(k - 1)
BY DEF Max

----------------
(* What is kept of a history *)

KeptIn(s, accounts, e) == e.tab \in TabIds(s) /\ e.place.account \in accounts
KeptHistory(s, accounts) ==
  FoldLeft(LAMBDA h, e : IF e.tab \in TabIds(s) /\ e.place.account \in accounts THEN Append(h, e) ELSE h,
           <<>>, s.history)
KeptUpTo(s, accounts, k) == {i \in 1..k : KeptIn(s, accounts, s.history[i])}
Count(s, accounts, k) == Cardinality(KeptUpTo(s, accounts, k))

\* One more position is counted if its entry is kept.
LEMMA CountOne ==
  ASSUME NEW s, NEW accounts
  PROVE  /\ Count(s, accounts, 0) = 0
         /\ \A k \in Nat : Count(s, accounts, k) \in Nat /\ Count(s, accounts, k) <= k
         /\ \A k \in Nat \ {0} :
              Count(s, accounts, k) = Count(s, accounts, k - 1)
                                        + (IF KeptIn(s, accounts, s.history[k]) THEN 1 ELSE 0)
<1>1. KeptUpTo(s, accounts, 0) = {} BY DEF KeptUpTo
<1>2. ASSUME NEW k \in Nat
      PROVE  /\ IsFiniteSet(KeptUpTo(s, accounts, k)) /\ Count(s, accounts, k) \in Nat
             /\ Count(s, accounts, k) <= k
  <2>1. KeptUpTo(s, accounts, k) \subseteq 1..k BY DEF KeptUpTo
  <2>2. IsFiniteSet(1..k) /\ Cardinality(1..k) = k BY FS_Interval
  <2> QED BY <2>1, <2>2, FS_Subset, FS_CardinalityType DEF Count
<1>3. ASSUME NEW k \in Nat \ {0}
      PROVE  Count(s, accounts, k) = Count(s, accounts, k - 1)
                                        + (IF KeptIn(s, accounts, s.history[k]) THEN 1 ELSE 0)
  <2>0. k - 1 \in Nat /\ 1..k = (1..(k - 1)) \cup {k} /\ k \notin 1..(k - 1) OBVIOUS
  <2>1. CASE KeptIn(s, accounts, s.history[k])
    BY <1>2, <2>0, <2>1, FS_AddElement DEF KeptUpTo, Count
  <2>2. CASE ~KeptIn(s, accounts, s.history[k])
    <3>1. KeptUpTo(s, accounts, k) = KeptUpTo(s, accounts, k - 1) BY <2>0, <2>2 DEF KeptUpTo
    <3> QED BY <1>2, <2>0, <2>2, <3>1 DEF Count
  <2> QED BY <2>1, <2>2
<1> QED BY <1>1, <1>2, <1>3, FS_EmptySet DEF Count

\* What is kept of a history are its entries that are kept, each after as many as are kept
\* before it (sanitizeInteractionHistory).
HistoryIsKept(s, accounts, E) ==
  LET kept == KeptHistory(s, accounts)
      n == Len(s.history)
  IN /\ kept \in Seq({e \in E : KeptIn(s, accounts, e)})
     /\ Len(kept) = Count(s, accounts, n)
     /\ \A j \in 1..n : KeptIn(s, accounts, s.history[j]) =>
          Count(s, accounts, j) \in 1..Len(kept) /\ kept[Count(s, accounts, j)] = s.history[j]

\* The fold that keeps entries of a history, step by step.
LEMMA HistoryKept ==
  ASSUME NEW s, NEW accounts, NEW E, s.history \in Seq(E)
  PROVE  HistoryIsKept(s, accounts, E)
<1> DEFINE h == s.history
<1> DEFINE n == Len(h)
<1> DEFINE KE == {e \in E : KeptIn(s, accounts, e)}
<1> DEFINE V == Seq(KE)
<1> DEFINE Next1(v, i) == IF KeptIn(s, accounts, h[i]) THEN Append(v, h[i]) ELSE v
<1> DEFINE F == [p \in V \X (1..n) |-> Next1(p[1], p[2])]
<1>0. n \in Nat /\ DOMAIN h = 1..n /\ (\A i \in 1..n : h[i] \in E) OBVIOUS
<1>5. \A v \in V, i \in 1..n : Next1(v, i) \in V BY <1>0
<1> DEFINE Is(f) == f = [t \in SUBSET (1..n) |->
                           IF t = {} THEN <<>> ELSE Next1(f[t \ {Max(t)}], Max(t))]
<1>6. KeptHistory(s, accounts) = (CHOOSE f : Is(f))[1..n]
  BY <1>0 DEF KeptHistory, FoldLeft, MapThenFoldSet, KeptIn
<1>3. <<>> \in V OBVIOUS
<1>0a. n \in Nat BY <1>0
<1>a. \A v, i : Next1(v, i) = IF KeptIn(s, accounts, h[i]) THEN Append(v, h[i]) ELSE v OBVIOUS
<1> HIDE DEF Next1, V
<1>1. F \in [V \X (1..n) -> V] BY <1>5
<1>2. \A v \in V, i \in 1..n : F[<<v, i>>] = Next1(v, i) OBVIOUS
<1> HIDE DEF n, F
<1>4. \A t \in SUBSET (1..n) : t # {} => Max(t) \in 1..n BY <1>0, GreatestOf
<1>7. \E f : Is(f)
  <2>0. Along(n, V, <<>>, F) BY <1>0, <1>1, <1>3, FoldAlong
  <2>1. PICK f \in [SUBSET (1..n) -> V] :
          \A t \in SUBSET (1..n) : f[t] = IF t = {} THEN <<>> ELSE F[<<f[t \ {Max(t)}], Max(t)>>]
    BY <2>0 DEF Along
  <2>2. \A t \in SUBSET (1..n) : f[t \ {Max(t)}] \in V BY <2>1
  <2>3. \A t \in SUBSET (1..n) : f[t] = IF t = {} THEN <<>> ELSE Next1(f[t \ {Max(t)}], Max(t))
    BY <1>2, <1>4, <2>1, <2>2
  <2>4. f = [t \in SUBSET (1..n) |-> IF t = {} THEN <<>> ELSE Next1(f[t \ {Max(t)}], Max(t))]
    BY <2>1, <2>3
  <2> QED BY <2>4
<1> DEFINE f == CHOOSE f : Is(f)
<1>8. Is(f) BY <1>7
<1> HIDE DEF f
<1>9. \A t \in SUBSET (1..n) : f[t] = IF t = {} THEN <<>> ELSE Next1(f[t \ {Max(t)}], Max(t))
  BY <1>8
<1> DEFINE g == [k \in 0..n |-> f[1..k]]
<1>10. g[0] = <<>>
  <2>1. {} \in SUBSET (1..n) OBVIOUS
  <2>2. f[{}] = <<>> BY <1>9, <2>1
  <2>3. 1..0 = {} OBVIOUS
  <2>4. 0 \in 0..n BY <1>0a
  <2>5. g[0] = f[1..0] BY <2>4
  <2> QED BY <2>2, <2>3, <2>5
<1>11. ASSUME NEW k \in 1..n PROVE g[k] = Next1(g[k - 1], k)
  <2>0. k \in Nat \ {0} /\ k <= n BY <1>0a
  <2>a. \A i \in 1..k : i \in 1..n BY <1>0a, <2>0
  <2>b. k \in 1..k BY <2>0
  <2>c. k \in 0..n /\ k - 1 \in 0..n BY <1>0a, <2>0
  <2>1. 1..k \in SUBSET (1..n) /\ 1..k # {} /\ k \in Nat \ {0} /\ k \in 0..n /\ k - 1 \in 0..n
    BY <2>0, <2>a, <2>b, <2>c
  <2>2. Max(1..k) = k /\ (1..k) \ {k} = 1..(k - 1) BY <2>1, UpTo
  <2>3. f[1..k] = Next1(f[(1..k) \ {Max(1..k)}], Max(1..k)) BY <1>9, <2>1
  <2> QED BY <2>1, <2>2, <2>3
<1>12. KeptHistory(s, accounts) = g[n] BY <1>0, <1>6 DEF f
<1> HIDE DEF g, f
<1> DEFINE C(k) == Count(s, accounts, k)
<1> DEFINE Good(k) ==
      /\ g[k] \in V /\ Len(g[k]) = C(k)
      /\ \A j \in 1..k : KeptIn(s, accounts, h[j]) => C(j) \in 1..C(k) /\ g[k][C(j)] = h[j]
<1> DEFINE T == {k \in 0..n : Good(k)}
<1>13. 0 \in T BY <1>0, <1>3, <1>10, CountOne
<1>14. ASSUME NEW k \in 1..n, k - 1 \in T PROVE k \in T
  <2>0. k \in Nat \ {0} /\ k - 1 \in Nat /\ k \in 0..n BY <1>0
  <2>1. g[k] = Next1(g[k - 1], k) /\ Good(k - 1) BY <1>11, <1>14
  <2>2. C(k) = C(k - 1) + (IF KeptIn(s, accounts, h[k]) THEN 1 ELSE 0) /\ C(k) \in Nat /\ C(k - 1) \in Nat
    BY <2>0, CountOne
  <2>3. g[k] \in V BY <1>5, <2>1
  <2>4. CASE ~KeptIn(s, accounts, h[k]) BY <1>a, <2>0, <2>1, <2>2, <2>3, <2>4
  <2>5. CASE KeptIn(s, accounts, h[k]) BY <1>a, <2>0, <2>1, <2>2, <2>3, <2>5 DEF V
  <2> QED BY <2>4, <2>5
<1> HIDE DEF T
<1>15. n \in T
  <2>1. \A k \in 0..n : k \in T BY <1>0a, <1>13, <1>14, StepsReach
  <2> QED BY <1>0a, <2>1
<1>16. Good(n) BY <1>15 DEF T
<1> QED BY <1>12, <1>16 DEF HistoryIsKept, V, n

----------------
(* Workspaces *)

TabRecords == [id : AllTabs, place : Places]
Interactions == [tab : AllTabs, place : Places, item : Items]

\* WellFormed, by positions.
Linked(s) ==
  /\ \A i, j \in DOMAIN s.tabs : s.tabs[i].id = s.tabs[j].id => i = j
  /\ \A i \in DOMAIN s.tabs : s.tabs[i].id[1] = s.tabs[i].place.kind
  /\ IF s.tabs = <<>> THEN s.active = NoTab ELSE s.active \in TabIds(s)
  /\ IF s.history = <<>> THEN s.at = 0 ELSE s.at \in DOMAIN s.history
  /\ \A k \in DOMAIN s.history :
       s.history[k].tab \in TabIds(s) /\ s.history[k].place.kind = s.history[k].tab[1]
Sound(s) == s \in TabsState /\ Linked(s)

\* What a workspace consists of.
LEMMA TabsStateFields ==
  ASSUME NEW s \in TabsState
  PROVE  /\ s.tabs \in Seq(TabRecords) /\ s.history \in Seq(Interactions)
         /\ s.active \in AllTabs \cup {NoTab} /\ s.item \in Items /\ s.at \in Nat
         /\ DOMAIN s.tabs = 1..Len(s.tabs) /\ Len(s.tabs) \in Nat
         /\ DOMAIN s.history = 1..Len(s.history) /\ Len(s.history) \in Nat
         /\ \A i \in DOMAIN s.tabs : s.tabs[i] \in TabRecords
         /\ \A i \in DOMAIN s.history : s.history[i] \in Interactions
<1>1. /\ s.tabs \in Seq(TabRecords) /\ s.history \in Seq(Interactions)
      /\ s.active \in AllTabs \cup {NoTab} /\ s.item \in Items /\ s.at \in Nat
  BY DEF TabsState, TabRecords, Interactions
<1> QED BY <1>1

\* The ids of the tabs, by position.
LEMMA IdsOf ==
  ASSUME NEW s
  PROVE  /\ TabIds(s) = {s.tabs[i].id : i \in DOMAIN s.tabs}
         /\ \A i \in DOMAIN s.tabs : s.tabs[i].id \in TabIds(s)
         /\ \A t \in TabIds(s) : \E i \in DOMAIN s.tabs : t = s.tabs[i].id
BY DEF TabIds, Range

\* Tabs of different ids are as many as their ids.
LEMMA DifferentIds ==
  ASSUME NEW s \in TabsState
  PROVE  Cardinality(TabIds(s)) = Len(s.tabs)
           <=> \A i, j \in DOMAIN s.tabs : s.tabs[i].id = s.tabs[j].id => i = j
<1> DEFINE n == Len(s.tabs)
<1> DEFINE S == 1..n
<1> DEFINE f == [i \in S |-> s.tabs[i].id]
<1>1. DOMAIN s.tabs = S /\ n \in Nat BY TabsStateFields
<1>2. f \in Surjection(S, TabIds(s)) BY <1>1, IdsOf DEF Surjection
<1>3. IsFiniteSet(S) /\ Cardinality(S) = n
  <2>1. n \in Nat BY <1>1
  <2> HIDE DEF n
  <2> QED BY <2>1, FS_Interval
<1>4. Cardinality(TabIds(s)) = Cardinality(S) <=> f \in Injection(S, TabIds(s))
  BY <1>2, <1>3, FS_Surjection
<1>5. f \in Injection(S, TabIds(s)) <=> \A i, j \in S : f[i] = f[j] => i = j
  BY <1>2 DEF Injection, Surjection, IsInjective
<1>6. (\A i, j \in S : f[i] = f[j] => i = j)
        <=> \A i, j \in DOMAIN s.tabs : s.tabs[i].id = s.tabs[j].id => i = j
  BY <1>1
<1> QED BY <1>3, <1>4, <1>5, <1>6

\* The place of a tab is the one it has at its position.
LEMMA PlaceAt ==
  ASSUME NEW s, \A i, j \in DOMAIN s.tabs : s.tabs[i].id = s.tabs[j].id => i = j,
         NEW i \in DOMAIN s.tabs
  PROVE  TabOf(s, s.tabs[i].id) = s.tabs[i] /\ PlaceOf(s, s.tabs[i].id) = s.tabs[i].place
BY DEF Range, TabOf, PlaceOf

\* The place of an open tab is a place, of the kind its id names.
LEMMA PlaceTyped ==
  ASSUME NEW s, Sound(s), NEW t \in TabIds(s)
  PROVE  /\ PlaceOf(s, t) \in Places /\ PlaceOf(s, t).kind = t[1] /\ t \in AllTabs
         /\ \E i \in DOMAIN s.tabs : s.tabs[i].id = t /\ PlaceOf(s, t) = s.tabs[i].place
<1>1. PICK i \in DOMAIN s.tabs : t = s.tabs[i].id BY IdsOf
<1>2. PlaceOf(s, t) = s.tabs[i].place BY <1>1, PlaceAt DEF Sound, Linked
<1>3. s.tabs[i] \in TabRecords BY TabsStateFields DEF Sound
<1> QED BY <1>1, <1>2, <1>3 DEF Sound, Linked, TabRecords

\* WellFormed is what is meant by positions.
LEMMA SoundIsWellFormed ==
  ASSUME NEW s
  PROVE  WellFormed(s) <=> Sound(s)
<1>1. SUFFICES ASSUME s \in TabsState PROVE WellFormed(s) <=> Linked(s) BY DEF WellFormed, Sound
<1>2. Cardinality(TabIds(s)) = Len(s.tabs)
           <=> \A i, j \in DOMAIN s.tabs : s.tabs[i].id = s.tabs[j].id => i = j
  BY <1>1, DifferentIds
<1>3. (\A t \in Range(s.tabs) : t.id[1] = t.place.kind)
        <=> \A i \in DOMAIN s.tabs : s.tabs[i].id[1] = s.tabs[i].place.kind
  BY DEF Range
<1>4. ASSUME \A i, j \in DOMAIN s.tabs : s.tabs[i].id = s.tabs[j].id => i = j,
             \A i \in DOMAIN s.tabs : s.tabs[i].id[1] = s.tabs[i].place.kind
      PROVE  (\A e \in Range(s.history) : e.tab \in TabIds(s) /\ e.place.kind = PlaceOf(s, e.tab).kind)
               <=> \A k \in DOMAIN s.history :
                     s.history[k].tab \in TabIds(s) /\ s.history[k].place.kind = s.history[k].tab[1]
  <2>1. ASSUME NEW t \in TabIds(s) PROVE PlaceOf(s, t).kind = t[1]
    <3>1. PICK i \in DOMAIN s.tabs : t = s.tabs[i].id BY IdsOf
    <3>2. PlaceOf(s, t) = s.tabs[i].place BY <1>4, <3>1, PlaceAt
    <3> QED BY <1>4, <3>1, <3>2
  <2> QED BY <2>1 DEF Range
<1>5. WellFormed(s) <=>
        /\ Cardinality(TabIds(s)) = Len(s.tabs)
        /\ \A t \in Range(s.tabs) : t.id[1] = t.place.kind
        /\ IF s.tabs = <<>> THEN s.active = NoTab ELSE s.active \in TabIds(s)
        /\ IF s.history = <<>> THEN s.at = 0 ELSE s.at \in DOMAIN s.history
        /\ \A e \in Range(s.history) : e.tab \in TabIds(s) /\ e.place.kind = PlaceOf(s, e.tab).kind
  BY <1>1 DEF WellFormed
<1> QED BY <1>2, <1>3, <1>4, <1>5 DEF Linked

\* What depends on the tabs only.
LEMMA SameTabs ==
  ASSUME NEW s, NEW r, r.tabs = s.tabs
  PROVE  /\ TabIds(r) = TabIds(s)
         /\ \A t : PlaceOf(r, t) = PlaceOf(s, t)
BY DEF TabIds, PlaceOf, TabOf

\* An interaction that is recorded changes the history only, and is in it, at the place it has
\* now (interactionRecorded).
RecordedAs(s, r, id, item) ==
  /\ r.tabs = s.tabs /\ r.active = s.active /\ Sound(r)
  /\ id \in TabIds(s) =>
       /\ r.at \in DOMAIN r.history
       /\ r.history[r.at] = [tab |-> id, place |-> PlaceOf(s, id), item |-> item]

\* The record of a workspace with another history.
LEMMA RecordedSound ==
  ASSUME NEW s, Sound(s), NEW id, NEW item \in Items
  PROVE  RecordedAs(s, Recorded(s, id, item), id, item)
<1> DEFINE entry == [tab |-> id, place |-> PlaceOf(s, id), item |-> item]
<1> DEFINE r == Recorded(s, id, item)
<1>0. s \in TabsState /\ Linked(s) BY DEF Sound
<1>1. CASE id \notin TabIds(s)
  <2>1. r = s BY <1>1 DEF Recorded
  <2> QED BY <1>1, <2>1 DEF RecordedAs
<1>2. CASE id \in TabIds(s) /\ s.at > 0 /\ s.history[s.at] = entry
  BY <1>0, <1>2 DEF Recorded, Linked, RecordedAs
<1>3. CASE id \in TabIds(s) /\ ~(s.at > 0 /\ s.history[s.at] = entry)
  <2> DEFINE h == Append(SubSeq(s.history, 1, s.at), entry)
  <2>1. r = [s EXCEPT !.history = h, !.at = s.at + 1, !.item = item] BY <1>3 DEF Recorded
  <2>2. PlaceOf(s, id) \in Places /\ PlaceOf(s, id).kind = id[1] /\ id \in AllTabs
    BY <1>3, PlaceTyped
  <2>3. entry \in Interactions BY <2>2 DEF Interactions
  <2>4. s.history \in Seq(Interactions) /\ s.at \in Nat /\ s.at <= Len(s.history)
        /\ Len(s.history) \in Nat /\ DOMAIN s.history = 1..Len(s.history)
    BY <1>0, TabsStateFields DEF Linked
  <2>5. SubSeq(s.history, 1, s.at) \in Seq(Interactions) /\ Len(SubSeq(s.history, 1, s.at)) = s.at
        /\ \A i \in 1..s.at : SubSeq(s.history, 1, s.at)[i] = s.history[i]
    BY <2>4, SubSeqProperties
  <2>6. h \in Seq(Interactions) /\ Len(h) = s.at + 1 /\ h[s.at + 1] = entry
        /\ \A i \in 1..s.at : h[i] = s.history[i]
    BY <2>3, <2>4, <2>5
  <2>7. DOMAIN h = 1..(s.at + 1) /\ s.at + 1 \in DOMAIN h /\ h # <<>> BY <2>4, <2>6
  <2> HIDE DEF h
  <2>8. r \in TabsState
    <3>1. Seq(Interactions) = Seq([tab : AllTabs, place : Places, item : Items]) BY DEF Interactions
    <3>2. h \in Seq([tab : AllTabs, place : Places, item : Items]) BY <2>6, <3>1
    <3>3. s.at + 1 \in Nat BY <2>4
    <3> QED BY <1>0, <2>1, <3>2, <3>3 DEF TabsState
  <2>9. r.tabs = s.tabs /\ r.active = s.active /\ r.history = h /\ r.at = s.at + 1
    BY <1>0, <2>1 DEF TabsState
  <2> HIDE DEF r
  <2>10. TabIds(r) = TabIds(s) BY <2>9, SameTabs
  <2>11. ASSUME NEW k \in DOMAIN h
         PROVE  h[k].tab \in TabIds(s) /\ h[k].place.kind = h[k].tab[1]
    BY <1>0, <1>3, <2>2, <2>4, <2>6, <2>7 DEF Linked
  <2>12. Linked(r) BY <1>0, <2>7, <2>9, <2>10, <2>11 DEF Linked
  <2>13. r.at \in DOMAIN r.history /\ r.history[r.at] = entry BY <2>6, <2>7, <2>9
  <2>14. Sound(r) BY <2>8, <2>12 DEF Sound
  <2> QED BY <2>9, <2>13, <2>14 DEF RecordedAs, r
<1> QED BY <1>1, <1>2, <1>3

\* The tabs ids are still there, and look at the places they looked at.
Keeps(s, r, ids) == \A t \in ids : t \in TabIds(r) /\ PlaceOf(r, t) = PlaceOf(s, t)

\* A place stands for an item of the tree.
LEMMA PlacesAreItems == Places \subseteq Items /\ NoPlace \in Items
<1>1. NoPlace \in Items BY DEF NoPlace, Items
<1>4. \A a \in Accounts : Fdql(a) \in Items BY DEF Fdql, Items, TabKinds
<1>5. \A a \in Accounts : Sql(a) \in Items BY DEF Sql, Items, TabKinds
<1>6. \A a \in Accounts, p \in Paths : Query(a, p) \in Items BY DEF Query, Items, TabKinds
<1> QED BY <1>1, <1>4, <1>5, <1>6 DEF Places

\* A workspace with another tab selected, another item or another place in its history.
LEMMA Refocused ==
  ASSUME NEW s, Sound(s), NEW a \in TabIds(s), NEW item \in Items
  PROVE  /\ Sound([s EXCEPT !.active = a, !.item = item])
         /\ Sound([s EXCEPT !.item = item])
         /\ \A i \in DOMAIN s.history : Sound([s EXCEPT !.active = a, !.at = i, !.item = item])
<1>0. s \in TabsState /\ Linked(s) BY DEF Sound
<1>1. a \in AllTabs BY PlaceTyped
<1>2. s.tabs # <<>>
  <2>1. PICK i \in DOMAIN s.tabs : a = s.tabs[i].id BY IdsOf
  <2> QED BY <2>1
<1>3. \A r : r.tabs = s.tabs => TabIds(r) = TabIds(s) BY SameTabs
<1>4. Sound([s EXCEPT !.active = a, !.item = item])
  <2> DEFINE r == [s EXCEPT !.active = a, !.item = item]
  <2>1. r \in TabsState BY <1>0, <1>1 DEF TabsState
  <2>2. r.tabs = s.tabs /\ r.history = s.history /\ r.at = s.at /\ r.active = a BY <1>0 DEF TabsState
  <2> HIDE DEF r
  <2>3. Sound(r) BY <1>0, <1>2, <1>3, <2>1, <2>2 DEF Sound, Linked
  <2> QED BY <2>3 DEF r
<1>5. Sound([s EXCEPT !.item = item])
  <2> DEFINE r == [s EXCEPT !.item = item]
  <2>1. r \in TabsState BY <1>0 DEF TabsState
  <2>2. r.tabs = s.tabs /\ r.history = s.history /\ r.at = s.at /\ r.active = s.active
    BY <1>0 DEF TabsState
  <2> HIDE DEF r
  <2>3. Sound(r) BY <1>0, <1>2, <1>3, <2>1, <2>2 DEF Sound, Linked
  <2> QED BY <2>3 DEF r
<1>6. ASSUME NEW i \in DOMAIN s.history PROVE Sound([s EXCEPT !.active = a, !.at = i, !.item = item])
  <2> DEFINE r == [s EXCEPT !.active = a, !.at = i, !.item = item]
  <2>0. i \in Nat /\ s.history # <<>> BY <1>0, TabsStateFields
  <2>1. r \in TabsState BY <1>0, <1>1, <2>0 DEF TabsState
  <2>2. r.tabs = s.tabs /\ r.history = s.history /\ r.at = i /\ r.active = a BY <1>0 DEF TabsState
  <2> HIDE DEF r
  <2>3. Sound(r) BY <1>0, <1>2, <1>3, <2>0, <2>1, <2>2 DEF Sound, Linked
  <2> QED BY <2>3 DEF r
<1> QED BY <1>4, <1>5, <1>6

\* An interaction that is recorded before something else (snapshotCurrentInteraction).
LEMMA SnapshotSound ==
  ASSUME NEW s, Sound(s)
  PROVE  RecordedAs(s, Snapshot(s), s.active, s.item)
<1>1. s.item \in Items BY TabsStateFields DEF Sound
<1> QED BY <1>1, RecordedSound DEF Snapshot

\* A tab that is selected (tabSelected).
LEMMA SelectedSound ==
  ASSUME NEW s, Sound(s), NEW id
  PROVE  Sound(Selected(s, id)) /\ Selected(s, id).tabs = s.tabs
<1>1. CASE s.active = id \/ id \notin TabIds(s) BY <1>1 DEF Selected
<1>2. CASE ~(s.active = id \/ id \notin TabIds(s))
  <2> DEFINE z == Snapshot(s)
  <2>1. Sound(z) /\ z.tabs = s.tabs BY SnapshotSound DEF RecordedAs
  <2>2. id \in TabIds(z) BY <1>2, <2>1, SameTabs
  <2>3. PlaceOf(s, id) \in Items BY <1>2, PlaceTyped, PlacesAreItems
  <2>4. Selected(s, id) = [z EXCEPT !.active = id, !.item = PlaceOf(s, id)] BY <1>2 DEF Selected
  <2> HIDE DEF z
  <2>5. [z EXCEPT !.active = id, !.item = PlaceOf(s, id)].tabs = z.tabs BY <2>1 DEF Sound, TabsState
  <2>6. Sound([z EXCEPT !.active = id, !.item = PlaceOf(s, id)]) BY <2>1, <2>2, <2>3, Refocused
  <2> QED BY <2>1, <2>4, <2>5, <2>6
<1> QED BY <1>1, <1>2

----------------
\* A sequence with an element inserted, by position, and one without an element.
IsInserted(q, i, x, r) ==
  /\ Len(r) = Len(q) + 1 /\ DOMAIN r = 1..(Len(q) + 1) /\ r[i] = x
  /\ \A j \in 1..Len(q) : r[IF j < i THEN j ELSE j + 1] = q[j]
  /\ \A j \in DOMAIN r : j = i \/ (j < i /\ r[j] = q[j]) \/ (j > i /\ r[j] = q[j - 1])
IsRemoved(q, i, r) ==
  /\ Len(r) = Len(q) - 1 /\ DOMAIN r = 1..(Len(q) - 1)
  /\ \A j \in 1..Len(q) : j # i => r[IF j < i THEN j ELSE j - 1] = q[j]
  /\ \A j \in DOMAIN r : r[j] = q[IF j < i THEN j ELSE j + 1]

\* An element inserted,
LEMMA WithInserted ==
  ASSUME NEW S, NEW q \in Seq(S), NEW x \in S, NEW i \in 1..(Len(q) + 1)
  PROVE  InsertAt(q, i, x) \in Seq(S) /\ IsInserted(q, i, x, InsertAt(q, i, x))
<1> DEFINE a == SubSeq(q, 1, i - 1)
<1> DEFINE b == SubSeq(q, i, Len(q))
<1> DEFINE r == InsertAt(q, i, x)
<1>0. Len(q) \in Nat /\ DOMAIN q = 1..Len(q) /\ i \in Nat OBVIOUS
<1>1. a \in Seq(S) /\ Len(a) = i - 1 /\ \A j \in 1..(i - 1) : a[j] = q[j] BY SubSeqProperties
<1>2. b \in Seq(S) /\ Len(b) = Len(q) - i + 1 /\ \A j \in 1..(Len(q) - i + 1) : b[j] = q[i + j - 1]
  BY <1>0, SubSeqProperties
<1>3. <<x>> \in Seq(S) /\ Len(<<x>>) = 1 /\ <<x>>[1] = x OBVIOUS
<1>4. r = (a \o <<x>>) \o b BY DEF InsertAt
<1> HIDE DEF a, b, r
<1>5. a \o <<x>> \in Seq(S) /\ Len(a \o <<x>>) = i /\ (a \o <<x>>)[i] = x
      /\ \A j \in 1..(i - 1) : (a \o <<x>>)[j] = q[j]
  BY <1>0, <1>1, <1>3, ConcatProperties
<1>6. r \in Seq(S) /\ Len(r) = Len(q) + 1
      /\ \A j \in 1..(Len(q) + 1) : r[j] = IF j <= i THEN (a \o <<x>>)[j] ELSE b[j - i]
  BY <1>0, <1>2, <1>4, <1>5, ConcatProperties
<1>7. DOMAIN r = 1..(Len(q) + 1) BY <1>6
<1>8. r[i] = x BY <1>0, <1>5, <1>6
<1>9. ASSUME NEW j \in 1..(Len(q) + 1), j < i PROVE r[j] = q[j] BY <1>0, <1>5, <1>6, <1>9
<1>10. ASSUME NEW j \in 1..(Len(q) + 1), j > i PROVE r[j] = q[j - 1]
  <2>1. j - i \in 1..(Len(q) - i + 1) /\ i + (j - i) - 1 = j - 1 BY <1>0, <1>10
  <2>2. r[j] = b[j - i] BY <1>0, <1>6, <1>10
  <2> QED BY <1>2, <2>1, <2>2
<1>11. ASSUME NEW j \in 1..Len(q) PROVE r[IF j < i THEN j ELSE j + 1] = q[j] BY <1>0, <1>9, <1>10
<1>12. IsInserted(q, i, x, r) BY <1>0, <1>6, <1>7, <1>8, <1>9, <1>10, <1>11 DEF IsInserted
<1> QED BY <1>6, <1>12 DEF r

\* and one removed.
LEMMA WithRemoved ==
  ASSUME NEW S, NEW q \in Seq(S), NEW i \in 1..Len(q)
  PROVE  RemoveAt(q, i) \in Seq(S) /\ IsRemoved(q, i, RemoveAt(q, i))
<1> DEFINE a == SubSeq(q, 1, i - 1)
<1> DEFINE b == SubSeq(q, i + 1, Len(q))
<1> DEFINE r == RemoveAt(q, i)
<1>0. Len(q) \in Nat /\ DOMAIN q = 1..Len(q) /\ i \in Nat /\ i >= 1 /\ i <= Len(q) OBVIOUS
<1>1. a \in Seq(S) /\ Len(a) = i - 1 /\ \A j \in 1..(i - 1) : a[j] = q[j] BY SubSeqProperties
<1>2. b \in Seq(S) /\ Len(b) = Len(q) - i /\ \A j \in 1..(Len(q) - i) : b[j] = q[i + j]
  <2>1. \A j \in (i + 1)..Len(q) : q[j] \in S OBVIOUS
  <2>2. i + 1 \in Int /\ Len(q) \in Int OBVIOUS
  <2>3. b \in Seq(S) /\ Len(b) = (IF i + 1 <= Len(q) THEN Len(q) - (i + 1) + 1 ELSE 0)
        /\ \A j \in 1..(Len(q) - (i + 1) + 1) : b[j] = q[(i + 1) + j - 1]
    BY <2>1, <2>2, SubSeqProperties
  <2> HIDE DEF b
  <2>4. Len(b) = Len(q) - i
    <3>1. CASE i + 1 <= Len(q) BY <1>0, <2>3, <3>1
    <3>2. CASE ~(i + 1 <= Len(q))
      <4>1. Len(b) = 0 BY <2>3, <3>2
      <4>0. \A l \in Nat : \A j \in 1..l : ~(j + 1 <= l) => l - j = 0 OBVIOUS
      <4>2. Len(q) - i = 0 BY <1>0, <3>2, <4>0
      <4> QED BY <4>1, <4>2
    <3> QED BY <3>1, <3>2
  <2>5. \A j \in 1..(Len(q) - i) : j \in 1..(Len(q) - (i + 1) + 1) /\ (i + 1) + j - 1 = i + j BY <1>0
  <2> QED BY <2>3, <2>4, <2>5
<1>4. r = a \o b BY DEF RemoveAt
<1> HIDE DEF a, b, r
<1>6. r \in Seq(S) /\ Len(r) = Len(q) - 1
      /\ \A j \in 1..(Len(q) - 1) : r[j] = IF j <= i - 1 THEN a[j] ELSE b[j - (i - 1)]
  <2>1. (i - 1) + (Len(q) - i) = Len(q) - 1 BY <1>0
  <2>2. r \in Seq(S) /\ Len(r) = Len(a) + Len(b)
        /\ \A j \in 1..(Len(a) + Len(b)) : r[j] = IF j <= Len(a) THEN a[j] ELSE b[j - Len(a)]
    BY <1>1, <1>2, <1>4, ConcatProperties
  <2> QED BY <1>1, <1>2, <2>1, <2>2
<1>7. DOMAIN r = 1..(Len(q) - 1) BY <1>6
<1>8. ASSUME NEW j \in 1..(Len(q) - 1) PROVE r[j] = q[IF j < i THEN j ELSE j + 1]
  <2>1. CASE j < i BY <1>0, <1>1, <1>6, <2>1
  <2>2. CASE ~(j < i)
    <3>1. j - (i - 1) \in 1..(Len(q) - i) /\ i + (j - (i - 1)) = j + 1 BY <1>0, <2>2
    <3>2. r[j] = b[j - (i - 1)] BY <1>0, <1>6, <2>2
    <3> QED BY <1>2, <2>2, <3>1, <3>2
  <2> QED BY <2>1, <2>2
<1>9. ASSUME NEW j \in 1..Len(q), j # i PROVE r[IF j < i THEN j ELSE j - 1] = q[j]
  <2>1. CASE j < i
    <3>1. j \in 1..(Len(q) - 1) BY <1>0, <2>1
    <3> QED BY <1>8, <2>1, <3>1
  <2>2. CASE ~(j < i) BY <1>0, <1>8, <1>9, <2>2
  <2> QED BY <2>1, <2>2
<1>10. IsRemoved(q, i, r) BY <1>6, <1>7, <1>8, <1>9 DEF IsRemoved
<1> QED BY <1>6, <1>10 DEF r

----------------
\* A tab inserted among the others leaves them where they look at (tabOpened, tabDuplicated).
LEMMA InsertedSound ==
  ASSUME NEW s, Sound(s), NEW i \in 1..(Len(s.tabs) + 1), NEW tab \in TabRecords,
         tab.id \notin TabIds(s), tab.id[1] = tab.place.kind
  PROVE  Sound(Inserted(s, i, tab)) /\ Keeps(s, Inserted(s, i, tab), TabIds(s))
<1> DEFINE z == Snapshot(s)
<1> DEFINE tabs == InsertAt(s.tabs, i, tab)
<1> DEFINE r == [z EXCEPT !.active = tab.id, !.item = tab.place, !.tabs = tabs]
<1>0. Sound(z) /\ z.tabs = s.tabs /\ z \in TabsState /\ Linked(z) /\ s \in TabsState /\ Linked(s)
  BY SnapshotSound DEF RecordedAs, Sound
<1>1. Inserted(s, i, tab) = r BY <1>0 DEF Inserted
<1>2. s.tabs \in Seq(TabRecords) /\ DOMAIN s.tabs = 1..Len(s.tabs) /\ Len(s.tabs) \in Nat
  BY <1>0, TabsStateFields
<1>3. /\ tabs \in Seq(TabRecords) /\ DOMAIN tabs = 1..(Len(s.tabs) + 1) /\ tabs[i] = tab
      /\ \A j \in 1..Len(s.tabs) : tabs[IF j < i THEN j ELSE j + 1] = s.tabs[j]
      /\ \A j \in DOMAIN tabs :
           j = i \/ (j < i /\ tabs[j] = s.tabs[j]) \/ (j > i /\ tabs[j] = s.tabs[j - 1])
  <2>1. tabs \in Seq(TabRecords) /\ IsInserted(s.tabs, i, tab, tabs) BY <1>2, WithInserted
  <2> HIDE DEF tabs
  <2> QED BY <2>1 DEF IsInserted
<1> HIDE DEF z, tabs
<1>4. tab.id \in AllTabs /\ tab.place \in Places /\ tab.place \in Items
  BY PlacesAreItems DEF TabRecords
<1>5. r \in TabsState /\ r.tabs = tabs /\ r.active = tab.id /\ r.history = z.history /\ r.at = z.at
  BY <1>0, <1>3, <1>4 DEF TabRecords, TabsState
<1> HIDE DEF r
<1>6. \A j \in DOMAIN tabs : j # i => \E k \in DOMAIN s.tabs : tabs[j] = s.tabs[k] /\ k = IF j < i THEN j ELSE j - 1
  BY <1>2, <1>3
<1>7. \A t \in TabIds(s) : \E j \in DOMAIN tabs : j # i /\ tabs[j].id = t
  <2>1. ASSUME NEW t \in TabIds(s) PROVE \E j \in DOMAIN tabs : j # i /\ tabs[j].id = t
    <3>1. PICK k \in DOMAIN s.tabs : t = s.tabs[k].id BY IdsOf
    <3>2. (IF k < i THEN k ELSE k + 1) \in DOMAIN tabs /\ (IF k < i THEN k ELSE k + 1) # i
      BY <1>2, <1>3, <3>1
    <3> QED BY <1>2, <1>3, <3>1, <3>2
  <2> QED BY <2>1
<1>8. \A j, k \in DOMAIN tabs : tabs[j].id = tabs[k].id => j = k
  <2>1. \A j \in DOMAIN tabs : j # i => tabs[j].id \in TabIds(s) BY <1>6, IdsOf
  <2>2. ASSUME NEW j \in DOMAIN tabs, NEW k \in DOMAIN tabs, j # i, k # i, tabs[j].id = tabs[k].id
        PROVE  j = k
    <3>1. PICK a \in DOMAIN s.tabs : tabs[j] = s.tabs[a] /\ a = IF j < i THEN j ELSE j - 1
      BY <1>6, <2>2
    <3>2. PICK b \in DOMAIN s.tabs : tabs[k] = s.tabs[b] /\ b = IF k < i THEN k ELSE k - 1
      BY <1>6, <2>2
    <3>3. a = b BY <1>0, <2>2, <3>1, <3>2 DEF Linked
    <3> QED BY <1>3, <2>2, <3>1, <3>2, <3>3
  <2> QED BY <1>3, <2>1, <2>2
<1>9. tab.id \in TabIds(r) BY <1>2, <1>3, <1>5, IdsOf
<1>10. ASSUME NEW t \in TabIds(s) PROVE t \in TabIds(r) /\ PlaceOf(r, t) = PlaceOf(s, t)
  <2>1. PICK j \in DOMAIN tabs : j # i /\ tabs[j].id = t BY <1>7
  <2>2. t \in TabIds(r) /\ PlaceOf(r, t) = tabs[j].place BY <1>5, <1>8, <2>1, IdsOf, PlaceAt
  <2>3. PICK k \in DOMAIN s.tabs : tabs[j] = s.tabs[k] BY <1>6, <2>1
  <2>4. PlaceOf(s, t) = s.tabs[k].place BY <1>0, <2>1, <2>3, PlaceAt DEF Linked
  <2> QED BY <2>2, <2>3, <2>4
<1>11. Linked(r)
  <2>1. \A j \in DOMAIN tabs : tabs[j].id[1] = tabs[j].place.kind BY <1>0, <1>3, <1>6 DEF Linked
  <2>2. tabs # <<>> BY <1>2, <1>3
  <2>3. \A k \in DOMAIN z.history :
          z.history[k].tab \in TabIds(r) /\ z.history[k].place.kind = z.history[k].tab[1]
    BY <1>0, <1>10, SameTabs DEF Linked
  <2> QED BY <1>0, <1>5, <1>8, <1>9, <2>1, <2>2, <2>3 DEF Linked
<1> QED BY <1>1, <1>5, <1>10, <1>11 DEF Sound, Keeps

\* A tab opened at the end of the strip, and a copy of one behind it.
LEMMA OpenedSound ==
  ASSUME NEW s, Sound(s), NEW id \in AllTabs, id \notin TabIds(s)
  PROVE  /\ \A place \in Places : place.kind = id[1] =>
              Sound(Opened(s, place, id)) /\ Keeps(s, Opened(s, place, id), TabIds(s))
         /\ \A t \in TabIds(s) : PlaceOf(s, t).kind = id[1] =>
              Sound(Duplicated(s, t, id)) /\ Keeps(s, Duplicated(s, t, id), TabIds(s))
<1>1. Len(s.tabs) \in Nat /\ DOMAIN s.tabs = 1..Len(s.tabs) BY TabsStateFields DEF Sound
<1>2. ASSUME NEW place \in Places, place.kind = id[1]
      PROVE  Sound(Opened(s, place, id)) /\ Keeps(s, Opened(s, place, id), TabIds(s))
  <2> DEFINE tab == [id |-> id, place |-> place]
  <2>1. tab \in TabRecords /\ tab.id = id /\ tab.place = place BY DEF TabRecords
  <2> HIDE DEF tab
  <2>2. Len(s.tabs) + 1 \in 1..(Len(s.tabs) + 1) BY <1>1
  <2>3. Sound(Inserted(s, Len(s.tabs) + 1, tab)) /\ Keeps(s, Inserted(s, Len(s.tabs) + 1, tab), TabIds(s))
    BY <1>2, <2>1, <2>2, InsertedSound
  <2> QED BY <2>3 DEF Opened, tab
<1>3. ASSUME NEW t \in TabIds(s), PlaceOf(s, t).kind = id[1]
      PROVE  Sound(Duplicated(s, t, id)) /\ Keeps(s, Duplicated(s, t, id), TabIds(s))
  <2> DEFINE tab == [id |-> id, place |-> PlaceOf(s, t)]
  <2> DEFINE n == CHOOSE i \in DOMAIN s.tabs : s.tabs[i].id = t
  <2>0. PlaceOf(s, t) \in Places BY PlaceTyped
  <2>1. tab \in TabRecords /\ tab.id = id /\ tab.place = PlaceOf(s, t) BY <2>0 DEF TabRecords
  <2>2. \E i \in DOMAIN s.tabs : s.tabs[i].id = t BY IdsOf
  <2>3. n \in DOMAIN s.tabs BY <2>2
  <2>a. Duplicated(s, t, id) = Inserted(s, 1 + n, tab) BY DEF Duplicated
  <2> HIDE DEF tab, n
  <2>4. 1 + n \in 1..(Len(s.tabs) + 1) BY <1>1, <2>3
  <2>5. Sound(Inserted(s, 1 + n, tab)) /\ Keeps(s, Inserted(s, 1 + n, tab), TabIds(s))
    BY <1>3, <2>1, <2>4, InsertedSound
  <2> QED BY <2>a, <2>5
<1> QED BY <1>2, <1>3

\* An id that is not used: there are fewer tabs than numbers that are tried (uniqueTabId).
LEMMA UniqueIsNew ==
  ASSUME NEW s, Sound(s), NEW kind \in TabKinds, NEW count \in Nat
  PROVE  LET id == UniqueTabId(s, kind, count)
         IN id \in AllTabs /\ id \notin TabIds(s) /\ id[1] = kind
<1> DEFINE n == Len(s.tabs)
<1> DEFINE Free == {k \in 1..(n + 1) : <<kind, count, k>> \notin TabIds(s)}
<1>0. s \in TabsState /\ Linked(s) BY DEF Sound
<1>1. n \in Nat /\ Cardinality(TabIds(s)) = n BY <1>0, TabsStateFields, DifferentIds DEF Linked
<1>2. IsFiniteSet(TabIds(s))
  <2> DEFINE f == [i \in DOMAIN s.tabs |-> s.tabs[i].id]
  <2>1. f \in Surjection(DOMAIN s.tabs, TabIds(s)) BY IdsOf DEF Surjection
  <2>2. DOMAIN s.tabs = 1..Len(s.tabs) /\ Len(s.tabs) \in Nat BY <1>0, TabsStateFields
  <2>3. IsFiniteSet(DOMAIN s.tabs) BY <2>2, FS_Interval
  <2> QED BY <2>1, <2>3, FS_Surjection
<1>a. n + 1 \in Nat /\ n < n + 1 BY <1>1
<1>3. Free # {}
  <2> SUFFICES ASSUME Free = {} PROVE FALSE OBVIOUS
  <2> DEFINE S == 1..(n + 1)
  <2> DEFINE f == [k \in S |-> <<kind, count, k>>]
  <2>1. f \in [S -> TabIds(s)] OBVIOUS
  <2>2. IsFiniteSet(S) /\ Cardinality(S) = n + 1
    <3> HIDE DEF n
    <3> QED BY <1>a, FS_Interval
  <2>3. Cardinality(TabIds(s)) < Cardinality(S) BY <1>1, <1>a, <2>2
  <2>4. \A x, y \in S : f[x] = f[y] => x = y OBVIOUS
  <2> HIDE DEF S, f
  <2>5. \E x, y \in S : x # y /\ f[x] = f[y] BY <1>2, <2>1, <2>2, <2>3, FS_PigeonHole
  <2> QED BY <2>4, <2>5
<1>4. Min(Free) \in Free
  <2>1. Free \in SUBSET Nat OBVIOUS
  <2> HIDE DEF Free
  <2>2. \E k \in Free : \A m \in Free : k <= m BY <1>3, <2>1, LeastOf
  <2> QED BY <2>2 DEF Min
<1>5. UniqueTabId(s, kind, count) = <<kind, count, Min(Free)>> BY DEF UniqueTabId
<1>6. Min(Free) \in Nat /\ <<kind, count, Min(Free)>> \notin TabIds(s) BY <1>4
<1> HIDE DEF Free
<1> QED BY <1>5, <1>6 DEF AllTabs

----------------
\* A place of another account or path is a place.
LEMMA PlaceMoved ==
  ASSUME NEW place \in Places
  PROVE  /\ place.account \in Accounts /\ place.kind \in TabKinds
         /\ \A a \in Accounts : LET p == [place EXCEPT !.account = a]
                                IN p \in Places /\ p.kind = place.kind /\ p.account = a
         /\ place.kind = "firestore-query" =>
              \A x \in Paths : LET p == [place EXCEPT !.path = x]
                               IN p \in Places /\ p.kind = place.kind /\ p.account = place.account
<1>1. CASE \E b \in Accounts : place = Fdql(b)
  <2>1. PICK b \in Accounts : place = Fdql(b) BY <1>1
  <2>2. \A a \in Accounts : [place EXCEPT !.account = a] = Fdql(a) BY <2>1 DEF Fdql
  <2> QED BY <2>1, <2>2 DEF Fdql, TabKinds, Places
<1>2. CASE \E b \in Accounts : place = Sql(b)
  <2>1. PICK b \in Accounts : place = Sql(b) BY <1>2
  <2>2. \A a \in Accounts : [place EXCEPT !.account = a] = Sql(a) BY <2>1 DEF Sql
  <2> QED BY <2>1, <2>2 DEF Sql, TabKinds, Places
<1>3. CASE \E b \in Accounts, q \in Paths : place = Query(b, q)
  <2>1. PICK b \in Accounts, q \in Paths : place = Query(b, q) BY <1>3
  <2>2. \A a \in Accounts : [place EXCEPT !.account = a] = Query(a, q) BY <2>1 DEF Query
  <2>3. \A x \in Paths : [place EXCEPT !.path = x] = Query(b, x) BY <2>1 DEF Query
  <2>4. \A a \in Accounts, x \in Paths :
          Query(a, x) \in Places /\ Query(a, x).kind = "firestore-query" /\ Query(a, x).account = a
    BY DEF Query, Places
  <2>5. "firestore-query" \in TabKinds BY DEF TabKinds
  <2> QED BY <2>1, <2>2, <2>3, <2>4, <2>5
<1> QED BY <1>1, <1>2, <1>3 DEF Places

\* A tab that looks at another place of its kind; the others look where they did.
PlaceSet(s, r, id, place) ==
  /\ Sound(r) /\ TabIds(r) = TabIds(s) /\ PlaceOf(r, id) = place
  /\ \A t \in TabIds(s) \ {id} : PlaceOf(r, t) = PlaceOf(s, t)
  /\ r.active = s.active /\ r.item = s.item /\ r.history = s.history /\ r.at = s.at

\* The tabs with one of them replaced.
LEMMA PlacedSound ==
  ASSUME NEW s, Sound(s), NEW id \in TabIds(s), NEW place \in Places, place.kind = id[1]
  PROVE  PlaceSet(s, PlacedAt(s, id, place), id, place)
<1> DEFINE tabs == [i \in DOMAIN s.tabs |->
                      IF s.tabs[i].id = id THEN [s.tabs[i] EXCEPT !.place = place] ELSE s.tabs[i]]
<1> DEFINE r == [s EXCEPT !.tabs = tabs]
<1>0. s \in TabsState /\ Linked(s) BY DEF Sound
<1>1. PlacedAt(s, id, place) = r BY DEF PlacedAt
<1>2. /\ s.tabs \in Seq(TabRecords) /\ DOMAIN s.tabs = 1..Len(s.tabs) /\ Len(s.tabs) \in Nat
      /\ \A i \in DOMAIN s.tabs : s.tabs[i] \in TabRecords
  BY <1>0, TabsStateFields
<1>3. ASSUME NEW i \in DOMAIN s.tabs
      PROVE  /\ tabs[i] \in TabRecords /\ tabs[i].id = s.tabs[i].id
             /\ tabs[i].place = IF s.tabs[i].id = id THEN place ELSE s.tabs[i].place
  <2>1. s.tabs[i] \in TabRecords BY <1>2
  <2> QED BY <2>1 DEF TabRecords
<1>4. DOMAIN tabs = DOMAIN s.tabs OBVIOUS
<1>a. tabs \in [1..Len(s.tabs) -> TabRecords] BY <1>2, <1>3
<1> HIDE DEF tabs
<1>5. tabs \in Seq(TabRecords) BY <1>2, <1>a
<1>6. r \in TabsState /\ r.tabs = tabs /\ r.active = s.active /\ r.item = s.item
      /\ r.history = s.history /\ r.at = s.at
  BY <1>0, <1>5 DEF TabRecords, TabsState
<1> HIDE DEF r
<1>7. TabIds(r) = TabIds(s)
  <2>1. TabIds(r) = {tabs[i].id : i \in DOMAIN tabs} BY <1>6, IdsOf
  <2>2. TabIds(s) = {s.tabs[i].id : i \in DOMAIN s.tabs} BY IdsOf
  <2>3. {tabs[i].id : i \in DOMAIN tabs} = {s.tabs[i].id : i \in DOMAIN s.tabs} BY <1>3, <1>4
  <2> QED BY <2>1, <2>2, <2>3
<1>8. \A i, j \in DOMAIN r.tabs : r.tabs[i].id = r.tabs[j].id => i = j
  BY <1>0, <1>3, <1>4, <1>6 DEF Linked
<1>9. ASSUME NEW t \in TabIds(s) PROVE PlaceOf(r, t) = IF t = id THEN place ELSE PlaceOf(s, t)
  <2>1. PICK i \in DOMAIN s.tabs : t = s.tabs[i].id BY IdsOf
  <2>2. PlaceOf(s, t) = s.tabs[i].place BY <1>0, <2>1, PlaceAt DEF Linked
  <2>3. i \in DOMAIN r.tabs /\ r.tabs[i].id = t BY <1>3, <1>4, <1>6, <2>1
  <2>4. PlaceOf(r, t) = r.tabs[i].place BY <1>8, <2>3, PlaceAt
  <2> QED BY <1>3, <1>6, <2>1, <2>2, <2>4
<1>10. Linked(r)
  <2>1. \A i \in DOMAIN r.tabs : r.tabs[i].id[1] = r.tabs[i].place.kind
    BY <1>0, <1>3, <1>4, <1>6 DEF Linked
  <2>2. r.tabs = <<>> <=> s.tabs = <<>> BY <1>2, <1>4, <1>5, <1>6
  <2> QED BY <1>0, <1>6, <1>7, <1>8, <2>1, <2>2 DEF Linked
<1> QED BY <1>1, <1>6, <1>7, <1>9, <1>10 DEF PlaceSet, Sound

\* The active tab with another account (tabConnectionUpdated),
LEMMA ConnectionSound ==
  ASSUME NEW s, Sound(s), s.active \in TabIds(s), NEW account \in Accounts
  PROVE  LET r == ConnectionUpdated(s, account)
         IN /\ Sound(r) /\ r.active = s.active /\ Keeps(s, r, TabIds(s) \ {s.active})
            /\ s.active \in TabIds(r)
<1> DEFINE z == Snapshot(s)
<1> DEFINE place == [PlaceOf(s, s.active) EXCEPT !.account = account]
<1> DEFINE p == PlacedAt(z, s.active, place)
<1>1. Sound(z) /\ z.tabs = s.tabs /\ z.active = s.active BY SnapshotSound DEF RecordedAs
<1>2. TabIds(z) = TabIds(s) /\ \A t : PlaceOf(z, t) = PlaceOf(s, t) BY <1>1, SameTabs
<1>3. PlaceOf(s, s.active) \in Places /\ PlaceOf(s, s.active).kind = s.active[1] BY PlaceTyped
<1>4. place \in Places /\ place.kind = s.active[1] BY <1>3, PlaceMoved
<1>5. ConnectionUpdated(s, account) = [p EXCEPT !.item = place] BY DEF ConnectionUpdated
<1> HIDE DEF z, place
<1>6. PlaceSet(z, p, s.active, place) BY <1>1, <1>2, <1>4, PlacedSound
<1> HIDE DEF p
<1>7. Sound([p EXCEPT !.item = place]) BY <1>2, <1>4, <1>6, PlacesAreItems, Refocused DEF PlaceSet
<1>8. [p EXCEPT !.item = place].tabs = p.tabs /\ [p EXCEPT !.item = place].active = p.active
  BY <1>6 DEF PlaceSet, Sound, TabsState
<1>9. Keeps(s, [p EXCEPT !.item = place], TabIds(s) \ {s.active})
      /\ s.active \in TabIds([p EXCEPT !.item = place])
  <2> DEFINE q == [p EXCEPT !.item = place]
  <2>1. TabIds(q) = TabIds(p) /\ \A t : PlaceOf(q, t) = PlaceOf(p, t) BY <1>8, SameTabs
  <2> HIDE DEF q
  <2>2. TabIds(q) = TabIds(s) /\ \A t \in TabIds(s) \ {s.active} : PlaceOf(q, t) = PlaceOf(s, t)
    BY <1>2, <1>6, <2>1 DEF PlaceSet
  <2>3. Keeps(s, q, TabIds(s) \ {s.active}) /\ s.active \in TabIds(q) BY <2>2 DEF Keeps
  <2> QED BY <2>3 DEF q
<1> QED BY <1>1, <1>5, <1>6, <1>7, <1>8, <1>9 DEF PlaceSet

\* or, if it is a query tab, with another path (firestoreTabDraftEdited).
LEMMA DraftSound ==
  ASSUME NEW s, Sound(s), s.active \in TabIds(s), PlaceOf(s, s.active).kind = "firestore-query",
         NEW path \in Paths
  PROVE  LET r == DraftEdited(s, path)
         IN /\ Sound(r) /\ r.active = s.active /\ Keeps(s, r, TabIds(s) \ {s.active})
            /\ s.active \in TabIds(r)
            /\ PlaceOf(r, s.active).account = PlaceOf(s, s.active).account
<1> DEFINE place == [PlaceOf(s, s.active) EXCEPT !.path = path]
<1> DEFINE p == PlacedAt(s, s.active, place)
<1>3. PlaceOf(s, s.active) \in Places /\ PlaceOf(s, s.active).kind = s.active[1] BY PlaceTyped
<1>4. place \in Places /\ place.kind = s.active[1] /\ place.account = PlaceOf(s, s.active).account
  BY <1>3, PlaceMoved
<1>5. DraftEdited(s, path) = [p EXCEPT !.item = place] BY DEF DraftEdited
<1> HIDE DEF place
<1>6. PlaceSet(s, p, s.active, place) BY <1>4, PlacedSound
<1> HIDE DEF p
<1>7. Sound([p EXCEPT !.item = place]) BY <1>4, <1>6, PlacesAreItems, Refocused DEF PlaceSet
<1>8. [p EXCEPT !.item = place].tabs = p.tabs /\ [p EXCEPT !.item = place].active = p.active
  BY <1>6 DEF PlaceSet, Sound, TabsState
<1>9. Keeps(s, [p EXCEPT !.item = place], TabIds(s) \ {s.active})
      /\ s.active \in TabIds([p EXCEPT !.item = place])
      /\ PlaceOf([p EXCEPT !.item = place], s.active) = place
  <2> DEFINE q == [p EXCEPT !.item = place]
  <2>1. TabIds(q) = TabIds(p) /\ \A t : PlaceOf(q, t) = PlaceOf(p, t) BY <1>8, SameTabs
  <2> HIDE DEF q
  <2>2. TabIds(q) = TabIds(s) /\ (\A t \in TabIds(s) \ {s.active} : PlaceOf(q, t) = PlaceOf(s, t))
        /\ PlaceOf(q, s.active) = place
    BY <1>6, <2>1 DEF PlaceSet
  <2>3. Keeps(s, q, TabIds(s) \ {s.active}) /\ s.active \in TabIds(q) BY <2>2 DEF Keeps
  <2> QED BY <2>2, <2>3 DEF q
<1> QED BY <1>4, <1>5, <1>6, <1>7, <1>8, <1>9 DEF PlaceSet

----------------
\* A workspace whose history may tell of tabs that are no longer there.
Almost(s) ==
  /\ s \in TabsState
  /\ \A i, j \in DOMAIN s.tabs : s.tabs[i].id = s.tabs[j].id => i = j
  /\ \A i \in DOMAIN s.tabs : s.tabs[i].id[1] = s.tabs[i].place.kind
  /\ IF s.tabs = <<>> THEN s.active = NoTab ELSE s.active \in TabIds(s)
  /\ \A k \in DOMAIN s.history : s.history[k].place.kind = s.history[k].tab[1]

\* The lesser of two numbers, and the greater.
LEMMA MinMaxOfTwo ==
  ASSUME NEW a \in Nat, NEW b \in Nat
  PROVE  /\ Min({a, b}) = IF a <= b THEN a ELSE b
         /\ Max({a, b}) = IF a >= b THEN a ELSE b
BY DEF Min, Max

\* The history of a workspace with the entries that are kept, where at is where it was, or the
\* entry before (sanitizeInteractionHistory).
SanitizedAs(s, r, accounts) ==
  /\ r.tabs = s.tabs /\ r.active = s.active /\ r.item = s.item
  /\ r.history = KeptHistory(s, accounts) /\ r.at \in Nat
  /\ Count(s, accounts, s.at) \in 1..Len(r.history) => r.at = Count(s, accounts, s.at)

\* It is sound then.
LEMMA SanitizedSound ==
  ASSUME NEW s, Almost(s), NEW accounts
  PROVE  Sound(Sanitized(s, accounts)) /\ SanitizedAs(s, Sanitized(s, accounts), accounts)
<1> DEFINE h == KeptHistory(s, accounts)
<1> DEFINE c == Count(s, accounts, s.at)
<1> DEFINE at == Min({Len(h), Max({1, c})})
<1> DEFINE r == [s EXCEPT !.history = h, !.at = at]
<1>0. s \in TabsState /\ s.history \in Seq(Interactions) /\ s.at \in Nat
  BY TabsStateFields DEF Almost
<1>1. Sanitized(s, accounts) = r BY DEF Sanitized, KeptHistory, Count, KeptUpTo, KeptIn
<1> DEFINE KE == {e \in Interactions : KeptIn(s, accounts, e)}
<1>2. h \in Seq(KE) BY <1>0, HistoryKept DEF HistoryIsKept
<1>3. c \in Nat BY <1>0, CountOne
<1> HIDE DEF h, c
<1>4. Len(h) \in Nat /\ DOMAIN h = 1..Len(h) /\ \A k \in DOMAIN h : h[k] \in Interactions /\ KeptIn(s, accounts, h[k])
  BY <1>2
<1>5. at \in Nat /\ at <= Len(h) /\ (Len(h) >= 1 => at >= 1) /\ (c \in 1..Len(h) => at = c)
  <2>1. Max({1, c}) = IF 1 >= c THEN 1 ELSE c BY <1>3, MinMaxOfTwo
  <2>2. Max({1, c}) \in Nat /\ Max({1, c}) >= 1 /\ (c >= 1 => Max({1, c}) = c) BY <1>3, <2>1
  <2>3. at = IF Len(h) <= Max({1, c}) THEN Len(h) ELSE Max({1, c}) BY <1>4, <2>2, MinMaxOfTwo
  <2>4. \A l, m \in Nat : m >= 1 =>
          LET a == IF l <= m THEN l ELSE m
          IN a \in Nat /\ a <= l /\ (l >= 1 => a >= 1) /\ (m \in 1..l => a = m)
    OBVIOUS
  <2>5. Len(h) \in Nat /\ Max({1, c}) \in Nat BY <1>4, <2>2
  <2> HIDE DEF at
  <2>6. at \in Nat /\ at <= Len(h) /\ (Len(h) >= 1 => at >= 1) /\ (Max({1, c}) \in 1..Len(h) => at = Max({1, c}))
    BY <2>2, <2>3, <2>4, <2>5
  <2>7. c \in 1..Len(h) => Max({1, c}) = c BY <1>3, <2>2, <2>5
  <2> QED BY <2>6, <2>7
<1> HIDE DEF at
<1>6. r \in TabsState /\ r.tabs = s.tabs /\ r.active = s.active /\ r.item = s.item
      /\ r.history = h /\ r.at = at
  <2>1. h \in Seq([tab : AllTabs, place : Places, item : Items])
    <3>1. h \in Seq(Interactions) BY <1>2
    <3> QED BY <3>1 DEF Interactions
  <2> QED BY <1>0, <1>5, <2>1 DEF TabsState
<1> HIDE DEF r
<1>7. TabIds(r) = TabIds(s) BY <1>6, SameTabs
<1>8. ASSUME NEW k \in DOMAIN h
      PROVE  h[k].tab \in TabIds(s) /\ h[k].place.kind = h[k].tab[1]
  <2>1. h[k].tab \in TabIds(s) BY <1>4 DEF KeptIn
  <2>2. \E j \in DOMAIN s.history : h[k] = s.history[j]
    <3> DEFINE E == {s.history[j] : j \in DOMAIN s.history}
    <3>1. s.history \in Seq(E) BY <1>0
    <3> HIDE DEF E
    <3>2. HistoryIsKept(s, accounts, E) BY <3>1, HistoryKept
    <3>3. h \in Seq({e \in E : KeptIn(s, accounts, e)}) BY <3>2 DEF HistoryIsKept, h
    <3>4. h[k] \in E BY <3>3
    <3> QED BY <3>4 DEF E
  <2> QED BY <2>1, <2>2 DEF Almost
<1>9. Linked(r) BY <1>2, <1>4, <1>5, <1>6, <1>7, <1>8 DEF Linked, Almost
<1> QED BY <1>1, <1>5, <1>6, <1>9 DEF Sound, SanitizedAs, h, c

\* A sound workspace is almost sound.
LEMMA SoundAlmost ==
  ASSUME NEW s, Sound(s)
  PROVE  Almost(s)
BY DEF Sound, Linked, Almost

\* A sound workspace may have any item selected.
LEMMA ItemSound ==
  ASSUME NEW s, Sound(s), NEW item \in Items
  PROVE  LET r == [s EXCEPT !.item = item]
         IN Sound(r) /\ r.tabs = s.tabs /\ r.active = s.active
<1> DEFINE r == [s EXCEPT !.item = item]
<1>0. s \in TabsState /\ Linked(s) BY DEF Sound
<1>1. r \in TabsState /\ r.tabs = s.tabs /\ r.history = s.history /\ r.at = s.at /\ r.active = s.active
  BY <1>0 DEF TabsState
<1> HIDE DEF r
<1>2. TabIds(r) = TabIds(s) BY <1>1, SameTabs
<1>3. Sound(r) BY <1>0, <1>1, <1>2 DEF Sound, Linked
<1> QED BY <1>1, <1>3 DEF r

----------------
\* The strip without a tab, whose neighbour is active if it was (tabClosed).
LEMMA WithoutTabAlmost ==
  ASSUME NEW s, Sound(s), NEW id \in TabIds(s)
  PROVE  /\ Almost(WithoutTab(s, id)) /\ Keeps(s, WithoutTab(s, id), TabIds(s) \ {id})
         /\ s.active # id => WithoutTab(s, id).active = s.active
<1> DEFINE i == CHOOSE n \in DOMAIN s.tabs : s.tabs[n].id = id
<1> DEFINE tabs == RemoveAt(s.tabs, i)
<1> DEFINE active == IF s.active # id THEN s.active
                     ELSE IF tabs = <<>> THEN NoTab ELSE tabs[Max({1, i - 1})].id
<1> DEFINE r == [s EXCEPT !.tabs = tabs, !.active = active]
<1>0. s \in TabsState /\ Linked(s) BY DEF Sound
<1>1. WithoutTab(s, id) = r BY DEF WithoutTab
<1>2. s.tabs \in Seq(TabRecords) /\ DOMAIN s.tabs = 1..Len(s.tabs) /\ Len(s.tabs) \in Nat
  BY <1>0, TabsStateFields
<1>3. \E n \in DOMAIN s.tabs : s.tabs[n].id = id BY IdsOf
<1>4. i \in DOMAIN s.tabs /\ s.tabs[i].id = id BY <1>3
<1> HIDE DEF i
<1>5. tabs \in Seq(TabRecords) /\ IsRemoved(s.tabs, i, tabs) BY <1>2, <1>4, WithRemoved
<1> HIDE DEF tabs
<1>6. i \in 1..Len(s.tabs) /\ Len(tabs) = Len(s.tabs) - 1 /\ DOMAIN tabs = 1..(Len(s.tabs) - 1)
  BY <1>2, <1>4, <1>5 DEF IsRemoved
<1>7. \A j \in 1..Len(s.tabs) : j # i => tabs[IF j < i THEN j ELSE j - 1] = s.tabs[j]
  BY <1>5 DEF IsRemoved
<1>8. \A j \in DOMAIN tabs : tabs[j] = s.tabs[IF j < i THEN j ELSE j + 1] BY <1>5 DEF IsRemoved
<1>9. \A j \in DOMAIN tabs : (IF j < i THEN j ELSE j + 1) \in DOMAIN s.tabs BY <1>2, <1>6
<1>10. \A j, k \in DOMAIN tabs : tabs[j].id = tabs[k].id => j = k
  <2>1. ASSUME NEW j \in DOMAIN tabs, NEW k \in DOMAIN tabs, tabs[j].id = tabs[k].id PROVE j = k
    <3>1. (IF j < i THEN j ELSE j + 1) = (IF k < i THEN k ELSE k + 1)
      BY <1>0, <1>8, <1>9, <2>1 DEF Linked
    <3> QED BY <1>2, <1>6, <3>1
  <2> QED BY <2>1
<1>11. \A j \in DOMAIN tabs : tabs[j].id[1] = tabs[j].place.kind BY <1>0, <1>8, <1>9 DEF Linked
<1>12. ASSUME NEW t \in TabIds(s) \ {id}
       PROVE  \E k \in DOMAIN tabs : tabs[k].id = t /\ tabs[k].place = PlaceOf(s, t)
  <2>1. PICK j \in DOMAIN s.tabs : t = s.tabs[j].id BY IdsOf
  <2>2. j # i /\ PlaceOf(s, t) = s.tabs[j].place BY <1>0, <1>4, <2>1, PlaceAt DEF Linked
  <2>3. (IF j < i THEN j ELSE j - 1) \in DOMAIN tabs BY <1>2, <1>6, <2>1, <2>2
  <2>4. tabs[IF j < i THEN j ELSE j - 1] = s.tabs[j] BY <1>2, <1>7, <2>1, <2>2
  <2> QED BY <2>1, <2>2, <2>3, <2>4
<1>13. tabs # <<>> => active \in {tabs[k].id : k \in DOMAIN tabs}
  <2>1. CASE s.active # id BY <1>0, <1>2, <1>6, <1>12, <2>1 DEF Linked
  <2>2. CASE s.active = id
    <3>1. ASSUME tabs # <<>> PROVE active \in {tabs[k].id : k \in DOMAIN tabs}
      <4>1. Len(tabs) # 0 BY <1>5, <3>1
      <4>0. \A l \in Nat : \A j \in 1..l : l - 1 # 0 => j - 1 \in Nat /\ j - 1 <= l - 1 /\ l - 1 >= 1
        OBVIOUS
      <4>2. i - 1 \in Nat /\ i - 1 <= Len(tabs) /\ Len(tabs) >= 1 BY <1>2, <1>6, <4>0, <4>1
      <4>3. Max({1, i - 1}) = IF 1 >= i - 1 THEN 1 ELSE i - 1 BY <4>2, MinMaxOfTwo
      <4>4. Max({1, i - 1}) \in DOMAIN tabs BY <1>2, <1>6, <4>2, <4>3
      <4> QED BY <2>2, <3>1, <4>4
    <3> QED BY <3>1
  <2> QED BY <2>1, <2>2
<1>14. tabs = <<>> => active = NoTab
  <2>1. ASSUME tabs = <<>>, s.active # id PROVE FALSE
    <3>1. s.tabs # <<>> BY <1>2, <1>6
    <3>2. s.active \in TabIds(s) \ {id} BY <1>0, <2>1, <3>1 DEF Linked
    <3>3. PICK k \in DOMAIN tabs : tabs[k].id = s.active BY <1>12, <3>2
    <3> QED BY <2>1, <3>3
  <2> QED BY <2>1
<1>15. active \in AllTabs \cup {NoTab}
  <2>0. \A k \in DOMAIN tabs : tabs[k] \in TabRecords BY <1>5
  <2>1. \A k \in DOMAIN tabs : tabs[k].id \in AllTabs BY <2>0 DEF TabRecords
  <2> QED BY <1>13, <1>14, <2>1
<1>16. s.active # id => active = s.active OBVIOUS
<1> HIDE DEF active
<1>17. r \in TabsState /\ r.tabs = tabs /\ r.active = active /\ r.history = s.history
  BY <1>0, <1>5, <1>15 DEF TabRecords, TabsState
<1> HIDE DEF r
<1>18. TabIds(r) = {tabs[k].id : k \in DOMAIN tabs} BY <1>17, IdsOf
<1>19. Almost(r) BY <1>0, <1>10, <1>11, <1>13, <1>14, <1>17, <1>18 DEF Linked, Almost
<1>20. ASSUME NEW t \in TabIds(s) \ {id} PROVE t \in TabIds(r) /\ PlaceOf(r, t) = PlaceOf(s, t)
  <2>1. PICK k \in DOMAIN tabs : tabs[k].id = t /\ tabs[k].place = PlaceOf(s, t) BY <1>12
  <2>2. PlaceOf(r, t) = tabs[k].place BY <1>10, <1>17, <2>1, PlaceAt
  <2> QED BY <1>18, <2>1, <2>2
<1> QED BY <1>1, <1>16, <1>17, <1>19, <1>20 DEF Keeps

\* A tab that is closed leaves the others.
LEMMA ClosedSound ==
  ASSUME NEW s, Sound(s), NEW id
  PROVE  Sound(Closed(s, id)) /\ Keeps(s, Closed(s, id), TabIds(s) \ {id})
<1>1. CASE id \notin TabIds(s)
  <2>1. Closed(s, id) = s BY <1>1 DEF Closed
  <2> QED BY <2>1 DEF Keeps
<1>2. CASE id \in TabIds(s)
  <2> DEFINE w == WithoutTab(s, id)
  <2> DEFINE next == Sanitized(w, Accounts)
  <2>1. Almost(w) /\ Keeps(s, w, TabIds(s) \ {id}) BY <1>2, WithoutTabAlmost
  <2> HIDE DEF w
  <2>2. Sound(next) /\ next.tabs = w.tabs BY <2>1, SanitizedSound DEF SanitizedAs
  <2>3. Closed(s, id) = IF s.active # id THEN next
                        ELSE [next EXCEPT !.item = IF next.active = NoTab THEN NoPlace
                                                   ELSE PlaceOf(next, next.active)]
    BY <1>2 DEF Closed, w
  <2> HIDE DEF next
  <2>4. (IF next.active = NoTab THEN NoPlace ELSE PlaceOf(next, next.active)) \in Items
    BY <2>2, PlacesAreItems, PlaceTyped DEF Sound, Linked
  <2>5. Sound(Closed(s, id)) /\ Closed(s, id).tabs = next.tabs BY <2>2, <2>3, <2>4, ItemSound
  <2>6. TabIds(Closed(s, id)) = TabIds(w) /\ \A t : PlaceOf(Closed(s, id), t) = PlaceOf(w, t)
    BY <2>2, <2>5, SameTabs
  <2> QED BY <2>1, <2>5, <2>6 DEF Keeps
<1> QED BY <1>1, <1>2

----------------
\* Tabs that are closed, one after another, leave the others (closeWorkspaceTabsCommand).
ClosedOneByOne(s, ids) ==
  FoldLeft(LAMBDA t, tab : IF tab.id \in ids THEN Closed(t, tab.id) ELSE t, s, s.tabs)

\* The fold along the strip, as it was when the closing began.
LEMMA OneByOneSound ==
  ASSUME NEW s, Sound(s), NEW ids
  PROVE  Sound(ClosedOneByOne(s, ids)) /\ Keeps(s, ClosedOneByOne(s, ids), TabIds(s) \ ids)
<1> DEFINE n == Len(s.tabs)
<1> DEFINE V == {r \in TabsState : Sound(r) /\ Keeps(s, r, TabIds(s) \ ids)}
<1> DEFINE Next1(v, i) == IF s.tabs[i].id \in ids THEN Closed(v, s.tabs[i].id) ELSE v
<1> DEFINE F == [p \in V \X (1..n) |-> Next1(p[1], p[2])]
<1>0. n \in Nat /\ DOMAIN s.tabs = 1..n BY TabsStateFields DEF Sound
<1>3. s \in V BY DEF Keeps, Sound
<1>5. \A v \in V, i \in 1..n : Next1(v, i) \in V
  <2>1. ASSUME NEW v \in V, NEW i \in 1..n, s.tabs[i].id \in ids PROVE Closed(v, s.tabs[i].id) \in V
    <3> DEFINE id == s.tabs[i].id
    <3>0. Sound(v) /\ Keeps(s, v, TabIds(s) \ ids) /\ id \in ids BY <2>1
    <3> HIDE DEF id
    <3>1. Sound(Closed(v, id)) /\ Keeps(v, Closed(v, id), TabIds(v) \ {id}) BY <3>0, ClosedSound
    <3>2. Keeps(s, Closed(v, id), TabIds(s) \ ids) BY <3>0, <3>1 DEF Keeps
    <3> QED BY <3>1, <3>2 DEF id, Sound
  <2> QED BY <2>1
<1> DEFINE Is(f) == f = [t \in SUBSET (1..n) |-> IF t = {} THEN s ELSE Next1(f[t \ {Max(t)}], Max(t))]
<1>6. ClosedOneByOne(s, ids) = (CHOOSE f : Is(f))[1..n]
  BY <1>0 DEF ClosedOneByOne, FoldLeft, MapThenFoldSet
<1> HIDE DEF Next1, V
<1>1. F \in [V \X (1..n) -> V] BY <1>5
<1>2. \A v \in V, i \in 1..n : F[<<v, i>>] = Next1(v, i) OBVIOUS
<1> HIDE DEF n, F
<1>0a. n \in Nat BY <1>0
<1>4. \A t \in SUBSET (1..n) : t # {} => Max(t) \in 1..n BY <1>0a, GreatestOf
<1>7. \E f : Is(f)
  <2>0. Along(n, V, s, F) BY <1>0a, <1>1, <1>3, FoldAlong
  <2>1. PICK f \in [SUBSET (1..n) -> V] :
          \A t \in SUBSET (1..n) : f[t] = IF t = {} THEN s ELSE F[<<f[t \ {Max(t)}], Max(t)>>]
    BY <2>0 DEF Along
  <2>2. \A t \in SUBSET (1..n) : f[t \ {Max(t)}] \in V BY <2>1
  <2>3. \A t \in SUBSET (1..n) : f[t] = IF t = {} THEN s ELSE Next1(f[t \ {Max(t)}], Max(t))
    BY <1>2, <1>4, <2>1, <2>2
  <2>4. f = [t \in SUBSET (1..n) |-> IF t = {} THEN s ELSE Next1(f[t \ {Max(t)}], Max(t))]
    BY <2>1, <2>3
  <2> QED BY <2>4
<1> DEFINE f == CHOOSE f : Is(f)
<1>8. Is(f) BY <1>7
<1> HIDE DEF f
<1>9. \A t \in SUBSET (1..n) : f[t] = IF t = {} THEN s ELSE Next1(f[t \ {Max(t)}], Max(t)) BY <1>8
<1> DEFINE T == {k \in 0..n : f[1..k] \in V}
<1>10. 0 \in T BY <1>0a, <1>3, <1>9
<1>11. ASSUME NEW k \in 1..n, k - 1 \in T PROVE k \in T
  <2>0. k \in Nat \ {0} /\ k <= n BY <1>0a
  <2>a. \A i \in 1..k : i \in 1..n BY <1>0a, <2>0
  <2>b. k \in 1..k /\ k \in 0..n BY <1>0a, <2>0
  <2>1. 1..k \in SUBSET (1..n) /\ 1..k # {} BY <2>a, <2>b
  <2>2. Max(1..k) = k /\ (1..k) \ {k} = 1..(k - 1) BY <2>0, UpTo
  <2>3. f[1..k] = Next1(f[1..(k - 1)], k) BY <1>9, <2>1, <2>2
  <2>4. f[1..k] \in V BY <1>5, <1>11, <2>3
  <2> QED BY <2>b, <2>4
<1> HIDE DEF T
<1>12. \A k \in 0..n : k \in T BY <1>0a, <1>10, <1>11, StepsReach
<1>13. f[1..n] \in V BY <1>0a, <1>12 DEF T
<1> QED BY <1>6, <1>13 DEF V, f

\* Closing tabs, all of them too.
LEMMA TabsClosedSound ==
  ASSUME NEW s, Sound(s), NEW ids
  PROVE  Sound(TabsClosed(s, ids)) /\ Keeps(s, TabsClosed(s, ids), TabIds(s) \ ids)
<1>1. CASE ids = TabIds(s)
  <2> DEFINE r == [tabs |-> <<>>, active |-> NoTab, item |-> NoPlace, history |-> <<>>, at |-> 0]
  <2>1. TabsClosed(s, ids) = r BY <1>1 DEF TabsClosed
  <2>2. r \in TabsState BY PlacesAreItems DEF TabsState
  <2>3. Sound(r) BY <2>2 DEF Sound, Linked
  <2> QED BY <1>1, <2>1, <2>3 DEF Keeps
<1>2. CASE ids # TabIds(s)
  <2>1. TabsClosed(s, ids) = ClosedOneByOne(s, ids) BY <1>2 DEF TabsClosed, ClosedOneByOne
  <2> QED BY <2>1, OneByOneSound
<1> QED BY <1>1, <1>2

----------------
\* An entry of the history that is restored: its tab is active and looks at its place
\* (restoreInteractionEntry).
RestoredAs(s, r, i) ==
  LET e == s.history[i]
  IN /\ Sound(r) /\ TabIds(r) = TabIds(s) /\ e.tab \in TabIds(s)
     /\ r.active = e.tab /\ PlaceOf(r, e.tab) = e.place /\ r.item = e.item
     /\ \A t \in TabIds(s) \ {e.tab} : PlaceOf(r, t) = PlaceOf(s, t)
     /\ r.history = s.history /\ r.at = i

\* It can be.
LEMMA RestoredSound ==
  ASSUME NEW s, Sound(s), NEW i \in DOMAIN s.history
  PROVE  RestoredAs(s, Restored(s, i), i)
<1> DEFINE e == s.history[i]
<1> DEFINE p == PlacedAt(s, e.tab, e.place)
<1> DEFINE r == [p EXCEPT !.active = e.tab, !.at = i, !.item = e.item]
<1>0. s \in TabsState /\ Linked(s) BY DEF Sound
<1>1. Restored(s, i) = r BY DEF Restored
<1>2. e \in Interactions BY <1>0, TabsStateFields
<1>3. e.tab \in TabIds(s) /\ e.place \in Places /\ e.place.kind = e.tab[1] /\ e.item \in Items
  BY <1>0, <1>2 DEF Linked, Interactions
<1> HIDE DEF e
<1>4. PlaceSet(s, p, e.tab, e.place) BY <1>3, PlacedSound
<1> HIDE DEF p
<1>5. i \in DOMAIN p.history /\ e.tab \in TabIds(p) BY <1>3, <1>4 DEF PlaceSet
<1>6. Sound(r) BY <1>3, <1>4, <1>5, Refocused DEF PlaceSet
<1>7. r.tabs = p.tabs /\ r.active = e.tab /\ r.at = i /\ r.item = e.item /\ r.history = p.history
  BY <1>4 DEF PlaceSet, Sound, TabsState
<1> HIDE DEF r
<1>8. TabIds(r) = TabIds(p) /\ \A t : PlaceOf(r, t) = PlaceOf(p, t) BY <1>7, SameTabs
<1>9. RestoredAs(s, r, i) BY <1>3, <1>4, <1>6, <1>7, <1>8 DEF RestoredAs, PlaceSet, e
<1> QED BY <1>1, <1>9

\* A move in the history, from the workspace with what it looks at recorded.
MovedAs(s, m) ==
  /\ Sound(m.state) /\ Sound(m.from) /\ m.from.tabs = s.tabs /\ m.from.active = s.active
  /\ m.entry = 0 => m.state.tabs = s.tabs /\ m.state.active = s.active
  /\ m.entry # 0 => /\ m.state.active \in TabIds(s) /\ m.state.active \in TabIds(m.state)
                    /\ Keeps(s, m.state, TabIds(s) \ {m.state.active})

\* Back and forward, whether there is an entry to go to or not (interactionMovedBack).
LEMMA MovedSound ==
  ASSUME NEW s, Sound(s), NEW accounts, NEW step \in {-1, 1}
  PROVE  MovedAs(s, Moved(s, accounts, step))
<1> DEFINE y == Snapshot(s)
<1> DEFINE z == Sanitized(y, accounts)
<1> DEFINE i == z.at + step
<1> DEFINE m == Moved(s, accounts, step)
<1>1. Sound(y) /\ y.tabs = s.tabs /\ y.active = s.active BY SnapshotSound DEF RecordedAs
<1>2. m = IF i \in DOMAIN z.history THEN [entry |-> i, state |-> Restored(z, i), from |-> z]
          ELSE [entry |-> 0, state |-> z, from |-> z]
  BY DEF Moved
<1> HIDE DEF y
<1>3. Sound(z) /\ z.tabs = s.tabs /\ z.active = s.active
  BY <1>1, SoundAlmost, SanitizedSound DEF SanitizedAs
<1> HIDE DEF z, m
<1>4. TabIds(z) = TabIds(s) /\ \A t : PlaceOf(z, t) = PlaceOf(s, t) BY <1>3, SameTabs
<1>5. CASE i \in DOMAIN z.history
  <2>1. RestoredAs(z, Restored(z, i), i) BY <1>3, <1>5, RestoredSound
  <2>2. m.entry = i /\ m.state = Restored(z, i) /\ m.from = z BY <1>2, <1>5
  <2>3. i # 0
    <3>1. i \in 1..Len(z.history) BY <1>3, <1>5, TabsStateFields DEF Sound
    <3> QED BY <3>1
  <2> HIDE DEF i
  <2>4. m.state.active \in TabIds(s) /\ m.state.active \in TabIds(m.state)
        /\ Keeps(s, m.state, TabIds(s) \ {m.state.active})
    BY <1>4, <2>1, <2>2 DEF RestoredAs, Keeps
  <2>5. Sound(m.state) BY <2>1, <2>2 DEF RestoredAs
  <2> QED BY <1>3, <2>2, <2>3, <2>4, <2>5 DEF MovedAs, m
<1>6. CASE i \notin DOMAIN z.history BY <1>2, <1>3, <1>6 DEF MovedAs, m
<1> QED BY <1>5, <1>6

----------------
\* A history of which every entry is kept stays as it is.
LEMMA AllKept ==
  ASSUME NEW s, Sound(s), NEW accounts,
         \A k \in DOMAIN s.history : KeptIn(s, accounts, s.history[k])
  PROVE  LET r == Sanitized(s, accounts)
         IN /\ Sound(r) /\ DOMAIN r.history = DOMAIN s.history
            /\ \A k \in DOMAIN s.history : r.history[k] = s.history[k]
            /\ s.at \in DOMAIN s.history => r.at = s.at
<1> DEFINE n == Len(s.history)
<1> DEFINE r == Sanitized(s, accounts)
<1>1. Sound(r) /\ SanitizedAs(s, r, accounts) BY SoundAlmost, SanitizedSound
<1> HIDE DEF r
<1>2. s.history \in Seq(Interactions) /\ DOMAIN s.history = 1..n /\ n \in Nat /\ s.at \in Nat
  BY TabsStateFields DEF Sound
<1>3. HistoryIsKept(s, accounts, Interactions) BY <1>2, HistoryKept
<1> HIDE DEF n
<1>4. ASSUME NEW k \in Nat, k <= n PROVE Count(s, accounts, k) = k
  <2>1. KeptUpTo(s, accounts, k) = 1..k BY <1>2, <1>4 DEF KeptUpTo
  <2> QED BY <2>1, FS_Interval DEF Count
<1>5. /\ r.history \in Seq({e \in Interactions : KeptIn(s, accounts, e)})
      /\ Len(r.history) = Count(s, accounts, n)
      /\ \A j \in 1..n : KeptIn(s, accounts, s.history[j]) => r.history[Count(s, accounts, j)] = s.history[j]
  BY <1>1, <1>3 DEF HistoryIsKept, SanitizedAs, n
<1>6. Len(r.history) = n BY <1>2, <1>4, <1>5
<1>7. DOMAIN r.history = 1..n BY <1>5, <1>6
<1>8. ASSUME NEW k \in 1..n PROVE r.history[k] = s.history[k] BY <1>2, <1>4, <1>5
<1>9. ASSUME s.at \in 1..n PROVE r.at = s.at BY <1>1, <1>2, <1>4, <1>6, <1>9 DEF SanitizedAs
<1> QED BY <1>1, <1>2, <1>7, <1>8, <1>9 DEF r

\* Back, and Forward again: the view that was left is there (interactionMovedBack,
\* interactionMovedForward).
LEMMA BackAndForward ==
  ASSUME NEW s, Sound(s), s.active \in TabIds(s), NEW accounts,
         PlaceOf(s, s.active).account \in accounts, MovedBack(s, accounts).entry # 0
  PROVE  LET again == MovedForward(MovedBack(s, accounts).state, accounts).state
         IN again.active = s.active /\ again.item = s.item
            /\ PlaceOf(again, s.active) = PlaceOf(s, s.active)
<1> DEFINE y == Snapshot(s)
<1> DEFINE z == Sanitized(y, accounts)
<1> DEFINE i == z.at - 1
<1> DEFINE E == [tab |-> s.active, place |-> PlaceOf(s, s.active), item |-> s.item]
<1>1. Sound(y) /\ y.tabs = s.tabs /\ y.at \in DOMAIN y.history /\ y.history[y.at] = E
  BY SnapshotSound DEF RecordedAs
<1>2. y.history \in Seq(Interactions) /\ DOMAIN y.history = 1..Len(y.history)
  BY <1>1, TabsStateFields DEF Sound
<1>3. Moved(s, accounts, -1) =
        IF i \in DOMAIN z.history THEN [entry |-> i, state |-> Restored(z, i), from |-> z]
        ELSE [entry |-> 0, state |-> z, from |-> z]
  <2>1. z.at - 1 = z.at + (-1) OBVIOUS
  <2> QED BY <2>1 DEF Moved
<1> HIDE DEF y
<1>4. TabIds(y) = TabIds(s) BY <1>1, SameTabs
<1>5. Sound(z) /\ SanitizedAs(y, z, accounts) BY <1>1, SoundAlmost, SanitizedSound
<1>6. HistoryIsKept(y, accounts, Interactions) BY <1>2, HistoryKept
<1>7. KeptIn(y, accounts, E) BY <1>4 DEF KeptIn
<1> HIDE DEF z, E
<1>8. z.at \in DOMAIN z.history /\ z.history[z.at] = E
      /\ \A k \in DOMAIN z.history : KeptIn(y, accounts, z.history[k])
  BY <1>1, <1>2, <1>5, <1>6, <1>7 DEF SanitizedAs, HistoryIsKept
<1>9. i \in DOMAIN z.history BY <1>3 DEF MovedBack
<1> DEFINE r == Restored(z, i)
<1>10. RestoredAs(z, r, i) BY <1>5, <1>9, RestoredSound
<1>11. MovedBack(s, accounts).state = r BY <1>3, <1>9 DEF MovedBack
<1> HIDE DEF r
<1>12. z.at \in Nat /\ DOMAIN z.history = 1..Len(z.history) /\ Len(z.history) \in Nat
       /\ z.history[i] \in Interactions
  BY <1>5, <1>9, TabsStateFields DEF Sound
<1>13. i \in Nat /\ i # 0 /\ i + 1 = z.at BY <1>9, <1>12
<1> HIDE DEF i
<1>14. Snapshot(r) = r
  <2> DEFINE e == z.history[i]
  <2>1. [tab |-> r.active, place |-> PlaceOf(r, r.active), item |-> r.item]
          = [tab |-> e.tab, place |-> e.place, item |-> e.item]
    BY <1>10 DEF RestoredAs
  <2>2. [tab |-> e.tab, place |-> e.place, item |-> e.item] = e BY <1>12 DEF Interactions
  <2>3. r.history[r.at] = e /\ r.at > 0 BY <1>10, <1>13 DEF RestoredAs
  <2> QED BY <2>1, <2>2, <2>3 DEF Snapshot, Recorded
<1>15. \A k \in DOMAIN r.history : KeptIn(r, accounts, r.history[k])
  BY <1>5, <1>8, <1>10, SameTabs DEF RestoredAs, SanitizedAs, KeptIn
<1> DEFINE x == Sanitized(r, accounts)
<1>16. /\ Sound(x) /\ DOMAIN x.history = DOMAIN z.history
       /\ \A k \in DOMAIN z.history : x.history[k] = z.history[k]
       /\ x.at = i
  BY <1>9, <1>10, <1>15, AllKept DEF RestoredAs
<1>17. Moved(r, accounts, 1) =
         IF x.at + 1 \in DOMAIN x.history THEN [entry |-> x.at + 1, state |-> Restored(x, x.at + 1), from |-> x]
         ELSE [entry |-> 0, state |-> x, from |-> x]
  BY <1>14 DEF Moved
<1> HIDE DEF x
<1>18. z.at \in DOMAIN x.history /\ x.history[z.at] = E /\ x.at + 1 = z.at BY <1>8, <1>13, <1>16
<1>19. MovedForward(r, accounts).state = Restored(x, z.at) BY <1>17, <1>18 DEF MovedForward
<1>20. RestoredAs(x, Restored(x, z.at), z.at) BY <1>16, <1>18, RestoredSound
<1>21. Restored(x, z.at).active = E.tab /\ Restored(x, z.at).item = E.item
       /\ PlaceOf(Restored(x, z.at), E.tab) = E.place
  BY <1>18, <1>20 DEF RestoredAs
<1> QED BY <1>11, <1>19, <1>21 DEF E

----------------
(* What the user does with the workspace keeps the invariant *)

\* Tabs with runs that stay, and stay where they are.
RunTabsStay(s, r) ==
  \A t \in TabIds(s) : t[1] \in RunKinds =>
    t \in TabIds(r) /\ PlaceOf(r, t).account = PlaceOf(s, t).account

\* What is current in the workspace still is.
LEMMA StaysCurrent ==
  ASSUME RunTabsStay(workspace, workspace')
  PROVE  \A t, account : t[1] \in RunKinds /\ TabIsCurrent(t, account) => TabIsCurrent(t, account)'
BY DEF RunTabsStay, TabIsCurrent

\* A change of the workspace that leaves the tabs with runs where they are.
LEMMA WorkspaceMoves ==
  ASSUME WorkbenchInv, UNCHANGED runVars, Sound(workspace'), RunTabsStay(workspace, workspace'),
         available' \subseteq Accounts, tabCounter' \in Nat, DialogTrue'
  PROVE  WorkbenchInv'
<1>0. /\ compiling' = compiling /\ activeRuns' = activeRuns /\ results' = results
      /\ runs' = runs /\ events' = events /\ answers' = answers /\ hasty' = hasty
  BY DEF runVars
<1>1. WellFormed(workspace') BY SoundIsWellFormed
<1>2. RunsTyped' /\ CommandsTyped' /\ ActiveOwned' /\ MessagesTrue'
  BY <1>0 DEF WorkbenchInv, RunsTyped, CommandsTyped, ActiveOwned, MessagesTrue
<1>3. \A t : RowsOf(t)' = RowsOf(t) /\ IsBusy(t)' = IsBusy(t) /\ \A r : Running(t, r)' = Running(t, r)
  BY <1>0 DEF RowsOf, IsBusy, Running
<1>4. RowsGiven' BY <1>0, <1>3 DEF RowsComing, WorkbenchInv, RowsGiven
<1>5. ResultsTrue'
  <2>0. \A t, account : t[1] \in RunKinds /\ TabIsCurrent(t, account) => TabIsCurrent(t, account)'
    BY StaysCurrent
  <2>1. ASSUME NEW t \in DOMAIN results PROVE t \in AllTabs /\ ResultTrue(t)'
    <3>1. t \in AllTabs /\ ResultTrue(t) BY DEF WorkbenchInv, ResultsTrue
    <3>2. results[t].run \in DOMAIN runs /\ runs[results[t].run].tab = t BY <3>1 DEF ResultTrue
    <3>3. t[1] \in RunKinds BY <3>2 DEF WorkbenchInv, RunsTyped
    <3>4. \A account : TabIsCurrent(t, account) => TabIsCurrent(t, account)' BY <2>0, <3>3
    <3> QED BY <1>0, <1>3, <3>1, <3>4 DEF ResultTrue, TabIsCurrent
  <2> QED BY <1>0, <2>1 DEF ResultsTrue
<1>6. NoRunUnattended'
  <2>0. \A t, account : t[1] \in RunKinds /\ TabIsCurrent(t, account) => TabIsCurrent(t, account)'
    BY StaysCurrent
  <2>1. ASSUME NEW r \in DOMAIN runs, IsShown(r) PROVE IsShown(r)'
    <3>1. runs[r].tab[1] \in RunKinds BY DEF WorkbenchInv, RunsTyped
    <3> DEFINE t == runs[r].tab
    <3>2. TabIsCurrent(t, runs[r].account)
            => t \in TabIds(workspace') /\ PlaceOf(workspace', t).account = runs[r].account
      BY <3>1 DEF TabIsCurrent, RunTabsStay
    <3> QED BY <1>0, <1>3, <2>1, <3>2 DEF IsShown, TabIsCurrent
  <2> QED BY <1>0, <2>1 DEF WorkbenchInv, NoRunUnattended
<1> QED BY <1>1, <1>2, <1>4, <1>5, <1>6 DEF WorkbenchInv

\* The workspace is sound; when the user acts no dialog is open, and none is opened.
LEMMA WhenUsed ==
  ASSUME WorkbenchInv
  PROVE  /\ Sound(workspace)
         /\ Active # NoTab => Active \in TabIds(workspace)
         /\ Uses /\ closing' = closing => DialogTrue'
BY SoundIsWellFormed DEF WorkbenchInv, Sound, Linked, Active, Uses, DialogTrue

\* What keeps all tabs keeps those with runs.
LEMMA KeepsRunTabs ==
  ASSUME NEW s, NEW r, Keeps(s, r, TabIds(s)) \/ r.tabs = s.tabs
  PROVE  RunTabsStay(s, r)
BY SameTabs DEF Keeps, RunTabsStay

\* The next id is new.
LEMMA NextIdIsNew ==
  ASSUME WorkbenchInv, CountsTab, NEW kind \in TabKinds
  PROVE  LET id == NextTabId(kind)
         IN id \in AllTabs /\ id \notin TabIds(workspace) /\ id[1] = kind
<1>1. tabCounter + 1 \in Nat BY DEF WorkbenchInv
<1> QED BY <1>1, WhenUsed, UniqueIsNew DEF NextTabId

\* A recording keeps the tabs, and the next thing is recorded in what was made before.
LEMMA RecordedKeeps ==
  ASSUME NEW s, Sound(s), NEW r, Sound(r), Keeps(s, r, TabIds(s)) \/ r.tabs = s.tabs,
         NEW id, NEW item \in Items
  PROVE  Sound(Recorded(r, id, item)) /\ RunTabsStay(s, Recorded(r, id, item))
<1> DEFINE q == Recorded(r, id, item)
<1>1. Sound(q) /\ q.tabs = r.tabs BY RecordedSound DEF RecordedAs
<1> HIDE DEF q
<1>2. Keeps(s, q, TabIds(s)) \/ q.tabs = s.tabs BY <1>1, SameTabs DEF Keeps
<1> QED BY <1>1, <1>2, KeepsRunTabs DEF q

\* A place is opened or selected (openCollectionTab and its like).
LEMMA OpenPlaceKeeps ==
  ASSUME WorkbenchInv, NEW place \in Places, NEW newTab, OpenPlace(place, newTab)
  PROVE  WorkbenchInv'
<1>0. Sound(workspace) /\ DialogTrue' BY WhenUsed DEF OpenPlace
<1>1. place \in Items /\ place.kind \in TabKinds BY PlacesAreItems, PlaceMoved
<1>2. Sound(workspace') /\ RunTabsStay(workspace, workspace')
  <2>1. CASE ~newTab /\ Matching(workspace, place) # {}
    <3> DEFINE id == FindOpen(workspace, place)
    <3>1. workspace' = Recorded(Selected(workspace, id), id, place) BY <2>1 DEF OpenPlace
    <3>2. Sound(Selected(workspace, id)) /\ Selected(workspace, id).tabs = workspace.tabs
      BY <1>0, SelectedSound
    <3> QED BY <1>0, <1>1, <3>1, <3>2, RecordedKeeps
  <2>2. CASE ~(~newTab /\ Matching(workspace, place) # {})
    <3> DEFINE id == NextTabId(place.kind)
    <3>1. CountsTab /\ workspace' = Recorded(Opened(workspace, place, id), id, place)
      BY <2>2 DEF OpenPlace
    <3>2. id \in AllTabs /\ id \notin TabIds(workspace) /\ id[1] = place.kind
      BY <1>1, <3>1, NextIdIsNew
    <3> HIDE DEF id
    <3>3. Sound(Opened(workspace, place, id)) /\ Keeps(workspace, Opened(workspace, place, id), TabIds(workspace))
      BY <1>0, <3>2, OpenedSound
    <3> QED BY <1>0, <1>1, <3>1, <3>3, RecordedKeeps
  <2> QED BY <2>1, <2>2
<1>3. available' \subseteq Accounts /\ UNCHANGED runVars /\ tabCounter' \in Nat
  BY DEF OpenPlace, CountsTab, WorkbenchInv
<1> QED BY <1>0, <1>2, <1>3, WorkspaceMoves

\* A tab is opened on the place of the active one (onNewTab).
LEMMA NewTabKeeps ==
  ASSUME WorkbenchInv, NewTab
  PROVE  WorkbenchInv'
<1>0. Sound(workspace) /\ DialogTrue' /\ Active \in TabIds(workspace) /\ CountsTab
  BY WhenUsed DEF NewTab
<1> DEFINE place == PlaceOf(workspace, Active)
<1> DEFINE id == NextTabId(place.kind)
<1>1. place \in Places BY <1>0, PlaceTyped
<1>2. place.kind \in TabKinds BY <1>1, PlaceMoved
<1>3. workspace' = Opened(workspace, place, id) BY DEF NewTab, ActivePlace
<1> HIDE DEF place
<1>4. id \in AllTabs /\ id \notin TabIds(workspace) /\ id[1] = place.kind BY <1>0, <1>2, NextIdIsNew
<1> HIDE DEF id
<1>5. Sound(workspace') /\ Keeps(workspace, workspace', TabIds(workspace))
  BY <1>0, <1>1, <1>3, <1>4, OpenedSound
<1>6. RunTabsStay(workspace, workspace') BY <1>5, KeepsRunTabs
<1>7. available' \subseteq Accounts /\ UNCHANGED runVars /\ tabCounter' \in Nat
  BY DEF NewTab, CountsTab, WorkbenchInv
<1> QED BY <1>0, <1>5, <1>6, <1>7, WorkspaceMoves

\* A tab is copied (duplicateTab).
LEMMA DuplicateTabKeeps ==
  ASSUME WorkbenchInv, NEW t \in TabIds(workspace), DuplicateTab(t)
  PROVE  WorkbenchInv'
<1>0. Sound(workspace) /\ DialogTrue' /\ CountsTab BY WhenUsed DEF DuplicateTab
<1> DEFINE place == PlaceOf(workspace, t)
<1> DEFINE id == NextTabId(place.kind)
<1>1. place \in Places BY <1>0, PlaceTyped
<1>2. place.kind \in TabKinds /\ place \in Items BY <1>1, PlaceMoved, PlacesAreItems
<1>3. workspace' = Recorded(Duplicated(workspace, t, id), id, place) BY DEF DuplicateTab
<1>4. id \in AllTabs /\ id \notin TabIds(workspace) /\ id[1] = place.kind BY <1>0, <1>2, NextIdIsNew
<1> HIDE DEF id
<1>5. Sound(Duplicated(workspace, t, id)) /\ Keeps(workspace, Duplicated(workspace, t, id), TabIds(workspace))
  BY <1>0, <1>4, OpenedSound
<1> HIDE DEF place
<1>6. Sound(workspace') /\ RunTabsStay(workspace, workspace')
  BY <1>0, <1>2, <1>3, <1>5, RecordedKeeps
<1>7. available' \subseteq Accounts /\ UNCHANGED runVars /\ tabCounter' \in Nat
  BY DEF DuplicateTab, CountsTab, WorkbenchInv
<1> QED BY <1>0, <1>6, <1>7, WorkspaceMoves

\* A tab of the strip is selected.
LEMMA SelectTabKeeps ==
  ASSUME WorkbenchInv, NEW t \in TabIds(workspace), SelectTab(t)
  PROVE  WorkbenchInv'
<1>0. Sound(workspace) /\ DialogTrue' BY WhenUsed DEF SelectTab
<1> DEFINE place == PlaceOf(workspace, t)
<1> DEFINE y == Selected(workspace, t)
<1> DEFINE z == [y EXCEPT !.item = place]
<1>1. place \in Items BY <1>0, PlaceTyped, PlacesAreItems
<1>2. Sound(y) /\ y.tabs = workspace.tabs BY <1>0, SelectedSound
<1>3. workspace' = Recorded(z, t, place) BY DEF SelectTab
<1> HIDE DEF y, place
<1>4. Sound(z) /\ z.tabs = workspace.tabs BY <1>1, <1>2, ItemSound
<1> HIDE DEF z
<1>5. Sound(workspace') /\ RunTabsStay(workspace, workspace')
  BY <1>0, <1>1, <1>3, <1>4, RecordedKeeps
<1>6. available' \subseteq Accounts /\ UNCHANGED runVars /\ tabCounter' \in Nat
  BY DEF SelectTab, WorkbenchInv
<1> QED BY <1>0, <1>5, <1>6, WorkspaceMoves

\* An item of the tree is selected, or a query is run: both are recorded only.
LEMMA RecordingKeeps ==
  ASSUME WorkbenchInv, \/ \E a \in available : SelectItem(a)
                       \/ RunQueryTab
  PROVE  WorkbenchInv'
<1>0. Sound(workspace) /\ DialogTrue' BY WhenUsed DEF SelectItem, RunQueryTab
<1>1. \E item \in Items : workspace' = Recorded(workspace, Active, item)
  BY <1>0, TabsStateFields DEF Items, WorkbenchInv, SelectItem, Sound, RunQueryTab
<1>2. Sound(workspace') /\ RunTabsStay(workspace, workspace') BY <1>0, <1>1, RecordedKeeps
<1>3. available' \subseteq Accounts /\ UNCHANGED runVars /\ tabCounter' \in Nat
  BY DEF SelectItem, RunQueryTab, WorkbenchInv
<1> QED BY <1>0, <1>2, <1>3, WorkspaceMoves

\* The path of a query tab is edited (firestoreTabDraftEdited).
LEMMA EditPathKeeps ==
  ASSUME WorkbenchInv, NEW path \in Paths, EditPath(path)
  PROVE  WorkbenchInv'
BY WhenUsed, DraftSound, WorkspaceMoves DEF EditPath, Active, ActivePlace, RunTabsStay, Keeps, WorkbenchInv

\* An account is removed, or a dialog opens or is dismissed: the workspace stays.
LEMMA SameWorkspaceKeeps ==
  ASSUME WorkbenchInv, \/ \E a \in available : RemoveAccount(a)
                       \/ \E positions \in SUBSET DOMAIN workspace.tabs : RequestClose(positions)
                       \/ DismissClose
                       \/ UNCHANGED workbenchVars
  PROVE  WorkbenchInv'
<1>0. Sound(workspace) BY WhenUsed
<1>1. workspace' = workspace /\ UNCHANGED runVars /\ available' \subseteq Accounts /\ tabCounter' \in Nat
  BY DEF WorkbenchInv, RemoveAccount, RequestClose, DismissClose, workbenchVars
<1>2. DialogTrue'
  <2>1. CASE \E a \in available : RemoveAccount(a) BY <2>1, WhenUsed DEF RemoveAccount
  <2>2. CASE \E positions \in SUBSET DOMAIN workspace.tabs : RequestClose(positions)
    BY <1>1, <2>2 DEF RequestClose, DialogTrue, WorkbenchInv
  <2>3. CASE DismissClose BY <2>3 DEF DismissClose, DialogTrue
  <2>4. CASE UNCHANGED workbenchVars
    <3>1. closing' = closing BY <2>4 DEF workbenchVars
    <3> QED BY <1>1, <3>1 DEF DialogTrue, WorkbenchInv
  <2> QED BY <2>1, <2>2, <2>3, <2>4
<1>3. RunTabsStay(workspace, workspace') BY <1>1 DEF RunTabsStay
<1> QED BY <1>0, <1>1, <1>2, <1>3, WorkspaceMoves

----------------
(* Runs are cancelled and results dropped where a tab is left *)

RunRecords == [tab : AllTabs, account : Accounts, rows : 0..MaxRows, cancelled : BOOLEAN, over : BOOLEAN]

\* What a run is, by its fields.
LEMMA RunFields ==
  ASSUME RunsTyped
  PROVE  /\ DOMAIN runs = 1..Len(runs) /\ Len(runs) \in Nat
         /\ \A r \in DOMAIN runs :
              /\ runs[r] \in RunRecords /\ runs[r].tab \in AllTabs /\ runs[r].tab[1] \in RunKinds
              /\ runs[r].account \in Accounts /\ runs[r].rows \in 0..MaxRows
              /\ runs[r].cancelled \in BOOLEAN /\ runs[r].over \in BOOLEAN
<1>1. runs \in Seq(RunRecords) BY DEF RunsTyped, RunRecords
<1>2. \A r \in DOMAIN runs : runs[r] \in RunRecords BY <1>1, ElementOfSeq
<1> QED BY <1>1, <1>2 DEF RunsTyped, RunRecords

\* A run changes in its cancellation only.
RunsCancelled(ids) ==
  /\ DOMAIN runs' = DOMAIN runs
  /\ \A r \in DOMAIN runs :
       /\ runs'[r].tab = runs[r].tab /\ runs'[r].account = runs[r].account
       /\ runs'[r].rows = runs[r].rows /\ runs'[r].over = runs[r].over
       /\ runs'[r].cancelled = (runs[r].cancelled \/ (Running(runs[r].tab, r) /\ runs[r].tab \in ids))

\* env.cancel changes nothing else of a run.
LEMMA CancelsOnly ==
  ASSUME RunsTyped, NEW ids, Cancels(ids), hasty' = hasty
  PROVE  RunsTyped' /\ RunsCancelled(ids)
<1>1. DOMAIN runs = 1..Len(runs) /\ Len(runs) \in Nat BY RunFields
<1>2. DOMAIN runs' = DOMAIN runs BY DEF Cancels
<1>3. ASSUME NEW r \in DOMAIN runs
      PROVE  /\ runs'[r] \in RunRecords /\ runs'[r].tab = runs[r].tab /\ runs'[r].account = runs[r].account
             /\ runs'[r].rows = runs[r].rows /\ runs'[r].over = runs[r].over
             /\ runs'[r].cancelled = (runs[r].cancelled \/ (Running(runs[r].tab, r) /\ runs[r].tab \in ids))
  BY RunFields DEF Cancels, RunRecords
<1>4. runs' \in Seq(RunRecords)
  <2>1. runs' = [r \in 1..Len(runs) |-> runs'[r]] BY <1>1 DEF Cancels
  <2> QED BY <1>1, <1>3, <2>1
<1> QED BY <1>2, <1>3, <1>4 DEF RunsTyped, RunsCancelled, RunRecords

\* Events are of runs there are.
LEMMA EventsTyped ==
  ASSUME MessagesTrue
  PROVE  /\ DOMAIN events = 1..Len(events) /\ Len(events) \in Nat
         /\ events = [i \in 1..Len(events) |-> events[i]]
         /\ \A i \in DOMAIN events :
              /\ events[i] \in [run : DOMAIN runs, type : {"row", "end"}]
              /\ events[i].run \in DOMAIN runs
<1> DEFINE E == [run : DOMAIN runs, type : {"row", "end"}]
<1>1. events \in Seq(E) BY DEF MessagesTrue
<1> HIDE DEF E
<1>2. \A i \in DOMAIN events : events[i] \in E BY <1>1, ElementOfSeq
<1>3. DOMAIN events = 1..Len(events) /\ Len(events) \in Nat BY <1>1
<1>4. events = [i \in 1..Len(events) |-> events[i]] BY <1>1
<1> QED BY <1>2, <1>3, <1>4 DEF E

\* What was said of the runs is still true, whatever was cancelled.
LEMMA MessagesStay ==
  ASSUME MessagesTrue, NEW ids, RunsCancelled(ids), events' = events, answers' \subseteq answers
  PROVE  MessagesTrue'
BY EventsTyped DEF MessagesTrue, RunsCancelled

\* The rest of it is as it was.
LEMMA WithoutOnly ==
  ASSUME NEW byTab, NEW ids
  PROVE  /\ DOMAIN Without(byTab, ids) = DOMAIN byTab \ ids
         /\ \A t \in DOMAIN byTab \ ids : Without(byTab, ids)[t] = byTab[t]
BY DEF Without, Restrict

\* Tabs with runs that are not left stay where they are.
RunTabsStayBut(s, r, ids) ==
  \A t \in TabIds(s) : t[1] \in RunKinds =>
    t \in ids \/ (t \in TabIds(r) /\ PlaceOf(r, t).account = PlaceOf(s, t).account)

\* The workspace changes, and the runs of the tabs that do not stay are cleared.
LEMMA WorkspaceLeaves ==
  ASSUME WorkbenchInv, NEW ids, ClearsRuntime(ids), UNCHANGED <<compiling, events, answers, hasty>>,
         Sound(workspace'), RunTabsStayBut(workspace, workspace', ids),
         available' \subseteq Accounts, tabCounter' \in Nat, DialogTrue'
  PROVE  WorkbenchInv'
<1>1. WellFormed(workspace') BY SoundIsWellFormed
<1>2. RunsTyped' /\ RunsCancelled(ids) BY CancelsOnly DEF WorkbenchInv, ClearsRuntime
<1>3. /\ DOMAIN activeRuns' = DOMAIN activeRuns \ ids
      /\ \A t \in DOMAIN activeRuns \ ids : activeRuns'[t] = activeRuns[t]
      /\ DOMAIN results' = DOMAIN results \ ids
      /\ \A t \in DOMAIN results \ ids : results'[t] = results[t]
  BY WithoutOnly DEF ClearsRuntime
<1>4. CommandsTyped' BY DEF WorkbenchInv, CommandsTyped
<1>5. ActiveOwned' BY <1>2, <1>3 DEF WorkbenchInv, ActiveOwned, RunsCancelled
<1>6. MessagesTrue' BY <1>2, MessagesStay DEF WorkbenchInv
<1>7. RowsGiven'
  <2>1. ASSUME NEW r \in DOMAIN runs', Running(runs[r].tab, r)'
        PROVE  (RowsOf(runs[r].tab) + Cardinality(RowsComing(r)) <= runs[r].rows)'
    <3> DEFINE t == runs[r].tab
    <3>1. r \in DOMAIN runs /\ runs'[r].tab = t /\ runs'[r].rows = runs[r].rows
      BY <1>2 DEF RunsCancelled
    <3>2. t \notin ids /\ Running(t, r) BY <1>3, <2>1, <3>1 DEF Running, IsBusy
    <3>3. RowsOf(runs[r].tab)' = RowsOf(t) BY <1>3, <3>1, <3>2 DEF RowsOf
    <3>4. RowsComing(r)' = RowsComing(r) BY DEF RowsComing
    <3> QED BY <3>1, <3>2, <3>3, <3>4 DEF WorkbenchInv, RowsGiven
  <2> QED BY <2>1 DEF RowsGiven
<1>8. ResultsTrue'
  <2>1. ASSUME NEW t \in DOMAIN results' PROVE t \in AllTabs /\ ResultTrue(t)'
    <3>1. t \in DOMAIN results /\ t \notin ids /\ results'[t] = results[t] BY <1>3
    <3>2. t \in AllTabs /\ ResultTrue(t) BY <3>1 DEF WorkbenchInv, ResultsTrue
    <3> DEFINE r == results[t].run
    <3>3. /\ r \in DOMAIN runs /\ runs[r].tab = t
          /\ runs'[r].tab = t /\ runs'[r].account = runs[r].account
          /\ runs'[r].rows = runs[r].rows /\ runs'[r].over = runs[r].over
      BY <1>2, <3>2 DEF ResultTrue, RunsCancelled
    <3>4. t[1] \in RunKinds BY <3>3 DEF WorkbenchInv, RunsTyped
    <3>5. \A account : TabIsCurrent(t, account) => TabIsCurrent(t, account)'
      BY <3>1, <3>4 DEF TabIsCurrent, RunTabsStayBut
    <3>6. IsBusy(t)' => IsBusy(t) /\ activeRuns'[t] = activeRuns[t] BY <1>3 DEF IsBusy
    <3>7. results'[t] \in [run : DOMAIN runs', rows : 0..MaxRows, whole : BOOLEAN]
      BY <1>2, <3>1, <3>2 DEF ResultTrue, RunsCancelled
    <3> QED BY <3>1, <3>2, <3>3, <3>5, <3>6, <3>7 DEF ResultTrue, TabIsCurrent
  <2> QED BY <2>1 DEF ResultsTrue
<1>9. NoRunUnattended'
  <2>1. ASSUME NEW r \in DOMAIN runs', ~runs'[r].over, ~runs'[r].cancelled, r \notin hasty'
        PROVE  IsShown(r)'
    <3> DEFINE t == runs[r].tab
    <3>1. /\ r \in DOMAIN runs /\ runs'[r].tab = t /\ runs'[r].account = runs[r].account
          /\ ~runs[r].over /\ ~runs[r].cancelled /\ ~(Running(t, r) /\ t \in ids)
      BY <1>2, <2>1 DEF RunsCancelled
    <3>2. Running(t, r) /\ TabIsCurrent(t, runs[r].account)
      BY <2>1, <3>1 DEF WorkbenchInv, NoRunUnattended, IsShown
    <3>3. t[1] \in RunKinds BY <3>1 DEF WorkbenchInv, RunsTyped
    <3>4. t \in TabIds(workspace') /\ PlaceOf(workspace', t).account = runs[r].account
      BY <3>1, <3>2, <3>3 DEF TabIsCurrent, RunTabsStayBut
    <3>5. t \in DOMAIN activeRuns' /\ activeRuns'[t] = r BY <1>3, <3>1, <3>2 DEF Running, IsBusy
    <3> QED BY <3>1, <3>4, <3>5 DEF IsShown, TabIsCurrent, Running, IsBusy
  <2> QED BY <2>1 DEF NoRunUnattended
<1> QED BY <1>1, <1>2, <1>4, <1>5, <1>6, <1>7, <1>8, <1>9 DEF WorkbenchInv

----------------
\* A tab that is left, for another account or another entry of the history
\* (clearConnectionScopedTabState).
LEMMA LeavesKeeps ==
  ASSUME WorkbenchInv, NEW t \in TabIds(workspace), Leaves(t),
         UNCHANGED <<tabCounter, available, compiling, events, answers, hasty>>,
         Sound(workspace'), Keeps(workspace, workspace', TabIds(workspace) \ {t}), DialogTrue'
  PROVE  WorkbenchInv'
<1> DEFINE ids == IF PlaceOf(workspace, t).kind \in RunKinds THEN {t} ELSE {}
<1>1. Sound(workspace) BY WhenUsed
<1>2. PlaceOf(workspace, t).kind = t[1] BY <1>1, PlaceTyped
<1>3. RunTabsStayBut(workspace, workspace', ids) BY <1>2 DEF RunTabsStayBut, Keeps
<1>4. ClearsRuntime(ids) BY DEF Leaves
<1> HIDE DEF ids
<1>5. available' \subseteq Accounts /\ tabCounter' \in Nat BY DEF WorkbenchInv
<1> QED BY <1>3, <1>4, <1>5, WorkspaceLeaves

\* The account of a tab is changed (handleActiveProjectChange).
LEMMA ChangeAccountKeeps ==
  ASSUME WorkbenchInv, NEW account \in available, ChangeAccount(account)
  PROVE  WorkbenchInv'
<1> DEFINE u == ConnectionUpdated(workspace, account)
<1>0. /\ Sound(workspace) /\ DialogTrue' /\ workspace.active \in TabIds(workspace)
      /\ Leaves(workspace.active) /\ account \in Accounts
  BY WhenUsed DEF ChangeAccount, WorkbenchInv, Active
<1>1. workspace' = Recorded(u, workspace.active, u.item) BY DEF ChangeAccount, Active
<1>2. Sound(u) /\ Keeps(workspace, u, TabIds(workspace) \ {workspace.active}) BY <1>0, ConnectionSound
<1> HIDE DEF u
<1>3. u.item \in Items BY <1>2, TabsStateFields DEF Sound
<1>4. Sound(workspace') /\ workspace'.tabs = u.tabs BY <1>1, <1>2, <1>3, RecordedSound DEF RecordedAs
<1>5. Keeps(workspace, workspace', TabIds(workspace) \ {workspace.active})
  BY <1>2, <1>4, SameTabs DEF Keeps
<1>6. UNCHANGED <<tabCounter, available, compiling, events, answers, hasty>> BY DEF ChangeAccount
<1> QED BY <1>0, <1>4, <1>5, <1>6, LeavesKeeps

\* The user goes back or forward (handleBackInteraction, handleForwardInteraction).
LEMMA RestoresKeeps ==
  ASSUME WorkbenchInv, Back \/ Forward
  PROVE  WorkbenchInv'
<1>0. Sound(workspace) BY WhenUsed
<1>1. PICK step \in {-1, 1} : Restores(Moved(workspace, available, step))
  BY DEF Back, Forward, MovedBack, MovedForward
<1> DEFINE moved == Moved(workspace, available, step)
<1>2. MovedAs(workspace, moved) BY <1>0, MovedSound
<1>3. Restores(moved) BY <1>1
<1> HIDE DEF moved
<1> DEFINE t == moved.state.active
<1>4. /\ workspace' = moved.state /\ DialogTrue'
      /\ UNCHANGED <<tabCounter, available, closing, compiling, events, answers, hasty>>
  BY <1>3, WhenUsed DEF Restores
<1>5. Sound(workspace') BY <1>2, <1>4 DEF MovedAs
<1>6. CASE moved.entry # 0 /\ PlaceOf(moved.from, t).account # PlaceOf(moved.state, t).account
  BY <1>2, <1>3, <1>4, <1>5, <1>6, LeavesKeeps DEF Restores, MovedAs
<1>7. CASE ~(moved.entry # 0 /\ PlaceOf(moved.from, t).account # PlaceOf(moved.state, t).account)
  <2>1. UNCHANGED runVars BY <1>3, <1>4, <1>7 DEF Restores, runVars
  <2>2. available' \subseteq Accounts /\ tabCounter' \in Nat BY <1>4 DEF WorkbenchInv
  <2>3. RunTabsStay(workspace, workspace')
    <3>1. CASE moved.entry = 0 BY <1>2, <1>4, <3>1, KeepsRunTabs DEF MovedAs
    <3>2. CASE moved.entry # 0
      <4>1. PlaceOf(moved.from, t) = PlaceOf(workspace, t) BY <1>2, SameTabs DEF MovedAs
      <4>2. PlaceOf(workspace', t).account = PlaceOf(workspace, t).account BY <1>4, <1>7, <3>2, <4>1
      <4>3. /\ t \in TabIds(workspace')
            /\ Keeps(workspace, workspace', TabIds(workspace) \ {t})
        BY <1>2, <1>4, <3>2 DEF MovedAs
      <4> HIDE DEF t
      <4> QED BY <4>2, <4>3 DEF Keeps, RunTabsStay
    <3> QED BY <3>1, <3>2
  <2> QED BY <1>4, <1>5, <2>1, <2>2, <2>3, WorkspaceMoves
<1> QED BY <1>6, <1>7

\* Tabs that are not busy are closed (closeTabsWithCleanup).
LEMMA ConfirmCloseKeeps ==
  ASSUME WorkbenchInv, ConfirmClose
  PROVE  WorkbenchInv'
<1>1. PICK dialog \in closing :
        LET ids == {t \in dialog.tabs : ~IsBusy(t)}
        IN workspace' = TabsClosed(dialog.in, ids) /\ ClearsRuntime(ids)
  BY DEF ConfirmClose
<1> DEFINE ids == {t \in dialog.tabs : ~IsBusy(t)}
<1>2. workspace' = TabsClosed(dialog.in, ids) /\ ClearsRuntime(ids) BY <1>1
<1>3. Sound(dialog.in) /\ dialog.in.tabs = workspace.tabs
  BY SoundIsWellFormed DEF WorkbenchInv, DialogTrue
<1> HIDE DEF ids
<1>4. Sound(workspace') /\ Keeps(dialog.in, workspace', TabIds(dialog.in) \ ids)
  BY <1>2, <1>3, TabsClosedSound
<1>5. RunTabsStayBut(workspace, workspace', ids) BY <1>3, <1>4, SameTabs DEF Keeps, RunTabsStayBut
<1>6. DialogTrue' BY DEF ConfirmClose, DialogTrue
<1>7. /\ UNCHANGED <<compiling, events, answers, hasty>>
      /\ available' \subseteq Accounts /\ tabCounter' \in Nat
  BY DEF ConfirmClose, WorkbenchInv
<1> QED BY <1>2, <1>4, <1>5, <1>6, <1>7, WorkspaceLeaves

----------------
(* Runs *)

\* A workspace in which something was recorded: the tabs are the same.
LEMMA TabsStay ==
  ASSUME WorkbenchInv, closing' = closing, Sound(workspace'),
         workspace'.tabs = workspace.tabs, workspace'.active = workspace.active
  PROVE  /\ WellFormed(workspace') /\ DialogTrue'
         /\ \A t, account : TabIsCurrent(t, account)' <=> TabIsCurrent(t, account)
BY SoundIsWellFormed, SameTabs DEF WorkbenchInv, DialogTrue, TabIsCurrent

\* A run starts in a tab, wherever that is now (Starts).
LEMMA StartsKeeps ==
  ASSUME WorkbenchInv,
         NEW c, c.tab \in AllTabs, c.tab[1] \in RunKinds, c.account \in Accounts, c.item \in Items,
         Starts(c), CommandsTyped', UNCHANGED <<tabCounter, available, closing, events, answers>>
  PROVE  WorkbenchInv'
<1> DEFINE n == Len(runs) + 1
<1> DEFINE new == [tab |-> c.tab, account |-> c.account, rows |-> 0, cancelled |-> FALSE, over |-> FALSE]
<1>0. /\ runs \in Seq(RunRecords) /\ DOMAIN runs = 1..Len(runs) /\ Len(runs) \in Nat
  BY RunFields DEF WorkbenchInv, RunsTyped, RunRecords
<1>1. new \in RunRecords BY WorkbenchAssumption DEF RunRecords
<1>2. /\ runs' \in Seq(RunRecords) /\ DOMAIN runs' = DOMAIN runs \cup {n} /\ n \notin DOMAIN runs
      /\ runs'[n] = new /\ \A r \in DOMAIN runs : runs'[r] = runs[r]
  <2>1. runs' = Append(runs, new) BY DEF Starts
  <2> HIDE DEF new
  <2>2. runs' \in Seq(RunRecords) /\ Len(runs') = Len(runs) + 1 /\ DOMAIN runs' = 1..(Len(runs) + 1)
        /\ runs'[n] = new /\ \A r \in 1..Len(runs) : runs'[r] = runs[r]
    BY <1>0, <1>1, <2>1
  <2> QED BY <1>0, <2>2
<1>3. /\ DOMAIN activeRuns' = DOMAIN activeRuns \cup {c.tab} /\ activeRuns'[c.tab] = n
      /\ \A t \in DOMAIN activeRuns \ {c.tab} : activeRuns'[t] = activeRuns[t]
  <2>1. activeRuns' = With(activeRuns, c.tab, n) BY DEF Starts
  <2> HIDE DEF n
  <2> QED BY <2>1 DEF With
<1>4. /\ DOMAIN results' = DOMAIN results \ {c.tab}
      /\ \A t \in DOMAIN results \ {c.tab} : results'[t] = results[t]
  BY WithoutOnly DEF Starts
<1>5. hasty' = hasty \cup {q \in DOMAIN runs : Running(c.tab, q)}
                     \cup {q \in {n} : ~TabIsCurrent(c.tab, c.account)}
  BY DEF Starts
<1>6. /\ WellFormed(workspace') /\ DialogTrue'
      /\ \A t, account : TabIsCurrent(t, account)' <=> TabIsCurrent(t, account)
  <2>1. Sound(workspace) BY WhenUsed
  <2>2. workspace' = Recorded(workspace, c.tab, c.item) BY DEF Starts
  <2>3. RecordedAs(workspace, workspace', c.tab, c.item) BY <2>1, <2>2, RecordedSound
  <2> QED BY <2>3, TabsStay DEF RecordedAs
<1> HIDE DEF n
<1>7. RunsTyped' BY <1>2, <1>5 DEF WorkbenchInv, RunsTyped, RunRecords
<1>8. ActiveOwned' BY <1>2, <1>3 DEF WorkbenchInv, ActiveOwned
<1>9. MessagesTrue'
  <2>0. \A i \in DOMAIN events : events[i] \in [run : DOMAIN runs, type : {"row", "end"}]
    BY EventsTyped DEF WorkbenchInv
  <2>1. events' \in Seq([run : DOMAIN runs', type : {"row", "end"}])
    <3> DEFINE D == [run : DOMAIN runs, type : {"row", "end"}]
    <3> DEFINE E == [run : DOMAIN runs', type : {"row", "end"}]
    <3>1. events' \in Seq(D) BY DEF WorkbenchInv, MessagesTrue
    <3>2. D \subseteq E BY <1>2
    <3> HIDE DEF D, E
    <3>3. events' \in Seq(E) BY <3>1, <3>2, SeqMonotonic
    <3> QED BY <3>3 DEF E
  <2>2. answers' \subseteq [run : DOMAIN runs', rejected : BOOLEAN]
    BY <1>2 DEF WorkbenchInv, MessagesTrue
  <2> QED BY <1>2, <2>0, <2>1, <2>2 DEF WorkbenchInv, MessagesTrue
<1>10. RowsGiven'
  <2>1. \A r : RowsComing(r)' = RowsComing(r) BY DEF RowsComing
  <2>2. ASSUME NEW r \in DOMAIN runs', runs'[r].tab \in DOMAIN activeRuns', activeRuns'[runs'[r].tab] = r
        PROVE  (RowsOf(runs[r].tab) + Cardinality(RowsComing(r)) <= runs[r].rows)'
    <3>1. CASE r = n
      <4>1. runs'[r].tab = c.tab /\ runs'[r].rows = 0 BY <1>2, <3>1
      <4>2. RowsOf(runs[r].tab)' = 0 BY <1>4, <4>1 DEF RowsOf
      <4>3. RowsComing(r) = {} BY <1>2, <3>1, EventsTyped DEF WorkbenchInv, RowsComing
      <4> QED BY <2>1, <4>1, <4>2, <4>3, FS_EmptySet
    <3>2. CASE r # n
      BY <1>2, <1>3, <1>4, <2>1, <2>2, <3>2 DEF Running, IsBusy, RowsOf, WorkbenchInv, RowsGiven
    <3> QED BY <3>1, <3>2
  <2> QED BY <2>2 DEF RowsGiven, Running, IsBusy
<1>11. ResultsTrue'
  <2>1. ASSUME NEW t \in DOMAIN results' PROVE t \in AllTabs /\ ResultTrue(t)'
    <3>1. t \in DOMAIN results /\ t # c.tab /\ results'[t] = results[t] BY <1>4
    <3>2. t \in AllTabs /\ ResultTrue(t) BY <3>1 DEF WorkbenchInv, ResultsTrue
    <3>3. IsBusy(t)' => IsBusy(t) /\ activeRuns'[t] = activeRuns[t] BY <1>3, <3>1 DEF IsBusy
    <3>4. results[t].run \in DOMAIN runs /\ runs'[results[t].run] = runs[results[t].run]
      BY <1>2, <3>2 DEF ResultTrue
    <3>5. results'[t] \in [run : DOMAIN runs', rows : 0..MaxRows, whole : BOOLEAN]
      BY <1>2, <3>1, <3>2 DEF ResultTrue
    <3> QED BY <1>6, <3>1, <3>2, <3>3, <3>4, <3>5 DEF ResultTrue, TabIsCurrent
  <2> QED BY <2>1 DEF ResultsTrue
<1>12. NoRunUnattended'
  <2>1. ASSUME NEW r \in DOMAIN runs', ~runs'[r].over, ~runs'[r].cancelled, r \notin hasty'
        PROVE  IsShown(r)'
    <3>1. CASE r = n
      <4>1. runs'[r].tab = c.tab /\ runs'[r].account = c.account BY <1>2, <3>1
      <4>2. TabIsCurrent(c.tab, c.account) BY <1>5, <2>1, <3>1
      <4>3. c.tab \in TabIds(workspace') /\ PlaceOf(workspace', c.tab).account = c.account
        BY <1>6, <4>2 DEF TabIsCurrent
      <4> QED BY <1>3, <3>1, <4>1, <4>3 DEF IsShown, Running, IsBusy, TabIsCurrent
    <3>2. CASE r # n
      <4>1. r \in DOMAIN runs /\ runs'[r] = runs[r] BY <1>2, <3>2
      <4>2. IsShown(r) BY <1>5, <2>1, <4>1 DEF WorkbenchInv, NoRunUnattended
      <4>3. runs[r].tab # c.tab BY <1>5, <2>1, <4>1, <4>2 DEF IsShown
      <4>4. runs[r].tab \in DOMAIN activeRuns' /\ activeRuns'[runs[r].tab] = r
        BY <1>3, <4>2, <4>3 DEF IsShown, Running, IsBusy
      <4>5. TabIsCurrent(runs[r].tab, runs[r].account) BY <4>2 DEF IsShown
      <4>6. /\ runs[r].tab \in TabIds(workspace')
            /\ PlaceOf(workspace', runs[r].tab).account = runs[r].account
        BY <1>6, <4>5 DEF TabIsCurrent
      <4> QED BY <4>1, <4>4, <4>6 DEF IsShown, Running, IsBusy, TabIsCurrent
    <3> QED BY <3>1, <3>2
  <2> QED BY <2>1 DEF NoRunUnattended
<1>13. available' \subseteq Accounts /\ tabCounter' \in Nat BY DEF WorkbenchInv
<1> QED BY <1>6, <1>7, <1>8, <1>9, <1>10, <1>11, <1>12, <1>13 DEF WorkbenchInv

\* Nothing changes in the shell: what its tabs look at is the same.
LEMMA ShellStays ==
  ASSUME WorkbenchInv, UNCHANGED <<workspace, closing, available, tabCounter>>
  PROVE  /\ WellFormed(workspace') /\ DialogTrue' /\ available' \subseteq Accounts /\ tabCounter' \in Nat
         /\ \A t, account : TabIsCurrent(t, account)' <=> TabIsCurrent(t, account)
BY DEF WorkbenchInv, DialogTrue, TabIsCurrent

\* What a tab shows of its active run, and what is still to come of it.
LEMMA RowsOfActive ==
  ASSUME WorkbenchInv, NEW t \in DOMAIN activeRuns
  PROVE  LET r == activeRuns[t]
         IN /\ r \in DOMAIN runs /\ runs[r].tab = t /\ t \in AllTabs
            /\ RowsOf(t) \in 0..MaxRows /\ runs[r].rows \in 0..MaxRows
            /\ Cardinality(RowsComing(r)) \in Nat
            /\ RowsOf(t) + Cardinality(RowsComing(r)) <= runs[r].rows
            /\ RowsOf(t) > 0 => TabIsCurrent(t, runs[r].account)
<1> DEFINE r == activeRuns[t]
<1>1. r \in DOMAIN runs /\ runs[r].tab = t /\ t \in AllTabs BY DEF WorkbenchInv, ActiveOwned
<1>2. runs[r].rows \in 0..MaxRows BY <1>1, RunFields DEF WorkbenchInv
<1>3. IsFiniteSet(RowsComing(r))
  <2>1. DOMAIN events = 1..Len(events) /\ Len(events) \in Nat BY EventsTyped DEF WorkbenchInv
  <2>2. IsFiniteSet(DOMAIN events) BY <2>1, FS_Interval
  <2>3. RowsComing(r) \subseteq DOMAIN events BY DEF RowsComing
  <2> QED BY <2>2, <2>3, FS_Subset
<1>4. Cardinality(RowsComing(r)) \in Nat BY <1>3, FS_CardinalityType
<1>5. Running(t, r) BY DEF Running, IsBusy
<1>6. RowsOf(t) + Cardinality(RowsComing(r)) <= runs[r].rows
  BY <1>1, <1>5 DEF WorkbenchInv, RowsGiven
<1>7. CASE t \in DOMAIN results
  BY <1>1, <1>2, <1>4, <1>6, <1>7 DEF WorkbenchInv, ResultsTrue, ResultTrue, IsBusy, RowsOf
<1>8. CASE t \notin DOMAIN results BY <1>1, <1>2, <1>4, <1>6, <1>8, WorkbenchAssumption DEF RowsOf
<1> QED BY <1>7, <1>8

\* No run is cancelled.
LEMMA SameRuns ==
  ASSUME RunsTyped, runs' = runs, hasty' = hasty
  PROVE  RunsTyped' /\ RunsCancelled({})
BY RunFields DEF RunsTyped, RunsCancelled

\* A run that is shown is through (fdqlRunFinished, firestoreSqlRunFinished).
LEMMA FinishesKeeps ==
  ASSUME WorkbenchInv, UNCHANGED <<workspace, closing, available, tabCounter, compiling>>,
         NEW t \in DOMAIN activeRuns, NEW r, r = activeRuns[t], NEW given, Finishes(t, given),
         given \in [run : {r}, rows : 0..MaxRows, whole : BOOLEAN], given.rows <= runs[r].rows,
         given.whole => runs[r].over /\ given.rows = runs[r].rows,
         given.rows > 0 \/ given.whole => TabIsCurrent(t, runs[r].account),
         NEW ids, RunsTyped', RunsCancelled(ids), hasty' = hasty, runs[r].over \/ t \in ids, ids \subseteq {t},
         MessagesTrue', \A q \in DOMAIN runs :
           /\ Cardinality(RowsComing(q)) \in Nat /\ Cardinality(RowsComing(q))' \in Nat
           /\ Cardinality(RowsComing(q))' <= Cardinality(RowsComing(q))
  PROVE  WorkbenchInv'
<1>1. /\ DOMAIN activeRuns' = DOMAIN activeRuns \ {t}
      /\ \A u \in DOMAIN activeRuns \ {t} : activeRuns'[u] = activeRuns[u]
  BY WithoutOnly DEF Finishes
<1>2. /\ DOMAIN results' = DOMAIN results \cup {t} /\ results'[t] = given
      /\ \A u \in DOMAIN results \ {t} : results'[u] = results[u]
  BY DEF Finishes, With
<1>3. r \in DOMAIN runs /\ runs[r].tab = t /\ t \in AllTabs BY RowsOfActive
<1>4. DOMAIN runs' = DOMAIN runs BY DEF RunsCancelled
<1>5. CommandsTyped' BY DEF WorkbenchInv, CommandsTyped
<1>6. ActiveOwned' BY <1>1 DEF WorkbenchInv, ActiveOwned, RunsCancelled
<1>7. RowsGiven'
  <2>1. ASSUME NEW q \in DOMAIN runs', runs'[q].tab \in DOMAIN activeRuns', activeRuns'[runs'[q].tab] = q
        PROVE  (RowsOf(runs[q].tab) + Cardinality(RowsComing(q)) <= runs[q].rows)'
    <3> DEFINE u == runs[q].tab
    <3>1. q \in DOMAIN runs /\ runs'[q].tab = u /\ runs'[q].rows = runs[q].rows
      BY <1>4 DEF RunsCancelled
    <3>2. u # t /\ u \in DOMAIN activeRuns /\ activeRuns[u] = q BY <1>1, <2>1, <3>1
    <3>3. RowsOf(runs[q].tab)' = RowsOf(u) BY <1>2, <3>1, <3>2 DEF RowsOf
    <3> HIDE DEF u
    <3>4. RowsOf(u) \in 0..MaxRows /\ RowsOf(u) + Cardinality(RowsComing(q)) <= runs[q].rows
          /\ runs[q].rows \in 0..MaxRows
      BY <3>2, RowsOfActive
    <3>5. \A a \in 0..MaxRows, b, c, d \in Nat : a + b <= d /\ c <= b => a + c <= d OBVIOUS
    <3>6. runs[q].rows \in Nat BY <3>4
    <3>7. RowsOf(u) + Cardinality(RowsComing(q))' <= runs[q].rows BY <3>1, <3>4, <3>5, <3>6
    <3> QED BY <3>1, <3>3, <3>7
  <2> QED BY <2>1 DEF RowsGiven, Running, IsBusy
<1>8. ResultsTrue'
  <2>1. ASSUME NEW u \in DOMAIN results' PROVE u \in AllTabs /\ ResultTrue(u)'
    <3>1. CASE u = t
      BY <1>1, <1>2, <1>3, <1>4, <3>1 DEF RunsCancelled, TabIsCurrent, ResultTrue, IsBusy
    <3>2. CASE u # t
      <4>1. u \in DOMAIN results /\ results'[u] = results[u] BY <1>2, <3>2
      <4>2. u \in AllTabs /\ ResultTrue(u) BY <4>1 DEF WorkbenchInv, ResultsTrue
      <4> DEFINE q == results[u].run
      <4>3. /\ q \in DOMAIN runs /\ runs[q].tab = u
            /\ runs'[q].tab = u /\ runs'[q].account = runs[q].account
            /\ runs'[q].rows = runs[q].rows /\ runs'[q].over = runs[q].over
        BY <4>2 DEF ResultTrue, RunsCancelled
      <4>4. IsBusy(u)' => IsBusy(u) /\ activeRuns'[u] = activeRuns[u] BY <1>1 DEF IsBusy
      <4>5. results'[u] \in [run : DOMAIN runs', rows : 0..MaxRows, whole : BOOLEAN]
        BY <1>4, <4>1, <4>2 DEF ResultTrue
      <4> QED BY <4>1, <4>2, <4>3, <4>4, <4>5 DEF ResultTrue, TabIsCurrent
    <3> QED BY <3>1, <3>2
  <2> QED BY <2>1 DEF ResultsTrue
<1>9. NoRunUnattended'
  <2>1. ASSUME NEW q \in DOMAIN runs', ~runs'[q].over, ~runs'[q].cancelled, q \notin hasty'
        PROVE  IsShown(q)'
    <3>1. /\ q \in DOMAIN runs /\ runs'[q].tab = runs[q].tab /\ runs'[q].account = runs[q].account
          /\ ~runs[q].over /\ ~runs[q].cancelled /\ ~(Running(runs[q].tab, q) /\ runs[q].tab \in ids)
      BY <1>4, <2>1 DEF RunsCancelled
    <3>2. IsShown(q) BY <2>1, <3>1 DEF WorkbenchInv, NoRunUnattended
    <3>3. runs[q].tab # t BY <3>1, <3>2 DEF IsShown, Running
    <3> QED BY <1>1, <3>1, <3>2, <3>3 DEF IsShown, Running, IsBusy, TabIsCurrent
  <2> QED BY <2>1 DEF NoRunUnattended
<1> QED BY <1>5, <1>6, <1>7, <1>8, <1>9, ShellStays DEF WorkbenchInv

\* What a command remembers of the active tab is typed.
LEMMA ForActiveTyped ==
  ASSUME WorkbenchInv, Active # NoTab, ActivePlace.kind \in RunKinds
  PROVE  /\ ForActive \in [tab : AllTabs, account : Accounts, item : Items]
         /\ ForActive.tab = Active /\ ForActive.tab[1] \in RunKinds
BY WhenUsed, PlaceTyped, PlaceMoved, TabsStateFields DEF ActivePlace, Sound, ForActive

\* A SQL run starts at once (runFirestoreSqlCommand).
LEMMA RunSqlTabKeeps ==
  ASSUME WorkbenchInv, RunSqlTab
  PROVE  WorkbenchInv'
<1>1. Active # NoTab /\ ActivePlace.kind \in RunKinds BY DEF RunSqlTab, RunKinds
<1>2. ForActive \in [tab : AllTabs, account : Accounts, item : Items] /\ ForActive.tab[1] \in RunKinds
  BY <1>1, ForActiveTyped
<1> DEFINE c == ForActive
<1>3. Starts(c) /\ UNCHANGED <<tabCounter, available, closing, events, answers>> BY DEF RunSqlTab
<1>4. CommandsTyped' BY DEF RunSqlTab, WorkbenchInv, CommandsTyped
<1>5. c.tab \in AllTabs /\ c.tab[1] \in RunKinds /\ c.account \in Accounts /\ c.item \in Items
  BY <1>2
<1> HIDE DEF c
<1> QED BY <1>3, <1>4, <1>5, StartsKeeps

\* The commands that wait, without the first.
LEMMA OneCommandLess ==
  ASSUME WorkbenchInv, compiling # <<>>, compiling' = Tail(compiling)
  PROVE  /\ CommandsTyped'
         /\ LET c == Head(compiling)
            IN c.tab \in AllTabs /\ c.tab[1] \in RunKinds /\ c.account \in Accounts /\ c.item \in Items
<1> DEFINE C == [tab : AllTabs, account : Accounts, item : Items]
<1>1. compiling \in Seq(C) /\ \A i \in DOMAIN compiling : compiling[i].tab[1] \in RunKinds
  BY DEF WorkbenchInv, CommandsTyped
<1> DEFINE c == Head(compiling)
<1>2. c \in C => c.tab \in AllTabs /\ c.account \in Accounts /\ c.item \in Items OBVIOUS
<1> HIDE DEF C
<1>3. /\ Tail(compiling) \in Seq(C) /\ c \in C /\ c = compiling[1] /\ 1 \in DOMAIN compiling
      /\ \A i \in DOMAIN Tail(compiling) :
           i + 1 \in DOMAIN compiling /\ Tail(compiling)[i] = compiling[i + 1]
  BY <1>1
<1>4. c.tab[1] \in RunKinds BY <1>1, <1>3
<1>5. \A i \in DOMAIN compiling' : compiling'[i].tab[1] \in RunKinds BY <1>1, <1>3
<1> QED BY <1>2, <1>3, <1>4, <1>5 DEF CommandsTyped, C

\* A compilation is answered (runFdqlCommand).
LEMMA CompiledKeeps ==
  ASSUME WorkbenchInv, Compiled \/ NotCompiled
  PROVE  WorkbenchInv'
<1>1. compiling # <<>> /\ compiling' = Tail(compiling) BY DEF Compiled, NotCompiled
<1> DEFINE c == Head(compiling)
<1>2. /\ CommandsTyped'
      /\ c.tab \in AllTabs /\ c.tab[1] \in RunKinds /\ c.account \in Accounts /\ c.item \in Items
  BY <1>1, OneCommandLess
<1>3. CASE Compiled
  <2>1. Starts(c) /\ UNCHANGED <<tabCounter, available, closing, events, answers>>
    BY <1>3 DEF Compiled
  <2> HIDE DEF c
  <2> QED BY <1>2, <2>1, StartsKeeps
<1>4. CASE NotCompiled
  <2>1. UNCHANGED <<workspace, tabCounter, available, closing, activeRuns, results, runs,
                    events, answers, hasty>>
    BY <1>4 DEF NotCompiled
  <2>2. RunsTyped' /\ ActiveOwned' /\ ResultsTrue' /\ MessagesTrue' /\ RowsGiven' /\ NoRunUnattended'
    BY <2>1 DEF WorkbenchInv, RunsTyped, ActiveOwned, ResultsTrue, ResultTrue, TabIsCurrent, IsBusy,
                MessagesTrue, RowsGiven, Running, RowsOf, RowsComing, NoRunUnattended, IsShown
  <2> QED BY <1>2, <2>1, <2>2, ShellStays DEF WorkbenchInv
<1> QED BY <1>3, <1>4, <1>1

\* An FDQL command starts to compile; the tab it is for has no run (runFdqlCommand).
LEMMA RunFdqlKeeps ==
  ASSUME WorkbenchInv, RunFdql
  PROVE  WorkbenchInv'
<1>1. Active # NoTab /\ ActivePlace.kind \in RunKinds /\ ~IsBusy(Active) BY DEF RunFdql, RunKinds
<1>2. ForActive \in [tab : AllTabs, account : Accounts, item : Items] /\ ForActive.tab[1] \in RunKinds
  BY <1>1, ForActiveTyped
<1>3. UNCHANGED <<workspace, tabCounter, available, closing, activeRuns, runs, events, answers, hasty>>
  BY DEF RunFdql
<1>4. CommandsTyped'
  <2> DEFINE c == ForActive
  <2> DEFINE C == [tab : AllTabs, account : Accounts, item : Items]
  <2>1. compiling \in Seq(C) /\ \A i \in DOMAIN compiling : compiling[i].tab[1] \in RunKinds
    BY DEF WorkbenchInv, CommandsTyped
  <2>2. compiling' = Append(compiling, c) BY DEF RunFdql
  <2>3. c \in C /\ c.tab[1] \in RunKinds BY <1>2
  <2> HIDE DEF C, c
  <2>4. /\ compiling' \in Seq(C) /\ DOMAIN compiling' = 1..(Len(compiling) + 1)
        /\ compiling'[Len(compiling) + 1] = c /\ Len(compiling) \in Nat
        /\ DOMAIN compiling = 1..Len(compiling)
        /\ \A i \in 1..Len(compiling) : compiling'[i] = compiling[i]
    BY <2>1, <2>2, <2>3
  <2>5. \A i \in DOMAIN compiling' : compiling'[i].tab[1] \in RunKinds BY <2>1, <2>3, <2>4
  <2> QED BY <2>4, <2>5 DEF CommandsTyped, C
<1>5. /\ DOMAIN results' = DOMAIN results \ {Active}
      /\ \A t \in DOMAIN results \ {Active} : results'[t] = results[t]
  BY WithoutOnly DEF RunFdql
<1>6. RunsTyped' /\ ActiveOwned' /\ MessagesTrue' /\ NoRunUnattended'
  BY <1>3 DEF WorkbenchInv, RunsTyped, ActiveOwned, TabIsCurrent, IsBusy,
              MessagesTrue, Running, NoRunUnattended, IsShown
<1>7. ResultsTrue' BY <1>3, <1>5 DEF WorkbenchInv, ResultsTrue, ResultTrue, TabIsCurrent, IsBusy
<1>8. RowsGiven'
  <2>1. ASSUME NEW r \in DOMAIN runs, Running(runs[r].tab, r)
        PROVE  RowsOf(runs[r].tab)' = RowsOf(runs[r].tab)
    <3>1. runs[r].tab # Active BY <1>1, <2>1 DEF Running
    <3> QED BY <1>3, <1>5, <3>1 DEF RowsOf
  <2>2. \A r : RowsComing(r)' = RowsComing(r) BY <1>3 DEF RowsComing
  <2> QED BY <1>3, <2>1, <2>2 DEF WorkbenchInv, RowsGiven, Running, IsBusy
<1> QED BY <1>3, <1>4, <1>6, <1>7, <1>8, ShellStays DEF WorkbenchInv

\* The rows on their way are finitely many.
LEMMA ComingFinite ==
  ASSUME WorkbenchInv
  PROVE  \A r : IsFiniteSet(RowsComing(r)) /\ Cardinality(RowsComing(r)) \in Nat
<1>1. DOMAIN events = 1..Len(events) /\ Len(events) \in Nat BY EventsTyped DEF WorkbenchInv
<1>2. IsFiniteSet(DOMAIN events) BY <1>1, FS_Interval
<1>3. \A r : RowsComing(r) \subseteq DOMAIN events BY DEF RowsComing
<1>4. \A r : IsFiniteSet(RowsComing(r)) BY <1>2, <1>3, FS_Subset
<1> QED BY <1>4, FS_CardinalityType

\* The user cancels the run of the active tab (cancelFdqlCommand, cancelFirestoreSqlCommand).
LEMMA CancelActiveKeeps ==
  ASSUME WorkbenchInv, CancelActive
  PROVE  WorkbenchInv'
<1> DEFINE t == Active
<1> DEFINE r == activeRuns[t]
<1> DEFINE given == [run |-> r, rows |-> RowsOf(t), whole |-> FALSE]
<1>1. /\ t \in DOMAIN activeRuns /\ Cancels({t}) /\ Finishes(t, given)
      /\ UNCHANGED <<workspace, tabCounter, available, closing, compiling, events, answers, hasty>>
  BY DEF CancelActive, IsBusy
<1> HIDE DEF t
<1>2. /\ r \in DOMAIN runs /\ RowsOf(t) \in 0..MaxRows /\ RowsOf(t) <= runs[r].rows
      /\ RowsOf(t) > 0 => TabIsCurrent(t, runs[r].account)
  BY <1>1, RowsOfActive
<1>3. RunsTyped' /\ RunsCancelled({t}) BY <1>1, CancelsOnly DEF WorkbenchInv
<1>4. MessagesTrue' BY <1>1, <1>3, MessagesStay DEF WorkbenchInv
<1>5. \A q \in DOMAIN runs :
        /\ Cardinality(RowsComing(q)) \in Nat /\ Cardinality(RowsComing(q))' \in Nat
        /\ Cardinality(RowsComing(q))' <= Cardinality(RowsComing(q))
  BY <1>1, ComingFinite DEF RowsComing
<1>6. /\ given \in [run : {r}, rows : 0..MaxRows, whole : BOOLEAN] /\ given.rows <= runs[r].rows
      /\ given.whole => runs[r].over /\ given.rows = runs[r].rows
      /\ given.rows > 0 \/ given.whole => TabIsCurrent(t, runs[r].account)
  BY <1>2
<1> HIDE DEF r, given
<1>7. r = activeRuns[t] BY DEF r
<1> QED BY <1>1, <1>3, <1>4, <1>5, <1>6, <1>7, FinishesKeeps

----------------
(* What the main process says, and what is heard of it *)

\* One more event on its way: of its run, one more row if it is one.
LEMMA OneEventMore ==
  ASSUME MessagesTrue, NEW e \in [run : DOMAIN runs, type : {"row", "end"}],
         events' = Append(events, e)
  PROVE  /\ events' \in Seq([run : DOMAIN runs, type : {"row", "end"}])
         /\ DOMAIN events' = 1..(Len(events) + 1) /\ DOMAIN events = 1..Len(events) /\ Len(events) \in Nat
         /\ events'[Len(events) + 1] = e /\ \A i \in 1..Len(events) : events'[i] = events[i]
         /\ \A r : RowsComing(r)' = IF e = [run |-> r, type |-> "row"]
                                    THEN RowsComing(r) \cup {Len(events) + 1} ELSE RowsComing(r)
<1> DEFINE E == [run : DOMAIN runs, type : {"row", "end"}]
<1>1. events \in Seq(E) /\ e \in E BY DEF MessagesTrue
<1> HIDE DEF E
<1>2. /\ events' \in Seq(E) /\ DOMAIN events' = 1..(Len(events) + 1) /\ DOMAIN events = 1..Len(events)
      /\ Len(events) \in Nat
      /\ events'[Len(events) + 1] = e /\ \A i \in 1..Len(events) : events'[i] = events[i]
  BY <1>1
<1>3. \A r : RowsComing(r)' = IF e = [run |-> r, type |-> "row"]
                              THEN RowsComing(r) \cup {Len(events) + 1} ELSE RowsComing(r)
  <2> DEFINE n == Len(events) + 1
  <2>1. DOMAIN events' = DOMAIN events \cup {n} /\ n \notin DOMAIN events BY <1>2
  <2>2. events'[n] = e /\ \A i \in DOMAIN events : events'[i] = events[i] BY <1>2
  <2> HIDE DEF n
  <2>3. ASSUME NEW r
        PROVE  RowsComing(r)' = IF e = [run |-> r, type |-> "row"] THEN RowsComing(r) \cup {n} ELSE RowsComing(r)
    BY <2>1, <2>2 DEF RowsComing
  <2> QED BY <2>3 DEF n
<1> QED BY <1>2, <1>3 DEF E

\* A run gives a row, or ends; what is shown stays as it is (env.run of the main process).
LEMMA GivesKeeps ==
  ASSUME WorkbenchInv, NEW r \in DOMAIN runs, GiveRow(r) \/ \E rejected \in BOOLEAN : EndRun(r, rejected)
  PROVE  WorkbenchInv'
<1>0. /\ ~runs[r].over /\ \A q : Cardinality(RowsComing(q)) \in Nat
      /\ UNCHANGED <<workspace, tabCounter, available, closing, compiling, activeRuns, results, hasty>>
  BY ComingFinite DEF GiveRow, EndRun
<1>1. /\ DOMAIN runs = 1..Len(runs) /\ Len(runs) \in Nat
      /\ \A q \in DOMAIN runs : runs[q] \in RunRecords /\ runs[q].rows \in 0..MaxRows
  BY RunFields DEF WorkbenchInv
<1>2. /\ RunsTyped' /\ DOMAIN runs' = DOMAIN runs
      /\ \A q \in DOMAIN runs :
           /\ runs'[q].tab = runs[q].tab /\ runs'[q].account = runs[q].account
           /\ runs'[q].cancelled = runs[q].cancelled
           /\ runs[q].over => runs'[q].over /\ runs'[q].rows = runs[q].rows
      /\ \A q \in DOMAIN runs \ {r} : runs'[q] = runs[q]
      /\ GiveRow(r) => runs'[r].rows = runs[r].rows + 1
      /\ ~GiveRow(r) => runs'[r].rows = runs[r].rows /\ runs'[r].over
  <2>0. PICK run \in RunRecords :
          /\ runs' = [runs EXCEPT ![r] = run] /\ run.tab = runs[r].tab /\ run.account = runs[r].account
          /\ run.cancelled = runs[r].cancelled
          /\ GiveRow(r) => run.rows = runs[r].rows + 1
          /\ ~GiveRow(r) => run.rows = runs[r].rows /\ run.over
    <3>1. CASE GiveRow(r)
      <4> DEFINE run == [runs[r] EXCEPT !.rows = @ + 1]
      <4>1. runs' = [runs EXCEPT ![r] = run] BY <3>1 DEF GiveRow
      <4>2. runs[r].rows < MaxRows BY <3>1 DEF GiveRow
      <4>3. runs[r].rows + 1 \in 0..MaxRows BY <1>1, <4>2, WorkbenchAssumption
      <4>4. runs[r] \in RunRecords BY <1>1
      <4>5. run \in RunRecords /\ run.tab = runs[r].tab /\ run.account = runs[r].account
            /\ run.cancelled = runs[r].cancelled /\ run.rows = runs[r].rows + 1
        BY <4>3, <4>4 DEF RunRecords
      <4> HIDE DEF run
      <4> QED BY <3>1, <4>1, <4>5
    <3>2. CASE ~GiveRow(r)
      <4> DEFINE run == [runs[r] EXCEPT !.over = TRUE]
      <4>1. runs' = [runs EXCEPT ![r] = run] BY <3>2 DEF EndRun
      <4>2. runs[r] \in RunRecords BY <1>1
      <4>3. run \in RunRecords /\ run.tab = runs[r].tab /\ run.account = runs[r].account
            /\ run.cancelled = runs[r].cancelled /\ run.rows = runs[r].rows /\ run.over
        BY <4>2 DEF RunRecords
      <4> HIDE DEF run
      <4> QED BY <3>2, <4>1, <4>3
    <3> QED BY <3>1, <3>2
  <2>1. DOMAIN runs' = DOMAIN runs /\ runs'[r] = run /\ \A q \in DOMAIN runs \ {r} : runs'[q] = runs[q]
    BY <2>0
  <2>2. runs' \in Seq(RunRecords) BY <1>1, <2>0, ExceptSeq DEF WorkbenchInv, RunsTyped, RunRecords
  <2>3. \A q \in DOMAIN runs' : runs'[q].tab[1] \in RunKinds
    BY <2>0, <2>1 DEF WorkbenchInv, RunsTyped
  <2>4. RunsTyped' BY <1>0, <2>1, <2>2, <2>3 DEF WorkbenchInv, RunsTyped, RunRecords
  <2> QED BY <1>0, <2>0, <2>1, <2>4
<1>3. /\ MessagesTrue'
      /\ \A q \in DOMAIN runs : (q = r /\ GiveRow(r)) \/ RowsComing(q)' = RowsComing(q)
      /\ GiveRow(r) => Cardinality(RowsComing(r))' = Cardinality(RowsComing(r)) + 1
  <2>0. MessagesTrue BY DEF WorkbenchInv
  <2>1. CASE events' = events /\ ~GiveRow(r)
    <3>1. \A q : RowsComing(q)' = RowsComing(q) BY <2>1 DEF RowsComing
    <3>2. /\ answers' \subseteq [run : DOMAIN runs, rejected : BOOLEAN]
          /\ \A a \in answers' : runs'[a.run].over
      <4>1. PICK rejected \in BOOLEAN : EndRun(r, rejected) BY <2>1
      <4>2. answers' = answers \cup {[run |-> r, rejected |-> rejected]} BY <4>1 DEF EndRun
      <4>3. \A a \in answers : a.run \in DOMAIN runs /\ runs[a.run].over BY <2>0 DEF MessagesTrue
      <4> QED BY <1>2, <2>0, <2>1, <4>2, <4>3 DEF MessagesTrue
    <3>3. \A i \in DOMAIN events' : events'[i].type = "end" => runs'[events'[i].run].over
      BY <1>2, <2>0, <2>1, EventsTyped DEF MessagesTrue
    <3>4. events' \in Seq([run : DOMAIN runs', type : {"row", "end"}]) BY <1>2, <2>0, <2>1 DEF MessagesTrue
    <3> QED BY <1>2, <2>1, <3>1, <3>2, <3>3, <3>4 DEF MessagesTrue
  <2>2. CASE ~(events' = events /\ ~GiveRow(r))
    <3>1. PICK e \in [run : {r}, type : {"row", "end"}] :
            events' = Append(events, e) /\ (e.type = "row" <=> GiveRow(r))
      BY <2>2 DEF GiveRow, EndRun
    <3>2. e \in [run : DOMAIN runs, type : {"row", "end"}] /\ e.run = r BY <3>1
    <3>3. /\ events' \in Seq([run : DOMAIN runs, type : {"row", "end"}])
          /\ DOMAIN events' = 1..(Len(events) + 1) /\ DOMAIN events = 1..Len(events) /\ Len(events) \in Nat
          /\ events'[Len(events) + 1] = e /\ \A i \in 1..Len(events) : events'[i] = events[i]
          /\ \A q : RowsComing(q)' = IF e = [run |-> q, type |-> "row"]
                                     THEN RowsComing(q) \cup {Len(events) + 1} ELSE RowsComing(q)
      BY <2>0, <3>1, <3>2, OneEventMore
    <3>4. \A q \in DOMAIN runs : (q = r /\ GiveRow(r)) \/ RowsComing(q)' = RowsComing(q)
      BY <3>1, <3>2, <3>3
    <3>5. GiveRow(r) => Cardinality(RowsComing(r))' = Cardinality(RowsComing(r)) + 1
      <4>1. Len(events) + 1 \notin RowsComing(r) BY <3>3 DEF RowsComing
      <4>2. GiveRow(r) => e = [run |-> r, type |-> "row"] BY <3>1
      <4>3. GiveRow(r) => RowsComing(r)' = RowsComing(r) \cup {Len(events) + 1} BY <3>3, <4>2
      <4>4. Cardinality(RowsComing(r) \cup {Len(events) + 1}) = Cardinality(RowsComing(r)) + 1
        BY <4>1, ComingFinite, FS_AddElement
      <4> QED BY <4>3, <4>4
    <3>6. \A i \in DOMAIN events' : events'[i].type = "end" => runs'[events'[i].run].over
      BY <1>2, <2>0, <3>1, <3>2, <3>3, EventsTyped DEF MessagesTrue
    <3>7. /\ answers' \subseteq [run : DOMAIN runs, rejected : BOOLEAN]
          /\ \A a \in answers' : runs'[a.run].over
      <4>1. \A a \in answers : a.run \in DOMAIN runs /\ runs[a.run].over BY <2>0 DEF MessagesTrue
      <4>2. CASE GiveRow(r) BY <1>2, <2>0, <4>1, <4>2 DEF GiveRow, MessagesTrue
      <4>3. CASE ~GiveRow(r)
        <5>1. PICK rejected \in BOOLEAN : EndRun(r, rejected) BY <4>3
        <5>2. answers' = answers \cup {[run |-> r, rejected |-> rejected]} BY <5>1 DEF EndRun
        <5> QED BY <1>2, <2>0, <4>1, <4>3, <5>2 DEF MessagesTrue
      <4> QED BY <4>2, <4>3
    <3>8. MessagesTrue' BY <1>2, <3>3, <3>6, <3>7 DEF MessagesTrue
    <3> QED BY <3>4, <3>5, <3>8
  <2> QED BY <2>1, <2>2
<1>4. CommandsTyped' /\ ActiveOwned' BY <1>0, <1>2 DEF WorkbenchInv, CommandsTyped, ActiveOwned
<1>5. RowsGiven'
  <2>1. ASSUME NEW q \in DOMAIN runs', runs'[q].tab \in DOMAIN activeRuns', activeRuns'[runs'[q].tab] = q
        PROVE  (RowsOf(runs[q].tab) + Cardinality(RowsComing(q)) <= runs[q].rows)'
    <3>1. q \in DOMAIN runs /\ runs'[q].tab = runs[q].tab /\ Running(runs[q].tab, q)
      BY <1>0, <1>2, <2>1 DEF Running, IsBusy
    <3>2. RowsOf(runs[q].tab)' = RowsOf(runs[q].tab) BY <1>0, <3>1 DEF RowsOf
    <3>3. RowsOf(runs[q].tab) + Cardinality(RowsComing(q)) <= runs[q].rows
      BY <3>1 DEF WorkbenchInv, RowsGiven
    <3>4. CASE q = r /\ GiveRow(r)
      <4>1. \A a \in 0..MaxRows, b \in Nat, d \in 0..MaxRows : a + b <= d => a + (b + 1) <= d + 1
        OBVIOUS
      <4>2. RowsOf(runs[q].tab) \in 0..MaxRows BY <3>1, RowsOfActive DEF Running, IsBusy
      <4> QED BY <1>0, <1>1, <1>2, <1>3, <3>2, <3>3, <3>4, <4>1, <4>2
    <3>5. CASE ~(q = r /\ GiveRow(r)) BY <1>2, <1>3, <3>1, <3>2, <3>3, <3>5
    <3> QED BY <3>4, <3>5
  <2> QED BY <2>1 DEF RowsGiven, Running, IsBusy
<1>6. ResultsTrue'
  <2>1. ASSUME NEW t \in DOMAIN results' PROVE t \in AllTabs /\ ResultTrue(t)'
    <3>1. t \in DOMAIN results /\ results'[t] = results[t] BY <1>0
    <3>2. t \in AllTabs /\ ResultTrue(t) BY <3>1 DEF WorkbenchInv, ResultsTrue
    <3> DEFINE q == results[t].run
    <3>3. /\ q \in DOMAIN runs /\ runs[q].tab = t
          /\ runs'[q].tab = t /\ runs'[q].account = runs[q].account
          /\ runs[q].over => runs'[q].over /\ runs'[q].rows = runs[q].rows
      BY <1>2, <3>2 DEF ResultTrue
    <3>4. results'[t].rows <= runs'[q].rows BY <1>1, <1>2, <3>1, <3>2, <3>3 DEF ResultTrue
    <3>5. results'[t] \in [run : DOMAIN runs', rows : 0..MaxRows, whole : BOOLEAN]
      BY <1>2, <3>1, <3>2 DEF ResultTrue
    <3> QED BY <1>0, <3>1, <3>2, <3>3, <3>4, <3>5 DEF ResultTrue, TabIsCurrent, IsBusy
  <2> QED BY <2>1 DEF ResultsTrue
<1>7. NoRunUnattended'
  BY <1>0, <1>2 DEF WorkbenchInv, NoRunUnattended, IsShown, Running, IsBusy, TabIsCurrent
<1> QED BY <1>0, <1>2, <1>3, <1>4, <1>5, <1>6, <1>7, ShellStays DEF WorkbenchInv

\* The first event comes in: what is still on its way.
LEMMA OneEventLess ==
  ASSUME WorkbenchInv, events # <<>>, UNCHANGED <<runs, answers>>, events' = Tail(events)
  PROVE  /\ MessagesTrue' /\ Head(events) \in [run : DOMAIN runs, type : {"row", "end"}]
         /\ Head(events).type = "end" => runs[Head(events).run].over
         /\ \A r : /\ Cardinality(RowsComing(r)) \in Nat /\ Cardinality(RowsComing(r))' \in Nat
                   /\ Cardinality(RowsComing(r))' =
                        IF Head(events) = [run |-> r, type |-> "row"]
                        THEN Cardinality(RowsComing(r)) - 1 ELSE Cardinality(RowsComing(r))
<1> DEFINE E == [run : DOMAIN runs, type : {"row", "end"}]
<1>0. MessagesTrue BY DEF WorkbenchInv
<1>1. events \in Seq(E) BY <1>0 DEF MessagesTrue
<1> HIDE DEF E
<1>2. /\ Tail(events) \in Seq(E) /\ Head(events) \in E /\ Head(events) = events[1]
      /\ 1 \in DOMAIN events /\ Len(events) \in Nat /\ DOMAIN events = 1..Len(events)
      /\ DOMAIN Tail(events) = 1..(Len(events) - 1)
      /\ \A i \in 1..(Len(events) - 1) : Tail(events)[i] = events[i + 1]
  BY <1>1
<1>3. MessagesTrue' BY <1>0, <1>2 DEF MessagesTrue, E
<1>4. ASSUME NEW r
      PROVE  /\ Cardinality(RowsComing(r)) \in Nat /\ Cardinality(RowsComing(r))' \in Nat
             /\ Cardinality(RowsComing(r))' =
                  IF Head(events) = [run |-> r, type |-> "row"]
                  THEN Cardinality(RowsComing(r)) - 1 ELSE Cardinality(RowsComing(r))
  <2> DEFINE e == [run |-> r, type |-> "row"]
  <2> DEFINE S == {i \in 1..Len(events) : events[i] = e}
  <2> DEFINE T == {i \in 1..(Len(events) - 1) : events[i + 1] = e}
  <2>1. RowsComing(r) = S BY <1>2 DEF RowsComing
  <2>2. RowsComing(r)' = T BY <1>2 DEF RowsComing
  <2>3. S \subseteq Nat /\ IsFiniteSet(S) /\ Cardinality(S) \in Nat
    <3>1. IsFiniteSet(RowsComing(r)) /\ Cardinality(RowsComing(r)) \in Nat BY ComingFinite
    <3> QED BY <2>1, <3>1
  <2>4. IsFiniteSet(S \ {1}) /\ Cardinality(T) = Cardinality(S \ {1})
    <3> DEFINE f == [i \in S \ {1} |-> i - 1]
    <3>1. \A i \in S \ {1} : i - 1 \in T BY <1>2
    <3>2. \A j \in T : j + 1 \in S \ {1} /\ (j + 1) - 1 = j BY <1>2
    <3>3. \A i, j \in S \ {1} : i - 1 = j - 1 => i = j BY <2>3
    <3> HIDE DEF S, T
    <3>4. f \in Bijection(S \ {1}, T)
      BY <3>1, <3>2, <3>3 DEF Bijection, Injection, Surjection, IsInjective
    <3>5. IsFiniteSet(S \ {1}) BY <2>3, FS_Subset
    <3>6. ExistsBijection(S \ {1}, T) BY <3>4 DEF ExistsBijection
    <3> HIDE DEF f
    <3> QED BY <3>5, <3>6, FS_Bijection
  <2>5. 1 \in S <=> Head(events) = e BY <1>2
  <2> HIDE DEF S, T, e
  <2>6. Cardinality(S \ {1}) = IF 1 \in S THEN Cardinality(S) - 1 ELSE Cardinality(S)
    BY <2>3, FS_RemoveElement
  <2>7. Cardinality(S \ {1}) \in Nat BY <2>4, FS_CardinalityType
  <2> QED BY <2>1, <2>2, <2>3, <2>4, <2>5, <2>6, <2>7 DEF e
<1>5. Head(events).type = "end" => runs[Head(events).run].over BY <1>0, <1>2 DEF MessagesTrue
<1> QED BY <1>2, <1>3, <1>4, <1>5 DEF E

\* Nothing is shown of a message (tabForRun finds no tab, or tabIsCurrent is false).
LEMMA UnheardKeeps ==
  ASSUME WorkbenchInv, MessagesTrue',
         UNCHANGED <<workspace, tabCounter, available, closing, compiling, activeRuns, results, runs, hasty>>,
         \A q \in DOMAIN runs :
           /\ Cardinality(RowsComing(q)) \in Nat /\ Cardinality(RowsComing(q))' \in Nat
           /\ Cardinality(RowsComing(q))' <= Cardinality(RowsComing(q))
  PROVE  WorkbenchInv'
<1>1. RunsTyped' /\ CommandsTyped' /\ ActiveOwned' /\ ResultsTrue' /\ NoRunUnattended'
  BY DEF WorkbenchInv, RunsTyped, CommandsTyped, ActiveOwned, ResultsTrue, ResultTrue, TabIsCurrent, IsBusy,
         Running, NoRunUnattended, IsShown
<1>2. RowsGiven' BY RowsOfActive DEF Running, IsBusy, RowsGiven, RowsOf
<1> QED BY <1>1, <1>2, ShellStays DEF WorkbenchInv

\* A row of the active run is shown (fdqlEventReceived, firestoreSqlEventReceived).
LEMMA RowHeardKeeps ==
  ASSUME WorkbenchInv, MessagesTrue', NEW t, NEW r,
         t \in DOMAIN activeRuns, r = activeRuns[t], TabIsCurrent(t, runs[r].account),
         results' = With(results, t, [run |-> r, rows |-> RowsOf(t) + 1, whole |-> FALSE]),
         UNCHANGED <<workspace, tabCounter, available, closing, compiling, activeRuns, runs, hasty>>,
         \A q \in DOMAIN runs :
           /\ Cardinality(RowsComing(q)) \in Nat /\ Cardinality(RowsComing(q))' \in Nat
           /\ Cardinality(RowsComing(q))' <= Cardinality(RowsComing(q)),
         Cardinality(RowsComing(r))' = Cardinality(RowsComing(r)) - 1
  PROVE  WorkbenchInv'
<1> DEFINE given == [run |-> r, rows |-> RowsOf(t) + 1, whole |-> FALSE]
<1>1. /\ DOMAIN results' = DOMAIN results \cup {t} /\ results'[t] = given
      /\ \A u \in DOMAIN results \ {t} : results'[u] = results[u]
  BY DEF With
<1>2. /\ r \in DOMAIN runs /\ runs[r].tab = t /\ t \in AllTabs
      /\ RowsOf(t) \in 0..MaxRows /\ runs[r].rows \in 0..MaxRows
      /\ RowsOf(t) + Cardinality(RowsComing(r)) <= runs[r].rows
  BY RowsOfActive
<1>3. RowsOf(t)' = RowsOf(t) + 1 BY <1>1 DEF RowsOf
<1>4. RowsOf(t) + 1 <= runs[r].rows /\ RowsOf(t) + 1 \in 0..MaxRows
      /\ (RowsOf(t) + 1) + Cardinality(RowsComing(r))' <= runs[r].rows
  BY <1>2, WorkbenchAssumption
<1>5. RunsTyped' /\ CommandsTyped' /\ ActiveOwned' /\ NoRunUnattended'
  BY DEF WorkbenchInv, RunsTyped, CommandsTyped, ActiveOwned, TabIsCurrent, IsBusy, Running,
         NoRunUnattended, IsShown
<1>6. RowsGiven'
  <2>1. ASSUME NEW q \in DOMAIN runs', runs'[q].tab \in DOMAIN activeRuns', activeRuns'[runs'[q].tab] = q
        PROVE  (RowsOf(runs[q].tab) + Cardinality(RowsComing(q)) <= runs[q].rows)'
    <3>1. CASE runs[q].tab = t BY <1>3, <1>4, <2>1, <3>1 DEF RowsOf
    <3>2. CASE runs[q].tab # t
      <4>1. RowsOf(runs[q].tab)' = RowsOf(runs[q].tab) BY <1>1, <3>2 DEF RowsOf
      <4>2. RowsOf(runs[q].tab) \in 0..MaxRows /\ runs[q].rows \in 0..MaxRows
            /\ RowsOf(runs[q].tab) + Cardinality(RowsComing(q)) <= runs[q].rows
        BY <2>1, RowsOfActive
      <4>3. \A a, d \in 0..MaxRows, b, c \in Nat : a + b <= d /\ c <= b => a + c <= d OBVIOUS
      <4> QED BY <4>1, <4>2, <4>3
    <3> QED BY <3>1, <3>2
  <2> QED BY <2>1 DEF RowsGiven, Running, IsBusy
<1>7. ResultsTrue'
  <2>1. ASSUME NEW u \in DOMAIN results' PROVE u \in AllTabs /\ ResultTrue(u)'
    <3>1. CASE u = t
      <4>1. /\ results'[u] \in [run : DOMAIN runs', rows : 0..MaxRows, whole : BOOLEAN]
            /\ results'[u].run = r /\ results'[u].rows <= runs[r].rows /\ ~results'[u].whole
        <5>1. results'[u] = given /\ r \in DOMAIN runs' BY <1>1, <1>2, <3>1
        <5> DEFINE m == RowsOf(t) + 1
        <5>2. m \in 0..MaxRows /\ m <= runs[r].rows /\ given = [run |-> r, rows |-> m, whole |-> FALSE]
          BY <1>4
        <5> HIDE DEF m
        <5>3. given.run = r /\ given.rows = m /\ given.whole = FALSE BY <5>2
        <5>4. given \in [run : DOMAIN runs', rows : 0..MaxRows, whole : BOOLEAN] BY <5>1, <5>2
        <5> HIDE DEF given
        <5> QED BY <5>1, <5>2, <5>3, <5>4
      <4> QED BY <1>2, <3>1, <4>1 DEF ResultTrue, IsBusy, TabIsCurrent
    <3>2. CASE u # t
      <4>1. u \in DOMAIN results /\ results'[u] = results[u] BY <1>1, <3>2
      <4>2. u \in AllTabs /\ ResultTrue(u) BY <4>1 DEF WorkbenchInv, ResultsTrue
      <4> QED BY <4>1, <4>2 DEF ResultTrue, IsBusy, TabIsCurrent
    <3> QED BY <3>1, <3>2
  <2> QED BY <2>1 DEF ResultsTrue
<1> QED BY <1>5, <1>6, <1>7, ShellStays DEF WorkbenchInv

\* An event comes in.
LEMMA ReceiveEventKeeps ==
  ASSUME WorkbenchInv, ReceiveEvent
  PROVE  WorkbenchInv'
<1>0. PICK e, r, t : e = Head(events) /\ r = e.run /\ t = runs[r].tab OBVIOUS
<1>1. /\ events # <<>> /\ events' = Tail(events)
      /\ UNCHANGED <<workspace, tabCounter, available, closing, compiling, runs, answers, hasty>>
  BY DEF ReceiveEvent
<1>2. /\ MessagesTrue' /\ e \in [run : DOMAIN runs, type : {"row", "end"}]
      /\ e.type = "end" => runs[r].over
      /\ \A q : /\ Cardinality(RowsComing(q)) \in Nat /\ Cardinality(RowsComing(q))' \in Nat
                /\ Cardinality(RowsComing(q))' =
                     IF e = [run |-> q, type |-> "row"]
                     THEN Cardinality(RowsComing(q)) - 1 ELSE Cardinality(RowsComing(q))
  BY <1>0, <1>1, OneEventLess
<1>3. \A q \in DOMAIN runs :
        /\ Cardinality(RowsComing(q)) \in Nat /\ Cardinality(RowsComing(q))' \in Nat
        /\ Cardinality(RowsComing(q))' <= Cardinality(RowsComing(q))
  BY <1>2
<1>4. r \in DOMAIN runs /\ e = [run |-> r, type |-> e.type] BY <1>0, <1>2
<1>5. CASE ~IsShown(r) BY <1>0, <1>1, <1>2, <1>3, <1>5, UnheardKeeps DEF ReceiveEvent
<1>6. CASE IsShown(r) /\ e.type = "row"
  BY <1>0, <1>1, <1>2, <1>3, <1>4, <1>6, RowHeardKeeps DEF IsShown, Running, IsBusy, ReceiveEvent
<1>7. CASE IsShown(r) /\ e.type = "end"
  <2>1. t \in DOMAIN activeRuns /\ r = activeRuns[t] /\ TabIsCurrent(t, runs[r].account)
    BY <1>0, <1>7 DEF IsShown, Running, IsBusy
  <2>2. Finishes(t, Whole(r)) BY <1>0, <1>7 DEF ReceiveEvent
  <2>3. runs[r].over BY <1>2, <1>7
  <2>4. runs[r].rows \in 0..MaxRows BY <1>4, RunFields DEF WorkbenchInv
  <2>5. RunsTyped' /\ RunsCancelled({}) BY <1>1, SameRuns DEF WorkbenchInv
  <2>6. Whole(r) \in [run : {r}, rows : 0..MaxRows, whole : BOOLEAN] /\ Whole(r).rows = runs[r].rows
    BY <2>4 DEF Whole
  <2>7. Whole(r).rows <= runs[r].rows BY <2>4, <2>6
  <2> QED BY <1>1, <1>2, <1>3, <2>1, <2>2, <2>3, <2>5, <2>6, <2>7, FinishesKeeps
<1> QED BY <1>2, <1>5, <1>6, <1>7

\* The call of a run is answered, or rejected.
LEMMA ReceiveAnswerKeeps ==
  ASSUME WorkbenchInv, NEW a \in answers, ReceiveAnswer(a)
  PROVE  WorkbenchInv'
<1> DEFINE r == a.run
<1> DEFINE t == runs[r].tab
<1>1. /\ answers' = answers \ {a}
      /\ UNCHANGED <<workspace, tabCounter, available, closing, compiling, runs, events, hasty>>
  BY DEF ReceiveAnswer
<1>2. r \in DOMAIN runs /\ runs[r].over BY DEF WorkbenchInv, MessagesTrue
<1>3. RunsTyped' /\ RunsCancelled({}) BY <1>1, SameRuns DEF WorkbenchInv
<1>4. MessagesTrue' BY <1>1, <1>3, MessagesStay DEF WorkbenchInv
<1>5. \A q \in DOMAIN runs :
        /\ Cardinality(RowsComing(q)) \in Nat /\ Cardinality(RowsComing(q))' \in Nat
        /\ Cardinality(RowsComing(q))' <= Cardinality(RowsComing(q))
  BY <1>1, ComingFinite DEF RowsComing
<1>6. CASE ~IsShown(r) BY <1>1, <1>4, <1>5, <1>6, UnheardKeeps DEF ReceiveAnswer
<1>7. CASE IsShown(r)
  <2>1. t \in DOMAIN activeRuns /\ r = activeRuns[t] /\ TabIsCurrent(t, runs[r].account)
    BY <1>7 DEF IsShown, Running, IsBusy
  <2>2. runs[r].rows \in 0..MaxRows BY <1>2, RunFields DEF WorkbenchInv
  <2>3. RowsOf(t) \in 0..MaxRows /\ RowsOf(t) <= runs[r].rows BY <2>1, RowsOfActive
  <2>4. PICK given : /\ Finishes(t, given)
                     /\ given \in [run : {r}, rows : 0..MaxRows, whole : BOOLEAN]
                     /\ given.rows <= runs[r].rows
                     /\ given.whole => given.rows = runs[r].rows
    <3>1. CASE a.rejected
      <4> DEFINE given == [run |-> r, rows |-> RowsOf(t), whole |-> FALSE]
      <4>1. Finishes(t, given) BY <1>7, <3>1 DEF ReceiveAnswer
      <4>2. given \in [run : {r}, rows : 0..MaxRows, whole : BOOLEAN] /\ given.rows = RowsOf(t) /\ ~given.whole
        BY <2>3
      <4> HIDE DEF given
      <4> QED BY <2>3, <4>1, <4>2
    <3>2. CASE ~a.rejected
      <4>1. Finishes(t, Whole(r)) BY <1>7, <3>2 DEF ReceiveAnswer
      <4>2. Whole(r) \in [run : {r}, rows : 0..MaxRows, whole : BOOLEAN] /\ Whole(r).rows = runs[r].rows
        BY <2>2 DEF Whole
      <4>3. runs[r].rows <= runs[r].rows BY <2>2
      <4> HIDE DEF t, r
      <4> QED BY <4>1, <4>2, <4>3
    <3> QED BY <3>1, <3>2
  <2> HIDE DEF t, r
  <2> QED BY <1>1, <1>2, <1>3, <1>4, <1>5, <2>1, <2>4, FinishesKeeps
<1> QED BY <1>6, <1>7

----------------
(* The saved workspace: what a window shows is what the next one restores,
   for any settings found, any number of windows, edits, lapses and any
   dates. *)

\* No snapshot is queued but by a window that has loaded the settings; until then,
\* and in a window that must not save, the settings are those found.
QueuesRest == window # "restored" => saving = <<>> /\ unsent = <<>>
HeldAsFound == window \in {"loading", "protected"} => stored = found

\* The last snapshot under way is what is shown; tabs alone wait for the timer.
LastIsShown ==
  /\ unsent # <<>> => unsent[1].content = shown /\ shown # Empty
  /\ unsent = <<>> /\ saving # <<>> => saving[Len(saving)].content = shown

\* What was restored stays until the tabs are touched.
KeptUntouched ==
  window = "restored" /\ ~misread =>
    /\ ~IsProtected(found)
    /\ ~touched /\ IsRestorable(found) =>
         /\ shown = found.content /\ stored.content = found.content /\ unsent = <<>>
         /\ \A i \in DOMAIN saving : saving[i].content = found.content

\* A clearing under way has been recorded, and before what is queued behind it.
ClearingsOrdered ==
  \A i \in DOMAIN saving : saving[i].content = Empty =>
    /\ saving[i].at <= lastRecordedAt
    /\ \A j \in DOMAIN saving : i < j => saving[i].at < saving[j].at
    /\ unsent # <<>> => saving[i].at < unsent[1].at

\* Tabs under way are of a later time than the last clearing, unless that is of an
\* earlier window and the date was set back.
LaterThanCleared ==
  (setBack => clearedHere) =>
    /\ \A i \in DOMAIN saving : saving[i].content # Empty => stored.clearedAt < saving[i].at
    /\ unsent # <<>> => stored.clearedAt < unsent[1].at

\* When the last clearing was: recorded by this window, or before it was opened.
ClearingKnown ==
  /\ clearedHere => window = "restored" /\ stored.clearedAt <= lastRecordedAt
  /\ ~setBack => stored.clearedAt < dateNow \/ stored.clearedAt <= lastRecordedAt
  /\ ~setBack /\ ~clearedHere /\ window # "closed" => stored.clearedAt < dateNow

Flags == {touched, misread, unsaved, clearedHere, setBack} \subseteq BOOLEAN

SavedInv ==
  /\ SavedWorkspaceTypeOK /\ Flags /\ QueuesRest /\ HeldAsFound /\ LastIsShown /\ KeptUntouched
  /\ ClearingsOrdered /\ LaterThanCleared /\ ClearingKnown /\ SavedIsShown

----------------
(* Snapshots *)

\* nextRecordedAt gives a time that is not before the date, and after all it gave.
LEMMA RecordedLater ==
  ASSUME dateNow \in Nat, lastRecordedAt \in Nat
  PROVE  NextRecordedAt \in Nat /\ NextRecordedAt >= dateNow /\ NextRecordedAt > lastRecordedAt
<1> DEFINE both == {dateNow, lastRecordedAt + 1}
<1>1. \E x \in both : \A y \in both : x >= y OBVIOUS
<1>2. NextRecordedAt = CHOOSE x \in both : \A y \in both : x >= y BY DEF NextRecordedAt, Max
<1>3. NextRecordedAt \in both /\ \A y \in both : NextRecordedAt >= y BY <1>1, <1>2
<1> QED BY <1>3

\* The same of the date of the first window.
LEMMA FirstDate ==
  ASSUME NEW a \in Nat, NEW b \in Nat
  PROVE  Max({a, b}) \in Nat /\ Max({a, b}) >= b
<1>1. \E x \in {a, b} : \A y \in {a, b} : x >= y
  <2>1. CASE a >= b BY <2>1
  <2>2. CASE ~(a >= b) BY <2>2
  <2> QED BY <2>1, <2>2
<1> QED BY <1>1 DEF Max

\* What a snapshot in a queue is, and when there is one.
LEMMA SnapshotOf ==
  ASSUME NEW q \in Seq(Snapshots), NEW i \in DOMAIN q
  PROVE  q[i] \in Snapshots /\ q[i].content \in Contents /\ q[i].at \in Nat
<1>1. q[i] \in Snapshots OBVIOUS
<1> QED BY <1>1 DEF Snapshots

LEMMA SomeSnapshot ==
  ASSUME NEW q \in Seq(Snapshots)
  PROVE  /\ q # <<>> <=> Len(q) # 0
         /\ q # <<>> => 1 \in DOMAIN q /\ Len(q) \in DOMAIN q
OBVIOUS

\* In the queue, a snapshot comes behind the save under way.
LEMMA QueueBehind ==
  ASSUME saving \in Seq(Snapshots), Len(saving) <= 2, NEW x \in Snapshots
  PROVE  /\ Enqueued(x) \in Seq(Snapshots) /\ Len(Enqueued(x)) \in {1, 2} /\ Enqueued(x) # <<>>
         /\ Enqueued(x)[Len(Enqueued(x))] = x
         /\ Len(Enqueued(x)) = 2 =>
              saving # <<>> /\ Enqueued(x)[1] = saving[1] /\ 1 \in DOMAIN saving
         /\ Len(Enqueued(x)) = 1 => saving = <<>>
BY DEF Enqueued

\* A snapshot is queued in a window that has loaded, for tabs that were touched or
\* not restored.
LEMMA SnapshotQueued ==
  ASSUME SavedInv, window \in {"loading", "restored"}, window' = "restored",
         NEW content \in Contents, QueueSnapshot(content), shown' = content,
         {touched', misread'} \subseteq BOOLEAN,
         misread' \/ (~IsProtected(found) /\ (touched' \/ ~IsRestorable(found))),
         UNCHANGED <<stored, dateNow, found, unsaved, clearedHere, setBack>>
  PROVE  SavedInv'
<1> DEFINE x == [content |-> content, at |-> NextRecordedAt]
<1> USE DEF SavedInv, SavedWorkspaceTypeOK, Flags
<1>1. NextRecordedAt \in Nat /\ NextRecordedAt >= dateNow /\ NextRecordedAt > lastRecordedAt
  BY RecordedLater
<1>2. x \in Snapshots /\ x.content = content /\ x.at = NextRecordedAt BY <1>1 DEF Snapshots
<1>3. /\ lastQueued' = content /\ lastRecordedAt' = x.at
      /\ content = Empty => saving' = Enqueued(x) /\ unsent' = <<>>
      /\ content # Empty => unsent' = <<x>> /\ saving' = saving
  BY <1>2 DEF QueueSnapshot
<1>4. /\ Enqueued(x) \in Seq(Snapshots) /\ Len(Enqueued(x)) \in {1, 2} /\ Enqueued(x) # <<>>
      /\ Enqueued(x)[Len(Enqueued(x))] = x
      /\ Len(Enqueued(x)) = 2 => saving # <<>> /\ Enqueued(x)[1] = saving[1] /\ 1 \in DOMAIN saving
      /\ Len(Enqueued(x)) = 1 => saving = <<>>
  BY <1>2, QueueBehind
<1>5. (setBack => clearedHere) => stored.clearedAt < x.at BY <1>1, <1>2 DEF ClearingKnown, Settings
<1>6. CASE content = Empty
  <2>1. saving' = Enqueued(x) /\ unsent' = <<>> /\ saving' # <<>> BY <1>3, <1>4, <1>6
  <2>2. SavedWorkspaceTypeOK' BY <1>1, <1>2, <1>3, <1>4, <2>1
  <2>3. LastIsShown' BY <1>2, <1>4, <2>1 DEF LastIsShown
  <2>4. ClearingsOrdered' BY <1>1, <1>2, <1>3, <1>4, <2>1, SnapshotOf DEF ClearingsOrdered
  <2>5. LaterThanCleared' BY <1>2, <1>3, <1>4, <1>6, <2>1 DEF LaterThanCleared
  <2>6. ClearingKnown' BY <1>1, <1>2, <1>3 DEF ClearingKnown, Settings
  <2>7. SavedIsShown' BY <2>1 DEF SavedIsShown, IsProtected, IsRestorable
  <2> QED BY <2>2, <2>3, <2>4, <2>5, <2>6, <2>7
          DEF QueuesRest, HeldAsFound, KeptUntouched, IsProtected, IsRestorable, Counts
<1>7. CASE content # Empty
  <2>1. unsent' = <<x>> /\ saving' = saving /\ unsent' # <<>>
    <3>1. <<x>> # <<>> OBVIOUS
    <3> QED BY <1>3, <1>7, <3>1
  <2>2. SavedWorkspaceTypeOK' BY <1>1, <1>2, <1>3, <2>1
  <2>3. LastIsShown' BY <1>2, <1>7, <2>1 DEF LastIsShown
  <2>4. ClearingsOrdered'
    <3> SUFFICES ASSUME NEW i \in DOMAIN saving, saving[i].content = Empty
                 PROVE  /\ saving[i].at <= x.at /\ saving[i].at < x.at
                        /\ \A j \in DOMAIN saving : i < j => saving[i].at < saving[j].at
      BY <1>2, <1>3, <2>1 DEF ClearingsOrdered
    <3>1. saving[i] \in Snapshots /\ saving[i].at \in Nat BY SnapshotOf
    <3> QED BY <1>1, <1>2, <3>1 DEF ClearingsOrdered
  <2>5. LaterThanCleared' BY <1>2, <1>5, <2>1 DEF LaterThanCleared
  <2>6. ClearingKnown' BY <1>1, <1>2, <1>3 DEF ClearingKnown, Settings
  <2>7. SavedIsShown' BY <2>1 DEF SavedIsShown, IsProtected, IsRestorable
  <2> QED BY <2>2, <2>3, <2>4, <2>5, <2>6, <2>7
          DEF QueuesRest, HeldAsFound, KeptUntouched, IsProtected, IsRestorable, Counts
<1> QED BY <1>6, <1>7

----------------
(* Steps *)

LEMMA AtFirst ==
  ASSUME InitSavedWorkspace
  PROVE  SavedInv
<1>1. stored \in Settings BY SavedWorkspaceAssumption DEF InitSavedWorkspace
<1>2. stored.savedAt \in Nat /\ stored.clearedAt \in Nat BY <1>1 DEF Settings
<1>3. Max({stored.savedAt, stored.clearedAt}) \in Nat
      /\ Max({stored.savedAt, stored.clearedAt}) >= stored.clearedAt
  BY <1>2, FirstDate
<1>4. dateNow \in Nat /\ stored.clearedAt < dateNow BY <1>2, <1>3 DEF InitSavedWorkspace
<1>5. SavedWorkspaceTypeOK BY <1>1, <1>4, SavedWorkspaceAssumption
     DEF InitSavedWorkspace, SavedWorkspaceTypeOK, Contents, Empty
<1>6. /\ window = "closed" /\ unsent = <<>> /\ saving = <<>>
      /\ touched = FALSE /\ misread = FALSE /\ unsaved = FALSE
      /\ clearedHere = FALSE /\ setBack = FALSE
  BY DEF InitSavedWorkspace
<1>7. Flags /\ QueuesRest /\ HeldAsFound /\ LastIsShown /\ KeptUntouched
  BY <1>6 DEF Flags, QueuesRest, HeldAsFound, LastIsShown, KeptUntouched
<1>8. ClearingsOrdered /\ LaterThanCleared BY <1>6 DEF ClearingsOrdered, LaterThanCleared
<1>9. ClearingKnown /\ SavedIsShown BY <1>4, <1>6 DEF ClearingKnown, SavedIsShown
<1> QED BY <1>5, <1>7, <1>8, <1>9 DEF SavedInv

LEMMA Opens ==
  ASSUME SavedInv, OpenWindow
  PROVE  SavedInv'
<1> USE DEF SavedInv, OpenWindow
<1>1. saving = <<>> /\ unsent = <<>> BY DEF QueuesRest
<1>2. stored.clearedAt \in Nat BY DEF SavedWorkspaceTypeOK, Settings
<1>3. ~clearedHere /\ (~setBack => stored.clearedAt < dateNow)
  BY <1>2 DEF ClearingKnown, SavedWorkspaceTypeOK
<1>4. SavedWorkspaceTypeOK' /\ Flags' BY DEF SavedWorkspaceTypeOK, Flags
<1> QED BY <1>1, <1>3, <1>4
     DEF QueuesRest, HeldAsFound, LastIsShown, KeptUntouched, ClearingsOrdered,
         LaterThanCleared, ClearingKnown, SavedIsShown, Flags

\* What is restored is what was found; from version 1 it is queued as it is shown.
LEMMA RestoreKeeps ==
  ASSUME SavedInv, LoadReturns, IsRestorable(stored), ~touched
  PROVE  SavedInv'
<1> DEFINE x == [content |-> stored.content, at |-> dateNow]
<1> USE DEF SavedInv
<1>1. /\ window = "loading" /\ saving = <<>> /\ unsent = <<>> /\ stored = found /\ ~clearedHere
      /\ (~setBack => stored.clearedAt < dateNow)
  BY DEF LoadReturns, QueuesRest, HeldAsFound, ClearingKnown, Flags
<1>2. ~IsProtected(stored) /\ stored.content # Empty
  BY DEF IsRestorable, IsProtected, Counts, SavedWorkspaceTypeOK, Settings,
         CURRENT_WORKSPACE_VERSION
<1>3. x \in Snapshots BY DEF SavedWorkspaceTypeOK, Snapshots, Settings
<1>4. /\ window' = "restored" /\ shown' = stored.content /\ lastQueued' = stored.content
      /\ saving' = <<>> \/ saving' = <<x>>
      /\ UNCHANGED <<unsent, lastRecordedAt, stored, dateNow, touched, found, misread, unsaved,
                     clearedHere, setBack>>
  BY <1>1, <1>2 DEF LoadReturns, Enqueued
<1>5. SavedWorkspaceTypeOK' /\ Flags'
  <2>1. saving' \in Seq(Snapshots) /\ Len(saving') <= 2
    <3>1. CASE saving' = <<>> BY <3>1
    <3>2. CASE saving' = <<x>> BY <1>3, <3>2
    <3> QED BY <1>4, <3>1, <3>2
  <2>2. stored.content \in Contents BY DEF SavedWorkspaceTypeOK, Settings
  <2> QED BY <1>1, <1>4, <2>1, <2>2 DEF SavedWorkspaceTypeOK, Flags
<1>6. LastIsShown' BY <1>1, <1>4 DEF LastIsShown
<1>7. \A i \in DOMAIN saving' : i = 1 /\ saving'[i] = x BY <1>4
<1>8. ClearingsOrdered' /\ LaterThanCleared'
  BY <1>1, <1>2, <1>4, <1>7 DEF ClearingsOrdered, LaterThanCleared
<1>9. KeptUntouched' /\ HeldAsFound' /\ QueuesRest' BY <1>1, <1>2, <1>4, <1>7
     DEF KeptUntouched, HeldAsFound, QueuesRest, IsProtected, IsRestorable, Counts
<1>10. ClearingKnown' BY <1>1, <1>4 DEF ClearingKnown
<1>11. SavedIsShown'
  BY <1>1, <1>2, <1>4 DEF SavedIsShown, RestoredFrom, IsProtected, IsRestorable, Counts
<1> QED BY <1>5, <1>6, <1>8, <1>9, <1>10, <1>11

\* A workspace of a newer version is left alone.
LEMMA Protects ==
  ASSUME SavedInv, LoadReturns, IsProtected(stored)
  PROVE  SavedInv'
<1> USE DEF SavedInv
<1>1. ~IsRestorable(stored)
  BY DEF IsRestorable, IsProtected, SavedWorkspaceTypeOK, Settings, CURRENT_WORKSPACE_VERSION
<1>2. /\ window = "loading" /\ window' = "protected"
      /\ UNCHANGED <<shown, lastQueued, saving, unsent, lastRecordedAt, stored, dateNow, touched,
                     found, misread, unsaved, clearedHere, setBack>>
  BY <1>1 DEF LoadReturns
<1> QED BY <1>2
     DEF SavedWorkspaceTypeOK, Flags, QueuesRest, HeldAsFound, LastIsShown, KeptUntouched,
         ClearingsOrdered, LaterThanCleared, ClearingKnown, SavedIsShown, RestoredFrom,
         IsProtected, IsRestorable, Counts

LEMMA Loads ==
  ASSUME SavedInv, LoadReturns
  PROVE  SavedInv'
BY Protects, RestoreKeeps, SnapshotQueued DEF SavedInv, HeldAsFound, LoadReturns, SavedWorkspaceTypeOK, Flags

LEMMA FailsToLoad ==
  ASSUME SavedInv, LoadFails
  PROVE  SavedInv'
BY SnapshotQueued DEF LoadFails, SavedInv, SavedWorkspaceTypeOK, Flags

LEMMA ChangeKeeps ==
  ASSUME SavedInv, NEW content \in Contents, ChangeTabs(content)
  PROVE  SavedInv'
<1>1. /\ content # shown /\ shown' = content /\ touched' = TRUE
      /\ UNCHANGED <<stored, dateNow, window, found, misread, unsaved, clearedHere, setBack>>
  BY DEF ChangeTabs
<1>2. CASE window = "restored"
  BY <1>1, <1>2, SnapshotQueued DEF ChangeTabs, SavedInv, SavedWorkspaceTypeOK, KeptUntouched, Flags
<1>3. CASE window # "restored"
  <2>1. UNCHANGED <<lastQueued, unsent, saving, lastRecordedAt>> BY <1>3 DEF ChangeTabs
  <2>2. saving = <<>> /\ unsent = <<>> BY <1>3 DEF SavedInv, QueuesRest
  <2> QED BY <1>1, <1>3, <2>1, <2>2
       DEF SavedInv, SavedWorkspaceTypeOK, Flags, QueuesRest, HeldAsFound, LastIsShown,
           KeptUntouched, ClearingsOrdered, LaterThanCleared, ClearingKnown, SavedIsShown,
           RestoredFrom, IsProtected, IsRestorable, Counts
<1> QED BY <1>2, <1>3

LEMMA Debounced ==
  ASSUME SavedInv, DebounceEnds
  PROVE  SavedInv'
<1> DEFINE x == unsent[1]
<1> USE DEF SavedInv, SavedWorkspaceTypeOK, Flags
<1>1. /\ unsent # <<>> /\ unsent' = <<>> /\ x \in Snapshots /\ Head(unsent) = x
      /\ window = "restored" /\ x.content = shown /\ shown # Empty
      /\ UNCHANGED <<stored, dateNow, window, shown, touched, lastQueued, lastRecordedAt, found,
                     misread, unsaved, clearedHere, setBack>>
  BY SomeSnapshot, SnapshotOf DEF DebounceEnds, QueuesRest, LastIsShown
<1>2. saving' = Enqueued(x) BY <1>1 DEF DebounceEnds
<1>3. /\ saving' \in Seq(Snapshots) /\ Len(saving') \in {1, 2} /\ saving'[Len(saving')] = x
      /\ Len(saving') = 2 => saving # <<>> /\ saving'[1] = saving[1] /\ 1 \in DOMAIN saving
      /\ Len(saving') = 1 => saving = <<>>
  BY <1>1, <1>2, QueueBehind
<1>4. saving' # <<>> BY <1>1, <1>2, QueueBehind
<1>5. \A i \in DOMAIN saving' :
        saving'[i] = x \/ (i = 1 /\ saving'[i] = saving[1] /\ 1 \in DOMAIN saving)
  BY <1>3
<1>6. SavedWorkspaceTypeOK' BY <1>1, <1>3
<1>7. LastIsShown' BY <1>1, <1>3 DEF LastIsShown
<1>8. KeptUntouched' BY <1>1 DEF KeptUntouched, IsProtected, IsRestorable, Counts
<1>9. ClearingsOrdered'
  <2> SUFFICES ASSUME NEW i \in DOMAIN saving', saving'[i].content = Empty
               PROVE  /\ saving'[i].at <= lastRecordedAt
                      /\ \A j \in DOMAIN saving' : i < j => saving'[i].at < saving'[j].at
    BY <1>1 DEF ClearingsOrdered
  <2>1. i = 1 /\ saving'[1] = saving[1] /\ 1 \in DOMAIN saving BY <1>1, <1>5
  <2>2. saving[1].at <= lastRecordedAt /\ saving[1].at < x.at BY <1>1, <2>1 DEF ClearingsOrdered
  <2>3. \A j \in DOMAIN saving' : 1 < j => saving'[j] = x BY <1>3
  <2> QED BY <2>1, <2>2, <2>3
<1>10. LaterThanCleared' BY <1>1, <1>5 DEF LaterThanCleared
<1>11. ClearingKnown' BY <1>1 DEF ClearingKnown
<1>12. SavedIsShown' BY <1>1, <1>4 DEF SavedIsShown, RestoredFrom, IsProtected, IsRestorable, Counts
<1> QED BY <1>1, <1>6, <1>7, <1>8, <1>9, <1>10, <1>11, <1>12 DEF QueuesRest, HeldAsFound

\* What a save makes of the settings.
LEMMA SettingsPatched ==
  ASSUME NEW s \in Settings, NEW x \in Snapshots
  PROVE  /\ Patched(s, x) \in Settings /\ Patched(s, x).content = x.content
         /\ x.content = Empty => Patched(s, x).clearedAt = x.at
         /\ x.content # Empty =>
              /\ Patched(s, x).clearedAt = s.clearedAt /\ Patched(s, x).savedAt = x.at
              /\ Patched(s, x).version = CURRENT_WORKSPACE_VERSION
BY DEF Snapshots, CURRENT_WORKSPACE_VERSION, Patched, Settings

\* A queue has no snapshot, one or two.
LEMMA LengthOf ==
  ASSUME NEW q \in Seq(Snapshots), Len(q) <= 2
  PROVE  /\ q # <<>> => Len(q) \in {1, 2}
         /\ Len(q) = 0 => q = <<>> /\ DOMAIN q = {}
         /\ Len(q) = 1 => q # <<>> /\ DOMAIN q = {1}
<1> DEFINE n == Len(q)
<1>1. n \in Nat /\ n <= 2 /\ (q # <<>> <=> n # 0) OBVIOUS
<1>2. n = 0 => q = <<>> /\ DOMAIN q = {} OBVIOUS
<1>3. n = 1 => DOMAIN q = {1} OBVIOUS
<1> HIDE DEF n
<1>4. q # <<>> => n \in {1, 2} BY <1>1
<1>5. n = 1 => q # <<>> BY <1>1
<1> QED BY <1>2, <1>3, <1>4, <1>5 DEF n

\* What is left of the queue once the first is saved.
LEMMA QueueAfter ==
  ASSUME NEW q \in Seq(Snapshots), q # <<>>, Len(q) <= 2
  PROVE  /\ q[1] \in Snapshots /\ 1 \in DOMAIN q /\ Head(q) = q[1]
         /\ Tail(q) \in Seq(Snapshots) /\ Len(Tail(q)) <= 1
         /\ \A i \in DOMAIN Tail(q) : i = 1 /\ 2 \in DOMAIN q /\ Tail(q)[i] = q[2]
         /\ Tail(q) # <<>> => Len(Tail(q)) = 1 /\ Len(q) = 2 /\ Tail(q)[1] = q[2]
         /\ Tail(q) = <<>> => Len(q) = 1
<1> DEFINE t == Tail(q)
<1>1. q[1] \in Snapshots /\ 1 \in DOMAIN q /\ Head(q) = q[1] OBVIOUS
<1>2. t \in Seq(Snapshots) /\ Len(t) = Len(q) - 1 /\ \A i \in 1..Len(t) : t[i] = q[i + 1]
  BY HeadTailProperties
<1>3. Len(q) \in {1, 2} BY LengthOf
<1>4. Len(t) \in Nat /\ Len(t) <= 1 /\ (Len(t) = 0 \/ Len(t) = 1) BY <1>2, <1>3
<1> HIDE DEF t
<1>5. CASE Len(t) = 0 BY <1>1, <1>2, <1>3, <1>4, <1>5, LengthOf DEF t
<1>6. CASE Len(t) = 1 BY <1>1, <1>2, <1>3, <1>4, <1>6, LengthOf DEF t
<1> QED BY <1>4, <1>5, <1>6

LEMMA Saves ==
  ASSUME SavedInv, NEW fails \in BOOLEAN, SaveEnds(fails)
  PROVE  SavedInv'
<1> DEFINE x == saving[1]
<1> USE DEF SavedInv, SavedWorkspaceTypeOK, Flags
<1>1. /\ saving # <<>> /\ saving' = Tail(saving) /\ unsaved' = fails /\ window = "restored"
      /\ UNCHANGED <<dateNow, window, shown, touched, lastQueued, unsent, lastRecordedAt, found,
                     misread, setBack>>
  BY DEF SaveEnds, QueuesRest
<1>2. /\ x \in Snapshots /\ x.at \in Nat /\ 1 \in DOMAIN saving /\ Head(saving) = x
      /\ saving' \in Seq(Snapshots) /\ Len(saving') <= 1
  BY <1>1, QueueAfter DEF Snapshots
<1>3. \A i \in DOMAIN saving' : i = 1 /\ 2 \in DOMAIN saving /\ saving'[i] = saving[2]
  BY <1>1, QueueAfter
<1>4. /\ saving' # <<>> => Len(saving') = 1 /\ Len(saving) = 2 /\ saving'[1] = saving[2]
      /\ saving' = <<>> => Len(saving) = 1
  BY <1>1, QueueAfter
<1>5. /\ stored' = Patched(stored, x) \/ (fails /\ stored' = stored)
      /\ clearedHere' = (clearedHere \/ stored'.clearedAt # stored.clearedAt)
  BY <1>2 DEF SaveEnds
<1>6. /\ stored' \in Settings /\ stored'.content \in {x.content, stored.content}
      /\ stored'.clearedAt # stored.clearedAt => x.content = Empty /\ stored'.clearedAt = x.at
  BY <1>2, <1>5, SettingsPatched
<1>7. stored.clearedAt \in Nat /\ stored'.clearedAt \in Nat BY <1>6 DEF Settings
<1>8. x.content = Empty =>
        /\ x.at <= lastRecordedAt
        /\ 2 \in DOMAIN saving => x.at < saving[2].at
        /\ unsent # <<>> => x.at < unsent[1].at
  BY <1>2 DEF ClearingsOrdered
<1>9. SavedWorkspaceTypeOK' /\ Flags'
  <2>1. clearedHere' \in BOOLEAN BY <1>5
  <2> QED BY <1>1, <1>2, <1>6, <2>1
<1>10. LastIsShown' BY <1>1, <1>4 DEF LastIsShown
<1>11. KeptUntouched' BY <1>1, <1>2, <1>3, <1>6 DEF KeptUntouched, IsProtected, IsRestorable, Counts
<1>12. ClearingsOrdered'
  <2> SUFFICES ASSUME NEW i \in DOMAIN saving', saving'[i].content = Empty
               PROVE  /\ saving'[i].at <= lastRecordedAt
                      /\ \A j \in DOMAIN saving' : i < j => saving'[i].at < saving'[j].at
                      /\ unsent # <<>> => saving'[i].at < unsent[1].at
    BY <1>1 DEF ClearingsOrdered
  <2>1. i = 1 /\ 2 \in DOMAIN saving /\ saving'[i] = saving[2] BY <1>3
  <2>2. \A j \in DOMAIN saving' : ~(i < j) BY <1>3, <2>1
  <2> QED BY <2>1, <2>2 DEF ClearingsOrdered
<1>13. LaterThanCleared'
  <2> SUFFICES ASSUME setBack => clearedHere'
               PROVE  /\ \A i \in DOMAIN saving' : saving'[i].content # Empty =>
                                                     stored'.clearedAt < saving'[i].at
                      /\ unsent # <<>> => stored'.clearedAt < unsent[1].at
    BY <1>1 DEF LaterThanCleared
  <2>1. CASE stored'.clearedAt = stored.clearedAt BY <1>3, <1>5, <2>1 DEF LaterThanCleared
  <2>2. CASE stored'.clearedAt # stored.clearedAt BY <1>3, <1>6, <1>8, <2>2
  <2> QED BY <2>1, <2>2
<1>14. ClearingKnown' BY <1>1, <1>5, <1>6, <1>8 DEF ClearingKnown
<1>15. SavedIsShown'
  <2>1. ASSUME unsent = <<>>, saving' = <<>>, ~fails, setBack => clearedHere'
        PROVE  RestoredFrom(stored') = shown
    BY <1>1, <1>2, <1>4, <1>5, <2>1, SettingsPatched
      DEF LastIsShown, RestoredFrom, IsRestorable, Counts, LaterThanCleared, CURRENT_WORKSPACE_VERSION
  <2>2. ~misread /\ ~touched /\ (IsRestorable(found) \/ IsProtected(found)) =>
          stored'.content = found.content
    BY <1>1, <1>11 DEF KeptUntouched, IsProtected, IsRestorable, Counts
  <2> QED BY <1>1, <2>1, <2>2 DEF SavedIsShown, IsProtected, IsRestorable, Counts
<1> QED BY <1>1, <1>9, <1>10, <1>11, <1>12, <1>13, <1>14, <1>15 DEF QueuesRest, HeldAsFound

LEMMA CloseKeeps ==
  ASSUME SavedInv, CloseWindow
  PROVE  SavedInv'
<1> USE DEF SavedInv, SavedWorkspaceTypeOK, Flags
<1>1. /\ window' = "closed" /\ shown' = Empty /\ touched' = FALSE
      /\ unsent' = <<>> /\ saving' = <<>>
      /\ misread' = FALSE /\ unsaved' = FALSE /\ clearedHere' = FALSE
      /\ UNCHANGED <<dateNow, lastRecordedAt, found, setBack>>
  BY DEF CloseWindow
<1>2. /\ stored' \in Settings
      /\ stored'.clearedAt = stored.clearedAt \/ stored'.clearedAt <= lastRecordedAt
  <2>1. CASE stored' = stored BY <2>1
  <2>2. CASE saving # <<>> /\ stored' = Patched(stored, Head(saving))
    <3>1. saving[1] \in Snapshots /\ 1 \in DOMAIN saving /\ Head(saving) = saving[1]
      BY <2>2, QueueAfter
    <3>2. saving[1].content = Empty => saving[1].at <= lastRecordedAt BY <3>1 DEF ClearingsOrdered
    <3> QED BY <2>2, <3>1, <3>2, SettingsPatched
  <2> QED BY <2>1, <2>2 DEF CloseWindow
<1>3. SavedWorkspaceTypeOK' /\ Flags'
  <2>1. Empty \in Contents BY SavedWorkspaceAssumption DEF Contents, Empty
  <2>2. unsent' \in Seq(Snapshots) /\ Len(unsent') <= 1 BY <1>1
  <2>3. saving' \in Seq(Snapshots) /\ Len(saving') <= 2 BY <1>1
  <2> QED BY <1>1, <1>2, <2>1, <2>2, <2>3
<1>4. QueuesRest' /\ HeldAsFound' /\ LastIsShown' /\ KeptUntouched'
  BY <1>1 DEF QueuesRest, HeldAsFound, LastIsShown, KeptUntouched
<1>5. ClearingsOrdered' /\ LaterThanCleared' BY <1>1 DEF ClearingsOrdered, LaterThanCleared
<1>6. ClearingKnown' /\ SavedIsShown' BY <1>1, <1>2 DEF ClearingKnown, SavedIsShown
<1> QED BY <1>3, <1>4, <1>5, <1>6

LEMMA DatesPass ==
  ASSUME SavedInv, NEW t \in Nat, DateMoves(t)
  PROVE  SavedInv'
<1> USE DEF SavedInv, SavedWorkspaceTypeOK, Flags
<1>1. /\ dateNow' = t
      /\ UNCHANGED <<stored, window, shown, touched, lastQueued, unsent, lastRecordedAt, saving,
                     found, misread, unsaved, clearedHere>>
      /\ (t = dateNow + 1 /\ setBack' = setBack) \/ setBack' = TRUE
  BY DEF DateMoves
<1>2. SavedWorkspaceTypeOK' /\ Flags' BY <1>1
<1>3. QueuesRest' /\ HeldAsFound' /\ LastIsShown' /\ KeptUntouched' /\ ClearingsOrdered' BY <1>1
     DEF QueuesRest, HeldAsFound, LastIsShown, KeptUntouched, ClearingsOrdered, IsProtected,
         IsRestorable, Counts
<1>4. LaterThanCleared' BY <1>1 DEF LaterThanCleared
<1>5. stored.clearedAt \in Nat BY DEF Settings
<1>6. ClearingKnown' BY <1>1, <1>5 DEF ClearingKnown
<1>7. SavedIsShown' BY <1>1 DEF SavedIsShown, RestoredFrom, IsProtected, IsRestorable, Counts
<1> QED BY <1>2, <1>3, <1>4, <1>6, <1>7

----------------
(* Theorems *)

\* The inductive invariant holds in every state of the saved workspace: the order
\* and the times of the snapshots under way, against what the settings hold.
THEOREM SavedInvariant == SavedWorkspaceSpec => []SavedInv
<1>1. InitSavedWorkspace => SavedInv BY AtFirst
<1>2. SavedInv /\ [SavedWorkspaceNext]_savedVars => SavedInv'
  <2> SUFFICES ASSUME SavedInv, [SavedWorkspaceNext]_savedVars PROVE SavedInv' OBVIOUS
  <2>1. CASE OpenWindow BY <2>1, Opens
  <2>2. CASE LoadReturns BY <2>2, Loads
  <2>3. CASE LoadFails BY <2>3, FailsToLoad
  <2>4. CASE DebounceEnds BY <2>4, Debounced
  <2>5. CASE CloseWindow BY <2>5, CloseKeeps
  <2>6. ASSUME NEW content \in Contents, ChangeTabs(content) PROVE SavedInv' BY <2>6, ChangeKeeps
  <2>7. ASSUME NEW fails \in BOOLEAN, SaveEnds(fails) PROVE SavedInv' BY <2>7, Saves
  <2>8. ASSUME NEW t \in 1..MaxTime, DateMoves(t) PROVE SavedInv' BY <2>8, DatesPass
  <2>9. CASE UNCHANGED savedVars BY <2>9
       DEF savedVars, SavedInv, SavedWorkspaceTypeOK, Flags, QueuesRest, HeldAsFound, LastIsShown,
           KeptUntouched, ClearingsOrdered, LaterThanCleared, ClearingKnown, SavedIsShown,
           RestoredFrom, IsProtected, IsRestorable, Counts
  <2> QED BY <2>1, <2>2, <2>3, <2>4, <2>5, <2>6, <2>7, <2>8, <2>9 DEF SavedWorkspaceNext
<1> QED BY <1>1, <1>2, PTL DEF SavedWorkspaceSpec

\* What a window shows, once it is saved, is what the next window restores; what was
\* found stays until the tabs are touched, and for good if it is of a newer version.
THEOREM ShownIsRestored == SavedWorkspaceSpec => []SavedIsShown
<1>1. SavedInv => SavedIsShown BY DEF SavedInv
<1> QED BY <1>1, SavedInvariant, PTL

----------------
(* Theorems *)

\* The invariant holds when the renderer opens.
LEMMA WorkbenchBegins ==
  ASSUME InitWorkbench
  PROVE  WorkbenchInv
<1>1. WellFormed(workspace) /\ available \subseteq Accounts /\ tabCounter \in Nat
  BY WorkbenchAssumption DEF InitWorkbench
<1>2. RunsTyped /\ CommandsTyped /\ ActiveOwned /\ ResultsTrue /\ MessagesTrue
  BY DEF InitWorkbench, RunsTyped, CommandsTyped, ActiveOwned, ResultsTrue, MessagesTrue
<1>3. RowsGiven /\ DialogTrue /\ NoRunUnattended
  BY DEF InitWorkbench, RowsGiven, DialogTrue, NoRunUnattended
<1> QED BY <1>1, <1>2, <1>3 DEF WorkbenchInv

\* It holds after whatever the user does.
LEMMA UserKeeps ==
  ASSUME WorkbenchInv, WorkbenchUser
  PROVE  WorkbenchInv'
<1>1. ASSUME NEW place \in Places, NEW newTab, OpenPlace(place, newTab) PROVE WorkbenchInv'
  BY <1>1, OpenPlaceKeeps
<1>2. CASE NewTab BY <1>2, NewTabKeeps
<1>3. ASSUME NEW t \in TabIds(workspace), DuplicateTab(t) \/ SelectTab(t) PROVE WorkbenchInv'
  BY <1>3, DuplicateTabKeeps, SelectTabKeeps
<1>4. ASSUME NEW a \in available, SelectItem(a) \/ ChangeAccount(a) \/ RemoveAccount(a) PROVE WorkbenchInv'
  BY <1>4, RecordingKeeps, ChangeAccountKeeps, SameWorkspaceKeeps
<1>5. ASSUME NEW p \in Paths, EditPath(p) PROVE WorkbenchInv' BY <1>5, EditPathKeeps
<1>6. CASE RunQueryTab BY <1>6, RecordingKeeps
<1>7. CASE RunFdql BY <1>7, RunFdqlKeeps
<1>8. CASE RunSqlTab BY <1>8, RunSqlTabKeeps
<1>9. CASE CancelActive BY <1>9, CancelActiveKeeps
<1>10. CASE Back \/ Forward BY <1>10, RestoresKeeps
<1>11. ASSUME NEW i \in DOMAIN workspace.tabs, NEW positions \in Closes(i), RequestClose(positions)
       PROVE  WorkbenchInv'
  BY <1>11, SameWorkspaceKeeps DEF Closes
<1>12. CASE ConfirmClose BY <1>12, ConfirmCloseKeeps
<1>13. CASE DismissClose BY <1>13, SameWorkspaceKeeps
<1> QED BY <1>1, <1>2, <1>3, <1>4, <1>5, <1>6, <1>7, <1>8, <1>9, <1>10, <1>11, <1>12, <1>13
        DEF WorkbenchUser

\* It holds after every step.
LEMMA WorkbenchStep ==
  ASSUME WorkbenchInv, [WorkbenchNext]_workbenchVars
  PROVE  WorkbenchInv'
BY UserKeeps, CompiledKeeps, GivesKeeps, ReceiveEventKeeps, ReceiveAnswerKeeps, SameWorkspaceKeeps
  DEF WorkbenchNext

\* The workspace goes its own way in the renderer.
LEMMA WorkspaceItsOwn ==
  /\ Init => InitWorkbench
  /\ [Next]_vars => [WorkbenchNext]_workbenchVars
BY DEF Init, Next, vars

\* Whatever the user does and whenever answers and events come in, the workspace refers
\* to its own tabs only, and results, active runs and messages agree (tabs store, FdqlState,
\* FirestoreSqlState).
THEOREM WorkbenchInvariant == Spec => []WorkbenchInv
<1>1. Init => WorkbenchInv BY WorkspaceItsOwn, WorkbenchBegins
<1>2. WorkbenchInv /\ [Next]_vars => WorkbenchInv' BY WorkspaceItsOwn, WorkbenchStep
<1> QED BY <1>1, <1>2, PTL DEF Spec

\* The tabs have ids of their own, and the active one and those of the history are open
\* (workspaceTransitions).
LEMMA WorkbenchTyped == WorkbenchInv => WorkbenchTypeOK
<1> SUFFICES ASSUME WorkbenchInv PROVE WorkbenchTypeOK OBVIOUS
<1>1. WellFormed(workspace) /\ available \subseteq Accounts /\ hasty \subseteq DOMAIN runs
  BY DEF WorkbenchInv, RunsTyped
<1>2. DOMAIN activeRuns \subseteq AllTabs /\ Range(activeRuns) \subseteq DOMAIN runs
  BY DEF WorkbenchInv, ActiveOwned, Range
<1>3. /\ DOMAIN results \subseteq AllTabs
      /\ Range(results) \subseteq [run : DOMAIN runs, rows : 0..MaxRows, whole : BOOLEAN]
  BY DEF WorkbenchInv, ResultsTrue, ResultTrue, Range
<1> QED BY <1>1, <1>2, <1>3 DEF WorkbenchTypeOK

\* The renderer is a Firestore tab, a workspace, a users tab and a saved workspace, each of
\* which goes by its own specification; so what is proved of one of them is true of it here.
LEMMA TabsTheirOwn ==
  /\ Init => InitFirestoreTab /\ InitUsersTab /\ InitSavedWorkspace
  /\ [Next]_vars => /\ [FirestoreTabNext]_firestoreVars /\ [UsersTabNext]_usersVars
                    /\ [SavedWorkspaceNext]_savedVars
BY DEF Init, Next, vars

\* The invariant of the users tab: its calls, their answers and its rows agree with what
\* it was told (AuthRuntimeState, AdminAuthProvider).
THEOREM UsersInvariant == Spec => []UsersInv
<1>1. Init => UsersInv BY TabsTheirOwn, UsersBegin
<1>2. UsersInv /\ [Next]_vars => UsersInv' BY TabsTheirOwn, UsersStep
<1> QED BY <1>1, <1>2, PTL DEF Spec

\* A users tab that rests shows the users its filter asks for, and no claims older than those
\* it was told of (selectAuthUsersModel, authUsersLoadSucceeded, authUsersLoadMoreSucceeded,
\* authCustomClaimsSaveSucceeded).
THEOREM TabShowsItsUsers == Spec => []ShowsItsUsers
BY UsersInvariant, UsersShown, PTL

\* What is proved of the Firestore tab and of the saved workspace holds in the renderer: the
\* tab shows its query, marks what is stale, overwrites nothing unseen, and what a window
\* shows is what the next one restores.
THEOREM TabsKeepTheirPromises ==
  Spec => [](ShowsItsQuery /\ StaleIsMarked /\ NoSilentOverwrite /\ SavedIsShown)
<1>1. Spec => FirestoreTabSpec /\ SavedWorkspaceSpec
  BY TabsTheirOwn, PTL DEF Spec, FirestoreTabSpec, SavedWorkspaceSpec
<1> QED BY <1>1, TabShowsItsQuery, TabMarksStale, TabOverwritesNothingUnseen, ShownIsRestored, PTL

OneFocus == focus \in {"query", "workspace", "users", "saved"}

\* Every part of the renderer keeps its type: results and pages that go on, tabs that are
\* open, requests that are numbered, settings that are well formed (the reducers of the stores).
THEOREM TypesKept == Spec => []TypeOK
<1>1. Spec => FirestoreTabSpec /\ SavedWorkspaceSpec
  BY TabsTheirOwn, PTL DEF Spec, FirestoreTabSpec, SavedWorkspaceSpec
<1>2. Spec => []FirestoreTabTypeOK BY <1>1, TabKeepsItsType, PTL
<1>3. Spec => []SavedWorkspaceTypeOK
  <2>1. SavedInv => SavedWorkspaceTypeOK BY DEF SavedInv
  <2> QED BY <1>1, <2>1, SavedInvariant, PTL
<1>4. Spec => []OneFocus
  <2>1. Init => OneFocus BY DEF Init, OneFocus
  <2>2. OneFocus /\ [Next]_vars => OneFocus' BY DEF Next, vars, OneFocus
  <2> QED BY <2>1, <2>2, PTL DEF Spec
<1>5. /\ OneFocus
      /\ FirestoreTabTypeOK /\ WorkbenchInv /\ UsersInv /\ SavedWorkspaceTypeOK
      => TypeOK
  <2> SUFFICES ASSUME OneFocus, FirestoreTabTypeOK, WorkbenchInv, UsersInv, SavedWorkspaceTypeOK
               PROVE  TypeOK
    OBVIOUS
  <2>1. WorkbenchTypeOK /\ UsersTabTypeOK BY WorkbenchTyped, UsersTabTyped
  <2>2. CASE focus = "query" BY <2>2 DEF TypeOK
  <2>3. CASE focus = "workspace" BY <2>1, <2>3 DEF TypeOK
  <2>4. CASE focus = "users" BY <2>1, <2>4 DEF TypeOK
  <2>5. CASE focus = "saved" BY <2>5 DEF TypeOK
  <2> QED BY <2>2, <2>3, <2>4, <2>5 DEF OneFocus
<1> QED BY <1>2, <1>3, <1>4, <1>5, WorkbenchInvariant, UsersInvariant, PTL

\* A tab shows only rows of a run of its own, for the account it has, and calls them all
\* only when they are (tabForRun, tabIsCurrent, clearConnectionScopedTabState).
THEOREM TabShowsItsAccount == Spec => []ShowsItsAccount
<1>1. WorkbenchInv => ShowsItsAccount
  <2> SUFFICES ASSUME WorkbenchInv PROVE ShowsItsAccount OBVIOUS
  <2>1. \A t \in DOMAIN results : ResultTrue(t) BY DEF WorkbenchInv, ResultsTrue
  <2> QED BY <2>1 DEF ShowsItsAccount, ResultTrue
<1> QED BY <1>1, WorkbenchInvariant, PTL

\* A run that goes on and is not cancelled is shown by its tab, unless it was hasty
\* (clearFdqlTabRuntimeCommand, closeTabsWithCleanup).
THEOREM EachRunAttended == Spec => []NoRunUnattended
<1>1. WorkbenchInv => NoRunUnattended BY DEF WorkbenchInv
<1> QED BY <1>1, WorkbenchInvariant, PTL

\* Forward returns to the view that Back left (interactionMovedBack,
\* interactionMovedForward, snapshotCurrentInteraction).
THEOREM BackAndForwardReturn == Spec => ViewReturns
<1>1. ASSUME WorkbenchInv, Back, Active # NoTab, ActivePlace.account \in available,
             MovedBack(workspace, available).entry # 0
      PROVE  LET again == MovedForward(workspace', available').state
             IN /\ again.active = Active /\ again.item = workspace.item
                /\ PlaceOf(again, again.active) = ActivePlace
  BY <1>1, WhenUsed, BackAndForward DEF Active, Back, Restores, ActivePlace
<1>2. WorkbenchInv /\ [Next]_vars =>
        [Back /\ Active # NoTab /\ ActivePlace.account \in available
           /\ MovedBack(workspace, available).entry # 0 =>
         LET again == MovedForward(workspace', available').state
         IN /\ again.active = Active /\ again.item = workspace.item
            /\ PlaceOf(again, again.active) = ActivePlace]_workbenchVars
  BY <1>1
<1> QED BY <1>2, WorkbenchInvariant, PTL DEF Spec, ViewReturns
=============================================================================
