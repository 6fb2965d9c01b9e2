----------------------------- MODULE Workspace -----------------------------
(***************************************************************************)
(* The tabs of the workspace and the history of interactions, as           *)
(* functions of the state the tabs store holds (workspaceTransitions).     *)
(* A place is what a tab looks at: its kind, its account and its path;     *)
(* the item selected in the tree is named by the place it stands for.      *)
(* Titles, inspectors and the path history inside a tool tab, which has    *)
(* one path only, are left out.                                            *)
(***************************************************************************)
EXTENDS Integers, SequencesExt, FiniteSetsExt, Functions

CONSTANTS
  Accounts,      \* connection ids
  Paths          \* the collections query tabs look at

\* A tab's id names its kind, the count of tabs opened then, and which of that name it is.
TabKinds == {"fdql", "firestore-sql", "firestore-query"}
AllTabs == TabKinds \X Nat \X Nat
NoTab == <<"none", 0, 0>>
NoPlace == [kind |-> "none", account |-> "", path |-> ""]
Fdql(account) == [kind |-> "fdql", account |-> account, path |-> "fdql/default"]
Sql(account) == [kind |-> "firestore-sql", account |-> account, path |-> "sql/default"]
Query(account, path) == [kind |-> "firestore-query", account |-> account, path |-> path]
Places ==
  {Fdql(a) : a \in Accounts} \cup {Sql(a) : a \in Accounts}
    \cup {Query(a, p) : a \in Accounts, p \in Paths}

\* TabsState: tabs in the order of the strip; history is interactionHistory and
\* at the place in it, 0 when it is empty; item is selectedTreeItemId.
TabIds(s) == {t.id : t \in Range(s.tabs)}
TabOf(s, id) == CHOOSE t \in Range(s.tabs) : t.id = id
PlaceOf(s, id) == TabOf(s, id).place
PlacedAt(s, id, place) ==
  [s EXCEPT !.tabs = [i \in DOMAIN @ |-> IF @[i].id = id THEN [@[i] EXCEPT !.place = place] ELSE @[i]]]

\* uniqueTabId
UniqueTabId(s, kind, count) ==
  LET Free == {k \in 1..(Len(s.tabs) + 1) : <<kind, count, k>> \notin TabIds(s)}
  IN <<kind, count, Min(Free)>>

-----------------------------------------------------------------------------
\* interactionRecorded, for a tab that is open.
Recorded(s, id, item) ==
  LET entry == [tab |-> id, place |-> PlaceOf(s, id), item |-> item]
  IN IF id \notin TabIds(s) \/ (s.at > 0 /\ s.history[s.at] = entry) THEN s
     ELSE [s EXCEPT !.history = Append(SubSeq(@, 1, s.at), entry), !.at = @ + 1, !.item = item]

\* Mutant: what has been edited since the last recording is not kept.
Snapshot_OnlyOnce(s) == IF s.at = 0 THEN Recorded(s, s.active, s.item) ELSE s

\* snapshotCurrentInteraction
Snapshot(s) == Recorded(s, s.active, s.item)

\* tabOpened, and tabDuplicated behind its source.
Inserted(s, i, tab) ==
  [Snapshot(s) EXCEPT !.active = tab.id, !.item = tab.place, !.tabs = InsertAt(@, i, tab)]
Opened(s, place, id) == Inserted(s, Len(s.tabs) + 1, [id |-> id, place |-> place])
Duplicated(s, source, id) ==
  Inserted(s, 1 + CHOOSE i \in DOMAIN s.tabs : s.tabs[i].id = source,
           [id |-> id, place |-> PlaceOf(s, source)])

Selected(s, id) ==
  IF s.active = id \/ id \notin TabIds(s) THEN s
  ELSE [Snapshot(s) EXCEPT !.active = id, !.item = PlaceOf(s, id)]

\* findOpenWorkspaceTab: the active tab, the one last interacted with, or the first.
Matching(s, place) == {t.id : t \in {u \in Range(s.tabs) : u.place = place}}
FindOpen(s, place) ==
  LET matches == Matching(s, place)
      recent == {i \in DOMAIN s.history : s.history[i].tab \in matches}
  IN IF s.active \in matches THEN s.active
     ELSE IF recent # {} THEN s.history[Max(recent)].tab
     ELSE s.tabs[Min({i \in DOMAIN s.tabs : s.tabs[i].id \in matches})].id

\* tabConnectionUpdated and firestoreTabDraftEdited, of the active tab.
ConnectionUpdated(s, account) ==
  LET place == [PlaceOf(s, s.active) EXCEPT !.account = account]
  IN [PlacedAt(Snapshot(s), s.active, place) EXCEPT !.item = place]
DraftEdited(s, path) ==
  LET place == [PlaceOf(s, s.active) EXCEPT !.path = path]
  IN [PlacedAt(s, s.active, place) EXCEPT !.item = place]

-----------------------------------------------------------------------------
\* sanitizeInteractionHistory: entries of closed tabs and of removed accounts go.
Sanitized(s, available) ==
  LET Kept(e) == e.tab \in TabIds(s) /\ e.place.account \in available
      before == Cardinality({i \in 1..s.at : Kept(s.history[i])})
      history == FoldLeft(LAMBDA h, e : IF Kept(e) THEN Append(h, e) ELSE h, <<>>, s.history)
  IN [s EXCEPT !.history = history, !.at = Min({Len(history), Max({1, before})})]

\* The tab goes from the strip, and its neighbour on the left becomes active.
WithoutTab(s, id) ==
  LET i == CHOOSE n \in DOMAIN s.tabs : s.tabs[n].id = id
      tabs == RemoveAt(s.tabs, i)
      active == IF s.active # id THEN s.active
                ELSE IF tabs = <<>> THEN NoTab ELSE tabs[Max({1, i - 1})].id
  IN [s EXCEPT !.tabs = tabs, !.active = active]

\* Mutant: the history keeps the entries of a closed tab.
Closed_KeepsHistory(s, id) == WithoutTab(s, id)

\* tabClosed
Closed(s, id) ==
  LET next == Sanitized(WithoutTab(s, id), Accounts)
  IN IF id \notin TabIds(s) THEN s
     ELSE IF s.active # id THEN next
     ELSE [next EXCEPT !.item = IF next.active = NoTab THEN NoPlace ELSE PlaceOf(next, next.active)]

\* closeWorkspaceTabsCommand, for the tabs that are not busy.
TabsClosed(s, ids) ==
  IF ids = TabIds(s)
  THEN [tabs |-> <<>>, active |-> NoTab, item |-> NoPlace, history |-> <<>>, at |-> 0]
  ELSE FoldLeft(LAMBDA t, tab : IF tab.id \in ids THEN Closed(t, tab.id) ELSE t, s, s.tabs)

-----------------------------------------------------------------------------
\* restoreInteractionEntry
Restored(s, i) ==
  LET e == s.history[i]
  IN [PlacedAt(s, e.tab, e.place) EXCEPT !.active = e.tab, !.at = i, !.item = e.item]

\* interactionMovedBack and interactionMovedForward; the entry is 0 when there
\* is none to go to.
Moved(s, available, step) ==
  LET z == Sanitized(Snapshot(s), available)
      i == z.at + step
  IN IF i \in DOMAIN z.history THEN [entry |-> i, state |-> Restored(z, i), from |-> z]
     ELSE [entry |-> 0, state |-> z, from |-> z]
MovedBack(s, available) == Moved(s, available, -1)
MovedForward(s, available) == Moved(s, available, 1)

-----------------------------------------------------------------------------
Items ==
  [kind : TabKinds \cup {"project", "none"}, account : Accounts \cup {""},
   path : Paths \cup {"fdql/default", "sql/default", ""}]
TabsState ==
  [tabs : Seq([id : AllTabs, place : Places]), active : AllTabs \cup {NoTab}, item : Items,
   history : Seq([tab : AllTabs, place : Places, item : Items]), at : Nat]

\* The references of a workspace: tabs have ids of their own, which name their kinds;
\* the active one is open, and so are those of the history, where at is a place.
WellFormed(s) ==
  /\ s \in TabsState
  /\ Cardinality(TabIds(s)) = Len(s.tabs)
  /\ \A t \in Range(s.tabs) : t.id[1] = t.place.kind
  /\ IF s.tabs = <<>> THEN s.active = NoTab ELSE s.active \in TabIds(s)
  /\ IF s.history = <<>> THEN s.at = 0 ELSE s.at \in DOMAIN s.history
  /\ \A e \in Range(s.history) : e.tab \in TabIds(s) /\ e.place.kind = PlaceOf(s, e.tab).kind
=============================================================================
