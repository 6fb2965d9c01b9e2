----------------------------- MODULE MCRenderer -----------------------------
(***************************************************************************)
(* A query tab on two documents; three users; four workspaces: one FDQL    *)
(* tab, one SQL tab, a history in which an FDQL tab has changed its        *)
(* account, and one with three tabs that the user has gone back in; and    *)
(* settings without a workspace, or with one of version 0 (none), 1, 2 or 3. *)
(***************************************************************************)
EXTENDS Renderer

MCStaleBehaviors == {"save-and-notify", "confirm"}
MCSymmetry == Permutations(Fields)

Tab(n, place) == [id |-> <<place.kind, n, 1>>, place |-> place]
QueryTab == Tab(1, Query("a", "p"))
FdqlTab(account) == Tab(1, Fdql(account))
SqlTab == Tab(1, Sql("a"))
Interaction(tab, item) == [tab |-> tab.id, place |-> tab.place, item |-> item]

Reached(tabs, interactions, at) ==
  [tabs |-> tabs, active |-> interactions[at].tab, item |-> interactions[at].item,
   history |-> interactions, at |-> at]

Other == Tab(2, Query("b", "q"))
Visit(tab) == Interaction(tab, tab.place)
MCWorkspaces ==
  {Reached(<<FdqlTab("a")>>, <<Interaction(FdqlTab("a"), NoPlace)>>, 1),
   Reached(<<SqlTab>>, <<Interaction(SqlTab, NoPlace)>>, 1),
   Reached(<<QueryTab, FdqlTab("b")>>,
             <<Visit(QueryTab), Visit(FdqlTab("a")), Visit(FdqlTab("b"))>>, 3),
   Reached(<<QueryTab, FdqlTab("a"), Other>>,
             <<Visit(Other), Visit(QueryTab), Visit(FdqlTab("b")), Visit(FdqlTab("a")), Visit(Other)>>, 2)}

Held(content, version, savedAt) ==
  [content |-> content, version |-> version, savedAt |-> savedAt, clearedAt |-> Never]
MCFoundWorkspaces == {Held(Empty, 2, 0)} \cup {Held(1, version, 1) : version \in 0..3}
=============================================================================
