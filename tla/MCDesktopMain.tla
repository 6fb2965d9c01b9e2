--------------------------- MODULE MCDesktopMain ---------------------------
(***************************************************************************)
(* Every sequence of three calls of the settings and the activity log, and *)
(* every sequence of three calls for a project, overlapping in all ways;   *)
(* and the run of a query in SQL on orders, their users and their events.  *)
(***************************************************************************)
EXTENDS DesktopMain

Limits(maxBytes, enabled) == [maxBytes |-> maxBytes, enabled |-> enabled]
MCDefaults == [theme |-> "system", activityLog |-> Limits(4, TRUE)]

Save(patch) == [do |-> "saveSettings", patch |-> patch]
SettingsCalls ==
  {Save([theme |-> "dark"]),
   Save([activityLog |-> Limits(2, TRUE)]), Save([activityLog |-> Limits(4, FALSE)]),
   [do |-> "loadSettings"], [do |-> "append", size |-> 3],
   [do |-> "clear"], [do |-> "list"]}

Id == <<"a", 1>>
Production == [id |-> Id, host |-> "cloud", credential |-> TRUE, cred |-> 0]

Log(entries, torn) == [entries |-> entries, torn |-> torn]
Old == [id |-> 0, size |-> 1]

Add(credential) == [do |-> "add", name |-> "a", host |-> "cloud", credential |-> credential]
RemoveIt == [do |-> "remove", id |-> Id]
Connect == [do |-> "connect", id |-> Id]
Update == [do |-> "update", id |-> Id, host |-> "other"]
ProjectCalls == {Add(TRUE), Add(FALSE), RemoveIt, Connect, Update}
Reopened == {<<Connect, RemoveIt, Add(TRUE), Connect>>, <<Connect, Update, Connect, Connect>>}

-----------------------------------------------------------------------------
Data(total, user, tier) ==
  (<<"total">> :> total) @@ (IF user = 0 THEN <<>> ELSE <<"user">> :> user)
    @@ (<<"meta", "tier">> :> tier) @@ (<<"meta", "code">> :> 9)
Doc(id, data) == [id |-> id, data |-> data]
Events(kinds) == [i \in DOMAIN kinds |-> Doc(i, <<"kind">> :> kinds[i])]
Orders == <<Doc(1, Data(5, 2, 1)), Doc(2, Data(3, 1, 2)), Doc(3, Data(5, 0, 1))>>
Users == <<Doc(1, (<<"name">> :> 7) @@ (<<"total">> :> 8))>>

MCDocumentsNow ==
  <<(<<<<>>, "orders">> :> Orders) @@ (<<<<>>, "users">> :> Users)
      @@ (<<<<"orders", 1>>, "events">> :> Events(<<1, 2>>))
      @@ (<<<<"orders", 3>>, "events">> :> Events(<<2>>))
      @@ (<<<<"users", 1>>, "notes">> :> Events(<<3>>)),
    (<<<<>>, "orders">> :> SubSeq(Orders, 1, 2))
      @@ (<<<<>>, "users">> :> Append(Users, Doc(2, <<"name">> :> 6)))
      @@ (<<<<"orders", 2>>, "events">> :> Events(<<2, 1>>))>>

Call(op, args) == [op |-> op, args |-> args]
Field(path) == [op |-> "fieldPath", path |-> path, args |-> <<>>]
IdOf(alias) == [op |-> "id", of |-> alias, args |-> <<>>]
Literal(n) == [op |-> "literal", value |-> n, args |-> <<>>]
Is(op, a, b) == Call(op, <<a, b>>)
Always == Call("none", <<>>)
As(name, e) == [op |-> "column", name |-> name, expression |-> e]
Star(path) == [op |-> "wildcard", path |-> path, args |-> <<>>]
By(e, desc) == [expression |-> e, desc |-> desc]

From(alias, name) == [kind |-> "collection", alias |-> alias, name |-> name]
Group(alias, name) == [kind |-> "collection_group", alias |-> alias, name |-> name]
Below(alias, of, name) ==
  [kind |-> "subcollection", alias |-> alias, of |-> of, name |-> name]
Join(type, source, on) == [type |-> type, source |-> source, on |-> on]

SelectFrom(columns, from, joins, where, order, limit, budget) ==
  [columns |-> columns, from |-> from, joins |-> joins, where |-> where, order |-> order,
   limit |-> limit, readBudget |-> budget]
Statement(branches, budget) == [branches |-> branches, readBudget |-> budget, timeoutMs |-> 1]

Total == Field(<<"o", "total">>)
UserOf == Join("left", From("u", "users"), Is("=", IdOf("u"), Field(<<"o", "user">>)))

First == SelectFrom(<<As("total", Field(<<"total">>))>>, From("orders", "orders"), <<>>,
                    Always, <<>>, 2, 50)
Cheapest == SelectFrom(<<Star(<<"o", "meta">>), As("id", IdOf("o"))>>, From("o", "orders"), <<>>,
                       Always, <<By(Total, FALSE), By(IdOf("o"), TRUE)>>, 2, 50)
Filtered == SelectFrom(<<As("meta", Field(<<"o", "meta">>)),
                         As("tier", Field(<<"o", "meta", "tier">>))>>, From("o", "orders"), <<>>,
                       Is("and", Is("<", Literal(3), Total),
                                 Call("missing", <<Field(<<"user">>)>>)), <<>>, 1, 2)
UsersOfOrders ==
  SelectFrom(<<As("total", Total), As("name", Field(<<"u", "name">>))>>, From("o", "orders"),
             <<UserOf>>, Is("or", Is("!=", Total, Literal(5)),
                                  Call("not", <<Call("exists", <<IdOf("u")>>)>>)),
             <<By(Total, TRUE)>>, NoLimit, 50)
EventsOfOrders ==
  SelectFrom(<<As("order", IdOf("o")), Star(<<"e">>)>>, From("o", "orders"),
             <<Join("cross", Below("e", "o", "events"), Always)>>,
             Is("=", Field(<<"e", "kind">>), Literal(2)), <<>>, NoLimit, 50)
NotesOfUsers ==
  SelectFrom(<<Star(<<>>), As("note", Call("coalesce", <<IdOf("n"), IdOf("u"), IdOf("o")>>))>>,
             From("o", "orders"), <<UserOf, Join("left", Below("n", "u", "notes"), Always)>>,
             Always, <<>>, 3, 50)
OneOrder == SelectFrom(<<As("total", Total)>>, From("o", "orders"), <<>>, Always, <<>>, 1, 50)
LastEvent == SelectFrom(<<Star(<<>>)>>, Group("events", "events"), <<>>, Always,
                        <<By(Field(<<"kind">>), TRUE)>>, 1, 50)
AllOrders == SelectFrom(<<Star(<<"o">>)>>, From("o", "orders"), <<>>, Always, <<>>, NoLimit, 50)

MCSqlPlans ==
  [first |-> Statement(<<First>>, NoLimit),
   cheapest |-> Statement(<<Cheapest>>, NoLimit),
   filtered |-> Statement(<<Filtered>>, 50),
   users |-> Statement(<<UsersOfOrders>>, NoLimit),
   events |-> Statement(<<EventsOfOrders>>, NoLimit),
   notes |-> Statement(<<NotesOfUsers>>, NoLimit),
   union |-> Statement(<<OneOrder, LastEvent>>, NoLimit),
   tight |-> Statement(<<AllOrders>>, 2),
   broken |-> Statement(<<>>, NoLimit)]

-----------------------------------------------------------------------------
MCScenarios ==
  [script : [1..3 -> SettingsCalls], settings : {None, Invalid}, log : {Log(<<Old>>, FALSE)},
   projects : {<<>>}, credentials : {<<>>}, sql : {NoSql}]
    \cup
  [script : [1..3 -> ProjectCalls] \cup Reopened, settings : {None}, log : {Log(<<>>, FALSE)},
   projects : {<<Production>>}, credentials : {Id :> 0}, sql : {NoSql}]
    \cup
  [script : {<<>>}, settings : {None}, log : {Log(<<>>, FALSE)},
   projects : {<<>>}, credentials : {<<>>}, sql : DOMAIN MCSqlPlans]
=============================================================================
