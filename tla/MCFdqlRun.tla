----------------------------- MODULE MCFdqlRun -----------------------------
(***************************************************************************)
(* Two runs, one after the other or at once, of queries over three source  *)
(* documents: two that are correlated by one key, one without that value.  *)
(***************************************************************************)
EXTENDS FdqlRun, TLC

MCKeyOf == <<"k", "k", "missing">>

Lookup(mode, required, limit, cache) ==
  [kind |-> "lookup", mode |-> mode, required |-> required, limit |-> limit, cache |-> cache]
Aggregate(extremes, cache) ==
  [kind |-> "providerAggregate", extremes |-> extremes, cache |-> cache]
Local(kind) == [kind |-> kind]
Take(n) == [kind |-> "take", value |-> n]

From(limit, stages) ==
  [aggregated |-> FALSE, extremes |-> 0, limit |-> limit, stages |-> stages]
FromAggregate(extremes, stages) ==
  [aggregated |-> TRUE, extremes |-> extremes, limit |-> NoLimit, stages |-> stages]
Read(budget, branches) ==
  [kind |-> "read", budget |-> budget, pageSize |-> 2, branches |-> branches]

MCDocs == {("source" :> 3) @@ ("k" :> 1)}

MCPlans ==
  [attach |-> Read(5, <<From(NoLimit, <<Lookup("many", FALSE, NoLimit, "persistent"),
                                        Local("filter")>>)>>),
   tight |-> Read(1, <<From(1, <<Aggregate(1, "off"),
                                 Lookup("many", FALSE, NoLimit, "persistent")>>)>>),
   items |-> Read(5, <<From(2, <<Lookup("many", TRUE, 2, "persistent"), Local("unwind"),
                                 Local("sortBy")>>)>>),
   edge |-> Read(3, <<From(1, <<Lookup("many", FALSE, 1, "run"),
                                Lookup("one", FALSE, NoLimit, "run")>>)>>),
   one |-> Read(4, <<From(1, <<Lookup("one", TRUE, NoLimit, "persistent")>>)>>),
   union |-> Read(6, <<From(2, <<Local("groups")>>),
                       From(1, <<Lookup("one", FALSE, NoLimit, "off"), Take(1)>>)>>),
   totals |-> Read(3, <<From(2, <<Aggregate(1, "persistent")>>)>>),
   total |-> Read(4, <<FromAggregate(1, <<>>), From(2, <<Aggregate(0, "run"),
                                                         Local("aggregate")>>)>>),
   clear |-> [kind |-> "clearCache", budget |-> 1, pageSize |-> 1, branches |-> <<>>],
   broken |-> [kind |-> "invalid", budget |-> 1, pageSize |-> 1, branches |-> <<>>]]

MCPlansOf == <<{"attach", "tight", "items", "edge", "one", "union", "totals", "total", "broken"},
               {"one", "clear"}>>
=============================================================================
