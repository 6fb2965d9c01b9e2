----------------------------- MODULE SqlQueries -----------------------------
(***************************************************************************)
(* What queries in Firestore SQL are made of, as functions: rows,          *)
(* expressions, the plan of a statement, and which fields and documents of *)
(* its sources a plan asks Firestore for (parser, planner, executor).      *)
(* A value is the function from the paths of its leaves to their numbers:  *)
(* a scalar has the empty path only, undefined has none.  A source value   *)
(* is a document; a row has one for each alias.                            *)
(***************************************************************************)
EXTENDS Integers, SequencesExt, FiniteSetsExt, Functions, TLC

CONSTANT MaxNesting     \* bound: how deep expressions are nested

ASSUME NestingAssumption == MaxNesting \in Nat

Undefined == <<>>
Scalar(n) == <<>> :> n
\* The partner of a row in a left join that has none.
NoDocument == [in |-> <<>>, id |-> 0, data |-> Undefined]
\* No limit, which is a number as the others are.
NoLimit == 99

\* getNested
Nested(value, path) ==
  LET Below == {leaf \in DOMAIN value : IsPrefix(path, leaf)}
      Rest(leaf) == SubSeq(leaf, Len(path) + 1, Len(leaf))
  IN [rest \in {Rest(leaf) : leaf \in Below} |-> value[path \o rest]]

\* A field mask, as Firestore's select and projectRuntimeData apply it; {<<>>} leaves all.
Masked(data, fields) ==
  Restrict(data, {leaf \in DOMAIN data : \E f \in fields : IsPrefix(f, leaf)})

\* A row, with the document of an alias.
WithDocument(row, alias, document) ==
  [a \in DOMAIN row \cup {alias} |-> IF a = alias THEN document ELSE row[a]]

RowsOf(documents, alias) ==
  [i \in DOMAIN documents |-> WithDocument(<<>>, alias, documents[i])]

-----------------------------------------------------------------------------
(***************************************************************************)
(* Expressions.  An expression is its operator or function with its        *)
(* arguments; a field path has none, and an alias hides a field of its     *)
(* name.  What computes with numbers and texts is left out.                *)
(***************************************************************************)

Truthy(value) == value # Undefined /\ value # Scalar(0)
Holds(b) == Scalar(IF b THEN 1 ELSE 0)

\* sameValue: objects are told apart by identity, so what is nested never is the same.
Same(a, b) == a = b /\ (a = Undefined \/ DOMAIN a = {<<>>})
\* comparable: undefined, a string, is neither less nor more than a number.
Less(a, b) == DOMAIN a = {<<>>} /\ DOMAIN b = {<<>>} /\ a[<<>>] < b[<<>>]

\* evaluateFieldPath
FieldValue(path, row, primary) ==
  IF Head(path) \in DOMAIN row
  THEN Nested(row[Head(path)].data, Tail(path))
  ELSE Nested(row[primary].data, path)

\* What an expression reads of a row: a field, or the id of a document.
Reads(e, row, primary) ==
  CASE e.op = "fieldPath" -> FieldValue(e.path, row, primary)
    [] e.op = "id" /\ e.of \in DOMAIN row /\ row[e.of] # NoDocument -> Scalar(row[e.of].id)
    [] OTHER -> Undefined

\* evaluateCall: what does not compute with numbers and texts.
CallValue(e, args) ==
  CASE e.op = "missing" -> Holds(args[1] = Undefined)
    [] e.op = "exists" -> Holds(args[1] # Undefined)
    [] e.op = "coalesce" ->
         LET there == SelectSeq(args, LAMBDA v : v # Undefined)
         IN IF there = <<>> THEN Undefined ELSE Head(there)

\* An expression with what is nested in it.
Parts(e) ==
  LET Level[n \in 0..MaxNesting] ==
        IF n = 0 THEN {e} ELSE UNION {Range(x.args) : x \in Level[n - 1]}
  IN UNION Range(Level)

\* evaluateExpression, evaluateBinary: an expression of what it reads and its arguments are.
ValueOf(e, read, args) ==
  LET True(i) == Truthy(args[i])
  IN CASE e.op \in {"fieldPath", "id"} -> read
       [] e.op = "literal" -> Scalar(e.value)
       [] e.op = "=" -> Holds(Same(args[1], args[2]))
       [] e.op = "!=" -> Holds(~Same(args[1], args[2]))
       [] e.op = "<" -> Holds(Less(args[1], args[2]))
       [] e.op = "and" -> Holds(True(1) /\ True(2))
       [] e.op = "or" -> Holds(True(1) \/ True(2))
       [] e.op = "not" -> Holds(~True(1))
       [] OTHER -> CallValue(e, args)
EvaluateOn(e, read) ==
  LET value[x \in DOMAIN read] ==
        ValueOf(x, read[x], [i \in DOMAIN x.args |-> value[x.args[i]]])
  IN value[e]
Evaluate(e, row, primary) == EvaluateOn(e, [x \in Parts(e) |-> Reads(x, row, primary)])

\* The rows that an expression holds for, if there is one, in the order they are in.
Passed(rows, passes) == FlattenSeq([i \in DOMAIN rows |-> IF passes[i] THEN <<rows[i]>> ELSE <<>>])
Filter(rows, e, primary) ==
  IF e.op = "none" THEN rows
  ELSE Passed(rows, [i \in DOMAIN rows |-> Truthy(Evaluate(e, rows[i], primary))])

\* projectRow: a column's value goes under its name, a wildcard's fields under theirs.
Column(c, row, primary) ==
  IF c.op = "wildcard"
  THEN IF c.path = <<>> THEN row[primary].data
       ELSE LET value == FieldValue(c.path, row, primary) IN Restrict(value, DOMAIN value \ {<<>>})
  ELSE LET value == Evaluate(c.expression, row, primary)
       IN [leaf \in {<<c.name>> \o rest : rest \in DOMAIN value} |-> value[Tail(leaf)]]
Assigned(columns, values) ==
  LET Names(i) == IF columns[i].op = "wildcard" THEN {leaf[1] : leaf \in DOMAIN values[i]}
                  ELSE {columns[i].name}
      Assign(output, i) ==
        values[i] @@ Restrict(output, {leaf \in DOMAIN output : leaf[1] \notin Names(i)})
  IN FoldLeftDomain(Assign, Undefined, columns)
Projected(columns, row, primary) ==
  Assigned(columns, [i \in DOMAIN columns |-> Column(columns[i], row, primary)])

\* mergeRows for the partners that satisfy the condition, or a miss.
Joined(left, documents, join, primary) ==
  LET rows == [i \in DOMAIN documents |-> WithDocument(left, join.source.alias, documents[i])]
      matching == Filter(rows, join.on, primary)
  IN IF matching = <<>> /\ join.type = "left"
     THEN <<WithDocument(left, join.source.alias, NoDocument)>> ELSE matching

\* compareRows: what two rows have for the items of an order, at the first that differs.
Precedes(a, b, order) ==
  LET Differ == {i \in DOMAIN order : Less(a[i], b[i]) \/ Less(b[i], a[i])}
      first == Min(Differ)
  IN Differ # {} /\ IF order[first].desc THEN Less(b[first], a[first]) ELSE Less(a[first], b[first])

\* sortRows: a row goes before the first one it is less than.  A row is known by its
\* keys, what it has for the items of the order.
Keys(rows, order, primary) ==
  [i \in DOMAIN rows |-> [k \in DOMAIN order |-> Evaluate(order[k].expression, rows[i], primary)]]
Sorted(keys, order) ==
  LET sorted[i \in 0..Len(keys)] ==
        IF i = 0 THEN <<>>
        ELSE LET After == {k \in DOMAIN sorted[i - 1] :
                             Precedes(keys[i], keys[sorted[i - 1][k]], order)}
             IN InsertAt(sorted[i - 1], Min(After \cup {i}), i)
  IN sorted[Len(keys)]
SortRows(rows, order, primary) ==
  LET places == Sorted(Keys(rows, order, primary), order)
  IN [k \in DOMAIN places |-> rows[places[k]]]

\* applyLimit
Reached(count, limit) == limit # NoLimit /\ count >= limit
Limited(rows, limit) ==
  IF limit = NoLimit THEN rows ELSE SubSeq(rows, 1, Min({limit, Len(rows)}))

-----------------------------------------------------------------------------
(***************************************************************************)
(* Plans                                                                   *)
(***************************************************************************)

Primary(select) == select.from.alias
Aliases(select) == {Primary(select)} \cup {select.joins[i].source.alias : i \in DOMAIN select.joins}

\* planSelect
Stages(select) ==
  <<[kind |-> "execution"], [kind |-> "read", source |-> select.from]>>
    \o [i \in DOMAIN select.joins |-> [kind |-> "join", source |-> select.joins[i].source,
                                       type |-> select.joins[i].type, on |-> select.joins[i].on]]
    \o (IF select.where.op = "none" THEN <<>>
        ELSE <<[kind |-> "filter", expression |-> select.where]>>)
    \o <<[kind |-> "project"]>>

\* collectProjectionExpression: the paths that are needed, of which sources.
Owned(path, select) ==
  IF path # <<>> /\ Head(path) \in Aliases(select) THEN <<Head(path), Tail(path)>>
  ELSE <<Primary(select), path>>
FieldPaths(e) == {x.path : x \in {y \in Parts(e) : y.op = "fieldPath"}}
Expressions(select) ==
  {join.on : join \in Range(select.joins)} \cup {select.where}
    \cup {c.expression : c \in {d \in Range(select.columns) : d.op # "wildcard"}}
    \cup {item.expression : item \in Range(select.order)}
Wildcards(select) == {c \in Range(select.columns) : c.op = "wildcard"}

\* sourceProjectionStateFor; subcollection(a, "name") needs the document of a.
NeededOf(select) ==
  {Owned(path, select) : path \in {c.path : c \in Wildcards(select)}
                                   \cup UNION {FieldPaths(e) : e \in Expressions(select)}}
    \cup {<<join.source.of, <<>>>> :
            join \in {j \in Range(select.joins) : j.source.kind = "subcollection"}}

\* addProjectionField: a path is left out when one that contains it is there.
Mask(select, alias) ==
  LET paths == {need[2] : need \in {n \in NeededOf(select) : n[1] = alias}}
  IN {p \in paths : ~\E q \in paths : IsStrictPrefix(q, p)}

\* Mutant: the limit is pushed down past the order.
ReadLimit_Ordered(select, alias) ==
  IF alias # Primary(select) \/ select.joins # <<>> \/ select.where.op # "none"
  THEN NoLimit ELSE select.limit

\* sourceReadLimitFor, sourceReadOptionsFor
ReadLimit(select, alias) ==
  IF \/ alias # Primary(select) \/ select.order # <<>>
     \/ select.joins # <<>> \/ select.where.op # "none"
  THEN NoLimit ELSE select.limit
=============================================================================
