------------------------------- MODULE Reads -------------------------------
(***************************************************************************)
(* Reads of a generated program: what "load", "list", "count" and "join"   *)
(* compile to, and what the compiled read answers while writers append.    *)
(*                                                                         *)
(* A query is compiled to a Query value that two interpreters run: a slice *)
(* in memory (SelectSlice) and a table, where the equalities of the filter *)
(* (WhereEq) are pushed down to SQL and the rest runs in memory again.  A  *)
(* join reads its two collections one after the other.                     *)
(*                                                                         *)
(* Expressions are tuples: <<"item", f>>, <<"other", f>>, <<"param">>,     *)
(* <<"lit", v>> and <<op, left, right>>; "/" stands for an operator of a   *)
(* ValueObject, which can fail.  Both backends are append only, so what a  *)
(* read saw is the number of rows there were.  Rows are told by their      *)
(* position, and a slice of items, always in the order of insertion, by    *)
(* the set of its positions.                                               *)
(***************************************************************************)
EXTENDS Lists, FiniteSets, SequencesExt, FiniteSetsExt

CONSTANTS ReadFields,      \* the fields of an item
          NewField,        \* the field the second release adds
          TypeOfField,     \* [ReadFields -> a type name]
          ReadOperators,       \* which of "<", ">" the composite ValueObject declares
          ReadValues,      \* the values of a field, a range of naturals with 0
          Terms,           \* the expressions of the queries, with their operands
          Depth,           \* [Terms -> how deep the operands of a term are nested]
          MaxDepth,        \* bound: the deepest term
          Queries,         \* the queries of the second release
          ItemShape,       \* the fields of the two aliases of a join, in order:
          OtherShape,      \*   <<[name |-> a tuple of words, subs |-> a set of words]>>
          MaxRows,         \* bound: rows of the two collections
          MaxOthers,       \* bound: rows of the joined collection
          Absent           \* model value: the key is not in the stored JSON

VARIABLES backend, release, rows, others, reading, answer

readVars == <<backend, release, rows, others, reading, answer>>

NoExpr == <<"none">>
NoView == {}

TermOperators == {"and", "or", "==", "<", "/"}
Operands(e) == IF e[1] \in TermOperators THEN {e[2], e[3]} ELSE {}

\* A field, the parameter, a literal, or what an operator of a ValueObject makes of them
IsNumber(e) == e[1] \in {"item", "other", "param", "lit", "/"}

ASSUME ReadBoundsAssumption == MaxRows \in Nat /\ MaxOthers \in Nat /\ MaxDepth \in Nat
ASSUME ReadValuesAssumption == ReadValues \subseteq Nat /\ Absent \notin ReadValues

\* Terms are trees, and the operator of a ValueObject is applied to values.
ASSUME TermsAssumption ==
  /\ Depth \in [Terms -> 0..MaxDepth]
  /\ \A e \in Terms :
       /\ IsNumber(e) \/ e[1] \in TermOperators
       /\ \A o \in Operands(e) : o \in Terms /\ Depth[o] < Depth[e]
       /\ e[1] \in {"item", "other"} => e[2] \in ReadFields
       /\ e[1] = "lit" => e[2] \in Nat
       /\ e[1] = "/" => \A o \in Operands(e) : IsNumber(o)

-----------------------------------------------------------------------------
(* Evaluation.  Operands are lowered before their operator, so the failing  *)
(* operator of either side of "and" and "or" ends the evaluation.           *)

\* An expression, from the values of its operands.
Evaluate(x, value, env) ==
  CASE x[1] = "item"  -> env.item[x[2]]
    [] x[1] = "other" -> env.other[x[2]]
    [] x[1] = "param" -> env.param
    [] x[1] = "lit"   -> x[2]
    [] x[1] = "and"   -> value[x[2]] /\ value[x[3]]
    [] x[1] = "or"    -> value[x[2]] \/ value[x[3]]
    [] x[1] = "=="    -> value[x[2]] = value[x[3]]
    [] x[1] = "<"     -> value[x[2]] < value[x[3]]
    [] x[1] = "/"     -> value[x[2]] \div value[x[3]]

Value(e, env) == LET value[x \in Terms] == Evaluate(x, value, env) IN value[e]

\* An expression and all the expressions in it.
WithParts(x, parts) == {x} \cup UNION {parts[o] : o \in Operands(x)}

Parts(e) == LET parts[x \in Terms] == WithParts(x, parts) IN parts[e]

\* The parts of every term, found once: most states ask whether something fails.
PartsTable == [e \in Terms |-> Parts(e)]
Fails(e, env) == \E x \in PartsTable[e] : x[1] = "/" /\ Value(x[3], env) = 0

\* exprReferencesIdent
Mentions(e, what) == \E x \in Parts(e) : x[1] = what

-----------------------------------------------------------------------------
(* Compilation of the clauses.                                              *)

PlacesOf(q, kw) == {i \in DOMAIN q.clauses : q.clauses[i].kw = kw}

\* queryClauseByKw: the first clause of that keyword
Clause(q, kw) == IF PlacesOf(q, kw) = {} THEN NoExpr ELSE q.clauses[Min(PlacesOf(q, kw))].expr

Descending(q) == \E i \in PlacesOf(q, "orderBy") : q.clauses[i].desc

\* Mutant: a second clause of a keyword is accepted, and ignored.
DuplicatesAcceptedMutant(q) ==
  q.op = "count" => \A kw \in {"orderBy", "skip", "take"} : PlacesOf(q, kw) = {}

\* ensureNoDuplicateClause
AtMostOne(q, kw) == \A i, j \in PlacesOf(q, kw) : i = j

ensureListClausesWellFormed(q) ==
  /\ \A kw \in {"where", "orderBy", "skip", "take"} : AtMostOne(q, kw)
  /\ q.op = "count" => \A kw \in {"orderBy", "skip", "take"} : PlacesOf(q, kw) = {}

\* flattenAndConjuncts
Flattened(x, flat) == IF x[1] = "and" THEN flat[x[2]] \cup flat[x[3]] ELSE {x}

Conjuncts(e) == LET flat[x \in Terms] == Flattened(x, flat) IN flat[e]

\* inComparableGoType and whereEqSafePrimitiveType: the types whose values the
\* driver binds as the text the JSON holds
Pushable(f) ==
  TypeOfField[f] \notin {"decimal", "bytes", "rate", "datetime", "duration", "size", "composite"}

IsItemField(e) == e[1] = "item"

\* fieldEqOperands: the field and the other side of "item.f == e", either way round
FieldEq(e) ==
  IF IsItemField(e[2]) THEN [field |-> e[2][2], rhs |-> e[3]]
                       ELSE [field |-> e[3][2], rhs |-> e[2]]

IsFieldEq(e) ==
  /\ e[1] = "=="
  /\ IsItemField(e[2]) # IsItemField(e[3])
  /\ Pushable(FieldEq(e).field)
  /\ ~Mentions(FieldEq(e).rhs, "item")

\* The equalities a filter is made of, or nothing when it holds anything else.
hoistWhereEq(q) ==
  LET parts == Conjuncts(Clause(q, "where")) IN
  IF \A c \in parts : IsFieldEq(c) THEN {FieldEq(c) : c \in parts} ELSE {}

\* The type of a key: of the field it is, or of what it computes
KeyType(key) ==
  CASE IsItemField(key) -> TypeOfField[key[2]]
    [] IsNumber(key) /\ ~IsItemField(key) -> "integer"
    [] OTHER -> "boolean"

\* buildLess: can a key of this type be ordered
Orderable(type) ==
  \/ type \in {"integer", "decimal", "string", "datetime", "duration", "size"}
  \/ type = "composite" /\ ReadOperators # {}

\* buildLess: the comparison x < y; a composite without "<" asks y > x
LessThan(type, x, y) ==
  IF type = "composite" /\ "<" \notin ReadOperators THEN y > x ELSE x < y

hoistOrderBy(q, x, y) ==
  LET key  == Clause(q, "orderBy")
      less(a, b) == LessThan(KeyType(key), Value(key, a), Value(key, b))
  IN key # NoExpr /\ IF Descending(q) THEN less(y, x) ELSE less(x, y)

-----------------------------------------------------------------------------
(* Views: a field of a view is a field of the source of the same name, or a *)
(* field of a composite field, its name prefixed by it.                     *)

\* flattenedFieldExpr: the first composite field that spells the name
FlattenedPaths(shape, name) ==
  {path \in UNION {{i} \X shape[i].subs : i \in DOMAIN shape} :
      shape[path[1]].name \o <<path[2]>> = name}

\* projectFieldAssignments, matchJoinField: the paths of the source that a view
\* field may be assigned from; a field of that name comes first
SourcePaths(shape, name) ==
  LET direct == {<<i, "">> : i \in {j \in DOMAIN shape : shape[j].name = name}}
  IN IF direct # {} THEN direct ELSE FlattenedPaths(shape, name)

Assign(alias, paths) == [alias |-> alias, path |-> CHOOSE p \in paths : \A o \in paths : p[1] <= o[1]]

\* Mutant: the first alias wins.
FirstAliasMutant(q) ==
  \A name \in q.view : SourcePaths(ItemShape, name) # {} \/ (q.op = "join" /\ SourcePaths(OtherShape, name) # {})

\* joinProjectFieldAssignments: a field both aliases offer is refused
Projects(q) ==
  \A name \in q.view :
    CASE q.op = "join" ->
           (SourcePaths(ItemShape, name) # {}) # (SourcePaths(OtherShape, name) # {})
      [] OTHER -> SourcePaths(ItemShape, name) # {}

Projection(q) ==
  [name \in q.view |->
     IF SourcePaths(ItemShape, name) # {}
     THEN Assign("item", SourcePaths(ItemShape, name))
     ELSE Assign("other", SourcePaths(OtherShape, name))]

-----------------------------------------------------------------------------
(* Compilation of a query.                                                  *)

\* validateJoinOnEquality: one bare field of each alias
OnIsEquality(on) ==
  on[1] = "==" /\ {on[2][1], on[3][1]} = {"item", "other"}

ensureJoinClausesWellFormed(q) ==
  /\ \A kw \in {"orderBy", "skip", "take"} : PlacesOf(q, kw) = {}
  /\ \A kw \in {"join", "on"} : PlacesOf(q, kw) # {}
  /\ \A kw \in {"join", "on", "where"} : AtMostOne(q, kw)
  /\ OnIsEquality(Clause(q, "on"))

\* emitAsProjection: the query declares a list of the view it maps to
AsProjection(q) == q.view # NoView => q.returnsView /\ Projects(q)

EmitLoadAsView(q) == q.view # NoView /\ AsProjection(q)

EmitHoistedQueryReturn(q) == ensureListClausesWellFormed(q) /\ AsProjection(q)

EmitHoistedJoinReturn(q) == ensureJoinClausesWellFormed(q) /\ AsProjection(q)

\* correlateListVOAggregate: one aggregate field holds the ValueObject
Correlates(q) == Cardinality(q.holders) = 1

\* tryEmitListVO: the query's one parameter is the id of that aggregate
EmitListVO(q) == Correlates(q) /\ q.params = 1 /\ EmitHoistedQueryReturn(q)

EmitReturn(q) ==
  \/ q.op = "load" /\ q.target = "aggregate" /\ EmitLoadAsView(q)
  \/ q.op = "load" /\ q.target = "items" /\ EmitHoistedQueryReturn(q)
  \/ q.op = "list" /\ q.target = "vo" /\ EmitListVO(q)
  \/ q.op = "join" /\ EmitHoistedJoinReturn(q)

\* What a statement may assign: hoistList and hoistCount over a Collection.
EmitAssign(q) ==
  /\ q.op \in {"list", "count"} /\ q.target = "collection"
  /\ ensureListClausesWellFormed(q)

\* Only hoistList and hoistCount fill WhereEq in.
WhereEqOf(q) ==
  IF q.op \in {"list", "count"} /\ q.target = "collection" /\ Clause(q, "where") # NoExpr
  THEN hoistWhereEq(q)
  ELSE {}

\* The value pushed down is lowered as one expression: an operator that returns an
\* error too makes a program Go refuses.
Compiles(q) ==
  /\ IF q.returned THEN EmitReturn(q) ELSE EmitAssign(q)
  /\ Clause(q, "orderBy") # NoExpr => Orderable(KeyType(Clause(q, "orderBy")))
  /\ \A eq \in WhereEqOf(q) : ~Mentions(eq.rhs, "/")

CompilingQueries == {q \in Queries : Compiles(q)}

\* A clause as it is parsed: the expression its keyword takes, of names in scope.  The
\* numbers of "skip" and "take" are literals in this model.
ClauseIsTyped(q, c) ==
  /\ c.kw \in {"join", "on", "where", "orderBy", "skip", "take"} /\ c.desc \in BOOLEAN
  /\ IF c.kw = "join" THEN c.expr = NoExpr ELSE c.expr \in Terms
  /\ c.kw \in {"skip", "take"} => c.expr[1] = "lit"
  /\ q.op # "join" => ~Mentions(c.expr, "other")

\* A load of one aggregate has no clauses, and only a result that is given back is
\* projected to a view.
ASSUME QueriesAssumption ==
  \A q \in Queries :
    /\ q.clauses \in Seq(Range(q.clauses))
    /\ \A i \in DOMAIN q.clauses : ClauseIsTyped(q, q.clauses[i])
    /\ q.view # NoView => q.returned
    /\ q.target = "aggregate" => q.clauses = <<>>

ASSUME ShapesAssumption ==
  \A shape \in {ItemShape, OtherShape} :
    /\ shape \in Seq(Range(shape))
    /\ \A field \in Range(shape) :
         field.name \in Seq(Range(field.name)) /\ "" \notin field.subs

-----------------------------------------------------------------------------
(* The two interpreters, of the table of rows they are given.               *)

Decoded(row) == [f \in ReadFields |-> IF row[f] = Absent THEN 0 ELSE row[f]]

Env(table, i, p) == [item |-> Decoded(table[i]), param |-> p]

Passes(table, q, i, p) == Clause(q, "where") = NoExpr \/ Value(Clause(q, "where"), Env(table, i, p))
PredicateFails(table, q, i, p) == Clause(q, "where") # NoExpr /\ Fails(Clause(q, "where"), Env(table, i, p))
KeyFails(table, q, i, p) == Clause(q, "orderBy") # NoExpr /\ Fails(Clause(q, "orderBy"), Env(table, i, p))

\* sort.SliceStable: an item goes after the last one that it is not less than.
Insert(table, q, p, sorted, i) ==
  LET k == Max({0} \cup {j \in DOMAIN sorted : ~hoistOrderBy(q, Env(table, i, p), Env(table, sorted[j], p))})
  IN [j \in 1..(Len(sorted) + 1) |->
        IF j <= k THEN sorted[j] ELSE IF j = k + 1 THEN i ELSE sorted[j - 1]]

Sorted(table, q, p, items) ==
  LET upTo[n \in 0..Len(table)] ==
        IF n = 0 THEN <<>>
        ELSE IF n \in items THEN Insert(table, q, p, upTo[n - 1], n) ELSE upTo[n - 1]
  IN upTo[Len(table)]

\* A count of skip or take that is not positive is an absent clause.
Number(q, kw) == IF Clause(q, kw) = NoExpr THEN 0 ELSE Clause(q, kw)[2]

\* Mutant: take counts the rows that skip drops.
TakeFirstMutant(items, skip, take) ==
  IF take > 0 /\ take < Len(items) THEN SubSeq(items, skip + 1, take) ELSE SubSeq(items, skip + 1, Len(items))

paginate(items, skip, take) ==
  LET rest == IF skip > 0 THEN SubSeq(items, skip + 1, Len(items)) ELSE items
  IN IF take > 0 /\ take < Len(rest) THEN SubSeq(rest, 1, take) ELSE rest

Page(items)  == [kind |-> "page", page |-> items, count |-> 0]
Counted(n)   == [kind |-> "count", page |-> <<>>, count |-> n]
Failed       == [kind |-> "error", page |-> <<>>, count |-> 0]

\* Mutant: an item whose predicate fails is left out.
SkipsFailingMutant(table, q, p, items) ==
  LET kept == {i \in items : ~PredicateFails(table, q, i, p) /\ Passes(table, q, i, p)}
  IN IF \E i, j \in kept : i # j /\ KeyFails(table, q, i, p) THEN Failed
     ELSE Page(paginate(Sorted(table, q, p, kept), Number(q, "skip"), Number(q, "take")))

\* A comparison needs two items, so the key of a lone item is never evaluated.
SelectSlice(table, q, p, items) ==
  LET kept == {i \in items : Passes(table, q, i, p)} IN
  IF \/ \E i \in items : PredicateFails(table, q, i, p)
     \/ \E i, j \in kept : i # j /\ KeyFails(table, q, i, p)
  THEN Failed
  ELSE Page(paginate(Sorted(table, q, p, kept), Number(q, "skip"), Number(q, "take")))

Count(table, q, p, items) ==
  IF \E i \in items : PredicateFails(table, q, i, p)
  THEN Failed
  ELSE Counted(Cardinality({i \in items : Passes(table, q, i, p)}))

\* The database's equality: no key is no match, and a type that is not bound
\* as the text the JSON holds never matches.
SqlEquals(table, i, eq, p) ==
  /\ table[i][eq.field] # Absent
  /\ Pushable(eq.field)
  /\ table[i][eq.field] = Value(eq.rhs, [param |-> p])

\* fetch: the rows that meet the pushed equalities
Fetch(table, eqs, p) == {i \in DOMAIN table : \A eq \in eqs : SqlEquals(table, i, eq, p)}

SqlCount(table, q, p) ==
  IF Clause(q, "where") = NoExpr \/ WhereEqOf(q) # {}
  THEN Counted(Cardinality(Fetch(table, WhereEqOf(q), p)))
  ELSE Count(table, q, p, DOMAIN table)

\* A load of one aggregate has no clauses to run.
Result(engine, table, q, p) ==
  IF q.target = "aggregate" THEN Page(<<>>)
  ELSE IF engine = "sql" /\ q.target = "collection"
       THEN IF q.op = "count" THEN SqlCount(table, q, p)
            ELSE SelectSlice(table, q, p, Fetch(table, WhereEqOf(q), p))
       ELSE IF q.op = "count" THEN Count(table, q, p, DOMAIN table)
            ELSE SelectSlice(table, q, p, DOMAIN table)

-----------------------------------------------------------------------------
(* The program: rows are added, releases change, reads come.               *)

NoReading == [on |-> FALSE]
NoAnswer  == [kind |-> "none"]

ReadsInit ==
  /\ backend \in {"memory", "sql"}
  /\ release = 1
  /\ rows = <<>>
  /\ others = <<>>
  /\ reading = NoReading
  /\ answer = NoAnswer

RowOf(values) ==
  [f \in ReadFields |-> IF f = NewField /\ release = 1 THEN Absent ELSE values[f]]

\* Collection.Add; an answer is looked at until the next step, and a second read
\* of the same rows would only give it again.
Add(values) ==
  /\ Len(rows) + Len(others) < MaxRows
  /\ rows' = Append(rows, RowOf(values))
  /\ answer' = NoAnswer
  /\ UNCHANGED <<backend, release, others, reading>>

AddOther(values) ==
  /\ Len(others) < MaxOthers /\ Len(rows) + Len(others) < MaxRows
  /\ others' = Append(others, values)
  /\ answer' = NoAnswer
  /\ UNCHANGED <<backend, release, rows, reading>>

\* A release that declares one field more; what is in memory goes away.
Upgrade ==
  /\ release = 1
  /\ release' = 2
  /\ rows' = IF backend = "memory" THEN <<>> ELSE rows
  /\ others' = IF backend = "memory" THEN <<>> ELSE others
  /\ reading' = NoReading
  /\ answer' = NoAnswer
  /\ UNCHANGED backend

\* What a read found, with what it was asked and the rows it saw.
Answered(result, q, p, seen, othersSeen) ==
  [kind |-> result.kind, page |-> result.page, count |-> result.count, query |-> q, param |-> p,
   seen |-> seen, others |-> othersSeen, columns |-> Projection(q)]

\* One Select, one Count, or one load whose items are selected in memory.
Read(q, p) ==
  /\ release = 2
  /\ ~reading.on /\ answer = NoAnswer
  /\ q \in CompilingQueries /\ q.op # "join"
  /\ answer' = Answered(Result(backend, rows, q, p), q, p, Len(rows), Len(others))
  /\ UNCHANGED <<backend, release, rows, others, reading>>

\* hoistJoin: the first collection is read whole, then the second
JoinFirst(q, p) ==
  /\ release = 2
  /\ ~reading.on /\ answer = NoAnswer
  /\ q \in CompilingQueries /\ q.op = "join"
  /\ reading' = [on |-> TRUE, query |-> q, param |-> p, items |-> Len(rows), others |-> Len(others)]
  /\ UNCHANGED <<backend, release, rows, others, answer>>

Pair(first, second, i, j, p) == [item |-> Decoded(first[i]), other |-> second[j], param |-> p]

\* The nested loops' order.
Pairs(items, other) == [k \in 1..(items * other) |-> <<((k - 1) \div other) + 1, ((k - 1) % other) + 1>>]

\* The pairs of a set of positions that an expression holds of.
Meeting(first, second, pairs, e, p) ==
  {x \in pairs : e = NoExpr \/ Value(e, Pair(first, second, x[1], x[2], p))}

\* Mutant: the pairs are not filtered.
UnfilteredMutant(first, second, q, p, items) ==
  Page(Only(Pairs(items, Len(second)),
            Meeting(first, second, (1..items) \X (1..Len(second)), Clause(q, "on"), p)))

\* "where" is evaluated for the pairs that meet "on", and the first failure ends the
\* query.
Joined(first, second, q, p, items) ==
  LET onMet == Meeting(first, second, (1..items) \X (1..Len(second)), Clause(q, "on"), p)
      cond  == Clause(q, "where")
  IN IF cond # NoExpr /\ \E x \in onMet : Fails(cond, Pair(first, second, x[1], x[2], p))
     THEN Failed
     ELSE Page(Only(Pairs(items, Len(second)), Meeting(first, second, onMet, cond, p)))

\* Mutant: the second collection is read from where the first ended.
JoinSecondMutant ==
  /\ reading.on
  /\ reading' = [reading EXCEPT !.others = Len(others) + 1]
  /\ UNCHANGED <<backend, release, rows, others, answer>>

JoinSecond ==
  /\ reading.on
  /\ answer' = Answered(Joined(rows, others, reading.query, reading.param, reading.items),
                        reading.query, reading.param, reading.items, reading.others)
  /\ reading' = NoReading
  /\ UNCHANGED <<backend, release, rows, others>>

ReadsNext ==
  \/ \E values \in [ReadFields -> ReadValues] : Add(values)
  \/ \E values \in [ReadFields -> ReadValues] : AddOther(values)
  \/ Upgrade
  \/ \E q \in Queries, p \in ReadValues : Read(q, p) \/ JoinFirst(q, p)
  \/ JoinSecond

ReadsSpec == ReadsInit /\ [][ReadsNext]_readVars

-----------------------------------------------------------------------------
\* Types.
ReadsTypeOK ==
  /\ backend \in {"memory", "sql"} /\ release \in 1..2
  /\ Len(rows) <= MaxRows /\ \A i \in DOMAIN rows : rows[i] \in [ReadFields -> ReadValues \cup {Absent}]
  /\ Len(others) <= MaxOthers /\ \A j \in DOMAIN others : others[j] \in [ReadFields -> ReadValues]
  /\ reading.on => reading.items \in 0..Len(rows) /\ reading.others \in 0..Len(others)
  /\ answer.kind \in {"none", "error", "page", "count"}

\* What a query asks for, said of the set of rows it saw.
AskedEnv(i) == Env(rows, i, answer.param)
AskedClauses(kw) == {c \in Range(answer.query.clauses) : c.kw = kw}
Wanted == {i \in 1..answer.seen : \A c \in AskedClauses("where") : Value(c.expr, AskedEnv(i))}
Precedes(i, j) ==
  LET keys == AskedClauses("orderBy")
      before == \E c \in keys :
        IF c.desc THEN Value(c.expr, AskedEnv(j)) < Value(c.expr, AskedEnv(i))
                  ELSE Value(c.expr, AskedEnv(i)) < Value(c.expr, AskedEnv(j))
      after == \E c \in keys :
        IF c.desc THEN Value(c.expr, AskedEnv(i)) < Value(c.expr, AskedEnv(j))
                  ELSE Value(c.expr, AskedEnv(j)) < Value(c.expr, AskedEnv(i))
  IN before \/ (~after /\ i < j)
Rank(i) == Cardinality({j \in Wanted \ {i} : Precedes(j, i)})
AskedNumber(kw) == Max({0} \cup {c.expr[2] : c \in AskedClauses(kw)})
Skipped == AskedNumber("skip")
PageSize ==
  LET rest == Max({0, Cardinality(Wanted) - Skipped})
  IN IF AskedNumber("take") = 0 THEN rest ELSE Min({rest, AskedNumber("take")})

\* Rows of the release that declared every field.
OfOneShape == \A i \in DOMAIN rows : rows[i][NewField] # Absent

\* A page is the page the query asks for: the rows that meet the filter, in the
\* order of the key and then of insertion, from skip on, take of them; the same
\* from memory and from a table, whatever part of the filter went to SQL
\* (rtsrc/collection.go.txt:SelectSlice, sqlrt/collection.go.txt:Select).
PagesAreThePageAsked ==
  answer.kind = "page" /\ answer.query.op # "join" /\ answer.query.target # "aggregate" /\ OfOneShape =>
    /\ Len(answer.page) = PageSize
    /\ \A k \in DOMAIN answer.page : answer.page[k] \in Wanted /\ Rank(answer.page[k]) = Skipped + k - 1

\* A count is the number of rows the same filter lists, also when it is left to
\* the database (sqlrt/collection.go.txt:Count).
CountsAreOfWhatIsListed ==
  answer.kind = "count" /\ OfOneShape => answer.count = Cardinality(Wanted)

\* An item whose predicate fails is never skipped in silence: the whole read
\* fails (rtsrc/collection.go.txt:Query.Where).
FailingItemsFailTheRead ==
  answer.kind \in {"page", "count"} /\ answer.query.op # "join" =>
    \A c \in AskedClauses("where"), i \in 1..answer.seen : ~Fails(c.expr, AskedEnv(i))

\* Both collections of a join are read without a lock on the other: it pairs every
\* two rows that matched when it began, and nothing that does not match
\* (lower/join.go:hoistJoin).
JoinsMissNoPair ==
  answer.kind = "page" /\ answer.query.op = "join" =>
    LET meets(i, j) == \A c \in AskedClauses("on") \cup AskedClauses("where") :
                         /\ ~Fails(c.expr, Pair(rows, others, i, j, answer.param))
                         /\ Value(c.expr, Pair(rows, others, i, j, answer.param))
    IN /\ \A i \in 1..answer.seen, j \in 1..answer.others :
            meets(i, j) => \E k \in DOMAIN answer.page : answer.page[k] = <<i, j>>
       /\ \A k \in DOMAIN answer.page : meets(answer.page[k][1], answer.page[k][2])
       /\ IsInjective(answer.page)

\* A view's field comes from the path that spells its name, and no field is taken
\* from one alias of a join when the other spells it too (joinProjectFieldAssignments).
Spells(shape, path, name) ==
  shape[path[1]].name \o (IF path[2] = "" THEN <<>> ELSE <<path[2]>>) = name
Offers(shape, name) ==
  \E i \in DOMAIN shape : \E sub \in shape[i].subs \cup {""} : Spells(shape, <<i, sub>>, name)
ViewFieldsHaveOneSource ==
  answer.kind = "page" =>
    \A name \in answer.query.view :
      LET a == answer.columns[name] IN
      /\ Spells(IF a.alias = "item" THEN ItemShape ELSE OtherShape, a.path, name)
      /\ answer.query.op = "join" => ~(Offers(ItemShape, name) /\ Offers(OtherShape, name))

\* A read, a count or a join that the generator accepts answers what its clauses say, over
\* either backend, or fails.
ReadsAnswerTheQuery ==
  /\ ReadsTypeOK
  /\ PagesAreThePageAsked /\ CountsAreOfWhatIsListed /\ FailingItemsFailTheRead
  /\ JoinsMissNoPair /\ ViewFieldsHaveOneSource
=============================================================================
