------------------------------ MODULE MCReads ------------------------------
EXTENDS Reads

\* Two fields: one whose equality is pushed down, one composite.
MCTypeOfField == [f |-> "string", g |-> "composite"]

Item(f)  == <<"item", f>>
Oth(f)   == <<"other", f>>
Param    == <<"param">>
Lit(n)   == <<"lit", n>>
Bin(op, l, r) == <<op, l, r>>

ClauseOf(kw, e)    == [kw |-> kw, expr |-> e, desc |-> FALSE]
OrderDesc(e) == [kw |-> "orderBy", expr |-> e, desc |-> TRUE]

Query(op, target, clauses) ==
  [op |-> op, target |-> target, clauses |-> clauses, view |-> NoView, returnsView |-> TRUE,
   returned |-> target # "collection", holders |-> {"Wallet.entries"}, params |-> 1]

FIsParam   == Bin("==", Param, Item("f"))
GIsParam   == Bin("==", Item("g"), Param)
GUnderF    == Bin("<", Item("g"), Item("f"))
GOverF     == Bin("/", Item("g"), Item("f"))

Wheres == {<<ClauseOf("where", FIsParam)>>,
           <<ClauseOf("where", GIsParam)>>,
           <<ClauseOf("where", Bin("and", FIsParam, GIsParam))>>,
           <<ClauseOf("where", Bin("==", Item("f"), Item("g")))>>,
           <<ClauseOf("where", Bin("or", FIsParam, GUnderF))>>,
           <<ClauseOf("where", Bin("or", FIsParam, Bin("==", Lit(1), GOverF)))>>,
           <<ClauseOf("where", FIsParam), ClauseOf("where", GUnderF)>>,
           <<ClauseOf("where", Bin("==", Item("f"), Bin("/", Param, Lit(1))))>>}

Orders == {<<ClauseOf("orderBy", Item("g"))>>,
           <<OrderDesc(Item("g")), ClauseOf("take", Lit(2))>>,
           <<OrderDesc(Item("f")), ClauseOf("skip", Lit(1)), ClauseOf("take", Lit(1))>>,
           <<ClauseOf("orderBy", GOverF), ClauseOf("where", FIsParam)>>,
           <<ClauseOf("orderBy", GUnderF)>>,
           <<ClauseOf("skip", Lit(2)), ClauseOf("take", Lit(0))>>}

OnEqual == <<ClauseOf("join", NoExpr), ClauseOf("on", Bin("==", Item("f"), Oth("g")))>>
Joins   == {OnEqual,
            Append(OnEqual, ClauseOf("where", Bin("==", Item("g"), Oth("f")))),
            Append(OnEqual, ClauseOf("where", Bin("==", Lit(1), Bin("/", Item("g"), Oth("f"))))),
            Append(OnEqual, OrderDesc(Item("g")))}

\* The fields of the two aliases: "a", a composite "b" of "c", a plain "b_c",
\* and on the other side "a" again and a composite "d" of "c".
MCItemShape  == <<[name |-> <<"a">>, subs |-> {}], [name |-> <<"b">>, subs |-> {"c"}],
                  [name |-> <<"b", "e">>, subs |-> {}]>>
MCOtherShape == <<[name |-> <<"a">>, subs |-> {}], [name |-> <<"d">>, subs |-> {"c"}],
                  [name |-> <<"b", "e">>, subs |-> {}]>>
Views == {{<<"a">>}, {<<"b", "c">>, <<"d", "c">>}, {<<"b", "e">>}, {<<"b", "c">>, <<"x">>}}

MCQueries ==
     {Query("list", "collection", c) : c \in Wheres \cup Orders \cup {<<>>}}
  \cup {Query("count", "collection", c) : c \in Wheres \cup Orders \cup {<<>>}}
  \cup {Query("load", "items", c) : c \in {<<ClauseOf("where", FIsParam)>>, <<OrderDesc(Item("g"))>>}}
  \cup {[Query("list", "vo", <<ClauseOf("where", FIsParam)>>) EXCEPT !.holders = h] :
        h \in {{"Wallet.entries"}, {"Wallet.entries", "Wallet.pending"}}}
  \cup {Query("join", "collection", c) : c \in Joins}
  \cup {[Query("join", "items", OnEqual) EXCEPT !.view = v] : v \in Views}
  \cup {[Query("load", "aggregate", <<>>) EXCEPT !.view = v] : v \in Views}
MCReturned == {[q EXCEPT !.returned = q.op = "join" \/ @] : q \in MCQueries}

\* The expressions of the clauses, and how deep each is.
RECURSIVE Within(_), Height(_)
Within(e) == {e} \cup UNION {Within(o) : o \in Operands(e)}
Height(e) == IF Operands(e) = {} THEN 0 ELSE 1 + Max({Height(o) : o \in Operands(e)})
MCTerms == UNION {UNION {Within(c.expr) : c \in Range(q.clauses)} : q \in MCReturned} \ {NoExpr}
MCDepth == [e \in MCTerms |-> Height(e)]

-----------------------------------------------------------------------------
\* Pinning what must hold of rows of an older release too: violated, a pushed
\* equality with the zero value misses them.
BackendsAgreeOnOldRows ==
  answer.kind = "page" /\ answer.query.op = "list" =>
    answer.page = SelectSlice(rows, answer.query, answer.param, 1..answer.seen).page
=============================================================================
