---------------------------- MODULE MCLowering ----------------------------
EXTENDS Lowering

Owner(kind, panics, publishes, tx, adapters) ==
  [kind |-> kind, panics |-> panics, publishes |-> publishes, tx |-> tx, adapters |-> adapters,
   builtins |-> adapters,
   storages |-> [byField |-> "scan" :> "disk", default |-> IF tx = "routed" THEN "none" ELSE "s3"]]

MCBodyOwners == {Owner("Handle", FALSE, FALSE, "none", FALSE), Owner("Apply", TRUE, FALSE, "none", FALSE),
                 Owner("Policy", FALSE, TRUE, "none", TRUE),
                 Owner("UseCase", FALSE, FALSE, "fixed", TRUE), Owner("UseCase", FALSE, FALSE, "routed", TRUE)}

Cond  == <<"name", "c">>
Money == <<"make", "money", <<<<"make", "amount", <<>>>>>>>>
Added == <<"operator", "plus", Money, <<"load", "wallet", <<>>>>>>
Fail  == <<"expr", <<"name", "Refused">>>>
EnsureC(action) == <<"ensure", Cond, action>>

Loose == {<<"emit", "a", Money>>, EnsureC(Fail), EnsureC(<<"expr", Nop>>), <<"return">>,
          <<"dispatch", "deposit", Cond>>, <<"notify", "mail", Cond, "sync">>, <<"assign", "v", Cond>>,
          <<"assign", "u", <<"and", "and", <<"store", "scan", <<>>>>, Cond>>>>, <<"delete", "photo", Cond>>,
          <<"assign", "u", <<"and", "and", Cond, <<"store", "scan", <<>>>>>>>>}
Controls == {<<"break">>, <<"breakAll">>, <<"continue">>}
Inner == Controls \cup {<<"ensure", <<"name", "i">>, c>> : c \in Controls}

Arm(p, g, b) == [patterns |-> p, guard |-> g, body |-> b]
Matches(bodies) ==
  {<<"match", "subject", <<Arm({"Gold"}, <<>>, p), Arm({"Silver"}, <<>>, <<"emit", "b", Cond>>)>>>> : p \in bodies}
  \cup {<<"match", "subject", <<Arm({"Gold"}, Cond, p), Arm({"_"}, <<>>, <<"emit", "b", Cond>>)>>>> : p \in bodies}

Mark == <<"emit", "m", <<"name", "i">>>>
For(var, stmts) == <<"for", var, <<"name", "items">>, <<"block", stmts>>>>
Inside == Inner \cup Matches({<<"breakAll">>, <<"continue">>, EnsureC(<<"break">>), Fail}) \cup {<<"ensure", <<"name", "i">>, <<"expr", Nop>>>>, <<"notify", "mail", Cond, "async">>,
          <<"assign", "w", <<"name", "i">>>>, <<"dispatch", "deposit", Cond>>}
Loops == {For("i", <<s, Mark>>) : s \in Inside}
   \cup {For("i", <<Mark, For("j", <<s, <<"emit", "n", <<"name", "j">>>>>>), <<"emit", "p", Cond>>>>) :
             s \in Controls \cup Matches(Controls) \cup {EnsureC(<<"breakAll">>)}}
   \cup {For("i", <<<<"assign", "v", Cond>>,
                     For("j", <<<<"ensure", <<"name", "v">>, <<"continue">>>>, <<"assign", "v", <<"name", "j">>>>, Mark>>),
                     <<"emit", "p", <<"name", "v">>>>>>)}
   \cup {<<"for", "i", <<"load", "wallet", <<>>>>, <<"block", <<<<"emit", "a", Added>>>>>>>>}

MCStatements == Loose \cup Controls \cup Loops
  \cup Matches({<<"return">>, <<"break">>, <<"expr", Nop>>, <<"emit", "a", Money>>})
  \cup {<<"match", "subject", <<Arm({"Gold"}, <<>>, <<"return">>)>>>>,
        <<"match", "subject", <<Arm({"Gold"}, Money, <<"return">>), Arm({"_"}, <<>>, Fail)>>>>}

MCBodyInputs == {[names |-> [c |-> c, items |-> TRUE], subject |-> e, turns |-> t, failing |-> f] :
                 c \in BOOLEAN, e \in EnumMembers, t \in {2}, f \in {{}, {"money", AppendToTx}, {"deposit", "wallet", "disk"}}}

-----------------------------------------------------------------------------
\* A body, what became of it and how its run ended.
LoweringTypeOK ==
  /\ Len(body[2]) <= MaxStatements /\ bodyOf \in BodyOwners
  /\ lowered.ok => lowered.why = ""
  /\ ran.how[1] \in {"return", "exit", "panic"} \/ ran = NotRun
  /\ ran # NotRun => (ran.how[1] = "panic" => bodyOf.panics)

-----------------------------------------------------------------------------
\* What a body means, said of the statements themselves.

StorageOf(field) == IF field = "scan" THEN "disk" ELSE "s3"

RECURSIVE Worth(_, _)
Worth(e, scopes) ==
  CASE e[1] \in {"lit", "name"} -> GoValue(e, scopes)
    [] e[1] = "and" -> Worth(e[3], scopes) /\ Worth(e[4], scopes)
    [] OTHER        -> TRUE

\* What evaluating e may fail at, in order; an "and" goes no further than a left side that is false.
RECURSIVE Attempts(_, _)
Attempts(e, scopes) ==
  CASE e[1] = "store" -> <<StorageOf(e[2])>>
    [] e[1] \in {"make", "load"} -> FlattenSeq([i \in DOMAIN e[3] |-> Attempts(e[3][i], scopes)]) \o <<e[2]>>
    [] e[1] = "operator" -> Attempts(e[3], scopes) \o Attempts(e[4], scopes) \o <<e[2]>>
    [] e[1] = "and"      -> Attempts(e[3], scopes) \o IF Worth(e[3], scopes) THEN Attempts(e[4], scopes) ELSE <<>>
    [] OTHER             -> <<>>

RECURSIVE Means(_, _)

\* The first construct of e that fails decides; else the statement goes on.
With(r, e, on(_)) ==
  LET fails == SelectSeq(Attempts(e, r.scopes), LAMBDA a : a \in r.input.failing)
  IN  IF fails # <<>> THEN Leaving(r, ExitOnError(bodyOf, fails[1])) ELSE on(Worth(e, r.scopes))

MeansAll(r, stmts) == FoldLeft(LAMBDA q, s : IF q.how = <<>> THEN Means(q, s) ELSE q, r, stmts)

MeansFor(r, s) ==
  LET Turn(q, i) ==
        IF q.how # <<>> THEN q ELSE
        LET t == Means([q EXCEPT !.scopes = Append(@, s[2] :> i)], s[4])
            u == [t EXCEPT !.scopes = Front(@)]
        IN  IF t.how = <<"continue">> THEN Leaving(u, <<>>) ELSE u
      all == FoldLeft(Turn, [r EXCEPT !.deep = @ + 1], [i \in 1..r.input.turns |-> i > 1])
      out == [all EXCEPT !.deep = @ - 1]
  IN  IF out.how = <<"break">> \/ (out.how = <<"breakAll">> /\ out.deep = 0) THEN Leaving(out, <<>>) ELSE out

MeansMatch(r, s) ==
  LET Matching(arm) == IF arm.guard # <<>> THEN Worth(arm.guard, r.scopes)
                       ELSE r.input.subject \in arm.patterns
      taken == {i \in DOMAIN s[3] : Matching(s[3][i]) /\ "_" \notin s[3][i].patterns}
      wild  == {i \in DOMAIN s[3] : "_" \in s[3][i].patterns}
  IN  Means(r, s[3][IF taken # {} THEN Min(taken) ELSE Min(wild)].body)

Means(r, s) ==
  LET Does(v) == Effect(r, <<s[2], v>>)
      Acts(v) == IF s[2] \in r.input.failing THEN Leaving(r, ExitOnError(bodyOf, s[2])) ELSE Does(v)
      Dispatches(v) == LET q == Acts(v) IN
                       IF q.how # <<>> THEN q
                       ELSE IF AppendToTx \in r.input.failing THEN Leaving(q, ExitOnError(bodyOf, AppendToTx))
                       ELSE Effect(q, <<AppendToTx, s[2]>>)
      Sets(v) == LET has == {i \in DOMAIN r.scopes : s[2] \in DOMAIN r.scopes[i]}
                 IN  IF has = {} THEN [r EXCEPT !.scopes = InScope(@, s[2], v)]
                     ELSE [r EXCEPT !.scopes = SetWhereDeclared(@, s[2], v)]
      Holds(v) == IF v THEN r ELSE Means(r, s[3])
  IN  CASE s[1] = "block"   -> MeansAll(r, s[2])
        [] s[1] = "for"     -> With(r, s[3], LAMBDA v : MeansFor(r, s))
        [] s[1] = "match"   -> MeansMatch(r, s)
        [] s[1] = "ensure"  -> With(r, s[2], Holds)
        [] s[1] = "expr"    -> Leaving(r, IF s[2] = Nop THEN <<"continue">> ELSE ExitOnError(bodyOf, s[2][2]))
        [] s[1] = "emit"    -> With(r, s[3], LAMBDA v : IF bodyOf.publishes THEN Acts(v) ELSE Does(v))
        [] s[1] = "notify"  -> With(r, s[3], LAMBDA v : IF s[4] = "sync" THEN Acts(v) ELSE Does(v))
        [] s[1] = "dispatch" -> With(r, s[3], Dispatches)
        [] s[1] = "delete"  -> With(r, s[3], LAMBDA v :
             IF StorageOf(s[2]) \in r.input.failing THEN Leaving(r, ExitOnError(bodyOf, StorageOf(s[2])))
             ELSE Effect(r, <<StorageOf(s[2]), v>>))
        [] s[1] = "assign"  -> With(r, s[3], Sets)
        [] OTHER            -> Leaving(r, s)

Meant(input) ==
  LET r == Means([how |-> <<>>, effects |-> <<>>, deep |-> 0, input |-> input, scopes |-> <<input.names>>], body)
  IN  [how |-> IF r.how = <<>> THEN <<"return">> ELSE r.how, effects |-> r.effects, input |-> input]

-----------------------------------------------------------------------------
RECURSIVE InArms(_)
InArms(s) ==
  CASE s[1] = "block" -> UNION {InArms(t) : t \in Range(s[2])}
    [] s[1] = "for"   -> InArms(s[4])
    [] s[1] = "match" -> UNION {ForEachStmt(arm.body) : arm \in Range(s[3])}
    [] OTHER          -> {}
InLoops(b)  == UNION {ForEachStmt(s[4]) : s \in {t \in ForEachStmt(b) : t[1] = "for"}}
Assigned(ss) == {s[2] : s \in {t \in ss : t[1] = "assign"}}

BreaksInAnArm == <<"break">> \in InArms(body)
\* A loop assigns a name that was assigned before it: lowering declares another.
RebindsInALoop ==
  \E b \in {s \in ForEachStmt(body) : s[1] = "block"} : \E i \in DOMAIN b[2] : \E j \in 1..i - 1 :
    b[2][i][1] = "for" /\ b[2][j][1] = "assign" /\ b[2][j][2] \in Assigned(ForEachStmt(b[2][i]))
\* The right side of an "and" may fail: lowering hoists it above the test of the left.
HoistsPastAnAnd ==
  \E e \in ExprsInBlock(body) :
    e[1] = "and" /\ \E x \in ForEachExpr(e[4]) : x[1] \in {"make", "load", "store", "operator"}
InOnePlace == \A s \in InArms(body) \cup InLoops(body) : s[1] # "dispatch"
Regular ==
  /\ ~BreaksInAnArm /\ ~RebindsInALoop /\ ~HoistsPastAnAnd
  /\ Assigned(InArms(body)) = {} /\ InOnePlace

\* The Go that a regular body is lowered to has the effects of the body, in its order, and
\* ends the way it says, whatever construct fails. A body is regular without the five forms
\* whose Go does something else or does not compile: a break in an arm, an assignment in an
\* arm, a loop that assigns a name from before it, an "and" whose right side may fail, and
\* a dispatch in an arm or a loop.
LoweredBodiesAgree == (ran # NotRun /\ Regular) => ran = Meant(ran.input)

\* REQ-22.1 and REQ-22.3 (docs/sdd/specs/codegen/requirements.md:319-326): a break is the
\* "controle de laço Go correspondente", also inside an arm of a match.
BreakLeavesTheLoop == (ran # NotRun /\ BreaksInAnArm) => ran = Meant(ran.input)

\* Go refuses a label nothing breaks to, a break or continue with nothing to
\* leave, and a name set before it is declared or declared twice.
RECURSIVE Jumps(_)
Jumps(lines) ==
  UNION {CASE l[1] = "range"  -> Jumps(l[5])
           [] l[1] = "switch" -> UNION {Jumps(a.body) : a \in Range(l[3])}
           [] l[1] = "ifNot"  -> {l[3]}
           [] OTHER           -> {l} : l \in Range(lines)}

RECURSIVE GoCompiles(_, _)
GoCompiles(lines, g) ==
  LET Before(i, k) == {lines[j][2] : j \in {x \in 1..(i - 1) : lines[x][1] = k}}
      Names(i) == g.names \cup Before(i, "declare")
      Events(i) == g.events \/ Before(i, "dispatch") # {}
      Line(l, i) ==
        CASE l[1] = "break"    -> g.inFor \/ g.inSwitch
          [] l[1] = "continue" -> g.inFor
          [] l[1] = "breakTo"  -> l[2] \in g.labels
          [] l[1] = "ifNot"    -> GoCompiles(<<l[3]>>, g)
          [] l[1] = "declare"  -> l[2] \notin Before(i, "declare")
          [] l[1] = "set"      -> l[2] \in Names(i)
          [] l[1] = "dispatch" -> Before(i, "dispatch") = {}
          [] l[1] = "dispatchAgain" -> Events(i)
          [] l[1] = "range" ->
               /\ l[2] # 0 => <<"breakTo", l[2]>> \in Jumps(l[5])
               /\ GoCompiles(l[5], [g EXCEPT !.inFor = TRUE, !.names = Names(i), !.events = Events(i),
                                             !.labels = IF l[2] = 0 THEN @ ELSE @ \cup {l[2]}])
          [] l[1] = "switch" ->
               \A a \in Range(l[3]) :
                 GoCompiles(a.body, [g EXCEPT !.inSwitch = TRUE, !.names = Names(i), !.events = Events(i)])
          [] OTHER -> TRUE
  IN  \A i \in DOMAIN lines : Line(lines[i], i)

\* In what is lowered, jumps have something to leave, labels are used, and names and "events"
\* are declared once and before they are set. Bodies that dispatch or assign in an arm, or
\* dispatch in a loop, are left out, and so is whether a local is used.
JumpsAndNamesResolve ==
  (lowered.ok /\ Assigned(InArms(body)) = {} /\ InOnePlace) =>
     GoCompiles(lowered.go, [inFor |-> FALSE, inSwitch |-> FALSE, names |-> {}, events |-> FALSE, labels |-> {}])

\* What lowering has no Go for though the flow rules accept it: an expression that stands
\* alone (an arm "=> Refused" too), Nop outside a loop, an arm "_" of a match without guards
\* and the arms it cannot print of one with them, an adapter called in a loop or without one
\* attached, a dispatch in the loop of a routed transaction, a load or a file without its runtime.
LacksRuntime(e) ==
  e[1] \in {"load", "store"} /\ (~bodyOf.builtins \/ (e[1] = "store" /\ ResolveFileStorageName(bodyOf, e[2]) = "none"))
RECURSIVE HasGap(_, _)
HasGap(s, inFor) ==
  \/ \E e \in UNION {ForEachExpr(x) : x \in StmtExprs(s)} : LacksRuntime(e)
  \/ CASE s[1] = "block"  -> \E t \in Range(s[2]) : HasGap(t, inFor)
       [] s[1] = "for"    -> HasGap(s[4], TRUE)
       [] s[1] = "expr"   -> TRUE
       [] s[1] = "ensure" -> s[3] = <<"expr", Nop>> /\ ~inFor
       [] s[1] = "notify" -> ~bodyOf.adapters \/ inFor
       [] s[1] = "dispatch" -> bodyOf.tx = "none" \/ (bodyOf.tx = "routed" /\ inFor)
       [] s[1] = "delete" -> ~bodyOf.builtins \/ ResolveFileStorageName(bodyOf, s[2]) = "none"
       [] s[1] = "match"  ->
            \E arm \in Range(s[3]) :
               \/ HasGap(arm.body, inFor)
               \/ ~HasGuard(s) /\ "_" \in arm.patterns
               \/ /\ HasGuard(s) /\ "_" \notin arm.patterns
                  /\ arm.guard = <<>> \/ \E e \in ForEachExpr(arm.guard) : e[1] \in {"make", "load", "store", "operator"}
       [] OTHER -> FALSE

\* A body that the flow rules accept is lowered if it has none of these gaps, however its
\* statements nest, and refused if it has one: no loop control is ever refused, and nothing
\* that has no Go is dropped.
GapsAreRefused == lowered # NotLowered => (lowered.ok <=> ~HasGap(body, FALSE))

\* What sema accepts is lowered but for the gaps of lowering, to Go whose jumps and names resolve.
AcceptedBodiesAreLowered == LoweringTypeOK /\ GapsAreRefused /\ JumpsAndNamesResolve
=============================================================================
