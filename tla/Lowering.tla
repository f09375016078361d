------------------------------ MODULE Lowering ------------------------------
(***************************************************************************)
(* The lowering of a body (codegen/lower/stmt.go): the statements of a     *)
(* Handle, an Apply, a Policy or a UseCase become statements of a Go       *)
(* function.  A body is grown one statement at a time, checked by the flow *)
(* rules of the front end (sema/rules_flow.go), lowered, and the Go it     *)
(* became is run on an input.                                              *)
(*                                                                         *)
(* Statements and expressions, of both languages, are tuples whose first   *)
(* member names their form.  An expression is worth a Boolean; one that is *)
(* built, loaded, stored or compared by a declared operator may fail       *)
(* instead, and only a statement of its own can check that: lowering       *)
(* hoists it above the statement that uses it.                             *)
(***************************************************************************)
EXTENDS Integers, Sequences, FiniteSets, SequencesExt, Functions, FiniteSetsExt

CONSTANTS
  Statements,        \* what the author may write next in a body
  BodyOwners,        \* what a body may belong to
  BodyInputs,        \* what the Go function may be called with
  EnumMembers,       \* the members of the enum a match is over
  MaxStatements      \* the statements of a body

VARIABLES body, bodyOf, lowered, ran

loweringVars == <<body, bodyOf, lowered, ran>>

NotLowered == [ok |-> FALSE, why |-> "not lowered", go |-> <<>>]
NotRun     == [how |-> <<"not run">>, effects |-> <<>>, input |-> <<>>]

-----------------------------------------------------------------------------
\* The statements of a body, at any depth.

RECURSIVE ForEachStmt(_)
ForEachStmt(s) ==
  {s} \cup CASE s[1] = "block"  -> UNION {ForEachStmt(t) : t \in Range(s[2])}
             [] s[1] = "for"    -> ForEachStmt(s[4])
             [] s[1] = "ensure" -> ForEachStmt(s[3])
             [] s[1] = "match"  -> UNION {ForEachStmt(arm.body) : arm \in Range(s[3])}
             [] OTHER           -> {}

RECURSIVE ForEachExpr(_)
ForEachExpr(e) ==
  {e} \cup CASE e[1] \in {"make", "load", "store"} -> UNION {ForEachExpr(a) : a \in Range(e[3])}
             [] e[1] \in {"and", "operator"} -> ForEachExpr(e[3]) \cup ForEachExpr(e[4])
             [] OTHER -> {}

StmtExprs(s) ==
  CASE s[1] \in {"expr", "ensure"} -> {s[2]}
    [] s[1] \in {"emit", "notify", "dispatch", "assign", "delete", "for"} -> {s[3]}
    [] s[1] = "match" -> {arm.guard : arm \in {a \in Range(s[3]) : a.guard # <<>>}}
    [] OTHER          -> {}

ExprsInBlock(b) == UNION {UNION {ForEachExpr(e) : e \in StmtExprs(s)} : s \in ForEachStmt(b)}

-----------------------------------------------------------------------------
\* The flow rules of the front end.

IsLoopControl(s) == s[1] \in {"break", "breakAll", "continue"}

RECURSIVE CheckLoopControl(_, _)
CheckLoopControl(s, inFor) ==
  CASE s[1] = "block"    -> \A t \in Range(s[2]) : CheckLoopControl(t, inFor)
    [] s[1] = "for"      -> CheckLoopControl(s[4], TRUE)
    [] s[1] = "ensure"   -> CheckLoopControl(s[3], inFor)
    [] s[1] = "match"    -> \A arm \in Range(s[3]) : CheckLoopControl(arm.body, inFor)
    [] IsLoopControl(s)  -> inFor
    [] OTHER             -> TRUE

HasGuard(m) == \E arm \in Range(m[3]) : arm.guard # <<>>
HasWild(m)  == \E arm \in Range(m[3]) : "_" \in arm.patterns

CheckMatch(m) ==
  LET covered == UNION {arm.patterns : arm \in Range(m[3])} \ {"_"}
  IN  IF HasGuard(m) THEN HasWild(m)
      ELSE covered = {} \/ (~HasWild(m) /\ EnumMembers \subseteq covered)

CheckMatches(b) == \A s \in ForEachStmt(b) : s[1] = "match" => CheckMatch(s)

\* Nop, the action of a failed ensure, is a name like another.
Nop == <<"name", "Nop">>
CheckNop(b, owner) == owner.kind \in {"Handle", "UseCase"} => Nop \notin ExprsInBlock(b)

Accepted(b, owner) == CheckLoopControl(b, FALSE) /\ CheckMatches(b) /\ CheckNop(b, owner)

-----------------------------------------------------------------------------
\* A lowerer: what it is attached to, the loop it is in, the names its
\* immediate scope has bound, and what is shared by the lowerers of a body:
\* the counters, and whether "events, err" has been declared.

NewStmtLowerer(owner) ==
  [ok |-> TRUE, why |-> "", go |-> <<>>, panics |-> owner.panics,
   publishes |-> owner.publishes, tx |-> owner.tx, adapters |-> owner.adapters,
   builtins |-> owner.builtins, storages |-> owner.storages,
   depth |-> 0, label |-> 0, bound |-> {}, tmps |-> 0, labels |-> 0, declared |-> FALSE]

Refuse(sl, why) == [sl EXCEPT !.ok = FALSE, !.why = why]
EmitLines(sl, lines) == [sl EXCEPT !.go = @ \o lines]

\* Mutant: every error panics.
AlwaysPanicsMutant(sl, e) == <<"panic", e>>

ExitOnError(sl, e) == IF sl.panics THEN <<"panic", e>> ELSE <<"exit", e>>

NewTmp(sl) == [sl EXCEPT !.tmps = @ + 1]

\* tmpN, err := what; if err != nil { exit }
Checked(sl, what) == <<"try", sl.tmps, what, ExitOnError(sl, what)>>

HoistAs(sl, e) == LET s == NewTmp(sl) IN
                  [sl |-> EmitLines(s, <<Checked(s, e[2])>>), e |-> <<"tmp", s.tmps>>]

HoistVOConstruct(sl, e) == HoistAs(sl, e)

HoistLoad(sl, e) == IF sl.builtins THEN HoistAs(sl, e) ELSE [sl |-> Refuse(sl, "load"), e |-> e]

\* The storage a file goes to: the one its field is routed to, else the only
\* one the module declares.
ResolveFileStorageName(sl, field) ==
  IF field \in DOMAIN sl.storages.byField THEN sl.storages.byField[field] ELSE sl.storages.default

HoistStore(sl, e) ==
  LET storage == ResolveFileStorageName(sl, e[2]) IN
  IF sl.builtins /\ storage # "none" THEN HoistAs(sl, [e EXCEPT ![2] = storage])
  ELSE [sl |-> Refuse(sl, "store"), e |-> e]

\* Hoisting: a fallible construct becomes a line above the statement and the
\* temporary that line declares, the ones inside it first.
RECURSIVE HoistSubtree(_, _)
HoistSubtree(sl, e) ==
  LET HoistArg(h, a) == LET g == HoistSubtree(h.sl, a)
                        IN  [sl |-> g.sl, es |-> Append(h.es, g.e)]
      HoistArgs == FoldLeft(HoistArg, [sl |-> sl, es |-> <<>>], e[3])
      Left  == HoistSubtree(sl, e[3])
      Right == HoistSubtree(Left.sl, e[4])
  IN  CASE e[1] = "make"  -> HoistVOConstruct(HoistArgs.sl, e)
        [] e[1] = "load"  -> HoistLoad(HoistArgs.sl, e)
        [] e[1] = "store" -> HoistStore(HoistArgs.sl, e)
        [] e[1] = "operator" -> HoistAs(Right.sl, e)
        [] e[1] = "and" -> [sl |-> Right.sl, e |-> <<"and", e[2], Left.e, Right.e>>]
        [] OTHER -> [sl |-> sl, e |-> e]

-----------------------------------------------------------------------------
\* One operator for each form of statement.

BreakLine(sl, s) ==
  CASE s[1] = "continue" -> <<"continue">>
    [] s[1] = "break"    -> IF sl.depth = 0 THEN <<>> ELSE <<"break">>
    [] s[1] = "breakAll" -> IF sl.label = 0 THEN <<>> ELSE <<"breakTo", sl.label>>

BreakStmt(sl, s) ==
  LET line == BreakLine(sl, s) IN
  IF line = <<>> THEN Refuse(sl, "break") ELSE EmitLines(sl, <<line>>)

\* Mutant: Nop leaves the loop.
NopBreaksMutant(sl, a) ==
  CASE IsLoopControl(a) -> BreakLine(sl, a)
    [] a[2] = Nop       -> IF sl.depth = 0 THEN <<>> ELSE <<"break">>
    [] OTHER            -> ExitOnError(sl, a[2][2])

EnsureAction(sl, a) ==
  CASE IsLoopControl(a) -> BreakLine(sl, a)
    [] a[2] = Nop       -> IF sl.depth = 0 THEN <<>> ELSE <<"continue">>
    [] OTHER            -> ExitOnError(sl, a[2][2])

EnsureStmt(sl, s) ==
  LET h == HoistSubtree(sl, s[2])
      action == EnsureAction(sl, s[3])
  IN  IF action = <<>>
        THEN Refuse(sl, IF s[3] = <<"expr", Nop>> THEN "nop" ELSE "break")
        ELSE EmitLines(h.sl, <<<<"ifNot", h.e, action>>>>)

EmitStmt(sl, s) ==
  LET h == HoistSubtree(sl, s[3]) IN
  EmitLines(h.sl, <<IF sl.publishes THEN <<"publish", s[2], h.e, ExitOnError(sl, s[2])>>
                                    ELSE <<"append", s[2], h.e>>>>)

ReturnStmt(sl) == EmitLines(sl, <<<<"return">>>>)

\* Mutant: every assignment declares.
AlwaysDeclaresMutant(sl, s) ==
  LET h == HoistSubtree(sl, s[3])
  IN  [EmitLines(h.sl, <<<<"declare", s[2], h.e>>>>) EXCEPT !.bound = @ \cup {s[2]}]

AssignBareIdent(sl, s) ==
  LET h == HoistSubtree(sl, s[3])
      op == IF s[2] \in sl.bound THEN "set" ELSE "declare"
  IN  [EmitLines(h.sl, <<<<op, s[2], h.e>>>>) EXCEPT !.bound = @ \cup {s[2]}]

\* delete file(ref): only ever a statement.
DeleteFileStmt(sl, s) ==
  LET h == HoistSubtree(sl, s[3])
      storage == ResolveFileStorageName(sl, s[2])
  IN  IF ~sl.builtins \/ storage = "none" THEN Refuse(sl, "delete")
      ELSE EmitLines(h.sl, <<<<"call", storage, h.e, ExitOnError(sl, storage)>>>>)

\* events, err := wallet.Deposit(...), checked, and appended to the Tx, checked too.
AppendToTx == "tx.Append"
HandleDispatchCall(sl, s) ==
  IF sl.tx = "none" THEN Refuse(sl, "dispatch") ELSE
  LET h == HoistSubtree(sl, s[3]) IN
  [EmitLines(h.sl, <<<<IF sl.declared THEN "dispatchAgain" ELSE "dispatch",
                       s[2], h.e, ExitOnError(sl, s[2]), ExitOnError(sl, AppendToTx)>>>>) EXCEPT !.declared = TRUE]

NotifyOrCallStmt(sl, s) ==
  IF ~sl.adapters THEN Refuse(sl, "notify") ELSE
  LET h == HoistSubtree(sl, s[3]) IN
  EmitLines(h.sl, <<IF s[4] = "sync" THEN <<"call", s[2], h.e, ExitOnError(sl, s[2])>>
                                     ELSE <<"notify", s[2], h.e>>>>)

\* Mutant: only the statements of the loop's own body are looked at.
ContainsBreakAllHereMutant(b) == <<"breakAll">> \in Range(b[2])

ContainsBreakAll(b) == <<"breakAll">> \in ForEachStmt(b)

\* The lowerer of a for's body keeps neither the routed Tx nor the adapters.
ChildForLoop(sl, label) ==
  [sl EXCEPT !.go = <<>>, !.depth = @ + 1, !.label = label, !.bound = {},
             !.tx = IF @ = "routed" THEN "none" ELSE @, !.adapters = FALSE]

\* What the parent goes on with: its own scope and attachments, the child's
\* counters.
Resume(sl, child, lines) ==
  [sl EXCEPT !.ok = child.ok, !.why = child.why, !.tmps = child.tmps,
             !.labels = child.labels, !.declared = child.declared, !.go = @ \o lines]

RECURSIVE Stmt(_, _)

Block(sl, stmts) == FoldLeft(LAMBDA l, s : IF l.ok THEN Stmt(l, s) ELSE l, sl, stmts)

ForStmt(sl, s) ==
  LET outermost == sl.depth = 0
      labelled  == outermost /\ ContainsBreakAll(s[4])
      counted   == IF labelled THEN [sl EXCEPT !.labels = @ + 1] ELSE sl
      label     == IF labelled THEN counted.labels ELSE IF outermost THEN 0 ELSE sl.label
      iter      == HoistSubtree(counted, s[3])
      child     == Stmt(ChildForLoop(iter.sl, label), s[4])
  IN  Resume(iter.sl, child,
             <<<<"range", IF labelled THEN label ELSE 0, s[2], iter.e, child.go>>>>)

\* The body of an arm is lowered by the same lowerer: only its lines are set
\* apart.
ArmOf(l, arm, head) ==
  LET b == Stmt([l EXCEPT !.go = <<>>], arm.body)
  IN  [b EXCEPT !.go = Append(l.go, [head |-> head, body |-> b.go])]

MatchStmtEnum(sl, s) ==
  LET Arm(l, arm) == IF ~l.ok THEN l
                     ELSE IF "_" \in arm.patterns THEN Refuse(l, "match")
                     ELSE ArmOf(l, arm, <<"case", arm.patterns>>)
      arms == FoldLeft(Arm, [sl EXCEPT !.go = <<>>], s[3])
  IN  [arms EXCEPT !.go = Append(sl.go, <<"switch", s[2], arms.go>>)]

MatchStmtGuarded(sl, s) ==
  LET Arm(l, arm) ==
        LET h == HoistSubtree([l EXCEPT !.go = <<>>], arm.guard) IN
        IF ~l.ok THEN l
        ELSE IF "_" \in arm.patterns THEN ArmOf(l, arm, <<"default">>)
        ELSE IF arm.guard = <<>> \/ h.sl.go # <<>> \/ ~h.sl.ok THEN Refuse(l, "match")
        ELSE ArmOf(l, arm, <<"when", h.e>>)
      arms == FoldLeft(Arm, [sl EXCEPT !.go = <<>>], s[3])
  IN  [arms EXCEPT !.go = Append(sl.go, <<"switch", s[2], arms.go>>)]

MatchStmt(sl, s) == IF HasGuard(s) THEN MatchStmtGuarded(sl, s) ELSE MatchStmtEnum(sl, s)

Stmt(sl, s) ==
  CASE s[1] = "block"      -> Block(sl, s[2])
    [] s[1] = "ensure"     -> EnsureStmt(sl, s)
    [] IsLoopControl(s)    -> BreakStmt(sl, s)
    [] s[1] = "match"      -> MatchStmt(sl, s)
    [] s[1] = "for"        -> ForStmt(sl, s)
    [] s[1] = "emit"       -> EmitStmt(sl, s)
    [] s[1] = "return"     -> ReturnStmt(sl)
    [] s[1] = "assign"     -> AssignBareIdent(sl, s)
    [] s[1] = "dispatch"   -> HandleDispatchCall(sl, s)
    [] s[1] = "notify"     -> NotifyOrCallStmt(sl, s)
    [] s[1] = "delete"     -> DeleteFileStmt(sl, s)
    [] s[1] = "expr"       -> Refuse(sl, "expression")

-----------------------------------------------------------------------------
\* What the lines mean to Go.  A run carries the scopes of its variables,
\* innermost last, and how it goes on.

RECURSIVE GoValue(_, _)
GoValue(e, scopes) ==
  CASE e[1] = "lit"  -> e[2]
    [] e[1] = "tmp"  -> TRUE
    [] e[1] = "name" ->
         LET has == {i \in DOMAIN scopes : e[2] \in DOMAIN scopes[i]}
         IN  IF has = {} THEN FALSE ELSE scopes[Max(has)][e[2]]
    [] e[1] = "and"  -> GoValue(e[3], scopes) /\ GoValue(e[4], scopes)

InScope(scopes, n, v) ==
  [scopes EXCEPT ![Len(scopes)] = [x \in DOMAIN @ \cup {n} |-> IF x = n THEN v ELSE @[x]]]

SetWhereDeclared(scopes, n, v) ==
  LET has == {i \in DOMAIN scopes : n \in DOMAIN scopes[i]}
  IN  IF has = {} THEN scopes ELSE [scopes EXCEPT ![Max(has)][n] = v]

Leaving(r, line) == [r EXCEPT !.how = line]
Effect(r, x)     == [r EXCEPT !.effects = Append(@, x)]
Fallible(r, what, exit, effect) == IF what \in r.input.failing THEN Leaving(r, exit) ELSE effect

RECURSIVE GoRun(_, _)

GoLines(r, lines) == FoldLeft(LAMBDA q, l : IF q.how = <<>> THEN GoRun(q, l) ELSE q, r, lines)
GoScope(r, first, lines) ==
  LET in == GoLines([r EXCEPT !.scopes = Append(@, first)], lines)
  IN  [in EXCEPT !.scopes = Front(@)]

GoRange(r, line) ==
  LET Turn(q, i) ==
        IF q.how # <<>> THEN q ELSE
        LET t == GoScope(q, line[3] :> i, line[5]) IN
        IF t.how = <<"continue">> THEN Leaving(t, <<>>) ELSE t
      all == FoldLeft(Turn, r, [i \in 1..r.input.turns |-> i > 1])
  IN  IF all.how = <<"break">> \/ (line[2] # 0 /\ all.how = <<"breakTo", line[2]>>)
        THEN Leaving(all, <<>>) ELSE all

GoSwitch(r, line) ==
  LET Taken(arm) == CASE arm.head[1] = "case" -> r.input.subject \in arm.head[2]
                      [] arm.head[1] = "when" -> GoValue(arm.head[2], r.scopes)
                      [] arm.head[1] = "default" -> FALSE
      taken   == {i \in DOMAIN line[3] : Taken(line[3][i])}
      default == {i \in DOMAIN line[3] : line[3][i].head = <<"default">>}
      chosen  == IF taken # {} THEN Min(taken) ELSE IF default # {} THEN Min(default) ELSE 0
      in      == IF chosen = 0 THEN r ELSE GoScope(r, [x \in {} |-> FALSE], line[3][chosen].body)
  IN  IF in.how = <<"break">> THEN Leaving(in, <<>>) ELSE in

GoRun(r, line) ==
  CASE line[1] = "try" ->
         Fallible(r, line[3], line[4], r)
    [] line[1] = "ifNot" -> IF GoValue(line[2], r.scopes) THEN r ELSE Leaving(r, line[3])
    [] line[1] \in {"break", "breakTo", "continue", "return"} -> Leaving(r, line)
    [] line[1] = "append"  -> Effect(r, <<line[2], GoValue(line[3], r.scopes)>>)
    [] line[1] = "notify"  -> Effect(r, <<line[2], GoValue(line[3], r.scopes)>>)
    [] line[1] \in {"publish", "call"} ->
         Fallible(r, line[2], line[4], Effect(r, <<line[2], GoValue(line[3], r.scopes)>>))
    [] line[1] \in {"dispatch", "dispatchAgain"} ->
         LET handled == Effect(r, <<line[2], GoValue(line[3], r.scopes)>>)
         IN  Fallible(r, line[2], line[4],
                      Fallible(handled, AppendToTx, line[5], Effect(handled, <<AppendToTx, line[2]>>)))
    [] line[1] = "declare" -> [r EXCEPT !.scopes = InScope(@, line[2], GoValue(line[3], r.scopes))]
    [] line[1] = "set"     -> [r EXCEPT !.scopes = SetWhereDeclared(@, line[2], GoValue(line[3], r.scopes))]
    [] line[1] = "range"   -> GoRange(r, line)
    [] line[1] = "switch"  -> GoSwitch(r, line)

GoCall(lines, input) ==
  LET r == GoLines([how |-> <<>>, effects |-> <<>>, input |-> input, scopes |-> <<input.names>>], lines)
  IN  [how |-> IF r.how = <<>> THEN <<"return">> ELSE r.how, effects |-> r.effects, input |-> input]

-----------------------------------------------------------------------------
LoweringInit ==
  /\ body = <<"block", <<>>>> /\ bodyOf \in BodyOwners
  /\ lowered = NotLowered /\ ran = NotRun

WriteStmt(s) ==
  /\ lowered = NotLowered /\ Len(body[2]) < MaxStatements
  /\ \A t \in ForEachStmt(s) : /\ t[1] = "emit" => bodyOf.kind \in {"Handle", "Policy"}
                              /\ t[1] = "dispatch" => bodyOf.kind = "UseCase"
  /\ body' = <<"block", Append(body[2], s)>>
  /\ UNCHANGED <<bodyOf, lowered, ran>>

LowerBody ==
  /\ lowered = NotLowered /\ body[2] # <<>> /\ Accepted(body, bodyOf)
  /\ LET sl == Stmt(NewStmtLowerer(bodyOf), body)
     IN  lowered' = [ok |-> sl.ok, why |-> sl.why, go |-> sl.go]
  /\ UNCHANGED <<body, bodyOf, ran>>

RunBody(input) ==
  /\ lowered.ok /\ ran = NotRun
  /\ ran' = GoCall(lowered.go, input)
  /\ UNCHANGED <<body, bodyOf, lowered>>

LoweringNext ==
  \/ \E s \in Statements : WriteStmt(s)
  \/ LowerBody
  \/ \E input \in BodyInputs : RunBody(input)

LoweringSpec == LoweringInit /\ [][LoweringNext]_loweringVars
=============================================================================
