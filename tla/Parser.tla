------------------------------- MODULE Parser -------------------------------
(***************************************************************************)
(* The recursive-descent parser (parser/): a file of declarations, whole   *)
(* or with one token damaged, is read one top-level declaration at a time, *)
(* with the recovery of its three levels: a missing token is skipped or    *)
(* supposed (expect), a member nobody knows is passed over, and a          *)
(* declaration nobody knows is skipped up to the next one (synchronize).   *)
(*                                                                         *)
(* A token is <<lexeme, line>>.  What is kept of a parser is its cursor,   *)
(* the tokens since its last diagnostic, the line it last consumed, the    *)
(* diagnostics it gave and the extent of each declaration it recognised;   *)
(* of the tree, nothing else.  Each parse function takes a parser to the   *)
(* parser it leaves behind.                                                *)
(***************************************************************************)
EXTENDS Integers, Sequences, FiniteSets, SequencesExt

CONSTANTS
  Samples,      \* name |-> the lines of lexemes of a well-formed declaration
  Files,        \* sequences of names of samples
  Damaged,      \* the files one token of whose declaration 2 may be damaged
  Noise         \* the lexemes a damage may bring

VARIABLES file, damage, toks, parser

parserVars == <<file, damage, toks, parser>>

-----------------------------------------------------------------------------
\* Tokens.

topLevelKeywords ==
  {"ValueObject", "Enum", "Error", "Event", "PublicEvent", "Upcast", "Aggregate", "Command", "UseCase",
   "View", "Projection", "Query", "Policy", "Worker", "Notification", "Adapter", "Foreign", "Saga",
   "Metric", "Module", "Interface", "Topology", "Version", "Test", "Fixture"}
Keywords ==
  {"ensure", "match", "for", "in", "log", "emit", "return", "break", "continue", "else", "when", "and",
   "or", "not", "true", "false", "ref", "handles", "on"}
Operators ==
  {"{", "}", "(", ")", "[", "]", ",", ":", ".", "->", "=", "==", "!=", "<", ">", "<=", ">=", "+", "-",
   "*", "/"}
isLiteralKind == {"INT", "FLOAT", "STRING", "DURATION", "RATE", "SIZE", "VERSIONID", "true", "false"}

Kinds == topLevelKeywords \cup Keywords \cup Operators \cup isLiteralKind \cup {"EOF"}
KindOf(lexeme) == IF lexeme \in Kinds THEN lexeme ELSE "IDENT"

newParser == [pos |-> 1, since |-> 2, line |-> 0, errs |-> 0, decls |-> <<>>]
silenceWindow == 2

PeekAt(p, n) == IF p.pos + n > Len(toks) THEN "EOF" ELSE toks[p.pos + n][1]
Cur(p)       == PeekAt(p, 0)
\* p.at and p.atIdentLit: the token is of a kind, or is an identifier with that text.
At(p, k)     == Cur(p) = k \/ KindOf(Cur(p)) = k
AtEnd(p)     == Cur(p) = "EOF"
AtIdent(p)   == KindOf(Cur(p)) = "IDENT"
SameLineAsPrev(p) == ~AtEnd(p) /\ toks[p.pos][2] = p.line

Advance(p) ==
  IF AtEnd(p) THEN p
  ELSE [p EXCEPT !.pos = @ + 1, !.since = IF @ < silenceWindow THEN @ + 1 ELSE @, !.line = toks[p.pos][2]]
Accept(p, k) == IF At(p, k) THEN Advance(p) ELSE p

errorf(p) == IF p.since < silenceWindow THEN p ELSE [p EXCEPT !.errs = @ + 1, !.since = 0]

SilentExpect(p, k) ==
  CASE At(p, k)                 -> Advance(p)
    [] KindOf(PeekAt(p, 1)) = k -> Advance(Advance(p))
    [] OTHER                    -> p
GreedyExpect(p, k) ==
  CASE At(p, k)                 -> Advance(p)
    [] KindOf(PeekAt(p, 1)) = k -> Advance(Advance(errorf(p)))
    [] OTHER                    -> Advance(errorf(p))
expect(p, k) ==
  CASE At(p, k)                 -> Advance(p)
    [] KindOf(PeekAt(p, 1)) = k -> Advance(Advance(errorf(p)))
    [] OTHER                    -> errorf(p)

topLevelStop == topLevelKeywords \cup {"EOF"}
RECURSIVE synchronize(_)
synchronize(p) == IF At(p, "}") \/ Cur(p) \in topLevelStop THEN p ELSE synchronize(Advance(p))

ensureProgress(before, p) == IF p.pos = before.pos THEN Advance(p) ELSE p
\* The default branch of a loop over members.
Unexpected(p) == Advance(errorf(p))

-----------------------------------------------------------------------------
\* Names and types.

parseIdentName(p) == IF AtIdent(p) THEN Advance(p) ELSE errorf(p)
atConfigKey(p)    == AtIdent(p) \/ Cur(p) \in topLevelKeywords
parseName(p)      == IF atConfigKey(p) THEN Advance(p) ELSE errorf(p)
parseVersion(p)   == IF At(p, "VERSIONID") THEN Advance(p) ELSE errorf(p)
parseStringLit(p) == IF At(p, "STRING") THEN Advance(p) ELSE errorf(p)
parseMapKey(p)    == IF At(p, "STRING") THEN Advance(p) ELSE parseName(p)

RECURSIVE Members(_, _, _), Listed(_, _, _), Member(_, _)

\* The loop of a block: members up to close, each of which moves the cursor.
Members(p, close, what) ==
  IF At(p, close) \/ AtEnd(p) THEN p ELSE Members(ensureProgress(p, Member(p, what)), close, what)
\* The loop of a list: it also ends at the first member no comma follows.
Listed(p, close, what) ==
  IF At(p, close) \/ AtEnd(p) THEN p
  ELSE LET q == Member(p, what) IN IF At(q, ",") THEN Listed(Advance(q), close, what) ELSE q

Braced(p, what)   == expect(Members(expect(p, "{"), "}", what), "}")
Bracketed(p, what) == expect(Listed(expect(p, "["), "]", what), "]")

parseTypeRef(p) ==
  LET q == parseName(p) IN IF At(q, "<") THEN expect(Listed(Advance(q), ">", "type"), ">") ELSE q
parseParam(p)     == parseTypeRef(Accept(parseIdentName(p), "ref"))
parseParamList(p) == expect(Listed(expect(p, "("), ")", "param"), ")")

-----------------------------------------------------------------------------
\* Expressions.

\* The cycles of the grammar pass through Member.
Expr(p)    == Member(p, "expression")
Postfix(p) == Member(p, "postfix")

RECURSIVE parseExpr(_), BinaryLevel(_, _), BinaryTail(_, _), PostfixTail(_), parseUnary(_)
RECURSIVE parseQueryClauses(_), OrPatterns(_), LambdaPatterns(_)

Levels == <<{"or"}, {"and"}, {"==", "!="}, {"<", ">", "<=", ">=", "in"}, {"+", "-"}, {"*", "/"}>>
BinaryLevel(p, n) == IF n > Len(Levels) THEN parseUnary(p) ELSE BinaryTail(BinaryLevel(p, n + 1), n)
BinaryTail(p, n) == IF Cur(p) \in Levels[n] THEN BinaryTail(BinaryLevel(Advance(p), n + 1), n) ELSE p
parseOr(p) == BinaryLevel(p, 1)

atDotDot(p)      == At(p, ".") /\ PeekAt(p, 1) = "."
atFatArrow(p)    == At(p, "=") /\ PeekAt(p, 1) = ">"
expectFatArrow(p) == IF atFatArrow(p) THEN Advance(Advance(p)) ELSE errorf(p)
atLambda(p)      == AtIdent(p) /\ PeekAt(p, 1) = "=" /\ PeekAt(p, 2) = ">"

parseRange(p) == LET q == parseOr(p) IN IF atDotDot(q) THEN parseOr(Advance(Advance(q))) ELSE q
parseExpr(p)  == IF atLambda(p) THEN parseExpr(expectFatArrow(Advance(p))) ELSE parseRange(p)
parseUnary(p) == IF Cur(p) \in {"-", "not"} THEN parseUnary(Advance(p)) ELSE Postfix(p)

LambdaPatterns(p) == LET q == Expr(p) IN IF At(q, ",") THEN LambdaPatterns(Advance(q)) ELSE q
OrPatterns(p) == LET q == parseOr(p) IN IF At(q, ",") THEN OrPatterns(Advance(q)) ELSE q
parseMatchArmHead(p) ==
  LET q == OrPatterns(p) IN expectFatArrow(IF At(q, "when") THEN parseOr(Advance(q)) ELSE q)
parseMatchExpr(p) == Braced(Expr(expect(p, "match")), "arm of an expression")

parseListLiteral(p) == Bracketed(p, "expression")
parseArgList(p)     == expect(Listed(expect(p, "("), ")", "argument"), ")")
Argument(p) == Expr(IF AtIdent(p) /\ PeekAt(p, 1) = ":" THEN Advance(Advance(p)) ELSE p)

\* A query operation and its clauses; a binding or an alias stays on its line.
isQueryOp   == {"load", "list", "count", "store", "call", "delete"}
isClauseKw  == {"join", "where", "orderBy", "skip", "take", "as"}
isDirection == {"ascending", "descending", "asc", "desc"}

Alias(p) == IF AtIdent(p) /\ Cur(p) \notin isClauseKw /\ SameLineAsPrev(p) THEN Advance(p) ELSE p
parseOneClause(p, kw) ==
  CASE kw = "join"    -> Alias(Postfix(p))
    [] kw = "orderBy" -> LET q == Expr(p) IN IF Cur(q) \in isDirection THEN Advance(q) ELSE q
    [] kw = "as"      -> parseIdentName(p)
    [] OTHER          -> Expr(p)
parseQueryClauses(p) ==
  CASE At(p, "on")           -> parseQueryClauses(Expr(Advance(p)))
    [] Cur(p) \in isClauseKw -> parseQueryClauses(parseOneClause(Advance(p), Cur(p)))
    [] OTHER                 -> p
parseQueryOp(p) == parseQueryClauses(Alias(Postfix(Advance(p))))

parsePrimary(p) ==
  CASE Cur(p) \in isQueryOp            -> parseQueryOp(p)
    [] atConfigKey(p) /\ Cur(p) \notin isQueryOp -> Advance(p)
    [] At(p, "[")                      -> parseListLiteral(p)
    [] Cur(p) \in isLiteralKind        -> Advance(p)
    [] At(p, "(")                      -> expect(Expr(Advance(p)), ")")
    [] At(p, "match")                  -> parseMatchExpr(p)
    [] OTHER                           -> errorf(p)
PostfixTail(p) ==
  CASE At(p, ".") /\ ~atDotDot(p) -> PostfixTail(parseIdentName(Advance(p)))
    [] At(p, "(")      -> PostfixTail(parseArgList(p))
    [] At(p, "[")      -> PostfixTail(expect(Expr(Advance(p)), "]"))
    [] At(p, "exists") -> PostfixTail(Advance(p))
    [] OTHER           -> p
parsePostfix(p) == PostfixTail(parsePrimary(p))

-----------------------------------------------------------------------------
\* Statements.

parseBlock(p) == Braced(p, "statement")
parseLoopControl(p) == IF At(p, "continue") THEN Advance(p) ELSE Accept(expect(p, "break"), "all")
parseEnsureAction(p) == IF Cur(p) \in {"break", "continue"} THEN parseLoopControl(p) ELSE Expr(p)
parseEnsure(p) ==
  LET q == Expr(expect(p, "ensure"))
  IN  IF At(q, "else") \/ PeekAt(q, 1) = "else" THEN parseEnsureAction(expect(q, "else")) ELSE expect(q, "else")
parseReturn(p) ==
  LET q == expect(p, "return") IN IF At(q, "}") \/ AtEnd(q) THEN q ELSE Expr(q)
parseFor(p)    == parseBlock(Expr(expect(parseIdentName(expect(p, "for")), "in")))
parseLog(p) ==
  LET q == Accept(expect(p, "log"), "IDENT")
      r == IF At(q, "STRING") THEN Expr(q) ELSE q
  IN  IF At(r, "{") THEN Braced(r, "log field") ELSE r
parseEmit(p)      == Expr(expect(p, "emit"))
parseMatchStmt(p) == Braced(Expr(expect(p, "match")), "arm of a statement")

parseSimpleStmt(p) ==
  LET q == Expr(p) IN IF At(q, "=") /\ ~atFatArrow(q) THEN Expr(Advance(q)) ELSE q

parseStmt(p) ==
  CASE At(p, "match")  -> parseMatchStmt(p)
    [] At(p, "ensure") -> parseEnsure(p)
    [] At(p, "return") -> parseReturn(p)
    [] At(p, "for")    -> parseFor(p)
    [] At(p, "log")    -> parseLog(p)
    [] At(p, "emit")   -> parseEmit(p)
    [] Cur(p) \in {"break", "continue"} -> parseLoopControl(p)
    [] At(p, "{")      -> parseBlock(p)
    [] OTHER           -> parseSimpleStmt(p)

-----------------------------------------------------------------------------
\* Configuration values.

parseConfigEntries(p) == Braced(p, "config entry")
parseConfigList(p)    == Bracketed(p, "config value")
parseConfigValue(p) ==
  CASE At(p, "{") -> parseConfigEntries(p)
    [] At(p, "[") -> parseConfigList(p)
    [] OTHER      -> Expr(p)
parseConfigEntry(p) == parseConfigValue(Accept(parseName(p), ":"))
ConfigEntries(p) == IF atConfigKey(p) THEN Accept(parseConfigEntry(p), ",") ELSE Unexpected(p)
parseConfigBlock(p)  == Braced(p, "setting")
Setting(p)           == Accept(Expr(expect(parseIdentName(p), ":")), ",")
parseMapBlock(p)     == Braced(p, "mapping")
Mapping(p)           == Accept(Expr(expect(parseMapKey(p), "=")), ",")

moduleBlockKinds  == {"Database", "FileStorage", "Idempotency", "Cache", "RateLimit", "Outbox", "Telemetry"}
moduleNamedBlocks == {"Database", "FileStorage"}
parseConfigBlockKind(p) ==
  LET q == parseName(p)
  IN  parseConfigEntries(IF Cur(p) \in moduleNamedBlocks THEN parseIdentName(q) ELSE q)

-----------------------------------------------------------------------------
\* Members of declarations.

parseField(p) ==
  LET q == Accept(parseTypeRef(Accept(parseIdentName(p), "ref")), "redactable")
  IN  IF At(q, "=") THEN Expr(Advance(q)) ELSE q
parseFieldBlock(p) == Braced(p, "field")
FieldInBlock(p)    == Accept(parseField(p), ",")

parseOperator(p) ==
  parseBlock(parseTypeRef(expect(parseParamList(Advance(Advance(p))), "->")))
ValueObjectMember(p) ==
  CASE At(p, "Valid")    -> parseBlock(Advance(p))
    [] At(p, "Operator") -> parseOperator(p)
    [] OTHER             -> parseField(p)

parseEnumMember(p) ==
  LET q == parseIdentName(p)
  IN  IF At(q, "=") \/ PeekAt(q, 1) = "=" THEN Expr(expect(q, "=")) ELSE expect(q, "=")
parseCoerce(p) == parseBlock(parseTypeRef(Accept(Advance(p), "from")))
EnumMember(p)  == IF At(p, "coerce") THEN parseCoerce(p) ELSE parseEnumMember(p)

\* What an Error holds besides its message is passed over in silence.
ErrorMember(p) == IF At(p, "message") THEN Expr(Advance(p)) ELSE Advance(p)

WorkerMember(p) ==
  CASE At(p, "schedule") -> LET q == parseIdentName(Advance(p))
                            IN  IF PeekAt(p, 1) = "continuous" THEN q ELSE Expr(q)
    [] At(p, "scope")    -> parseIdentName(Accept(Advance(p), ":"))
    [] At(p, "timeout")  -> Expr(Advance(p))
    [] At(p, "onError")  -> parseConfigEntry(p)
    [] At(p, "source")   -> parseBlock(Advance(p))
    [] At(p, "execute")  -> LET q == Advance(p)
                            IN  parseBlock(IF At(q, "(") THEN expect(parseIdentName(Advance(q)), ")") ELSE q)
    [] OTHER -> IF AtIdent(p) /\ PeekAt(p, 1) = ":" THEN Expr(Advance(Advance(p))) ELSE Unexpected(p)

MetricMember(p) ==
  CASE At(p, "type")   -> parseIdentName(Advance(p))
    [] At(p, "labels") -> parseMapBlock(Advance(p))
    [] Cur(p) \in {"value", "buckets", "on"} -> Expr(Advance(p))
    [] OTHER           -> Unexpected(p)

parseSagaStep(p) == Braced(parseName(Advance(p)), "step member")
SagaStepMember(p) == IF Cur(p) \in {"up", "down", "onInfraError"} THEN parseBlock(Advance(p)) ELSE Unexpected(p)
SagaMember(p) ==
  CASE At(p, "mode")  -> LET q == parseIdentName(Advance(p))
                         IN  IF At(q, "timeout") THEN Expr(Advance(q)) ELSE q
    [] At(p, "state") -> parseFieldBlock(Advance(p))
    [] At(p, "step")  -> parseSagaStep(p)
    [] OTHER          -> Unexpected(p)

AdapterMember(p) ==
  CASE At(p, "mode")     -> parseIdentName(Advance(p))
    [] At(p, "http")     -> Expr(parseIdentName(Advance(p)))
    [] At(p, "foreign")  -> LET q == Expr(Advance(p)) IN IF At(q, "from") THEN Expr(Advance(q)) ELSE q
    [] At(p, "function") -> Expr(Advance(p))
    [] Cur(p) \in {"headers", "body", "map"} -> parseMapBlock(Advance(p))
    [] OTHER             -> Unexpected(p)

parseForeignFunc(p) ==
  LET q == parseParamList(parseName(Advance(p))) IN IF At(q, "->") THEN parseTypeRef(Advance(q)) ELSE q
ForeignMember(p) == IF At(p, "function") THEN parseForeignFunc(p) ELSE Unexpected(p)

PolicyMember(p) ==
  CASE At(p, "delivery") -> parseIdentName(Advance(p))
    [] At(p, "execute")  -> parseBlock(Advance(p))
    [] OTHER             -> Unexpected(p)

parseAccessBlock(p) == Braced(p, "access rule")
AccessRule(p) == Expr(Accept(parseIdentName(p), "requires"))
ViewMember(p) == IF At(p, "visibility") THEN parseAccessBlock(Advance(p)) ELSE Accept(parseField(p), ",")

RECURSIVE IdentNames(_)
IdentNames(p) == LET q == parseIdentName(p) IN IF At(q, ",") THEN IdentNames(Advance(q)) ELSE q
ProjectionMember(p) ==
  CASE At(p, "source")    -> IdentNames(Advance(p))
    [] At(p, "map")       -> parseMapBlock(Advance(p))
    [] At(p, "refreshOn") -> Expr(Advance(p))
    [] OTHER              -> Unexpected(p)

QueryMember(p) == IF At(p, "cache") THEN parseConfigBlock(Advance(p)) ELSE parseStmt(p)

UseCaseMember(p) ==
  CASE At(p, "timeout")     -> Expr(Advance(p))
    [] At(p, "idempotency") -> parseConfigValue(Advance(p))
    [] At(p, "tenancy")     -> parseIdentName(Accept(Advance(p), ":"))
    [] At(p, "execute")     -> parseBlock(Advance(p))
    [] OTHER                -> Unexpected(p)

parseStorageBlock(p) == Braced(p, "storage entry")
StorageEntry(p) == Accept(parseIdentName(expect(parseIdentName(p), ":")), ",")
parseHandle(p) == parseBlock(parseParamList(parseIdentName(Advance(p))))
parseApply(p)  == parseBlock(parseIdentName(Advance(p)))
AggregateMember(p) ==
  CASE At(p, "strategy") -> parseIdentName(Advance(p))
    [] At(p, "snapshot") -> Accept(Expr(Accept(Advance(p), "every")), "events")
    [] At(p, "storage")  -> parseStorageBlock(Advance(p))
    [] At(p, "state")    -> parseFieldBlock(Advance(p))
    [] At(p, "access")   -> parseAccessBlock(Advance(p))
    [] At(p, "Handle")   -> parseHandle(p)
    [] At(p, "Apply")    -> parseApply(p)
    [] OTHER             -> Unexpected(p)

ModuleMember(p) ==
  CASE Cur(p) \in moduleBlockKinds -> parseConfigBlockKind(p)
    [] atConfigKey(p) /\ Cur(p) \notin moduleBlockKinds -> Accept(parseConfigEntry(p), ",")
    [] OTHER -> Unexpected(p)

parseRoute(p) ==
  LET q == parseName(expect(parseStringLit(parseIdentName(p)), "->"))
  IN  IF At(q, "{") THEN parseConfigEntries(q) ELSE q
parseGrpcService(p) == Braced(parseIdentName(Advance(p)), "rpc")
GrpcRPC(p) == IF At(p, "rpc") THEN parseName(expect(parseName(Advance(p)), "->")) ELSE Unexpected(p)
InterfaceMember(p) ==
  IF AtIdent(p) /\ PeekAt(p, 1) = "STRING" THEN parseRoute(p)
  ELSE IF At(p, "service") THEN parseGrpcService(p)
  ELSE IF atConfigKey(p) THEN Accept(parseConfigEntry(p), ",") ELSE Unexpected(p)

TopologyMember(p) ==
  CASE At(p, "services") -> Braced(Advance(p), "service")
    [] At(p, "channels") -> Braced(Advance(p), "channel")
    [] OTHER             -> Unexpected(p)
parseServices(p) == IF atConfigKey(p) THEN parseConfigEntries(parseName(p)) ELSE Unexpected(p)
parseChannels(p) ==
  IF atConfigKey(p) THEN parseConfigEntries(parseName(expect(parseName(p), "->"))) ELSE Unexpected(p)

parseVersionUpcast(p)   == Braced(parseName(Advance(p)), "upcast part")
UpcastPart(p) ==
  CASE At(p, "from") -> parseFieldBlock(Advance(p))
    [] At(p, "to")   -> parseMapBlock(Advance(p))
    [] OTHER         -> Unexpected(p)
parseVersionDowncast(p) == Braced(parseName(Advance(p)), "downcast part")
DowncastPart(p) == IF At(p, "to") THEN parseMapBlock(Advance(p)) ELSE Unexpected(p)
parseVersionRoute(p) == parseName(expect(parseStringLit(Advance(p)), "->"))
VersionMember(p) ==
  CASE Cur(p) \in {"deprecated", "sunset"} -> Expr(Accept(Advance(p), ":"))
    [] At(p, "upcast")   -> parseVersionUpcast(p)
    [] At(p, "downcast") -> parseVersionDowncast(p)
    [] At(p, "route")    -> parseVersionRoute(p)
    [] OTHER             -> Unexpected(p)

-----------------------------------------------------------------------------
\* Test files.

parseEntityList(p) == Bracketed(p, "entity")
Entity(p) == LET q == Expr(p) IN IF At(q, "{") THEN parseConfigEntries(q) ELSE q
parseGivenBody(p) ==
  IF At(p, "[") THEN parseEntityList(p)
  ELSE IF At(p, "state") THEN parseConfigEntries(Advance(p))
  ELSE IF AtIdent(p) /\ PeekAt(p, 1) = "[" THEN parseEntityList(Advance(p))
  ELSE LET q == Postfix(p) IN IF At(q, "from") THEN parseEntityList(Advance(q)) ELSE q

parseMock(p) ==
  LET q == Postfix(Advance(p)) IN IF At(q, "returns") THEN Expr(Advance(q)) ELSE q
parseFailStep(p) ==
  LET q == parseName(Accept(Advance(p), "step")) IN IF At(q, "with") THEN parseName(Advance(q)) ELSE q
parseWhen(p) == Expr(Accept(expect(p, "when"), "event"))

EmittedTail(p) == Expr(Accept(p, "count"))
parseThenAssert(p) ==
  CASE At(p, "error")   -> parseName(Advance(p))
    [] At(p, "emitted") -> EmittedTail(Advance(p))
    [] Cur(p) \in {"saga", "called"}          -> Expr(Advance(p))
    [] Cur(p) \in {"committed", "rolledback"} -> Advance(p)
    [] At(p, "compensated") -> LET q == Advance(p) IN IF At(q, "[") THEN parseListLiteral(q) ELSE q
    [] OTHER -> LET q == Postfix(p)
                IN  CASE At(q, "emitted") -> EmittedTail(Advance(q))
                      [] At(q, "called")  -> Expr(Advance(q))
                      [] OTHER            -> Accept(q, "IDENT")
ThenAsserts(p) == Accept(parseThenAssert(p), ",")
parseThen(p) ==
  LET q == Advance(p)
  IN  CASE At(q, "error") -> parseName(Advance(q))
        [] At(q, "state") -> parseConfigEntries(Advance(q))
        [] At(q, "[")     -> parseListLiteral(q)
        [] At(q, "{")     -> Braced(q, "assertion")
        [] OTHER          -> errorf(q)

parseScenario(p) == Braced(parseStringLit(Advance(p)), "clause")
ScenarioMember(p) ==
  CASE At(p, "mock")  -> parseMock(p)
    [] At(p, "fail")  -> parseFailStep(p)
    [] At(p, "given") -> parseGivenBody(Advance(p))
    [] At(p, "when")  -> parseWhen(p)
    [] At(p, "then")  -> parseThen(p)
    [] OTHER          -> Unexpected(p)
parseProperty(p) == Braced(parseStringLit(Advance(p)), "property part")
PropertyMember(p) ==
  CASE At(p, "forall")    -> Expr(Accept(Accept(Advance(p), "sequence"), "of"))
    [] At(p, "invariant") -> Expr(Advance(p))
    [] OTHER              -> Unexpected(p)
TestMember(p) ==
  CASE At(p, "scenario") -> parseScenario(p)
    [] At(p, "property") -> parseProperty(p)
    [] OTHER             -> Unexpected(p)
FixtureMember(p) == IF atConfigKey(p) \/ At(p, "[") THEN parseGivenBody(p) ELSE Unexpected(p)

-----------------------------------------------------------------------------
\* Declarations.

parseValueObject(p) ==
  LET q == parseIdentName(expect(p, "ValueObject"))
  IN  Braced(IF At(q, "(") THEN expect(parseTypeRef(Advance(q)), ")") ELSE q, "ValueObject")
parseEnum(p) ==
  LET q == parseIdentName(expect(p, "Enum"))
  IN  Braced(IF At(q, ":") THEN parseTypeRef(Advance(q)) ELSE q, "Enum")
parseErrorType(p)    == Braced(parseIdentName(expect(p, "Error")), "Error")
parseEvent(p)        == parseFieldBlock(parseIdentName(Advance(p)))
parseCommand(p)      == parseFieldBlock(parseIdentName(expect(p, "Command")))
parseNotification(p) == parseFieldBlock(parseIdentName(expect(p, "Notification")))
parseWorker(p)       == Braced(parseIdentName(expect(p, "Worker")), "Worker")
parseMetric(p)       == Braced(parseIdentName(expect(p, "Metric")), "Metric")
parseUpcast(p) ==
  parseBlock(parseVersion(expect(parseVersion(parseName(expect(p, "Upcast"))), "->")))
parseSaga(p) ==
  LET q == parseIdentName(expect(p, "Saga"))
  IN  Braced(IF At(q, "handles") THEN parseName(Advance(q)) ELSE q, "Saga")
parseAdapter(p)      == Braced(parseIdentName(expect(p, "Adapter")), "Adapter")
parseForeign(p) ==
  LET q == Expr(expect(p, "Foreign"))
  IN  Braced(IF At(q, "from") THEN Expr(Advance(q)) ELSE q, "Foreign")
parsePolicy(p) ==
  LET q == parseIdentName(expect(p, "Policy"))
  IN  Braced(IF At(q, "on") THEN parseIdentName(Advance(q)) ELSE q, "Policy")
parseView(p) ==
  LET q == parseIdentName(expect(p, "View"))
      r == IF At(q, "From") THEN parseIdentName(Advance(q)) ELSE q
  IN  IF At(r, "{") THEN Braced(r, "View") ELSE r
parseProjection(p)   == Braced(parseIdentName(expect(p, "Projection")), "Projection")
parseQuery(p) ==
  LET q == parseParamList(parseIdentName(expect(p, "Query")))
  IN  Braced(IF At(q, "->") THEN parseTypeRef(Advance(q)) ELSE q, "Query")
parseUseCase(p) ==
  LET q == parseIdentName(expect(p, "UseCase"))
  IN  Braced(IF At(q, "handles") THEN parseIdentName(Advance(q)) ELSE q, "UseCase")
parseAggregate(p)    == Braced(parseIdentName(expect(p, "Aggregate")), "Aggregate")
parseModule(p)       == Braced(parseIdentName(expect(p, "Module")), "Module")
parseInterface(p)    == Braced(parseIdentName(expect(p, "Interface")), "Interface")
parseTopology(p)     == Braced(expect(p, "Topology"), "Topology")
parseRateLimitTier(p) == parseConfigEntries(parseIdentName(Advance(p)))
parseVersionDecl(p)  == Braced(parseVersion(expect(p, "Version")), "Version")
parseTest(p)         == Braced(parseIdentName(expect(p, "Test")), "Test")
parseFixture(p)      == Braced(parseIdentName(expect(p, "Fixture")), "Fixture")

parseDecl(p) ==
  CASE At(p, "ValueObject")  -> parseValueObject(p)
    [] At(p, "Enum")         -> parseEnum(p)
    [] At(p, "Error")        -> parseErrorType(p)
    [] Cur(p) \in {"Event", "PublicEvent"} -> parseEvent(p)
    [] At(p, "Aggregate")    -> parseAggregate(p)
    [] At(p, "Command")      -> parseCommand(p)
    [] At(p, "UseCase")      -> parseUseCase(p)
    [] At(p, "View")         -> parseView(p)
    [] At(p, "Projection")   -> parseProjection(p)
    [] At(p, "Query")        -> parseQuery(p)
    [] At(p, "Policy")       -> parsePolicy(p)
    [] At(p, "Worker")       -> parseWorker(p)
    [] At(p, "Notification") -> parseNotification(p)
    [] At(p, "Adapter")      -> parseAdapter(p)
    [] At(p, "Foreign")      -> parseForeign(p)
    [] At(p, "Saga")         -> parseSaga(p)
    [] At(p, "Metric")       -> parseMetric(p)
    [] At(p, "Upcast")       -> parseUpcast(p)
    [] At(p, "Module")       -> parseModule(p)
    [] At(p, "Interface")    -> parseInterface(p)
    [] At(p, "Topology")     -> parseTopology(p)
    [] At(p, "Version")      -> parseVersionDecl(p)
    [] At(p, "RateLimitTier") -> parseRateLimitTier(p)
    [] At(p, "Test")         -> parseTest(p)
    [] At(p, "Fixture")      -> parseFixture(p)
    [] OTHER                 -> synchronize(errorf(p))

-----------------------------------------------------------------------------
\* One turn of each loop of the parser, over declarations, members and expressions.

Member(p, what) ==
  CASE what = "expression"  -> parseExpr(p)
    [] what = "postfix"     -> parsePostfix(p)
    [] what = "type"        -> parseTypeRef(p)
    [] what = "param"       -> parseParam(p)
    [] what = "argument"    -> Argument(p)
    [] what = "statement"   -> parseStmt(p)
    [] what = "arm of an expression" -> Expr(parseMatchArmHead(p))
    [] what = "arm of a statement"   -> parseStmt(parseMatchArmHead(p))
    [] what = "log field"     -> Expr(expect(parseIdentName(p), "="))
    [] what = "config entry"  -> ConfigEntries(p)
    [] what = "config value"  -> parseConfigValue(p)
    [] what = "setting"       -> Setting(p)
    [] what = "mapping"       -> Mapping(p)
    [] what = "field"         -> FieldInBlock(p)
    [] what = "storage entry" -> StorageEntry(p)
    [] what = "access rule"   -> AccessRule(p)
    [] what = "step member"   -> SagaStepMember(p)
    [] what = "rpc"           -> GrpcRPC(p)
    [] what = "service"       -> parseServices(p)
    [] what = "channel"       -> parseChannels(p)
    [] what = "upcast part"   -> UpcastPart(p)
    [] what = "downcast part" -> DowncastPart(p)
    [] what = "entity"        -> Entity(p)
    [] what = "assertion"     -> ThenAsserts(p)
    [] what = "clause"        -> ScenarioMember(p)
    [] what = "property part" -> PropertyMember(p)
    [] what = "ValueObject"   -> ValueObjectMember(p)
    [] what = "Enum"          -> EnumMember(p)
    [] what = "Error"         -> ErrorMember(p)
    [] what = "Worker"        -> WorkerMember(p)
    [] what = "Metric"        -> MetricMember(p)
    [] what = "Saga"          -> SagaMember(p)
    [] what = "Adapter"       -> AdapterMember(p)
    [] what = "Foreign"       -> ForeignMember(p)
    [] what = "Policy"        -> PolicyMember(p)
    [] what = "View"          -> ViewMember(p)
    [] what = "Projection"    -> ProjectionMember(p)
    [] what = "Query"         -> QueryMember(p)
    [] what = "UseCase"       -> UseCaseMember(p)
    [] what = "Aggregate"     -> AggregateMember(p)
    [] what = "Module"        -> ModuleMember(p)
    [] what = "Interface"     -> InterfaceMember(p)
    [] what = "Topology"      -> TopologyMember(p)
    [] what = "Version"       -> VersionMember(p)
    [] what = "Test"          -> TestMember(p)
    [] what = "declaration"   -> parseDecl(p)
    [] what = "Fixture"       -> FixtureMember(p)

-----------------------------------------------------------------------------
\* A file, its damage and its reading.

RECURSIVE Numbered(_, _)
Numbered(lines, n) ==
  IF lines = <<>> THEN <<>>
  ELSE [i \in DOMAIN Head(lines) |-> <<Head(lines)[i], n>>] \o Numbered(Tail(lines), n + 1)
Lex(names) == Numbered(FlattenSeq([i \in DOMAIN names |-> Samples[names[i]]]), 1)
Words(name) == Len(FlattenSeq(Samples[name]))

NoDamage == <<"none", 0, "EOF">>

ParserInit ==
  /\ file \in Files
  /\ damage = NoDamage
  /\ toks = Lex(file)
  /\ parser = newParser

\* One token of the second declaration is deleted, replaced or preceded by noise.
DamageFile ==
  /\ damage = NoDamage /\ parser = newParser /\ file \in Damaged
  /\ \E i \in Words(file[1]) + 1 .. Words(file[1]) + Words(file[2]), how \in {"delete", "replace", "insert"} :
       \E w \in IF how = "delete" THEN {"EOF"} ELSE Noise :
         /\ damage' = <<how, i, w>>
         /\ toks' = CASE how = "delete"  -> RemoveAt(toks, i)
                      [] how = "replace" -> ReplaceAt(toks, i, <<w, toks[i][2]>>)
                      [] how = "insert"  -> InsertAt(toks, i, <<w, toks[i][2]>>)
  /\ UNCHANGED <<file, parser>>

\* The net under the loop: a declaration that consumed nothing loses a token.
parseFileStuck(p, q) == q
parseFile(p, q) == ensureProgress(p, q)

\* One turn of parseFile's loop.
ParseDeclaration ==
  /\ ~AtEnd(parser)
  /\ LET q == parseFile(parser, Member(parser, "declaration"))
     IN  parser' = [q EXCEPT !.decls = Append(@, <<Cur(parser), parser.pos, q.pos>>)]
  /\ UNCHANGED <<file, damage, toks>>

ParserNext == DamageFile \/ ParseDeclaration
ParserSpec == ParserInit /\ [][ParserNext]_parserVars
=============================================================================
