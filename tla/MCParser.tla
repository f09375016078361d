------------------------------ MODULE MCParser ------------------------------
EXTENDS Parser, TLC

S == "STRING"

\* A declaration of each kind, of the shape of docs/examples, its members on lines of their own.
MCSamples ==
  "vo" :> <<<<"ValueObject", "Money", "(", "decimal", ")", "{">>, <<"amount", "List", "<", "decimal", ">", "redactable">>,
            <<"Valid", "{", "amount", ">=", "INT", "}">>,
            <<"Operator", "+", "(", "other", "Money", ")", "->", "Money", "{", "return", "amount", "+", "other", ".", "amount", "}">>, <<"}">>>>
  @@ "enum" :> <<<<"Enum", "Tier", ":", "string", "{">>, <<"Gold", "=", S>>,
                 <<"coerce", "from", "string", "{", "ok", "}">>, <<"}">>>>
  @@ "error" :> <<<<"Error", "Refused", "{", "message", S, "}">>>>
  @@ "event" :> <<<<"PublicEvent", "Opened", "{", "id", "WalletId", ",", "at", "ref", "Wallet", "=", "INT", "}">>>>
  @@ "command" :> <<<<"Command", "Deposit", "{", "id", "WalletId", "}">>>>
  @@ "worker" :> <<<<"Worker", "Sweep", "{">>, <<"schedule", "every", "DURATION">>, <<"scope", ":", "tenant">>,
                   <<"onError", ":", "retry", "(", "INT", ")">>, <<"concurrency", ":", "INT">>,
                   <<"source", "{", "list", "Wallet", "where", "x", "}">>,
                   <<"execute", "(", "w", ")", "{", "Close", "(", "w", ")", "}">>, <<"}">>>>
  @@ "metric" :> <<<<"Metric", "deposits", "{">>, <<"type", "counter">>, <<"on", "Opened">>,
                   <<"labels", "{", S, "=", "x", "}">>, <<"}">>>>
  @@ "upcast" :> <<<<"Upcast", "Opened", "VERSIONID", "->", "VERSIONID", "{", "x", "=", "INT", "}">>>>
  @@ "saga" :> <<<<"Saga", "Move", "handles", "MoveCmd", "{">>, <<"mode", "sync", "timeout", "DURATION">>,
                 <<"state", "{", "n", "int", "}">>, <<"step", "take", "{">>, <<"up", "{", "Take", "(", ")", "}">>,
                 <<"down", "{", "Give", "(", ")", "}">>, <<"}">>, <<"}">>>>
  @@ "notification" :> <<<<"Notification", "Mail", "{", "to", "Email", "}">>>>
  @@ "adapter" :> <<<<"Adapter", "Mail", "{">>, <<"mode", "sync">>, <<"http", "POST", S>>,
                    <<"headers", "{", "auth", "=", "env", "(", S, ")", "}">>, <<"}">>>>
  @@ "foreign" :> <<<<"Foreign", S, "from", S, "{">>, <<"function", "sign", "(", "x", "string", ")", "->", "string">>, <<"}">>>>
  @@ "policy" :> <<<<"Policy", "Greet", "on", "Opened", "{">>, <<"delivery", "AtLeastOnce">>,
                   <<"execute", "{">>, <<"match", "t", "{">>, <<"Gold", "when", "vip", "=", ">", "emit", "A", "(", ")">>,
                   <<"_", "=", ">", "log", "info", S, "{", "id", "=", "x", "}">>, <<"}">>, <<"}">>, <<"}">>>>
  @@ "view" :> <<<<"View", "WalletView", "From", "Wallet">>>>
  @@ "view2" :> <<<<"View", "Detail", "{">>, <<"id", "WalletId">>,
                  <<"visibility", "{", "id", "requires", "role", "==", S, "}">>, <<"}">>>>
  @@ "projection" :> <<<<"Projection", "Board", "{">>, <<"source", "Opened", ",", "Closed">>,
                       <<"map", "{", "id", "=", "e", ".", "id", "}">>, <<"refreshOn", "Opened">>, <<"}">>>>
  @@ "query" :> <<<<"Query", "Open", "(", "id", "WalletId", ")", "->", "List", "<", "View", ">", "{">>,
                  <<"cache", "{", "ttl", ":", "DURATION", "}">>, <<"list", "Wallet", "w">>,
                  <<"join", "Owner", "o", "on", "w", ".", "id", "==", "o", ".", "id">>,
                  <<"where", "w", ".", "total", ">", "INT", "orderBy", "w", ".", "total", "desc", "take", "INT">>, <<"}">>>>
  @@ "usecase" :> <<<<"UseCase", "Pay", "handles", "PayCmd", "{">>, <<"timeout", "DURATION">>, <<"tenancy", ":", "none">>,
                    <<"idempotency", "{", "key", ":", "cmd", ".", "id", "}">>, <<"execute", "{">>,
                    <<"wallet", "=", "load", "Wallet", "(", "id", ")">>, <<"store", "photo">>, <<"wallet", ".", "Rename", "(", "x", ")">>,
                    <<"for", "i", "in", "INT", ".", ".", "INT", "{">>, <<"ensure", "i", "<", "n", "else", "break", "all">>,
                    <<"}">>, <<"return", "-", "xs", "[", "INT", "]">>, <<"}">>, <<"}">>>>
  @@ "aggregate" :> <<<<"Aggregate", "Wallet", "{">>, <<"strategy", "EventSourced">>, <<"snapshot", "every", "INT", "events">>,
                      <<"storage", "{", "photo", ":", "disk", "}">>, <<"state", "{", "id", "WalletId", "}">>,
                      <<"access", "{", "Open", "requires", "role", "}">>, <<"Handle", "Open", "(", "id", "WalletId", ")", "{">>,
                      <<"ensure", "id", "exists", "else", "Refused">>, <<"emit", "Opened", "(", "id", ":", "id", ")">>, <<"}">>,
                      <<"Apply", "Opened", "{", "id", "=", "e", ".", "id", "}">>, <<"}">>>>
  @@ "module" :> <<<<"Module", "Wallets", "{">>, <<"tenancy", ":", "required">>,
                   <<"Database", "main", "{", "engine", ":", S, ",", "tags", "[", "a", ",", "b", "]", "}">>, <<"}">>>>
  @@ "interface" :> <<<<"Interface", "HTTP", "{">>, <<"cors", "{", "origin", ":", S, "}">>,
                      <<"POST", S, "->", "Pay", "{", "rate", "RATE", "}">>, <<"GET", S, "->", "Open">>,
                      <<"service", "W", "{", "rpc", "Pay", "->", "PayCmd", "}">>, <<"}">>>>
  @@ "topology" :> <<<<"Topology", "{">>, <<"services", "{", "core", "{", "modules", "[", "a", "]", "}", "}">>,
                     <<"channels", "{", "a", "->", "b", "{", "via", ":", "queue", "}", "}">>, <<"}">>>>
  @@ "tier" :> <<<<"RateLimitTier", "free", "{", "limit", ":", "RATE", "}">>>>
  @@ "version" :> <<<<"Version", "VERSIONID", "{">>, <<"sunset", ":", S>>,
                    <<"upcast", "Pay", "{", "from", "{", "n", "int", "}", "to", "{", "n", "=", "INT", "}", "}">>,
                    <<"downcast", "Open", "{", "to", "{", "n", "=", "x", "}", "}">>, <<"route", S, "->", "Pay">>, <<"}">>>>
  @@ "test" :> <<<<"Test", "WalletTest", "{">>, <<"scenario", S, "{">>, <<"mock", "Mail", "returns", "ok">>,
                 <<"fail", "step", "take", "with", "Refused">>, <<"given", "w", "[", "Wallet", "(", ")", "{", "n", ":", "INT", "}", "]">>,
                 <<"when", "Pay", "(", ")">>, <<"then", "{", "emitted", "count", "INT", "}">>, <<"}">>,
                 <<"property", S, "{", "forall", "sequence", "of", "x", "=", ">", "y", "invariant", "n", "}">>, <<"}">>>>
  @@ "fixture" :> <<<<"Fixture", "Base", "{">>, <<"w", "[", "Wallet", "(", ")", "]">>, <<"}">>>>

MCDamaged == {<<"event", x, "command">> : x \in DOMAIN MCSamples}
MCFiles == {<<a, b>> : a, b \in DOMAIN MCSamples} \cup MCDamaged
MCNoise   == {"name", ")", "}", "{", "=", "Query"}

-----------------------------------------------------------------------------
Starts == [n \in 1 .. Len(file) |-> 1 + Len(Lex(SubSeq(file, 1, n - 1)))]
Shift  == CASE damage[1] = "delete" -> -1 [] damage[1] = "insert" -> 1 [] OTHER -> 0
\* Where declaration n of the file was written, and where the damage moved it.
Written(n) == LET s == IF n > 2 THEN Starts[n] + Shift ELSE Starts[n]
              IN  <<Head(Head(Samples[file[n]])), s, s + Words(file[n])>>
ReadToTheEnd == AtEnd(parser)

\* The parser's cursor stays in the file, its window is a window, and what it recognised are
\* consecutive stretches of the file that start where the previous one ended.
ParserTypeOK ==
  /\ parser.pos \in 1 .. Len(toks) + 1 /\ parser.since \in 0 .. silenceWindow
  /\ \A n \in DOMAIN parser.decls :
       /\ parser.decls[n][2] < parser.decls[n][3]
       /\ parser.decls[n][2] = IF n = 1 THEN 1 ELSE parser.decls[n - 1][3]

\* Whatever two declarations follow one another, a well-formed file is read without a
\* diagnostic and each declaration ends where it was written to end: no optional part of the
\* first (a binding, an alias, an arrow, a block) reaches into the second.
WellFormedIsSilent ==
  (ReadToTheEnd /\ damage = NoDamage) =>
    parser.errs = 0 /\ parser.decls = [n \in DOMAIN file |-> Written(n)]

\* The declarations around the damaged one are recognised as they were written.
OthersAreRecognised == \A n \in {1, 3} : Written(n) \in Range(parser.decls)

\* The damage is to a member, not to a header: it takes and brings no bracket and no keyword
\* of a declaration, and no block opens after it on its line.
Brackets == {"{", "}", "(", ")", "[", "]"}
InAMember ==
  LET i == damage[2]
      line == Lex(file)[i][2]
  IN  /\ damage[3] \notin Brackets \cup topLevelKeywords
      /\ damage[1] = "insert" \/ Lex(file)[i][1] \notin Brackets \cup topLevelKeywords
      /\ \A j \in i .. Len(Lex(file)) : Lex(file)[j] # <<"{", line>>

\* One damaged token of a member leaves the other declarations recognised as they were
\* written: the loops of the parser come back to the end of the block the token is in.  A
\* service of a Topology without its block is the exception: it takes the block's brace.
DamageStaysInItsDeclaration ==
  (ReadToTheEnd /\ damage # NoDamage /\ InAMember /\ file[2] # "topology") => OthersAreRecognised

Opening == [x \in {"}", ")", "]"} |-> CASE x = "}" -> "{" [] x = ")" -> "(" [] OTHER -> "["]
Nested(stack, t) ==
  CASE t \in {"{", "(", "["} -> Append(stack, t)
    [] t \in DOMAIN Opening -> IF stack # <<>> /\ Last(stack) = Opening[t] THEN Front(stack) ELSE <<"unbalanced">>
    [] OTHER -> stack
Balanced == FoldLeft(LAMBDA st, tk : IF st = <<"unbalanced">> THEN st ELSE Nested(st, tk[1]), <<>>, toks) = <<>>
\* An Error passes over what is not its message, an Operator takes any token for its symbol.
PassedOver == file[2] = "error" \/ (damage[1] = "replace" /\ Lex(file)[damage[2] - 1][1] = "Operator")
\* No bracket left without its partner goes unreported, wherever in the declaration it is.
UnbalancedIsReported == (ReadToTheEnd /\ parser.errs = 0 /\ ~PassedOver) => Balanced

\* A file without damage is read without a diagnostic, one with a bracket missing never is.
DiagnosticsAreTrue == ParserTypeOK /\ WellFormedIsSilent /\ UnbalancedIsReported
=============================================================================
