----------------------------- MODULE MCTwoPhase -----------------------------
EXTENDS TwoPhase
CONSTANTS u1, u2, u3, u4, u5, ordersDB, stockDB, auditDB, legacyDB

LoadOf(l, a) == [op |-> "load", local |-> l, agg |-> a, handle |-> "", top |-> TRUE]
CallOf(l, h) == [op |-> "call", local |-> l, agg |-> "", handle |-> h, top |-> TRUE]
Nested(s) == [s EXCEPT !.top = FALSE]
MCBodyOf ==
    [r \in UnitRuns |->
        CASE r = u1 -> <<LoadOf("o", "Order"), LoadOf("s", "Stock"), CallOf("s", "Reserve"), CallOf("o", "Place")>>
          [] r = u2 -> <<LoadOf("s", "Stock"), LoadOf("o", "Order"), CallOf("s", "Reserve"), CallOf("o", "Place")>>
          [] r = u3 -> <<LoadOf("o", "Order"), CallOf("o", "Place"), LoadOf("x", "Stock"), CallOf("x", "Reserve"),
                         LoadOf("x", "Audit"), CallOf("x", "Note")>>
          [] r = u4 -> <<LoadOf("o", "Order"), CallOf("o", "Place"), LoadOf("l", "Ledger"), CallOf("l", "Post")>>
          [] r = u5 -> <<LoadOf("a", "Audit"), CallOf("a", "Note"), LoadOf("o", "Order"), CallOf("o", "Place"),
                         Nested(LoadOf("s", "Stock")), Nested(CallOf("s", "Reserve"))>>]
MCDatabaseOf == [a \in {"Order", "Stock", "Audit", "Ledger"} |->
    CASE a = "Order" -> ordersDB [] a = "Stock" -> stockDB [] a = "Audit" -> auditDB [] OTHER -> legacyDB]
MCHandlesOf == [a \in {"Order", "Stock", "Audit", "Ledger"} |->
    CASE a = "Order" -> {"Place"} [] a = "Stock" -> {"Reserve"} [] a = "Audit" -> {"Note"} [] OTHER -> {"Post"}]
MCDatabaseDecl == [d \in {ordersDB, stockDB, auditDB, legacyDB} |->
    CASE d = auditDB -> [xa |-> TRUE, provider |-> "postgres", rank |-> 1]
      [] d = ordersDB -> [xa |-> TRUE, provider |-> "sqlite", rank |-> 2]
      [] d = stockDB -> [xa |-> TRUE, provider |-> "sqlite", rank |-> 3]
      [] OTHER -> [xa |-> FALSE, provider |-> "sqlite", rank |-> 4]]
=============================================================================
