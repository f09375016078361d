------------------------------- MODULE MCSaga -------------------------------
EXTENDS Saga
CONSTANTS sc1, sc2, sc3, wk1

Step(d, h) == [down |-> d, hook |-> h]
MCSagaKeyOf == [c \in SagaCalls |-> IF c = sc3 THEN NoKey ELSE wk1]
MCSagaDecls ==
    {[mode |-> "async", steps |-> <<Step("block", FALSE), Step("unrecoverable", FALSE), Step("none", TRUE)>>],
     [mode |-> "await", steps |-> <<Step("block", TRUE), Step("block", FALSE), Step("block", FALSE)>>],
     [mode |-> "detached", steps |-> <<Step("unrecoverable", FALSE), Step("block", TRUE)>>],
     [mode |-> "async", steps |-> <<>>]}
=============================================================================
