---------------------------- MODULE MCCaseReader ----------------------------
\* Instances of CaseReader for TLC.
EXTENDS CaseReader, ReferenceData, TLC

CONSTANTS w1, w2, r1, d1, case1, op1, ghost

TwoWorkers == {w1, w2}
OneReader == {r1}
OneId == {d1}
OneNumber == {case1}
OneOperator == {op1}
SomeActors == {op1, ghost}

StatusCall(to, by, actor) ==
    [op |-> "status", dispute |-> d1, to |-> to, by |-> by, actor |-> actor]

\* One case is opened, fought and swept while somebody looks at it.
WatchedCalls ==
    {[op |-> "open", caseNumber |-> case1, lookup |-> "ok"],
     [op |-> "evidence", dispute |-> d1, collectedBy |-> op1],
     StatusCall("UNDER_REVIEW", "OPERATOR", op1),
     StatusCall("REPRESENTED", "OPERATOR", op1),
     StatusCall("EXPIRED", "SYSTEM", NoOne)}
=============================================================================
