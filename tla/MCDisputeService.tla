-------------------------- MODULE MCDisputeService --------------------------
\* Instances of DisputeService for TLC.
EXTENDS DisputeServiceInv, ReferenceData, TLC

CONSTANTS w1, w2, d1, d2, case1, op1, ghost

TwoWorkers == {w1, w2}
TwoIds == {d1, d2}
OneId == {d1}
OneNumber == {case1}
OneOperator == {op1}
\* ghost is an actor id no operator has.
SomeActors == {op1, ghost}

OpenCall(c, lookup) == [op |-> "open", caseNumber |-> c, lookup |-> lookup]
StatusCall(d, to, by, actor) ==
    [op |-> "status", dispute |-> d, to |-> to, by |-> by, actor |-> actor]
EvidenceCall(d, by) == [op |-> "evidence", dispute |-> d, collectedBy |-> by]

\* One case: opened twice, fought, conceded, decided and swept by everyone at
\* once, with moves that name no operator and moves the table does not have.
CaseCalls ==
    {OpenCall(case1, "ok"),
     EvidenceCall(d1, op1),
     StatusCall(d1, "UNDER_REVIEW", "OPERATOR", op1),
     StatusCall(d1, "ACCEPTED", "OPERATOR", op1),
     StatusCall(d1, "REPRESENTED", "OPERATOR", op1),
     StatusCall(d1, "REPRESENTED", "OPERATOR", NoOne),
     StatusCall(d1, "EXPIRED", "SYSTEM", NoOne),
     StatusCall(d1, "PRE_ARBITRATION", "PROCESSOR_EVENT", NoOne),
     StatusCall(d1, "LOST", "PROCESSOR_EVENT", NoOne)}

\* Also with every outcome of the lookups, and with operators nobody knows.
ContestedCalls ==
    CaseCalls
        \cup {OpenCall(case1, l) : l \in {"noTransaction", "badReasonCode", "noDeadlineRule"}}
        \cup {EvidenceCall(d1, ghost),
              StatusCall(d1, "UNDER_REVIEW", "OPERATOR", ghost)}

ConnectionSymmetry == Permutations(Workers)
=============================================================================
