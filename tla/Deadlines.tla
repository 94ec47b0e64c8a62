----------------------------- MODULE Deadlines -----------------------------
(***************************************************************************)
(* Response deadlines (src/domain/deadlines.js) as functions of the rows   *)
(* of deadline_rules.  Networks and stages are left out: the rows here are *)
(* those of one network and stage, which is where the scan looks.          *)
(***************************************************************************)
EXTENDS Integers, Sequences

CONSTANTS
    AnyProcessor,   \* processor_code NULL
    NoRule

\* The region of the baseline rows.
Default == "DEFAULT"

\* A row for another region, or for another processor, does not apply.
Candidate(rule, m) ==
    /\ rule.region \in {m.region, Default}
    /\ rule.processor \in {m.processor, AnyProcessor}

\* The region weighs more than the processor.
Score(rule, m) ==
    (IF rule.region = m.region THEN 2 ELSE 0)
        + (IF rule.processor = m.processor /\ rule.processor # AnyProcessor THEN 1 ELSE 0)

\* A mutant of SelectDeadlineRule: the first row that applies wins.
SelectFirstRule(rows, m) ==
    LET best[i \in 0..Len(rows)] ==
            IF i = 0 THEN NoRule
            ELSE IF best[i - 1] = NoRule /\ Candidate(rows[i], m) THEN rows[i]
            ELSE best[i - 1]
    IN best[Len(rows)]

\* The scan: a row replaces the best one so far only if its score is higher.
SelectDeadlineRule(rows, m) ==
    LET best[i \in 0..Len(rows)] ==
            IF i = 0 THEN NoRule
            ELSE IF /\ Candidate(rows[i], m)
                    /\ \/ best[i - 1] = NoRule
                       \/ Score(rows[i], m) > Score(best[i - 1], m)
                 THEN rows[i]
                 ELSE best[i - 1]
    IN best[Len(rows)]

\* received_at and response_days on one clock.
ComputeRespondBy(receivedAt, responseDays) == receivedAt + responseDays

\* The traffic light of the queue.
DeadlineState(time, deadline, warnDays) ==
    IF time >= deadline THEN "EXPIRED"
    ELSE IF time >= deadline - warnDays THEN "WARNING"
    ELSE "OK"

-----------------------------------------------------------------------------
\* The reference: "the most specific matching row wins".

\* Row r says more about merchant m than row s does.
MoreSpecific(r, s, m) ==
    \/ r.region # Default /\ s.region = Default
    \/ r.region = s.region /\ r.processor # AnyProcessor /\ s.processor = AnyProcessor

MostSpecific(rules, m) ==
    {r \in rules : /\ Candidate(r, m)
                   /\ \A s \in rules : Candidate(s, m) => ~MoreSpecific(s, r, m)}
=============================================================================
