----------------------------- MODULE Lifecycle -----------------------------
(***************************************************************************)
(* The dispute state machine as pure functions of the transition table     *)
(* (src/domain/lifecycle.js).  A move is a record of from, to and          *)
(* triggeredBy; a row of the table is a move and its requiresEvidence.     *)
(***************************************************************************)
EXTENDS Naturals

\* The rows matching a requested move: one or none, by the primary key.
FindTransition(transitions, from, to, triggeredBy) ==
    {t \in transitions : t.from = from /\ t.to = to /\ t.triggeredBy = triggeredBy}

CanTransition(transitions, from, to, triggeredBy) ==
    FindTransition(transitions, from, to, triggeredBy) # {}

\* What the rows leaving a status offer a caller.
NextStatuses(transitions, from) ==
    {[status |-> t.to, triggeredBy |-> t.triggeredBy,
      requiresEvidence |-> t.requiresEvidence] : t \in {u \in transitions : u.from = from}}

IsTerminal(transitions, status) == \A t \in transitions : t.from # status

\* The outcome of validating a move: "ok", or the error it throws.
AssertTransition(transitions, from, to, triggeredBy, evidenceCount) ==
    IF ~CanTransition(transitions, from, to, triggeredBy)
    THEN "INVALID_TRANSITION"
    ELSE IF /\ evidenceCount < 1
            /\ \E t \in FindTransition(transitions, from, to, triggeredBy) :
                    t.requiresEvidence
         THEN "EVIDENCE_REQUIRED"
         ELSE "ok"
=============================================================================
