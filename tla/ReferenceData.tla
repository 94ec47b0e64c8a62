--------------------------- MODULE ReferenceData ---------------------------
(***************************************************************************)
(* The lifecycle as the database is seeded with it: the statuses, which of *)
(* them end a case, and the moves between them with who may trigger each   *)
(* and whether it needs evidence.  The tables are data in the program too, *)
(* so the other modules take them as parameters.                           *)
(***************************************************************************)

SeededStatuses ==
    {"PRE_DISPUTE_ALERT", "INQUIRY", "CHARGEBACK_RECEIVED", "UNDER_REVIEW",
     "ACCEPTED", "REPRESENTED", "PRE_ARBITRATION", "ARBITRATION",
     "WON", "LOST", "EXPIRED", "WITHDRAWN"}

\* The rows with is_terminal = true.
SeededTerminal == {"ACCEPTED", "WON", "LOST", "EXPIRED", "WITHDRAWN"}

\* Rows of status_transitions from one status, triggered by one party.
Moves(from, by, targets) ==
    {[from |-> from, to |-> to, triggeredBy |-> by, requiresEvidence |-> FALSE] :
        to \in targets}

\* A row that requires evidence.
Contest(from, to) ==
    [from |-> from, to |-> to, triggeredBy |-> "OPERATOR", requiresEvidence |-> TRUE]

\* The opening moves and those of a case under review.
FirstRound ==
    Moves("PRE_DISPUTE_ALERT", "PROCESSOR_EVENT", {"CHARGEBACK_RECEIVED"})
        \cup Moves("PRE_DISPUTE_ALERT", "OPERATOR", {"WITHDRAWN"})
        \cup Moves("INQUIRY", "PROCESSOR_EVENT", {"CHARGEBACK_RECEIVED", "WITHDRAWN"})
        \cup Moves("CHARGEBACK_RECEIVED", "OPERATOR", {"UNDER_REVIEW"})
        \cup Moves("CHARGEBACK_RECEIVED", "SYSTEM", {"EXPIRED"})
        \cup Moves("UNDER_REVIEW", "OPERATOR", {"ACCEPTED"})
        \cup Moves("UNDER_REVIEW", "SYSTEM", {"EXPIRED"})
        \cup {Contest("UNDER_REVIEW", "REPRESENTED")}

\* The moves of a case the issuer decides, up to arbitration.
SecondRound ==
    Moves("REPRESENTED", "PROCESSOR_EVENT", {"WON", "LOST", "PRE_ARBITRATION"})
        \cup Moves("PRE_ARBITRATION", "OPERATOR", {"ACCEPTED"})
        \cup Moves("PRE_ARBITRATION", "PROCESSOR_EVENT", {"LOST"})
        \cup Moves("PRE_ARBITRATION", "SYSTEM", {"EXPIRED"})
        \cup {Contest("PRE_ARBITRATION", "ARBITRATION")}

\* A mutant of SeededTransitions: a lost case can be escalated.
SeededReopening ==
    FirstRound \cup SecondRound
        \cup Moves("ARBITRATION", "PROCESSOR_EVENT", {"WON", "LOST"})
        \cup Moves("LOST", "PROCESSOR_EVENT", {"PRE_ARBITRATION"})

SeededTransitions ==
    FirstRound \cup SecondRound \cup Moves("ARBITRATION", "PROCESSOR_EVENT", {"WON", "LOST"})

\* The statuses a case reaches only by being contested.
SeededFought == {"REPRESENTED", "PRE_ARBITRATION", "ARBITRATION", "WON", "LOST"}
=============================================================================
