---------------------------- MODULE DisputeCase ----------------------------
(***************************************************************************)
(* What the dispute service promises its callers, with nothing of how:     *)
(* each call is one indivisible step on the case it names.  DisputeService *)
(* implements it with database transactions; the webhook and sweep modules *)
(* are written on top of it.                                               *)
(***************************************************************************)
EXTENDS Lifecycle

CONSTANTS
    Cases,          \* the case numbers
    Statuses,       \* dispute_statuses
    Terminal,       \* those with is_terminal
    Transitions,    \* status_transitions
    Fought          \* the statuses reached only by contesting a case

\* The seeded tables satisfy these: the columns are foreign keys and CHECKs.
ASSUME TableAssumption ==
    /\ "none" \notin Statuses
    /\ "CHARGEBACK_RECEIVED" \in Statuses
    /\ Terminal \subseteq Statuses
    /\ Transitions \subseteq [from : Statuses, to : Statuses,
                              triggeredBy : {"OPERATOR", "PROCESSOR_EVENT", "SYSTEM"},
                              requiresEvidence : BOOLEAN]

VARIABLE cases      \* the status of every case, and whether it has evidence

\* A case number under which nothing was opened.
NoCase == [status |-> "none", evidence |-> FALSE]

Opened == {c \in Cases : cases[c].status # "none"}

InitCases == cases = [c \in Cases |-> NoCase]

\* openDispute: a new case, under a number that is not taken.
Open(c) ==
    /\ c \notin Opened
    /\ cases' = [cases EXCEPT ![c].status = "CHARGEBACK_RECEIVED"]

\* What assertTransition answers for case c as it stands.
MoveVerdict(c, to, by) ==
    AssertTransition(Transitions, cases[c].status, to, by,
                     IF cases[c].evidence THEN 1 ELSE 0)

\* changeStatus: a move the table allows from where the case stands now.
ChangeStatus(c, to, by) ==
    /\ c \in Opened
    /\ MoveVerdict(c, to, by) = "ok"
    /\ cases' = [cases EXCEPT ![c].status = to]

\* addEvidence.  It does not ask that the case is still open: the service
\* reads the status without a lock, so a case may close before the item is
\* stored, and that is all a caller may rely on.
AddEvidence(c) ==
    /\ c \in Opened
    /\ cases' = [cases EXCEPT ![c].evidence = TRUE]

NextCase ==
    \E c \in Cases :
        \/ Open(c)
        \/ \E t \in Transitions : ChangeStatus(c, t.to, t.triggeredBy)
        \/ AddEvidence(c)

CaseSpec == InitCases /\ [][NextCase]_cases

-----------------------------------------------------------------------------

CasesTypeOK ==
    cases \in [Cases -> [status : Statuses \cup {"none"}, evidence : BOOLEAN]]

\* A case that reached a terminal status stays there for good, whatever is
\* asked of it later: no row of the table leaves a terminal status.
ClosedIsFinal ==
    [][\A c \in Cases : cases[c].status \in Terminal =>
                            cases'[c].status = cases[c].status]_cases
=============================================================================
