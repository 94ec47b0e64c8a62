---------------------------- MODULE ExpirySweep ----------------------------
(***************************************************************************)
(* Deadlines against the clock: openDispute fixes respond_by, operators    *)
(* and the processor move cases on, and expireOverdueDisputes lists the    *)
(* overdue open cases in one transaction and then expires them one by one, *)
(* each in a transaction of its own, from a list that grows stale.         *)
(***************************************************************************)
EXTENDS DisputeCase, Deadlines, FiniteSets

CONSTANTS
    Sweepers,       \* sweeps that may run at a time
    Rules,          \* the deadline_rules of the network, days in ticks
    Merchants,      \* region and processor of a disputed payment
    WarnDays,       \* the warning window of the queue, in ticks
    MaxNow          \* bound: the clock stops there

ASSUME ClockAssumption == WarnDays \in Nat /\ MaxNow \in Nat

\* UNIQUE (network_code, stage, region, processor_code), as it is meant: it
\* does not keep two rows with processor_code NULL apart, the seed does.
ASSUME RulesAssumption ==
    /\ IsFiniteSet(Rules)
    /\ \A r \in Rules : r.days \in Nat \ {0}
    /\ \A r, s \in Rules : r.region = s.region /\ r.processor = s.processor => r = s
    /\ NoRule \notin Rules

VARIABLES
    now,
    merchant,       \* whose payment a case disputes
    respondBy,      \* respond_by of a case
    since,          \* when a case came to its status
    phase,          \* what a sweep does next
    asOf,           \* the time a sweep was started for
    listed,         \* the cases it found overdue
    todo,           \* those it has not tried yet
    expired,
    skipped         \* with the reason why

clockVars == <<now, merchant, respondBy, since>>
sweepVars == <<phase, asOf, listed, todo, expired, skipped>>
allVars == <<cases, clockVars, sweepVars>>

\* The merchant of a case that is not opened.
NoMerchant == [region |-> "none", processor |-> AnyProcessor]

InitSweep ==
    /\ InitCases
    /\ now = 0
    /\ merchant = [c \in Cases |-> NoMerchant]
    /\ respondBy = [c \in Cases |-> 0]
    /\ since = [c \in Cases |-> 0]
    /\ phase = [s \in Sweepers |-> "idle"]
    /\ asOf = [s \in Sweepers |-> 0]
    /\ listed = [s \in Sweepers |-> {}]
    /\ todo = [s \in Sweepers |-> {}]
    /\ expired = [s \in Sweepers |-> {}]
    /\ skipped = [s \in Sweepers |-> {}]

\* closed_at IS NULL: the case is in no terminal status.
StillOpen(c) == c \in Opened /\ cases[c].status \notin Terminal

\* A mutant of Overdue: the last moment still counts as in time.
OverdueStrictly(time) == {c \in Cases : StillOpen(c) /\ respondBy[c] < time}

\* A mutant of Overdue: every open case.
OverdueOrNot(time) == {c \in Cases : StillOpen(c)}

\* listOverdueOpenDisputes
Overdue(time) == {c \in Cases : StillOpen(c) /\ respondBy[c] <= time}

-----------------------------------------------------------------------------
\* The clock, and the calls of everyone else.

Tick == now < MaxNow /\ now' = now + 1 /\ UNCHANGED <<cases, merchant, respondBy, since, sweepVars>>

\* SELECT ... FROM deadline_rules has no ORDER BY: the rows in any order.
RowOrders ==
    {rows \in [1..Cardinality(Rules) -> Rules] :
        \A i, j \in DOMAIN rows : i # j => rows[i] # rows[j]}

\* A mutant of OpenWithDeadline: the window is counted backwards.
OpenBackwards(c) ==
    /\ Open(c)
    /\ \E m \in Merchants, rows \in RowOrders, receivedAt \in 0..now :
        LET rule == SelectDeadlineRule(rows, m) IN
        /\ rule # NoRule
        /\ merchant' = [merchant EXCEPT ![c] = m]
        /\ respondBy' = [respondBy EXCEPT ![c] = receivedAt - rule.days]
    /\ since' = [since EXCEPT ![c] = now]
    /\ UNCHANGED <<now, sweepVars>>

\* Nothing is opened where no rule applies.  The processor says when it
\* received the case, which may be a while ago.
OpenWithDeadline(c) ==
    /\ Open(c)
    /\ \E m \in Merchants, rows \in RowOrders, receivedAt \in 0..now :
        LET rule == SelectDeadlineRule(rows, m) IN
        /\ rule # NoRule
        /\ merchant' = [merchant EXCEPT ![c] = m]
        /\ respondBy' = [respondBy EXCEPT ![c] = ComputeRespondBy(receivedAt, rule.days)]
    /\ since' = [since EXCEPT ![c] = now]
    /\ UNCHANGED <<now, sweepVars>>

\* SYSTEM moves are the sweep's alone.
MoveByOthers(c) ==
    /\ \E t \in Transitions :
            t.triggeredBy # "SYSTEM" /\ ChangeStatus(c, t.to, t.triggeredBy)
    /\ since' = [since EXCEPT ![c] = now]
    /\ UNCHANGED <<now, merchant, respondBy, sweepVars>>

AttachEvidence(c) ==
    /\ AddEvidence(c)
    /\ UNCHANGED <<clockVars, sweepVars>>

-----------------------------------------------------------------------------
\* expireOverdueDisputes

StartSweep(s) ==
    /\ phase[s] \in {"idle", "dead"}
    /\ phase' = [phase EXCEPT ![s] = "list"]
    /\ asOf' = [asOf EXCEPT ![s] = now]
    /\ listed' = [listed EXCEPT ![s] = {}]
    /\ todo' = [todo EXCEPT ![s] = {}]
    /\ expired' = [expired EXCEPT ![s] = {}]
    /\ skipped' = [skipped EXCEPT ![s] = {}]
    /\ UNCHANGED <<cases, clockVars>>

ListOverdue(s) ==
    /\ phase[s] = "list"
    /\ phase' = [phase EXCEPT ![s] = "expire"]
    /\ listed' = [listed EXCEPT ![s] = Overdue(asOf[s])]
    /\ todo' = [todo EXCEPT ![s] = Overdue(asOf[s])]
    /\ UNCHANGED <<cases, clockVars, asOf, expired, skipped>>

\* The case whose turn it is: ORDER BY respond_by.
Soonest(s, c) == c \in todo[s] /\ \A b \in todo[s] : respondBy[c] <= respondBy[b]

\* changeStatus(EXPIRED, SYSTEM) commits.
Expire(c) ==
    /\ ChangeStatus(c, "EXPIRED", "SYSTEM")
    /\ since' = [since EXCEPT ![c] = now]

Done(s, c) == todo' = [todo EXCEPT ![s] = @ \ {c}]

Report(s, c) == expired' = [expired EXCEPT ![s] = @ \cup {c}] /\ UNCHANGED skipped

Skip(s, c, reason) ==
    /\ skipped' = [skipped EXCEPT ![s] = @ \cup {[case |-> c, reason |-> reason]}]
    /\ UNCHANGED expired

\* A mutant of ExpireNext: the status is written without asking the table.
ExpireUnchecked(s) ==
    /\ phase[s] = "expire"
    /\ \E c \in Cases :
        /\ Soonest(s, c)
        /\ cases' = [cases EXCEPT ![c].status = "EXPIRED"]
        /\ since' = [since EXCEPT ![c] = now]
        /\ Done(s, c) /\ Report(s, c)
    /\ UNCHANGED <<now, merchant, respondBy, phase, asOf, listed>>

\* A mutant of ExpireNext: no try, the first refusal ends the sweep.
ExpireUntilRefused(s) ==
    /\ phase[s] = "expire"
    /\ \E c \in Cases :
        /\ Soonest(s, c)
        /\ \/ Expire(c) /\ Done(s, c) /\ Report(s, c)
           \/ /\ MoveVerdict(c, "EXPIRED", "SYSTEM") # "ok"
              /\ todo' = [todo EXCEPT ![s] = {}]
              /\ Skip(s, c, MoveVerdict(c, "EXPIRED", "SYSTEM"))
              /\ UNCHANGED <<cases, since>>
    /\ UNCHANGED <<now, merchant, respondBy, phase, asOf, listed>>

\* A mutant of ExpireNext: what was refused is tried again.
ExpireAgain(s) ==
    /\ phase[s] = "expire"
    /\ \E c \in Cases :
        /\ Soonest(s, c)
        /\ Expire(c) /\ Done(s, c) /\ Report(s, c)
    /\ UNCHANGED <<now, merchant, respondBy, phase, asOf, listed>>

\* One call of changeStatus for the next case: it moves, or the move is refused
\* from where the case stands by now, or the call fails, before its commit or,
\* with only the answer lost, after it.
ExpireNext(s) ==
    /\ phase[s] = "expire"
    /\ \E c \in Cases :
        /\ Soonest(s, c)
        /\ Done(s, c)
        /\ \/ Expire(c) /\ (Report(s, c) \/ Skip(s, c, "DATABASE_ERROR"))
           \/ /\ MoveVerdict(c, "EXPIRED", "SYSTEM") # "ok"
              /\ Skip(s, c, MoveVerdict(c, "EXPIRED", "SYSTEM"))
              /\ UNCHANGED <<cases, since>>
           \/ Skip(s, c, "DATABASE_ERROR") /\ UNCHANGED <<cases, since>>
    /\ UNCHANGED <<now, merchant, respondBy, phase, asOf, listed>>

\* The sweep returns its report.
EndSweep(s) ==
    /\ phase[s] = "expire" /\ todo[s] = {}
    /\ phase' = [phase EXCEPT ![s] = "idle"]
    /\ UNCHANGED <<cases, clockVars, asOf, listed, todo, expired, skipped>>

\* The listing fails, or the process dies: the rest of the list is forgotten.
SweepDies(s) ==
    /\ phase[s] \in {"list", "expire"}
    /\ phase' = [phase EXCEPT ![s] = "dead"]
    /\ UNCHANGED <<cases, clockVars, asOf, listed, todo, expired, skipped>>

SweepStep(s) == ListOverdue(s) \/ ExpireNext(s) \/ EndSweep(s)

NextSweep ==
    \/ Tick
    \/ \E c \in Cases : OpenWithDeadline(c) \/ MoveByOthers(c) \/ AttachEvidence(c)
    \/ \E s \in Sweepers : StartSweep(s) \/ SweepStep(s) \/ SweepDies(s)

SweepSpec == InitSweep /\ [][NextSweep]_allVars

\* A sweep that was started goes on; nothing makes anyone start one.
FairSweepSpec == SweepSpec /\ \A s \in Sweepers : WF_allVars(SweepStep(s))

-----------------------------------------------------------------------------
\* What deadlines and sweeps must keep

Skipped ==
    [case : Cases, reason : {"INVALID_TRANSITION", "EVIDENCE_REQUIRED", "DATABASE_ERROR"}]

SweepTypeOK ==
    /\ CasesTypeOK
    /\ now \in 0..MaxNow
    /\ merchant \in [Cases -> Merchants \cup {NoMerchant}]
    /\ respondBy \in [Cases -> Nat]
    /\ since \in [Cases -> 0..MaxNow]
    /\ phase \in [Sweepers -> {"idle", "list", "expire", "dead"}]
    /\ asOf \in [Sweepers -> 0..MaxNow]
    /\ \A sets \in {listed, todo, expired} : sets \in [Sweepers -> SUBSET Cases]
    /\ skipped \in [Sweepers -> SUBSET Skipped]

\* A case gets the window of the most specific rule for its merchant, counted
\* from when the dispute arrived, in whatever order the database returns the
\* rules; a merchant no rule is for has no case.
DeadlineIsMostSpecific ==
    [][\A c \in Cases :
        cases'[c].status # "none" /\ merchant'[c] # merchant[c] =>
            \E r \in MostSpecific(Rules, merchant'[c]), receivedAt \in 0..now :
                respondBy'[c] = receivedAt + r.days]_allVars

\* The step moves case c to EXPIRED.
Expires(c) == cases[c].status # "EXPIRED" /\ cases'[c].status = "EXPIRED"

\* Nobody loses a case before its time: at the moment a case expires the queue
\* shows its deadline as gone, however long ago the sweep made its list.
ExpiredOnlyWhenOverdue ==
    [][\A c \in Cases, w \in 0..WarnDays :
        Expires(c) => DeadlineState(now, respondBy[c], w) = "EXPIRED"]_allVars

\* A list that has grown stale does no harm: a case that was represented after
\* it was listed is the issuer's turn, one that was closed is over, and the
\* sweep that still has them on its list expires neither.
ContestedIsSpared ==
    [][\A c \in Cases :
        Expires(c) => cases[c].status \notin Terminal \cup {"none", "REPRESENTED"}]_allVars

\* What a sweep reports as expired is expired, and sweeps that run at the same
\* time never both claim a case: the second one finds it closed and skips it.
ExpiredByOne ==
    \A s \in Sweepers : \A c \in expired[s] :
        /\ cases[c].status = "EXPIRED"
        /\ \A r \in Sweepers \ {s} : c \notin expired[r]

\* A sweep reports on every case it listed, once, whatever fails underneath.
SweepAccountsForAll ==
    \A s \in Sweepers :
        LET skips == {r.case : r \in skipped[s]} IN
        /\ expired[s] \cap skips = {}
        /\ listed[s] = expired[s] \cup skips \cup todo[s]

\* SYSTEM may expire case c as it stands.
Expirable(c) == c \in Opened /\ MoveVerdict(c, "EXPIRED", "SYSTEM") = "ok"

\* A sweep that ran to its end leaves nothing behind: a case that already stood
\* where it stands when the sweep began, and that the queue showed as expired
\* at that time, is not waiting to expire any more, unless its own call failed.
\* No refusal and no failure of one case keeps another from expiring.
NothingOverdueSurvives ==
    \A s \in Sweepers, c \in Cases :
        (/\ phase[s] = "idle" /\ Expirable(c) /\ since[c] < asOf[s]
         /\ [case |-> c, reason |-> "DATABASE_ERROR"] \notin skipped[s])
            => DeadlineState(asOf[s], respondBy[c], WarnDays) # "EXPIRED"

\* A sweep that was started comes to an end, while cases are opened and moved.
SweepEnds == \A s \in Sweepers : phase[s] = "list" ~> phase[s] \in {"idle", "dead"}

\* What migrations/003 says of pre-arbitration: "A second, narrower response
\* window applies", so a case does not expire in the day it came there.
PreArbitrationHasItsWindow ==
    [][\A c \in Cases :
        Expires(c) /\ cases[c].status = "PRE_ARBITRATION" => now > since[c]]_allVars
=============================================================================
