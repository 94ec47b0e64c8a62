----------------------------- MODULE Compliance -----------------------------
(***************************************************************************)
(* Compliance reports (src/services/complianceService.js) about one        *)
(* merchant.  A report asks for a count of disputes and then for a volume, *)
(* for Visa and for Mastercard at the same time, each with a statement of  *)
(* its own, while disputes are opened and volumes are corrected.  The      *)
(* process runs in a time zone at or east of UTC.                          *)
(***************************************************************************)
EXTENDS Ratios, FiniteSets, Functions

CONSTANTS
    Reports,        \* requests at a time
    Months,         \* the months something happens in
    Region,         \* of the merchant
    VolumeRows,     \* what a row of monthly_volumes may hold
    InitialFiled,   \* disputes there may be to begin with, see filed
    InitialVolumes,
    MaxChanges      \* bound: disputes opened and volumes written

Programmes == {"VAMP", "ECP"}

NetworkOf(p) == IF p = "VAMP" THEN "VISA" ELSE "MASTERCARD"

\* Two instants are told apart in a month, its first one and a later one.
StartOf(m) == 2 * (12 * m.year + m.month)
Instants == UNION {{StartOf(m), StartOf(m) + 1} : m \in Months}

\* No row for the month.
NoVolume == [transactions |-> 0, cardAbsent |-> 0, fraudReports |-> 0]

ASSUME MonthsAssumption ==
    Months \subseteq [year : Nat, month : 0..11] /\ IsFiniteSet(Months)

\* The CHECK constraints of monthly_volumes, and counts of disputes.
ASSUME DataAssumption ==
    /\ VolumeRows \subseteq [transactions : Nat, cardAbsent : Nat, fraudReports : Nat]
    /\ InitialFiled \subseteq [Programmes -> [Instants -> Nat]]
    /\ InitialVolumes \subseteq [Programmes -> [Months -> VolumeRows \cup {NoVolume}]]

VARIABLES
    filed,          \* disputes of a programme's network by received_at
    volumes,        \* rows of monthly_volumes, NoVolume where there is none
    changes,
    month,          \* the month a report is about
    step,           \* what each half of a report does next
    count,          \* the disputes it counted
    volume,         \* the volume it read
    asked           \* the true count and row when it was asked for, and changes

dataVars == <<filed, volumes, changes>>
reportVars == <<month, step, count, volume, asked>>
vars == <<dataVars, reportVars>>

\* A mutant of CountDisputesInMonth: the range is closed.
CountWithNextStart(p, m) ==
    SumFunctionOnSet(filed[p],
                     {t \in Instants : StartOf(m) <= t /\ t <= StartOf(NextMonthStart(m))})

\* received_at >= start AND received_at < next month.
CountDisputesInMonth(p, m) ==
    SumFunctionOnSet(filed[p],
                     {t \in Instants : StartOf(m) <= t /\ t < StartOf(NextMonthStart(m))})

FindMonthlyVolume(p, m) == IF m \in Months THEN volumes[p][m] ELSE NoVolume

\* What is so, beside how the code finds it out: the disputes of month m, and
\* the row the programme divides by.
FiledIn(p, m) == filed[p][StartOf(m)] + filed[p][StartOf(m) + 1]
RowFor(p, m) ==
    LET lag == IF p = "VAMP" THEN 0 ELSE 2
        found == {b \in Months : StartOf(b) + lag = StartOf(m)}
    IN IF found = {} THEN NoVolume ELSE volumes[p][CHOOSE b \in found : TRUE]

\* Mastercard divides by the month before.
DenominatorMonth(p, m) == IF p = "VAMP" THEN m ELSE PreviousMonthStart(m)

Init ==
    /\ filed \in InitialFiled
    /\ volumes \in InitialVolumes
    /\ changes = 0
    /\ month \in [Reports -> Months]
    /\ step = [r \in Reports |-> [p \in Programmes |-> "idle"]]
    /\ count = [r \in Reports |-> [p \in Programmes |-> 0]]
    /\ volume = [r \in Reports |-> [p \in Programmes |-> NoVolume]]
    /\ asked = [r \in Reports |->
                   [p \in Programmes |-> [count |-> 0, volume |-> NoVolume, changes |-> 0]]]

-----------------------------------------------------------------------------
\* Meanwhile

Change == changes < MaxChanges /\ changes' = changes + 1

\* openDispute, with the received_at the processor gives.
FileDispute(p, t) ==
    /\ Change
    /\ filed' = [filed EXCEPT ![p][t] = @ + 1]
    /\ UNCHANGED <<volumes, reportVars>>

UpsertMonthlyVolume(p, m, row) ==
    /\ Change
    /\ volumes' = [volumes EXCEPT ![p][m] = row]
    /\ UNCHANGED <<filed, reportVars>>

-----------------------------------------------------------------------------
\* evaluateAllProgrammes

\* The merchant is found, and both halves of the report begin.
Evaluate(r, m) ==
    /\ \A p \in Programmes : step[r][p] = "idle"
    /\ month' = [month EXCEPT ![r] = m]
    /\ step' = [step EXCEPT ![r] = [p \in Programmes |-> "count"]]
    /\ asked' = [asked EXCEPT ![r] =
                    [p \in Programmes |->
                        [count |-> FiledIn(p, m), volume |-> RowFor(p, m),
                         changes |-> changes]]]
    /\ UNCHANGED <<dataVars, count, volume>>

Count(r, p) ==
    /\ step[r][p] = "count"
    /\ count' = [count EXCEPT ![r][p] = CountDisputesInMonth(p, month[r])]
    /\ step' = [step EXCEPT ![r][p] = "volume"]
    /\ UNCHANGED <<dataVars, month, volume, asked>>

Divide(r, p) ==
    /\ step[r][p] = "volume"
    /\ volume' = [volume EXCEPT ![r][p] = FindMonthlyVolume(p, DenominatorMonth(p, month[r]))]
    /\ step' = [step EXCEPT ![r][p] = "done"]
    /\ UNCHANGED <<dataVars, month, count, asked>>

Halves(r) == {p \in Programmes : step[r][p] # "idle"}

Reset(r) ==
    /\ step' = [step EXCEPT ![r] = [p \in Programmes |-> "idle"]]
    /\ count' = [count EXCEPT ![r] = [p \in Programmes |-> 0]]
    /\ volume' = [volume EXCEPT ![r] = [p \in Programmes |-> NoVolume]]
    /\ UNCHANGED <<dataVars, month, asked>>

Complete(r) == \A p \in Programmes : step[r][p] = "done"

\* The report is returned, or one of its statements fails.
Reply(r) == Complete(r) /\ Reset(r)
StatementFails(r) == (\E p \in Halves(r) : step[r][p] # "done") /\ Reset(r)

\* The tier of one half of a complete report.
Tier(r, p) ==
    IF p = "VAMP"
    THEN EvaluateVamp(volume[r][p].fraudReports, count[r][p], volume[r][p].cardAbsent, Region)
    ELSE EvaluateEcp(count[r][p], volume[r][p].transactions)

AnyBreach(r) == \E p \in Programmes : Tier(r, p) \in Breaches

Next ==
    \/ \E p \in Programmes, t \in Instants : FileDispute(p, t)
    \/ \E p \in Programmes, m \in Months, row \in VolumeRows : UpsertMonthlyVolume(p, m, row)
    \/ \E r \in Reports :
        \/ \E m \in Months : Evaluate(r, m)
        \/ \E p \in Programmes : Count(r, p) \/ Divide(r, p)
        \/ Reply(r) \/ StatementFails(r)

Spec == Init /\ [][Next]_vars

-----------------------------------------------------------------------------
\* What a report must keep

\* The exact ratio of n to d reaches b half basis points.
Reaches(n, d, b) == d > 0 /\ 2 * 10000 * n >= b * d

\* The rule of the programme, without rounding, for half a basis point of slack
\* less: a merchant with n disputes over row v is in the programme.
InBreach(p, n, v, slack) ==
    IF p = "VAMP"
    THEN /\ n + v.fraudReports >= VampEventFloor
         /\ Reaches(n + v.fraudReports, v.cardAbsent, 2 * VampMerchantBps(Region) - slack)
    ELSE n >= 100 /\ Reaches(n, v.transactions, 300 - slack)

\* Rounding and reading at different moments hide no breach: a merchant that
\* was over a line, by the exact ratio, when the report was asked for is
\* reported, unless the volume was corrected in between.
NoBreachMissed ==
    \A r \in Reports, p \in Programmes :
        (/\ Complete(r)
         /\ volume[r][p] = asked[r][p].volume
         /\ InBreach(p, asked[r][p].count, asked[r][p].volume, 0))
            => Tier(r, p) \in Breaches /\ AnyBreach(r)

\* A merchant is reported for what happened in the month and over the volume
\* of the right month, and no further from the line than rounding reaches: the
\* disputes of the month give a ratio at most half a basis point short of it
\* (if the data changed more than once meanwhile, the row read may be gone).
BreachIsReal ==
    \A r \in Reports, p \in Programmes :
        (/\ Complete(r)
         /\ Tier(r, p) \in Breaches
         /\ changes <= asked[r][p].changes + 1)
            => \E row \in {asked[r][p].volume, RowFor(p, month[r])} :
                    InBreach(p, FiledIn(p, month[r]), row, 1)

\* Every dispute counts in exactly one month, the first instant of a month and
\* the turn of the year included.
EachCountedOnce ==
    \A p \in Programmes :
        SumFunction([m \in Months |-> CountDisputesInMonth(p, m)]) = SumFunction(filed[p])
=============================================================================
